------------------------------- MODULE Thread -------------------------------
(***************************************************************************)
(* One conversation and the browser of one of its two participants:        *)
(* sendMessage and listMessages of apps/api/src/conversations, the socket  *)
(* gateway, and components/domain/message-thread.tsx.                      *)
(*                                                                         *)
(* A message is numbered when it is inserted (createdAt, id), becomes      *)
(* visible when its transaction commits, and is broadcast after that; two  *)
(* sends may do each in the other order.  Messages 1..Old are there when   *)
(* the browser opens the thread; MaxMessages bounds the model.             *)
(*                                                                         *)
(* Abstracted: what a message says and its type, the order on the screen,  *)
(* access control (the viewer is a participant, known by cookie), an       *)
(* archived conversation (nobody can send, and the socket stays closed).   *)
(***************************************************************************)
EXTENDS Integers, Sequences, FiniteSets, SequencesExt

CONSTANTS PageSize, Old, MaxMessages

ThreadAssumption ==
    /\ PageSize \in Nat \ {0}
    /\ {Old, MaxMessages} \subseteq Nat
    /\ Old <= MaxMessages

VARIABLES
    stage,     \* of each message inserted: "inserted", "committed", "sent" (broadcast)
    mine,      \* the messages the viewer sent
    readAt,    \* messages with a readAt
    lastAt,    \* lastMessageAt, as the message whose send wrote it
    joined,    \* the viewer's socket is in the room
    wire,      \* broadcasts on their way to the viewer's socket
    reply,     \* the viewer's messages whose REST answer is on its way
    messages,  \* state of the component: how often it shows each message
    cursor,    \* nextCursor, the last message of the last page, or 0
    hasMore,
    asking,    \* the list request under way: "first", "older" or "nothing"
    answer,    \* <<>>, or the page that is on its way
    late       \* on their way when the first page was read, and not in it

server == <<stage, mine, readAt, lastAt>>
net == <<joined, wire, reply>>
view == <<messages, cursor, hasMore>>
request == <<asking, answer, late>>
vars == <<server, net, view, request>>

-----------------------------------------------------------------------------
Inserted == DOMAIN stage
Committed == {m \in Inserted : stage[m] # "inserted"}
Shown == {m \in 1 .. MaxMessages : messages[m] > 0}

\* The viewer's message that is being sent: the button is disabled meanwhile.
Sending == {m \in mine : stage[m] # "sent"} \cup reply

\* Messages whose broadcast or answer has not reached the viewer's browser yet.
UnderWay == {m \in Inserted : stage[m] # "sent"} \cup ToSet(wire) \cup reply

Init ==
    /\ stage = [m \in 1 .. Old |-> "sent"]
    /\ mine \in SUBSET (1 .. Old)
    /\ readAt = {}
    /\ lastAt = Old
    /\ joined = FALSE
    /\ wire = <<>>
    /\ reply = {}
    /\ messages = [m \in 1 .. MaxMessages |-> 0]
    /\ cursor = 0
    /\ hasMore = FALSE
    /\ asking = "first"
    /\ answer = <<>>
    /\ late = {}

-----------------------------------------------------------------------------
(* sendMessage *)

\* By the viewer (the composer is rendered once the first request has ended) or
\* by the counterpart.
Insert ==
    LET m == Len(stage) + 1 IN
    /\ m <= MaxMessages
    /\ stage' = Append(stage, "inserted")
    /\ \/ Sending = {} /\ asking # "first" /\ mine' = mine \cup {m}
       \/ mine' = mine
    /\ UNCHANGED <<readAt, lastAt, net, view, request>>

\* The transaction's second statement is the update of lastMessageAt.
Commit(m) ==
    /\ stage[m] = "inserted"
    /\ stage' = [stage EXCEPT ![m] = "committed"]
    /\ lastAt' = m
    /\ UNCHANGED <<mine, readAt, net, view, request>>

\* To the room as it is now; the sender's answer follows.
Broadcast(m) ==
    /\ stage[m] = "committed"
    /\ stage' = [stage EXCEPT ![m] = "sent"]
    /\ wire' = IF joined THEN Append(wire, m) ELSE wire
    /\ reply' = IF m \in mine THEN reply \cup {m} ELSE reply
    /\ UNCHANGED <<mine, readAt, lastAt, joined, view, request>>

-----------------------------------------------------------------------------
(* listMessages *)

Newest(S) == {m \in S : Cardinality({n \in S : n > m}) < PageSize}

\* The newest PageSize of S, the last of them if there are more, and whether.
Page(S) ==
    LET items == Newest(S)
    IN [items |-> items, more |-> items # S,
        cursor |-> IF items = S THEN 0 ELSE CHOOSE m \in items : \A n \in items : m <= n]

\* The counterpart's messages in the page are marked as read.
ListMessages ==
    LET page == Page({m \in Committed : asking = "older" => m < cursor}) IN
    /\ asking # "nothing"
    /\ answer = <<>>
    /\ answer' = <<page>>
    /\ readAt' = readAt \cup (page.items \ mine)
    /\ late' = IF asking = "first" THEN UnderWay \ page.items ELSE late
    /\ UNCHANGED <<stage, mine, lastAt, net, view, asking>>

-----------------------------------------------------------------------------
(* The component *)

\* loadInitial puts the page in the place of what live messages have put there;
\* handleLoadOlder adds it.
PageArrives ==
    /\ answer # <<>>
    /\ LET page == answer[1] IN
       /\ messages' = [m \in 1 .. MaxMessages |->
              (IF asking = "older" THEN messages[m] ELSE 0) + (IF m \in page.items THEN 1 ELSE 0)]
       /\ cursor' = page.cursor
       /\ hasMore' = page.more
    /\ asking' = "nothing"
    /\ answer' = <<>>
    /\ UNCHANGED <<server, net, late>>

\* The request or its answer is lost.  The first one is not made again.
PageLost ==
    /\ asking # "nothing"
    /\ asking' = "nothing"
    /\ answer' = <<>>
    /\ UNCHANGED <<server, net, view, late>>

\* The button is rendered once the first page is there, and disabled meanwhile.
AskOlder ==
    /\ asking = "nothing"
    /\ hasMore
    /\ asking' = "older"
    /\ UNCHANGED <<server, net, view, answer, late>>

\* Mutant of Merge: no look at what is there already.
MutantAppend(m) == messages' = [messages EXCEPT ![m] = @ + 1]

\* handleIncoming and handleSend add a message that is not there yet.
Merge(m) == messages' = IF m \in Shown THEN messages ELSE [messages EXCEPT ![m] = 1]

Deliver ==
    /\ wire # <<>>
    /\ Merge(Head(wire))
    /\ wire' = Tail(wire)
    /\ UNCHANGED <<server, joined, reply, cursor, hasMore, request>>

ReplyArrives(m) ==
    /\ m \in reply
    /\ Merge(m)
    /\ reply' = reply \ {m}
    /\ UNCHANGED <<server, joined, wire, cursor, hasMore, request>>

\* The error is shown and the draft stays, although the message was stored.
ReplyLost(m) ==
    /\ m \in reply
    /\ reply' = reply \ {m}
    /\ UNCHANGED <<server, joined, wire, view, request>>

\* "conversation:join", on every connect; the first page does not wait for it.
Join ==
    /\ ~joined
    /\ joined' = TRUE
    /\ UNCHANGED <<server, wire, reply, view, request>>

\* A connection that is lost takes the broadcasts under way with it.
Disconnect ==
    /\ joined
    /\ joined' = FALSE
    /\ wire' = <<>>
    /\ UNCHANGED <<server, reply, view, request>>

-----------------------------------------------------------------------------
Send == Insert \/ \E m \in Inserted : Commit(m) \/ Broadcast(m)

Browser ==
    \/ PageArrives \/ PageLost \/ AskOlder
    \/ Deliver
    \/ \E m \in reply : ReplyArrives(m) \/ ReplyLost(m)
    \/ Join \/ Disconnect

Next == Send \/ ListMessages \/ Browser

Spec == Init /\ [][Next]_vars

-----------------------------------------------------------------------------
TypeOK ==
    /\ stage \in Seq({"inserted", "committed", "sent"})
    /\ {mine, readAt, reply, late} \subseteq SUBSET Inserted
    /\ joined \in BOOLEAN
    /\ wire \in Seq(Inserted)
    /\ messages \in [1 .. MaxMessages -> Nat]
    /\ Shown \subseteq Inserted
    /\ {cursor, lastAt} \subseteq 0 .. Len(stage)
    /\ hasMore \in BOOLEAN
    /\ asking \in {"first", "older", "nothing"}
    /\ answer = <<>> \/ answer[1].cursor \in 0 .. Len(stage)

\* message-thread.tsx:72-76 fears a "message rendered twice": its answer, its
\* broadcast and a page may all bring a message, in any order.  Excepted are
\* messages that were on their way when the first page was read and are older
\* than it: "load older" brings those again after the broadcast did.
RenderedOnce ==
    \A m \in 1 .. MaxMessages : messages[m] <= 1 \/ m \in late

\* message-thread.tsx:107-110: the socket "merges any message:new event into state".
\* What it has brought stays on the screen.
LiveMessagesStay == [][Shown \subseteq Shown']_vars
=============================================================================
