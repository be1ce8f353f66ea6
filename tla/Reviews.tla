------------------------------ MODULE Reviews ------------------------------
(***************************************************************************)
(* The reviews of one user (no review counts for two): ReviewsService of   *)
(* apps/api/src/reviews, and components/domain/review-panel.tsx in the     *)
(* tabs of the users who may write them.  A conversation has one possible  *)
(* review of the user, by the other participant.                           *)
(*                                                                         *)
(* A step is one statement under READ COMMITTED: an aggregate sees what is *)
(* committed and its own insert; an update of the user's row waits for the *)
(* transaction that holds it and then writes what it was given.            *)
(*                                                                         *)
(* Abstracted: the cached rating (ratingAvg, ratingCount) is the set of    *)
(* reviews it was computed from; comments; isVisible, which nothing clears;*)
(* who may review (the ownership guard: a participant).                    *)
(***************************************************************************)
EXTENDS Integers, FiniteSets

CONSTANTS Conversations, Tabs

VARIABLES
    reviews,    \* conversations whose review is committed
    rating,     \* the reviews in the user's cached rating
    pc,         \* per panel: the next statement of its submit
    aggregate,  \* per panel: what its transaction has computed
    panel,      \* per panel: what it shows
    created,    \* per conversation: submits that were answered with success
    overlapped  \* reviews whose transaction was open together with another

db == <<reviews, rating>>
vars == <<db, pc, aggregate, panel, created, overlapped>>

-----------------------------------------------------------------------------
Panels == Conversations \X Tabs
Conv(p) == p[1]

InTransaction == {p \in Panels : pc[p] \in {"aggregate", "update", "commit"}}
RowLocked == \E p \in Panels : pc[p] = "commit"

Init ==
    /\ reviews = {}
    /\ rating = {}
    /\ pc = [p \in Panels |-> "idle"]
    /\ aggregate = [p \in Panels |-> {}]
    /\ panel = [p \in Panels |-> "loading"]
    /\ created = [c \in Conversations |-> 0]
    /\ overlapped = {}

Go(p, from, to) ==
    /\ pc[p] = from
    /\ pc' = [pc EXCEPT ![p] = to]

Show(p, what) == panel' = [panel EXCEPT ![p] = what]

-----------------------------------------------------------------------------
(* The panel *)

\* loadStatus: myReviewStatus answers whether there is a review.
LoadStatus(p) ==
    /\ panel[p] = "loading"
    /\ Show(p, IF Conv(p) \in reviews THEN "reviewed" ELSE "form")
    /\ UNCHANGED <<db, pc, aggregate, created, overlapped>>

\* Without a status the panel is not rendered, until the page is opened again.
LoadFails(p) ==
    /\ panel[p] = "loading"
    /\ Show(p, "hidden")
    /\ UNCHANGED <<db, pc, aggregate, created, overlapped>>

Open(p) ==
    /\ pc[p] = "idle"
    /\ panel[p] # "loading"
    /\ Show(p, "loading")
    /\ UNCHANGED <<db, pc, aggregate, created, overlapped>>

\* handleSubmit: the button is disabled while a submit is pending.
Submit(p) ==
    /\ panel[p] = "form"
    /\ Go(p, "idle", "check")
    /\ UNCHANGED <<db, aggregate, panel, created, overlapped>>

-----------------------------------------------------------------------------
(* submit *)

Check(p) ==
    /\ Go(p, "check", IF Conv(p) \in reviews THEN "idle" ELSE "insert")
    /\ UNCHANGED <<db, aggregate, panel, created, overlapped>>

\* Mutant of Insert: reviews without @@unique([conversationId, reviewerId]).
MutantNotUnique(p) ==
    /\ Go(p, "insert", "aggregate")
    /\ overlapped' = IF InTransaction = {} THEN overlapped
                     ELSE overlapped \cup {Conv(q) : q \in InTransaction \cup {p}}
    /\ UNCHANGED <<db, aggregate, panel, created>>

\* The unique index: an insert waits for one of the same key that is not decided,
\* and fails on one that is committed.
Insert(p) ==
    /\ \A q \in InTransaction : Conv(q) # Conv(p)
    /\ Go(p, "insert", IF Conv(p) \in reviews THEN "idle" ELSE "aggregate")
    /\ overlapped' = IF InTransaction = {} \/ Conv(p) \in reviews THEN overlapped
                     ELSE overlapped \cup {Conv(q) : q \in InTransaction \cup {p}}
    /\ UNCHANGED <<db, aggregate, panel, created>>

\* Mutant of Aggregate: computed from what there was before the new review.
MutantBeforeCreate(p) ==
    /\ Go(p, "aggregate", "update")
    /\ aggregate' = [aggregate EXCEPT ![p] = reviews]
    /\ UNCHANGED <<db, panel, created, overlapped>>

Aggregate(p) ==
    /\ Go(p, "aggregate", "update")
    /\ aggregate' = [aggregate EXCEPT ![p] = reviews \cup {Conv(p)}]
    /\ UNCHANGED <<db, panel, created, overlapped>>

\* From here on the transaction holds the user's row.
Update(p) ==
    /\ ~RowLocked
    /\ Go(p, "update", "commit")
    /\ UNCHANGED <<db, aggregate, panel, created, overlapped>>

\* Both writes become visible.
Commit(p) ==
    /\ Go(p, "commit", "answer")
    /\ reviews' = reviews \cup {Conv(p)}
    /\ rating' = aggregate[p]
    /\ aggregate' = [aggregate EXCEPT ![p] = {}]
    /\ created' = [created EXCEPT ![Conv(p)] = @ + 1]
    /\ UNCHANGED <<panel, overlapped>>

\* A statement that fails or the transaction's timeout: an error, the form stays.
Rollback(p) ==
    /\ p \in InTransaction
    /\ pc' = [pc EXCEPT ![p] = "idle"]
    /\ aggregate' = [aggregate EXCEPT ![p] = {}]
    /\ UNCHANGED <<db, panel, created, overlapped>>

\* The answer makes the panel load its status again; without it the form stays.
Answer(p) ==
    /\ Go(p, "answer", "idle")
    /\ panel' \in {panel, [panel EXCEPT ![p] = "loading"]}
    /\ UNCHANGED <<db, aggregate, created, overlapped>>

-----------------------------------------------------------------------------
Call(p) ==
    \/ Check(p) \/ Insert(p) \/ Aggregate(p) \/ Update(p) \/ Commit(p)
    \/ Rollback(p) \/ Answer(p)

Next ==
    \E p \in Panels :
        LoadStatus(p) \/ LoadFails(p) \/ Open(p) \/ Submit(p) \/ Call(p)

Spec == Init /\ [][Next]_vars

-----------------------------------------------------------------------------
TypeOK ==
    /\ reviews \subseteq Conversations
    /\ rating \subseteq Conversations
    /\ pc \in [Panels -> {"idle", "check", "insert", "aggregate", "update", "commit", "answer"}]
    /\ aggregate \in [Panels -> SUBSET Conversations]
    /\ panel \in [Panels -> {"loading", "form", "reviewed", "hidden"}]
    /\ created \in [Conversations -> Nat]
    /\ overlapped \subseteq Conversations

\* One review for a conversation and a reviewer, however many tabs submit it and
\* however often a lost answer makes them try again: the check is outside the
\* transaction, and the answer to the second is a refusal.
OneReviewEach == \A c \in Conversations : created[c] <= 1

\* "Recomputed from the live aggregate" (reviews.service.ts:94-96): the cached
\* rating counts no review that is not there, and misses only reviews whose
\* transaction overlapped another's.  (Those it does miss: neither of two
\* aggregates sees the other's insert, until somebody reviews the user again.)
RatingMissesOnlyOverlaps ==
    /\ rating \subseteq reviews
    /\ reviews \ rating \subseteq overlapped

\* A submit that was alone repairs whatever overlaps have left.
LoneSubmitRepairs ==
    [][\A c \in reviews' \ reviews : c \notin overlapped => rating' = reviews']_vars
=============================================================================
