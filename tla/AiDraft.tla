------------------------------ MODULE AiDraft ------------------------------
(***************************************************************************)
(* The AI wizard: AiService of apps/api/src/ai (start, continueSession and *)
(* the extraction with its retry) and components/domain/ai-wizard.tsx.     *)
(*                                                                         *)
(* One wizard sends numbered messages, one at a time as far as it knows: a *)
(* call it has given up may still be running.  The model (AiPort) answers  *)
(* with a draft, with something that does not parse, or not at all; every  *)
(* answer costs a token.  MaxMessages and MaxSessions bound the model.     *)
(*                                                                         *)
(* Abstracted: the text of messages, prompts and drafts (a draft is ready  *)
(* or not, and none where the extraction failed), the correction that the  *)
(* retry folds into the last turn, who owns a session (its id is not       *)
(* guessed), that a category of a draft exists (it parses or it does not). *)
(***************************************************************************)
EXTENDS Integers, Sequences, FiniteSets, SequencesExt

CONSTANTS MaxRetries, MaxMessages, MaxSessions

AiDraftAssumption == {MaxRetries, MaxMessages, MaxSessions} \subseteq Nat

VARIABLES
    sessions,   \* rows: [messages, draft, tokensUsed], the last as what each call has added
    pc,         \* of the call for each message: "read", "extract", "write", "answer", "done" or "lost"
    session,    \* of each call: its session, 0 for start
    base,       \* of each call: the history it has read
    attempts,   \* of each call: calls of the model that failed
    result,     \* of each call: the draft it has extracted
    tokens,     \* of each call
    sessionId, messages, draft, manual, sending,  \* state of the component
    overlapped  \* sessions two calls have worked on at the same time

calls == <<pc, session, base, attempts, result, tokens>>
wizard == <<sessionId, messages, draft, manual, sending>>
vars == <<sessions, calls, wizard, overlapped>>

-----------------------------------------------------------------------------
Drafts == {"none", "asking", "ready"}
Sent == DOMAIN pc
Running(s) == {m \in Sent : session[m] = s /\ pc[m] \in {"extract", "write"}}

Init ==
    /\ sessions = <<>>
    /\ pc = <<>> /\ session = <<>> /\ base = <<>>
    /\ attempts = <<>> /\ result = <<>> /\ tokens = <<>>
    /\ sessionId = 0 /\ messages = <<>> /\ draft = "none"
    /\ manual = FALSE /\ sending = 0
    /\ overlapped = {}

\* handleSend.  The wizard gives way to the form once one is needed.
Send ==
    /\ sending = 0
    /\ ~manual
    /\ Len(pc) < MaxMessages
    /\ sessionId = 0 => Len(sessions) + Cardinality(Running(0)) < MaxSessions
    /\ sending' = Len(pc) + 1
    /\ pc' = Append(pc, IF sessionId = 0 THEN "extract" ELSE "read")
    /\ session' = Append(session, sessionId)
    /\ base' = Append(base, <<>>)
    /\ attempts' = Append(attempts, 0)
    /\ result' = Append(result, "none")
    /\ tokens' = Append(tokens, 0)
    /\ UNCHANGED <<sessions, sessionId, messages, draft, manual, overlapped>>

\* "Fill in the form myself".
Leave ==
    /\ ~manual
    /\ manual' = TRUE
    /\ UNCHANGED <<sessions, calls, sessionId, messages, draft, sending, overlapped>>

Go(m, from, to) ==
    /\ pc[m] = from
    /\ pc' = [pc EXCEPT ![m] = to]

-----------------------------------------------------------------------------
(* start, continueSession *)

Read(m) ==
    /\ Go(m, "read", "extract")
    /\ base' = [base EXCEPT ![m] = sessions[session[m]].messages]
    /\ overlapped' = IF Running(session[m]) = {} THEN overlapped
                     ELSE overlapped \cup {session[m]}
    /\ UNCHANGED <<sessions, session, attempts, result, tokens, wizard>>

\* extractWithRetry: the first draft that parses ends it.
ExtractOk(m) ==
    /\ Go(m, "extract", "write")
    /\ \E d \in Drafts \ {"none"} : result' = [result EXCEPT ![m] = d]
    /\ tokens' = [tokens EXCEPT ![m] = @ + 1]
    /\ UNCHANGED <<sessions, session, base, attempts, wizard, overlapped>>

\* An answer that does not parse has cost its token, an error has not; after the
\* last attempt there is no draft.
ExtractFails(m) ==
    /\ Go(m, "extract", IF attempts[m] < MaxRetries THEN "extract" ELSE "write")
    /\ attempts' = [attempts EXCEPT ![m] = @ + 1]
    /\ \/ tokens' = [tokens EXCEPT ![m] = @ + 1]
       \/ UNCHANGED tokens
    /\ UNCHANGED <<sessions, session, base, result, wizard, overlapped>>

\* appendAssistantTurn: every round is a full pair.
Turn(m) == <<[role |-> "user", of |-> m], [role |-> "assistant", of |-> m]>>

Spent(m) == [n \in 1 .. MaxMessages |-> IF n = m THEN tokens[m] ELSE 0]

\* Mutant of Write: the total is the one of the history that was read.
MutantWriteTotal(m) ==
    LET history == base[m] \o Turn(m)
        s == session[m]
    IN /\ Go(m, "write", "answer")
       /\ IF s = 0
          THEN /\ sessions' = Append(sessions, [messages |-> history, draft |-> result[m],
                                                tokensUsed |-> Spent(m)])
               /\ session' = [session EXCEPT ![m] = Len(sessions) + 1]
          ELSE /\ sessions' = [sessions EXCEPT ![s].messages = history,
                                               ![s].draft = result[m],
                                               ![s].tokensUsed = Spent(m)]
               /\ UNCHANGED session
       /\ UNCHANGED <<base, attempts, result, tokens, wizard, overlapped>>

\* The new history is what was read plus the turn; the tokens are added.
Write(m) ==
    LET history == base[m] \o Turn(m)
        s == session[m]
    IN /\ Go(m, "write", "answer")
       /\ IF s = 0
          THEN /\ sessions' = Append(sessions, [messages |-> history, draft |-> result[m],
                                                tokensUsed |-> Spent(m)])
               /\ session' = [session EXCEPT ![m] = Len(sessions) + 1]
          ELSE /\ sessions' = [sessions EXCEPT ![s].messages = history,
                                               ![s].draft = result[m],
                                               ![s].tokensUsed = [n \in 1 .. MaxMessages |-> @[n] + Spent(m)[n]]]
               /\ UNCHANGED session
       /\ UNCHANGED <<base, attempts, result, tokens, wizard, overlapped>>

Answer(m) ==
    /\ Go(m, "answer", "done")
    /\ IF sending = m
       THEN /\ sessionId' = session[m]
            /\ messages' = base[m] \o Turn(m)
            /\ draft' = result[m]
            /\ manual' = (manual \/ result[m] = "none")
            /\ sending' = 0
       ELSE UNCHANGED wizard
    /\ UNCHANGED <<sessions, session, base, attempts, result, tokens, overlapped>>

\* The browser or a proxy gives up, or the answer is lost: an error is shown, the
\* text stays, and the call goes on.
GiveUp ==
    /\ sending # 0
    /\ sending' = 0
    /\ UNCHANGED <<sessions, calls, sessionId, messages, draft, manual, overlapped>>

\* The process dies: the call is gone.
Crash(m) ==
    /\ pc[m] \in {"read", "extract", "write"}
    /\ pc' = [pc EXCEPT ![m] = "lost"]
    /\ sending' = IF sending = m THEN 0 ELSE sending
    /\ UNCHANGED <<sessions, session, base, attempts, result, tokens,
                   sessionId, messages, draft, manual, overlapped>>

-----------------------------------------------------------------------------
Call(m) ==
    Read(m) \/ ExtractOk(m) \/ ExtractFails(m) \/ Write(m) \/ Answer(m) \/ Crash(m)

Next == Send \/ Leave \/ GiveUp \/ \E m \in Sent : Call(m)

Spec == Init /\ [][Next]_vars

-----------------------------------------------------------------------------
TypeOK ==
    /\ \A s \in DOMAIN sessions : /\ sessions[s].draft \in Drafts
                                  /\ \A i \in DOMAIN sessions[s].messages :
                                        sessions[s].messages[i].of \in Sent
    /\ pc \in Seq({"read", "extract", "write", "answer", "done", "lost"})
    /\ session \in [Sent -> 0 .. Len(sessions)]
    /\ sessionId \in 0 .. Len(sessions)
    /\ draft \in Drafts
    /\ manual \in BOOLEAN
    /\ sending \in 0 .. Len(pc)
    /\ overlapped \subseteq DOMAIN sessions

\* A stored history is whole turns (ai.service.ts:98-102, "expects alternating
\* roles"), and what it has cost is counted, whatever overlapped or was lost.  A turn
\* that was stored stays in the history, and the wizard shows a beginning of it,
\* unless two calls worked on the session at the same time: the second to write
\* then drops the turn of the first (ai.service.ts:66-93).
TurnsSurvive ==
    \A s \in DOMAIN sessions :
        LET stored == {m \in Sent : session[m] = s /\ pc[m] \in {"answer", "done"}}
            history == sessions[s].messages
        IN /\ \A i \in DOMAIN history :
                  history[i].role = IF i % 2 = 1 THEN "user" ELSE "assistant"
           /\ sessions[s].tokensUsed = [m \in 1 .. MaxMessages |-> IF m \in stored THEN tokens[m] ELSE 0]
           /\ s \notin overlapped =>
                 /\ stored = {history[i].of : i \in DOMAIN history}
                 /\ s = sessionId => IsPrefix(messages, history)
=============================================================================
