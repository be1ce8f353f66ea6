------------------------------- MODULE SmsJobs -------------------------------
(***************************************************************************)
(* The text messages of apps/api/src/auth/sms: the queue, the worker that  *)
(* processes a job and the sms.ir adapter it calls.                        *)
(*                                                                         *)
(* BullMQ is external: it gives a job whose worker died to another one,    *)
(* once (maxStalledCount).  The processor never throws, so of a job's      *)
(* three attempts (sms.module.ts) one is ever used.                        *)
(***************************************************************************)
EXTENDS Integers

CONSTANT Jobs   \* texts somebody asks for

VARIABLES
    state,      \* where each job is
    stalls,     \* how often its worker has died
    texts       \* how often the provider has sent it

vars == <<state, stalls, texts>>

Init ==
    /\ state = [j \in Jobs |-> "none"]
    /\ stalls = [j \in Jobs |-> 0]
    /\ texts = [j \in Jobs |-> 0]

Move(j, from, to) ==
    /\ state[j] = from
    /\ state' = [state EXCEPT ![j] = to]

\* queue.add, or its failure, which is logged and swallowed.
Enqueue(j) ==
    /\ \/ Move(j, "none", "waiting")
       \/ Move(j, "none", "lost")
    /\ UNCHANGED <<stalls, texts>>

Process(j) ==
    /\ Move(j, "waiting", "active")
    /\ UNCHANGED <<stalls, texts>>

\* The provider answers 200.
SendOk(j) ==
    /\ Move(j, "active", "sent")
    /\ texts' = [texts EXCEPT ![j] = @ + 1]
    /\ UNCHANGED stalls

\* Mutant of SendFails: the processor puts an undelivered text back itself
\* (moveToDelayed and a DelayedError, or queue.add once more), which uses up none
\* of the three attempts.
MutantPutBack(j) ==
    /\ Move(j, "active", "waiting")
    /\ UNCHANGED <<stalls, texts>>

\* Any other answer, or none: the adapter returns delivered: false, the
\* processor returns, and the job is completed.  (The provider may have sent it.)
SendFails(j) ==
    /\ Move(j, "active", "completed")
    /\ \/ UNCHANGED texts
       \/ texts' = [texts EXCEPT ![j] = @ + 1]
    /\ UNCHANGED stalls

Complete(j) ==
    /\ Move(j, "sent", "completed")
    /\ UNCHANGED <<stalls, texts>>

\* The worker dies; a job is given to another one once.
Stall(j) ==
    /\ state[j] \in {"active", "sent"}
    /\ stalls' = [stalls EXCEPT ![j] = @ + 1]
    /\ state' = [state EXCEPT ![j] = IF stalls[j] = 0 THEN "waiting" ELSE "failed"]
    /\ UNCHANGED texts

Work(j) == Process(j) \/ SendOk(j) \/ SendFails(j) \/ Complete(j)

Next == \E j \in Jobs : Enqueue(j) \/ Work(j) \/ Stall(j)

Spec == Init /\ [][Next]_vars

\* A worker is there.
FairSpec == Spec /\ \A j \in Jobs : WF_vars(Work(j))

-----------------------------------------------------------------------------
TypeOK ==
    /\ state \in [Jobs -> {"none", "lost", "waiting", "active", "sent", "completed", "failed"}]
    /\ stalls \in [Jobs -> Nat]
    /\ texts \in [Jobs -> Nat]

\* A text that was queued does not stay there: its job is completed, or has
\* failed, although workers die with it in hand and sms.ir does not answer.
JobsEnd == \A j \in Jobs : state[j] = "waiting" ~> state[j] \in {"completed", "failed"}
=============================================================================
