-------------------------------- MODULE Otp --------------------------------
(***************************************************************************)
(* apps/api/src/auth: one-time codes of one phone, from requestOtp to      *)
(* verifyOtp, with the pending-code store, the resend cooldown and the     *)
(* block in Redis (phones share none of these).                            *)
(*                                                                         *)
(* A handler is one HTTP call in progress; each statement on Postgres or   *)
(* Redis that others can see is a step.  Time passes in ticks, and times   *)
(* are kept as what is left of them.  The resend window has limit 1, so it *)
(* is the time since the last call; the hourly, daily and per-IP windows   *)
(* (module RateLimit) may refuse any request.  MaxCodes bounds the model;  *)
(* MaxCall is a bound the code depends on: a call ends before the cooldown *)
(* it started does.  (The clock a request reads is that of its start.)     *)
(*                                                                         *)
(* Abstracted: codes are numbered in the order they are generated, the     *)
(* hash of a code is the code, a caller submits the right one or not.  A   *)
(* verification that succeeds goes on to the user's row and to a session   *)
(* (module Sessions), which no code is read for.                           *)
(***************************************************************************)
EXTENDS Integers, Sequences

CONSTANTS
    Handlers,      \* HTTP calls in progress
    Ttl,           \* otpTtlSeconds
    Cooldown,      \* resendCooldownSeconds
    BlockTime,     \* blockSeconds
    MaxSends,      \* maxResendPerCode
    MaxAttempts,   \* maxVerifyAttempts
    Threshold,     \* invalidatedStreakBlockThreshold
    MaxCall, MaxCodes

OtpAssumption ==
    /\ {Ttl, Cooldown, BlockTime, MaxSends, MaxAttempts, Threshold} \subseteq Nat \ {0}
    /\ {MaxCall, MaxCodes} \subseteq Nat
    /\ MaxCall < Cooldown

VARIABLES
    rows,          \* verification_codes of the phone, in the order of createdAt
    issued,        \* codes generated so far: the next one is issued + 1
    pending,       \* otp:pending-code, a code and its time to live
    cooling,       \* what is left of the cooldown of the last call counted
    streak,        \* otp:invalidated-streak
    blocked,       \* time to live of otp:blocked
    texted,        \* texts queued for each row
    pc, row, got, age,   \* per handler: where it is, its row, what it read, its age
    broke          \* some call failed half-way

tables == <<rows, issued>>
keys == <<pending, cooling, streak, blocked>>
vars == <<tables, keys, texted, pc, row, got, age, broke>>

-----------------------------------------------------------------------------
Unconsumed == {r \in DOMAIN rows : ~rows[r].consumed}
Live == {r \in Unconsumed : rows[r].left > 0}
Newest(R) == {r \in R : \A q \in R : q <= r}   \* one, or none
Cached == IF pending.left > 0 THEN pending.code ELSE 0
Forgotten == [code |-> 0, left |-> 0]

\* A call moves on with a row and a value read; going idle is its answer.
Step(h, from, to, r, value) ==
    /\ pc[h] = from
    /\ pc' = [pc EXCEPT ![h] = to]
    /\ row' = [row EXCEPT ![h] = IF to = "idle" THEN 0 ELSE r]
    /\ got' = [got EXCEPT ![h] = IF to = "idle" THEN 0 ELSE value]
    /\ age' = IF to = "idle" THEN [age EXCEPT ![h] = 0] ELSE age
    /\ UNCHANGED broke

Go(h, from, to) == Step(h, from, to, row[h], got[h])

Init ==
    /\ rows = <<>>
    /\ issued = 0
    /\ pending = Forgotten
    /\ cooling = 0
    /\ streak = 0
    /\ blocked = 0
    /\ texted = <<>>
    /\ pc = [h \in Handlers |-> "idle"]
    /\ row = [h \in Handlers |-> 0]
    /\ got = [h \in Handlers |-> 0]
    /\ age = [h \in Handlers |-> 0]
    /\ broke = FALSE

-----------------------------------------------------------------------------
(* requestOtp *)

\* Mutant of RequestAllowed: without the resend cooldown.
MutantNoCooldown(h) ==
    /\ blocked = 0
    /\ Go(h, "idle", "find")
    /\ cooling' = Cooldown
    /\ UNCHANGED <<tables, pending, streak, blocked, texted>>

\* The call passes every window; being counted is what starts the cooldown.
RequestAllowed(h) ==
    /\ blocked = 0
    /\ cooling = 0
    /\ Go(h, "idle", "find")
    /\ cooling' = Cooldown
    /\ UNCHANGED <<tables, pending, streak, blocked, texted>>

\* A window refuses the call.  It has been counted all the same.
RequestRefused(h) ==
    /\ blocked = 0
    /\ Go(h, "idle", "idle")
    /\ cooling' = Cooldown
    /\ UNCHANGED <<tables, pending, streak, blocked, texted>>

\* The newest code that is neither consumed nor expired is sent again, MaxSends
\* times at most; without one there will be a new row.
RequestFind(h) ==
    \/ /\ Live = {}
       /\ Step(h, "find", "create", 0, 0)
       /\ UNCHANGED <<tables, keys, texted>>
    \/ /\ \E r \in Newest(Live) :
             Step(h, "find", IF rows[r].sends >= MaxSends THEN "idle" ELSE "cached", r, 0)
       /\ UNCHANGED <<tables, keys, texted>>

RequestCached(h) ==
    /\ Step(h, "cached", IF Cached # 0 THEN "count" ELSE "rehash", row[h], Cached)
    /\ UNCHANGED <<tables, keys, texted>>

\* Mutant of RequestRehash: the new code is sent, its hash not stored.
MutantNoRehash(h) ==
    /\ issued < MaxCodes
    /\ Step(h, "rehash", "count", row[h], issued + 1)
    /\ issued' = issued + 1
    /\ UNCHANGED <<rows, keys, texted>>

\* "Redis lost the pending plaintext": the row gets a new code.
RequestRehash(h) ==
    /\ issued < MaxCodes
    /\ Step(h, "rehash", "count", row[h], issued + 1)
    /\ issued' = issued + 1
    /\ rows' = [rows EXCEPT ![row[h]].code = issued + 1]
    /\ UNCHANGED <<keys, texted>>

\* The increment is the database's.
RequestCount(h) ==
    /\ Go(h, "count", "store")
    /\ rows' = [rows EXCEPT ![row[h]].sends = @ + 1]
    /\ UNCHANGED <<issued, keys, texted>>

RequestCreate(h) ==
    /\ issued < MaxCodes
    /\ Step(h, "create", "store", Len(rows) + 1, issued + 1)
    /\ issued' = issued + 1
    /\ rows' = Append(rows, [code |-> issued + 1, left |-> Ttl - age[h], sends |-> 1,
                             attempts |-> 0, consumed |-> FALSE])
    /\ texted' = Append(texted, 0)
    /\ UNCHANGED keys

\* The key's time to live is what the row had left when the call began.
RequestStore(h) ==
    /\ Go(h, "store", "send")
    /\ pending' = [code |-> got[h], left |-> rows[row[h]].left + age[h]]
    /\ UNCHANGED <<tables, cooling, streak, blocked, texted>>

\* A text is queued; a queue that fails (module SmsJobs) does not fail the call.
RequestSend(h) ==
    /\ Go(h, "send", "idle")
    /\ texted' = [texted EXCEPT ![row[h]] = @ + 1]
    /\ UNCHANGED <<tables, keys>>

-----------------------------------------------------------------------------
(* verifyOtp *)

\* The newest row nobody consumed decides, even one that has expired; right says
\* whether the code submitted is the row's.
VerifyRead(h, right) ==
    /\ blocked = 0
    /\ \E r \in Newest(Unconsumed) :
         /\ rows[r].left > 0
         /\ Step(h, "idle", IF right THEN "consume" ELSE "fail", r,
                 IF right THEN 0 ELSE rows[r].attempts)
    /\ UNCHANGED <<tables, keys, texted>>

VerifyConsume(h) ==
    /\ Go(h, "consume", "clear")
    /\ rows' = [rows EXCEPT ![row[h]].consumed = TRUE]
    /\ UNCHANGED <<issued, keys, texted>>

VerifyClear(h) ==
    /\ Go(h, "clear", "calm")
    /\ pending' = Forgotten
    /\ UNCHANGED <<tables, cooling, streak, blocked, texted>>

VerifyCalm(h) ==
    /\ Go(h, "calm", "idle")
    /\ streak' = 0
    /\ UNCHANGED <<tables, pending, cooling, blocked, texted>>

\* Mutant of VerifyFail: the last attempt is counted, and the row left open.
MutantLeaveOpen(h) ==
    LET attempts == got[h] + 1 IN
    /\ Go(h, "fail", IF attempts >= MaxAttempts THEN "drop" ELSE "idle")
    /\ rows' = [rows EXCEPT ![row[h]].attempts = attempts]
    /\ UNCHANGED <<issued, keys, texted>>

\* handleFailedAttempt: the count is the one read plus one, written as a value.
VerifyFail(h) ==
    LET attempts == got[h] + 1
        spent == attempts >= MaxAttempts IN
    /\ Go(h, "fail", IF spent THEN "drop" ELSE "idle")
    /\ rows' = [rows EXCEPT ![row[h]].attempts = attempts,
                            ![row[h]].consumed = @ \/ spent]
    /\ UNCHANGED <<issued, keys, texted>>

VerifyDrop(h) ==
    /\ Go(h, "drop", "streak")
    /\ pending' = Forgotten
    /\ UNCHANGED <<tables, cooling, streak, blocked, texted>>

\* recordInvalidatedCode: the INCR is atomic, its result decides.
VerifyStreak(h) ==
    /\ streak' = streak + 1
    /\ Go(h, "streak", IF streak + 1 >= Threshold THEN "unstreak" ELSE "idle")
    /\ UNCHANGED <<tables, pending, cooling, blocked, texted>>

VerifyUnstreak(h) ==
    /\ Go(h, "unstreak", "block")
    /\ streak' = 0
    /\ UNCHANGED <<tables, pending, cooling, blocked, texted>>

VerifyBlock(h) ==
    /\ Go(h, "block", "idle")
    /\ blocked' = BlockTime
    /\ UNCHANGED <<tables, pending, cooling, streak, texted>>

-----------------------------------------------------------------------------
(* Failure and time *)

\* A statement fails, or the process is lost, in the middle of a call (once).
Fail(h) ==
    /\ pc[h] # "idle"
    /\ ~broke
    /\ pc' = [pc EXCEPT ![h] = "idle"]
    /\ row' = [row EXCEPT ![h] = 0]
    /\ got' = [got EXCEPT ![h] = 0]
    /\ age' = [age EXCEPT ![h] = 0]
    /\ broke' = TRUE
    /\ UNCHANGED <<tables, keys, texted>>

\* Redis restarts empty; it is away for longer than a call lasts.
RedisRestart ==
    /\ \A h \in Handlers : pc[h] = "idle"
    /\ pending' = Forgotten
    /\ cooling' = 0
    /\ streak' = 0
    /\ blocked' = 0
    /\ UNCHANGED <<tables, texted, pc, row, got, age, broke>>

Less(t) == IF t > 0 THEN t - 1 ELSE 0

Tick ==
    /\ \A h \in Handlers : age[h] < MaxCall \/ pc[h] = "idle"
    /\ rows' = [r \in DOMAIN rows |-> [rows[r] EXCEPT !.left = Less(@)]]
    /\ pending' = IF pending.left <= 1 THEN Forgotten
                  ELSE [pending EXCEPT !.left = @ - 1]
    /\ cooling' = Less(cooling)
    /\ blocked' = Less(blocked)
    /\ age' = [h \in Handlers |-> IF pc[h] = "idle" THEN 0 ELSE age[h] + 1]
    /\ UNCHANGED <<issued, streak, texted, pc, row, got, broke>>

-----------------------------------------------------------------------------
Request(h) ==
    \/ RequestAllowed(h) \/ RequestRefused(h) \/ RequestFind(h) \/ RequestCached(h)
    \/ RequestRehash(h) \/ RequestCount(h) \/ RequestCreate(h) \/ RequestStore(h)
    \/ RequestSend(h)

Verify(h) ==
    \/ \E right \in BOOLEAN : VerifyRead(h, right)
    \/ VerifyConsume(h) \/ VerifyClear(h) \/ VerifyCalm(h)
    \/ VerifyFail(h) \/ VerifyDrop(h) \/ VerifyStreak(h) \/ VerifyUnstreak(h) \/ VerifyBlock(h)

Next ==
    \/ \E h \in Handlers : Request(h) \/ Verify(h) \/ Fail(h)
    \/ RedisRestart
    \/ Tick

Spec == Init /\ [][Next]_vars

-----------------------------------------------------------------------------
Row == [code : Nat, left : Int, sends : Nat, attempts : Nat, consumed : BOOLEAN]

TypeOK ==
    /\ rows \in Seq(Row)
    /\ issued \in Nat
    /\ pending \in [code : Nat, left : Int]
    /\ {cooling, streak, blocked} \subseteq Nat
    /\ texted \in Seq(Nat)
    /\ pc \in [Handlers -> {"idle", "find", "cached", "rehash", "count", "create", "store",
                            "send", "consume", "clear", "calm", "fail", "drop", "streak",
                            "unstreak", "block"}]
    /\ row \in [Handlers -> Nat]
    /\ got \in [Handlers -> Nat]
    /\ age \in [Handlers -> Nat]
    /\ broke \in BOOLEAN

\* At most one code of a phone can log in: no two requests create a row beside
\* one another.  The check and the create are not atomic; the cooldown keeps
\* requests apart.
OneLiveCode == \A r, q \in Live : r = q

\* "resend must deliver the exact same code": what is texted is what the row's
\* hash verifies, whatever an earlier row or a concurrent verification left in
\* the pending-code store.
TextedCodeWorks ==
    ~broke => \A h \in Handlers : pc[h] \in {"store", "send"} => got[h] = rows[row[h]].code

\* However wrong guesses overlap, a row whose attempts are spent is closed, and
\* the guess that completes the streak goes on to block the phone.
SpentIsClosed ==
    /\ \A r \in DOMAIN rows : rows[r].attempts >= MaxAttempts => rows[r].consumed
    /\ ~broke /\ streak >= Threshold => \E h \in Handlers : pc[h] = "unstreak"
=============================================================================
