----------------------------- MODULE OtpProofs -----------------------------
(***************************************************************************)
(* Theorems about Otp for any number of calls, any times to live and any   *)
(* limits: one live code, texts that work, closed rows.                    *)
(*                                                                         *)
(* The argument: a request in progress is younger than the cooldown it     *)
(* started (Apart), so there is one at a time (Alone), and between its     *)
(* look for a live row and its create none can appear (Clear).  So a live  *)
(* row is the last one (LastLive), a request works on the last one         *)
(* (OnLast), and the pending-code store, unless the request is about to    *)
(* write it, holds nothing or that row's code (Kept).                      *)
(***************************************************************************)
EXTENDS Otp, SequenceTheorems, TLAPS

Requesting == {"find", "cached", "rehash", "count", "create", "store", "send"}
Verifying ==
    {"consume", "clear", "calm", "fail", "drop", "streak", "unstreak", "block"}
Places == {"idle"} \cup Requesting \cup Verifying

Typed ==
    /\ rows \in Seq(Row)
    /\ issued \in Nat
    /\ pending \in [code : Nat, left : Int]
    /\ cooling \in Nat /\ streak \in Nat /\ blocked \in Nat
    /\ texted \in Seq(Nat) /\ Len(texted) = Len(rows)
    /\ pc \in [Handlers -> Places]
    /\ row \in [Handlers -> Nat]
    /\ got \in [Handlers -> Nat]
    /\ age \in [Handlers -> 0 .. MaxCall]
    /\ broke \in BOOLEAN

Apart == \A h \in Handlers : pc[h] \in Requesting => cooling + age[h] >= Cooldown

Alone == \A g, h \in Handlers : pc[g] \in Requesting /\ pc[h] \in Requesting => g = h

Clear == \A h \in Handlers : pc[h] = "create" => Live = {}

LastLive == Live \subseteq {Len(rows)}

OnLast ==
    \A h \in Handlers : pc[h] \in {"cached", "rehash", "count", "store", "send"} =>
        row[h] = Len(rows) /\ row[h] \in DOMAIN rows

InHand ==
    ~broke => \A h \in Handlers :
        pc[h] \in {"count", "store", "send"} => got[h] = rows[row[h]].code

Kept ==
    ~broke /\ (\A h \in Handlers : pc[h] # "store") /\ Cached # 0 =>
        Len(rows) \in DOMAIN rows /\ Cached = rows[Len(rows)].code

Lost == \A h \in Handlers : pc[h] = "rehash" => Cached = 0

OneRequest == Apart /\ Alone /\ Clear /\ LastLive /\ OnLast /\ InHand /\ Kept /\ Lost

Closed == \A r \in DOMAIN rows : rows[r].attempts >= MaxAttempts => rows[r].consumed

Counted == ~broke /\ streak >= Threshold => \E h \in Handlers : pc[h] = "unstreak"

Named == \A h \in Handlers : pc[h] \in {"consume", "fail"} => row[h] \in DOMAIN rows

IInv == Typed /\ Named /\ OneRequest /\ Closed /\ Counted

-----------------------------------------------------------------------------
\* Where a call can be.
LEMMA PlacesAre ==
  /\ "idle" \in Places /\ "idle" \notin Requesting /\ "idle" # "unstreak" /\ "idle" # "store"
  /\ \A p \in Requesting : p \in Places /\ p # "idle" /\ p # "unstreak" /\ p \notin Verifying
  /\ \A p \in Verifying : p \in Places /\ p # "idle" /\ p # "store" /\ p \notin Requesting
  BY DEF Places, Requesting, Verifying

\* What moving on changes: the call's own place, row, value and age.
LEMMA StepEffect ==
  ASSUME OtpAssumption, Typed, NEW h \in Handlers, NEW from, NEW to \in Places,
         NEW r \in Nat, NEW value \in Nat, Step(h, from, to, r, value)
  PROVE  /\ pc[h] = from /\ pc'[h] = to /\ broke' = broke
         /\ pc' \in [Handlers -> Places] /\ row' \in [Handlers -> Nat]
         /\ got' \in [Handlers -> Nat] /\ age' \in [Handlers -> 0 .. MaxCall]
         /\ to # "idle" => row'[h] = r /\ got'[h] = value /\ age'[h] = age[h]
         /\ \A g \in Handlers \ {h} :
              pc'[g] = pc[g] /\ row'[g] = row[g] /\ got'[g] = got[g] /\ age'[g] = age[g]
<1>1. pc[h] = from /\ broke' = broke /\ pc' = [pc EXCEPT ![h] = to]
      /\ row' = [row EXCEPT ![h] = IF to = "idle" THEN 0 ELSE r]
      /\ got' = [got EXCEPT ![h] = IF to = "idle" THEN 0 ELSE value]
  BY DEF Step
<1>2. age' = IF to = "idle" THEN [age EXCEPT ![h] = 0] ELSE age
  BY DEF Step
<1>3. pc' \in [Handlers -> Places] /\ row' \in [Handlers -> Nat] /\ got' \in [Handlers -> Nat]
  BY <1>1 DEF Typed
<1>4. /\ age' \in [Handlers -> 0 .. MaxCall]
      /\ to # "idle" => age' = age
      /\ \A g \in Handlers \ {h} : age'[g] = age[g]
  <2>1. CASE to = "idle"
    <3>1. age \in [Handlers -> 0 .. MaxCall] /\ 0 \in 0 .. MaxCall
      BY DEF Typed, OtpAssumption
    <3>2. age' = [age EXCEPT ![h] = 0]
      BY <1>2, <2>1
    <3> QED
      BY <2>1, <3>1, <3>2
  <2>2. CASE to # "idle"
    BY <1>2, <2>2 DEF Typed
  <2> QED
    BY <2>1, <2>2
<1>5. /\ pc'[h] = to
      /\ to # "idle" => row'[h] = r /\ got'[h] = value
      /\ \A g \in Handlers \ {h} : pc'[g] = pc[g] /\ row'[g] = row[g] /\ got'[g] = got[g]
  BY <1>1 DEF Typed
<1> QED
  BY <1>1, <1>3, <1>4, <1>5

\* A step of a call that keeps its row and value.
LEMMA GoEffect ==
  ASSUME OtpAssumption, Typed, NEW h \in Handlers, NEW from, NEW to \in Places,
         Go(h, from, to)
  PROVE  /\ pc[h] = from /\ pc'[h] = to /\ broke' = broke
         /\ pc' \in [Handlers -> Places] /\ row' \in [Handlers -> Nat]
         /\ got' \in [Handlers -> Nat] /\ age' \in [Handlers -> 0 .. MaxCall]
         /\ to # "idle" => row'[h] = row[h] /\ got'[h] = got[h] /\ age'[h] = age[h]
         /\ \A g \in Handlers \ {h} :
              pc'[g] = pc[g] /\ row'[g] = row[g] /\ got'[g] = got[g] /\ age'[g] = age[g]
<1>1. row[h] \in Nat /\ got[h] \in Nat
  BY DEF Typed
<1> QED
  BY <1>1, StepEffect DEF Go

\* What a write to one element changes of a sequence.
LEMMA ElementWritten ==
  ASSUME NEW S, NEW s \in Seq(S), NEW i \in DOMAIN s, NEW e \in S, NEW t, t = [s EXCEPT ![i] = e]
  PROVE  /\ t \in Seq(S) /\ Len(t) = Len(s) /\ DOMAIN t = DOMAIN s
         /\ t[i] = e
         /\ \A r \in DOMAIN s : r # i => t[r] = s[r]
<1>1. i \in 1 .. Len(s) /\ DOMAIN s = 1 .. Len(s)
  OBVIOUS
<1>2. /\ t \in Seq(S) /\ Len(t) = Len(s)
      /\ \A j \in 1 .. Len(s) : t[j] = IF j = i THEN e ELSE s[j]
  BY <1>1, ExceptSeq, Zenon
<1> QED
  BY <1>1, <1>2

\* Steps that move no request on, make no row live and put no code into the
\* pending-code store leave the requests in order.
LEMMA NothingNew ==
  ASSUME Typed, OneRequest,
         Len(rows') = Len(rows), DOMAIN rows' = DOMAIN rows,
         \A r \in DOMAIN rows : rows'[r].code = rows[r].code
              /\ (rows[r].consumed => rows'[r].consumed)
              /\ (rows'[r].left > 0 => rows[r].left > 0),
         Cached' \in {Cached, 0}, ~broke' => ~broke,
         \A h \in Handlers : pc'[h] \in Requesting =>
              pc'[h] = pc[h] /\ row'[h] = row[h] /\ got'[h] = got[h]
              /\ cooling' + age'[h] >= Cooldown,
         ~broke' => \A h \in Handlers : pc[h] = "store" => pc'[h] = "store"
  PROVE  OneRequest'
<1> USE DEF OneRequest
<1>1. Live' \subseteq Live
  BY DEF Live, Unconsumed
<1>2. Apart' /\ Alone'
  BY DEF Apart, Alone
<1>3. Clear' /\ LastLive'
  BY <1>1 DEF Clear, LastLive, Requesting
<1>4. OnLast' /\ Lost'
  BY DEF OnLast, Lost, Requesting
<1>5. InHand'
  <2> SUFFICES ASSUME ~broke', NEW h \in Handlers, pc'[h] \in {"count", "store", "send"}
               PROVE  got'[h] = rows'[row'[h]].code
    BY DEF InHand
  <2>1. pc[h] = pc'[h] /\ row'[h] = row[h] /\ got'[h] = got[h]
    BY DEF Requesting
  <2>2. row[h] \in DOMAIN rows /\ got[h] = rows[row[h]].code
    BY <2>1 DEF OnLast, InHand
  <2> QED
    BY <2>1, <2>2
<1>6. Kept'
  <2> SUFFICES ASSUME ~broke', \A h \in Handlers : pc'[h] # "store", Cached' # 0
               PROVE  Len(rows') \in DOMAIN rows' /\ Cached' = rows'[Len(rows')].code
    BY DEF Kept
  <2>1. /\ Cached' = Cached /\ Len(rows) \in DOMAIN rows
        /\ Cached = rows[Len(rows)].code
    BY DEF Kept
  <2> QED
    BY <2>1
<1> QED
  BY <1>2, <1>3, <1>4, <1>5, <1>6

\* A step of a verification, or one that begins and ends with its call.
LEMMA OutsideRequests ==
  ASSUME OtpAssumption, Typed, OneRequest, NEW h \in Handlers,
         pc[h] \notin Requesting, pc'[h] \notin Requesting, broke' = broke,
         \A g \in Handlers \ {h} :
             pc'[g] = pc[g] /\ row'[g] = row[g] /\ got'[g] = got[g] /\ age'[g] = age[g],
         cooling' \in {cooling, Cooldown}, Cached' \in {Cached, 0},
         Len(rows') = Len(rows), DOMAIN rows' = DOMAIN rows,
         \A r \in DOMAIN rows : rows'[r].code = rows[r].code
              /\ (rows[r].consumed => rows'[r].consumed)
              /\ (rows'[r].left > 0 => rows[r].left > 0)
  PROVE  OneRequest'
<1>1. \A g \in Handlers : pc'[g] \in Requesting =>
        /\ g # h /\ pc'[g] = pc[g] /\ row'[g] = row[g] /\ got'[g] = got[g]
        /\ age'[g] = age[g] /\ age[g] \in Nat /\ cooling + age[g] >= Cooldown
  <2>1. \A g \in Handlers : age[g] \in 0 .. MaxCall /\ MaxCall \in Nat
    BY DEF Typed, OtpAssumption
  <2> QED
    BY <2>1 DEF OneRequest, Apart
<1>2. ASSUME NEW g \in Handlers, pc'[g] \in Requesting
      PROVE  cooling' + age'[g] >= Cooldown
  <2>1. age'[g] = age[g] /\ age[g] \in Nat /\ cooling + age[g] >= Cooldown
    BY <1>1, <1>2
  <2>2. Cooldown \in Nat
    BY DEF OtpAssumption
  <2>3. Cooldown + age[g] >= Cooldown
    BY <2>1, <2>2
  <2> QED
    BY <2>1, <2>3
<1>3. \A g \in Handlers : pc[g] = "store" => pc'[g] = "store"
  BY DEF Requesting
<1> QED
  BY <1>1, <1>2, <1>3, NothingNew

-----------------------------------------------------------------------------
(* verifyOtp *)

\* A verification picks its row.
LEMMA VerifyReadStep ==
  ASSUME OtpAssumption, IInv, NEW h \in Handlers, NEW right \in BOOLEAN, VerifyRead(h, right)
  PROVE  IInv'
<1> USE DEF IInv
<1>1. PICK r \in Newest(Unconsumed) :
        Step(h, "idle", IF right THEN "consume" ELSE "fail", r,
             IF right THEN 0 ELSE rows[r].attempts)
  BY DEF VerifyRead
<1>2. UNCHANGED <<rows, issued, pending, cooling, streak, blocked, texted>>
  BY DEF VerifyRead, tables, keys
<1>3. r \in DOMAIN rows /\ r \in Nat /\ rows[r].attempts \in Nat
  <2>1. r \in DOMAIN rows
    BY DEF Newest, Unconsumed
  <2>2. rows \in Seq(Row)
    BY DEF Typed
  <2>3. r \in Nat /\ rows[r] \in Row
    BY <2>1, <2>2
  <2> QED
    BY <2>1, <2>3 DEF Row
<1>4. PICK to \in {"consume", "fail"}, value \in Nat : Step(h, "idle", to, r, value)
  <2>1. CASE right
    BY <1>1, <2>1
  <2>2. CASE ~right
    BY <1>1, <1>3, <2>2
  <2> QED
    BY <2>1, <2>2
<1>5. /\ pc[h] = "idle" /\ pc'[h] = to /\ broke' = broke
      /\ pc' \in [Handlers -> Places] /\ row' \in [Handlers -> Nat]
      /\ got' \in [Handlers -> Nat] /\ age' \in [Handlers -> 0 .. MaxCall]
      /\ to # "idle" => row'[h] = r /\ got'[h] = value /\ age'[h] = age[h]
      /\ \A g \in Handlers \ {h} :
              pc'[g] = pc[g] /\ row'[g] = row[g] /\ got'[g] = got[g] /\ age'[g] = age[g]
  <2>1. to \in Places
    BY DEF Places, Verifying
  <2> QED
    BY <1>3, <1>4, <2>1, StepEffect, ZenonT(30)
<1>6. Typed' /\ Named'
  BY <1>2, <1>3, <1>5 DEF Typed, Named
<1>7. OneRequest'
  BY <1>2, <1>5, OutsideRequests DEF Requesting, Cached
<1>8. Closed' /\ Counted'
  BY <1>2, <1>5 DEF Closed, Counted
<1> QED
  BY <1>6, <1>7, <1>8

\* A verification writes to its row: consumed, or one more attempt.
LEMMA VerifyWriteStep ==
  ASSUME OtpAssumption, IInv, NEW h \in Handlers, VerifyConsume(h) \/ VerifyFail(h)
  PROVE  IInv'
<1> USE DEF IInv
<1>1. UNCHANGED <<issued, pending, cooling, streak, blocked, texted>>
  BY DEF VerifyConsume, VerifyFail, keys
<1>2. PICK to \in {"clear", "drop", "idle"} : pc[h] \in {"consume", "fail"} /\ Go(h, pc[h], to)
  BY DEF VerifyConsume, VerifyFail, Go, Step
<1>3. /\ pc'[h] = to /\ broke' = broke
      /\ pc' \in [Handlers -> Places] /\ row' \in [Handlers -> Nat]
      /\ got' \in [Handlers -> Nat] /\ age' \in [Handlers -> 0 .. MaxCall]
      /\ \A g \in Handlers \ {h} :
              pc'[g] = pc[g] /\ row'[g] = row[g] /\ got'[g] = got[g] /\ age'[g] = age[g]
  BY <1>2, GoEffect, PlacesAre DEF Verifying
<1>4. /\ row[h] \in DOMAIN rows /\ got[h] \in Nat /\ rows[row[h]] \in Row
      /\ MaxAttempts \in Nat
  BY <1>2 DEF Named, Typed, OtpAssumption
<1>5. PICK e \in Row :
        /\ rows' = [rows EXCEPT ![row[h]] = e]
        /\ e.code = rows[row[h]].code /\ e.left = rows[row[h]].left
        /\ rows[row[h]].consumed => e.consumed
        /\ e.attempts >= MaxAttempts => e.consumed
  <2>1. CASE VerifyConsume(h)
    <3> DEFINE e == [rows[row[h]] EXCEPT !.consumed = TRUE]
    <3>1. e \in Row /\ e.code = rows[row[h]].code /\ e.left = rows[row[h]].left /\ e.consumed
      BY <1>4 DEF Row
    <3>2. rows' = [rows EXCEPT ![row[h]] = e]
      BY <2>1 DEF VerifyConsume
    <3> QED
      BY <3>1, <3>2
  <2>2. CASE VerifyFail(h)
    <3> DEFINE attempts == got[h] + 1
               spent == attempts >= MaxAttempts
               old == rows[row[h]]
               e == [old EXCEPT !.attempts = attempts, !.consumed = (@ \/ spent)]
    <3>1. attempts \in Nat /\ spent \in BOOLEAN /\ old.consumed \in BOOLEAN
      BY <1>4 DEF Row
    <3>2. (old.consumed \/ spent) \in BOOLEAN
      OBVIOUS
    <3>3. e \in Row /\ e.code = old.code /\ e.left = old.left /\ e.attempts = attempts
          /\ e.consumed = (old.consumed \/ spent)
      BY <1>4, <3>1, <3>2 DEF Row
    <3>4. rows' = [rows EXCEPT ![row[h]] = e]
      BY <2>2 DEF VerifyFail
    <3>5. (old.consumed => e.consumed) /\ (e.attempts >= MaxAttempts => e.consumed)
      BY <3>3
    <3> QED
      BY <3>3, <3>4, <3>5
  <2> QED
    BY <2>1, <2>2
<1>6. /\ rows' \in Seq(Row) /\ Len(rows') = Len(rows) /\ DOMAIN rows' = DOMAIN rows
      /\ rows'[row[h]] = e
      /\ \A r \in DOMAIN rows : r # row[h] => rows'[r] = rows[r]
  BY <1>4, <1>5, ElementWritten DEF Typed
<1>7. Typed' /\ Named'
  BY <1>1, <1>3, <1>6 DEF Typed, Named
<1>8. OneRequest'
  <2>1. \A r \in DOMAIN rows : rows'[r].code = rows[r].code
          /\ (rows[r].consumed => rows'[r].consumed)
          /\ (rows'[r].left > 0 => rows[r].left > 0)
    BY <1>5, <1>6
  <2> QED
    BY <1>1, <1>2, <1>3, <1>6, <2>1, OutsideRequests DEF Requesting, Cached
<1>9. Closed' /\ Counted'
  BY <1>1, <1>2, <1>3, <1>5, <1>6 DEF Closed, Counted
<1> QED
  BY <1>7, <1>8, <1>9

\* A verification writes to Redis.
LEMMA VerifyKeysStep ==
  ASSUME OtpAssumption, IInv, NEW h \in Handlers,
         \/ VerifyClear(h) \/ VerifyCalm(h) \/ VerifyDrop(h) \/ VerifyStreak(h)
         \/ VerifyUnstreak(h) \/ VerifyBlock(h)
  PROVE  IInv'
<1> USE DEF IInv
<1>1. /\ UNCHANGED <<rows, issued, cooling, texted>>
      /\ pending' \in {pending, Forgotten} /\ blocked' \in {blocked, BlockTime}
      /\ streak' \in {0, streak, streak + 1}
  BY DEF VerifyClear, VerifyCalm, VerifyDrop, VerifyStreak, VerifyUnstreak, VerifyBlock, tables
<1>2. PICK to \in {"idle", "calm", "streak", "unstreak", "block"} :
        /\ pc[h] \in {"clear", "calm", "drop", "streak", "unstreak", "block"}
        /\ Go(h, pc[h], to)
        /\ \/ streak' = 0
           \/ streak' = streak /\ pc[h] # "unstreak"
           \/ streak' = streak + 1 /\ (streak + 1 >= Threshold => to = "unstreak")
  <2>1. CASE VerifyClear(h)
    BY <2>1 DEF VerifyClear, Go, Step
  <2>2. CASE VerifyCalm(h)
    BY <2>2 DEF VerifyCalm, Go, Step
  <2>3. CASE VerifyDrop(h)
    BY <2>3 DEF VerifyDrop, Go, Step
  <2>4. CASE VerifyStreak(h)
    <3>1. CASE streak + 1 >= Threshold
      BY <2>4, <3>1 DEF VerifyStreak, Go, Step
    <3>2. CASE ~(streak + 1 >= Threshold)
      BY <2>4, <3>2 DEF VerifyStreak, Go, Step
    <3> QED
      BY <3>1, <3>2
  <2>5. CASE VerifyUnstreak(h)
    BY <2>5 DEF VerifyUnstreak, Go, Step
  <2>6. CASE VerifyBlock(h)
    BY <2>6 DEF VerifyBlock, Go, Step
  <2> QED
    BY <2>1, <2>2, <2>3, <2>4, <2>5, <2>6
<1>3. /\ pc'[h] = to /\ broke' = broke
      /\ pc' \in [Handlers -> Places] /\ row' \in [Handlers -> Nat]
      /\ got' \in [Handlers -> Nat] /\ age' \in [Handlers -> 0 .. MaxCall]
      /\ \A g \in Handlers \ {h} :
              pc'[g] = pc[g] /\ row'[g] = row[g] /\ got'[g] = got[g] /\ age'[g] = age[g]
  BY <1>2, GoEffect, PlacesAre DEF Verifying
<1>4. Forgotten \in [code : Nat, left : Int] /\ Cached' \in {Cached, 0}
  BY <1>1 DEF Forgotten, Cached
<1>5. BlockTime \in Nat /\ Threshold \in Nat \ {0} /\ streak \in Nat
  BY DEF OtpAssumption, Typed
<1>6. Typed' /\ Named'
  <2>1. pending' \in [code : Nat, left : Int] /\ blocked' \in Nat /\ streak' \in Nat
    BY <1>1, <1>4, <1>5 DEF Typed
  <2>2. broke' \in BOOLEAN
    BY <1>3 DEF Typed
  <2>3. Typed'
    BY <1>1, <1>3, <2>1, <2>2 DEF Typed
  <2>4. \A g \in Handlers \ {h} : pc'[g] = pc[g] /\ row'[g] = row[g]
    BY <1>3
  <2>5. Named'
    BY <1>1, <1>2, <1>3, <2>4 DEF Named
  <2> QED
    BY <2>3, <2>5
<1>7. OneRequest'
  BY <1>1, <1>2, <1>3, <1>4, OutsideRequests DEF Requesting
<1>8. Closed'
  BY <1>1 DEF Closed
<1>9. Counted'
  <2> SUFFICES ASSUME ~broke', streak' >= Threshold
               PROVE  \E g \in Handlers : pc'[g] = "unstreak"
    BY DEF Counted
  <2>1. CASE streak' = streak /\ pc[h] # "unstreak"
    <3>1. PICK g \in Handlers : pc[g] = "unstreak"
      BY <1>3, <2>1 DEF Counted
    <3> QED
      BY <1>3, <2>1, <3>1
  <2>2. CASE streak' = streak + 1 /\ (streak + 1 >= Threshold => to = "unstreak")
    BY <1>3, <2>2
  <2>3. streak' # 0
    BY <1>5
  <2> QED
    BY <1>2, <2>1, <2>2, <2>3
<1> QED
  BY <1>6, <1>7, <1>8, <1>9

-----------------------------------------------------------------------------
(* Failure and time *)

\* A call is gone; what it had written stays.
LEMMA FailStep ==
  ASSUME OtpAssumption, IInv, NEW h \in Handlers, Fail(h)
  PROVE  IInv'
<1> USE DEF IInv
<1>1. /\ UNCHANGED <<rows, issued, pending, cooling, streak, blocked, texted>>
      /\ pc' = [pc EXCEPT ![h] = "idle"] /\ row' = [row EXCEPT ![h] = 0]
      /\ got' = [got EXCEPT ![h] = 0] /\ age' = [age EXCEPT ![h] = 0]
  BY DEF Fail, tables, keys
<1>2. broke' = TRUE
  BY DEF Fail
<1>3. 0 \in 0 .. MaxCall
  BY DEF OtpAssumption
<1>4. Typed' /\ Named'
  BY <1>1, <1>2, <1>3, PlacesAre DEF Typed, Named
<1>5. OneRequest'
  <2>1. \A g \in Handlers : pc'[g] \in Requesting =>
          /\ pc'[g] = pc[g] /\ row'[g] = row[g] /\ got'[g] = got[g]
          /\ cooling' + age'[g] >= Cooldown
    BY <1>1, PlacesAre DEF Typed, OneRequest, Apart
  <2> QED
    BY <1>1, <1>2, <2>1, NothingNew DEF Cached
<1>6. Closed' /\ Counted'
  BY <1>1, <1>2 DEF Closed, Counted
<1> QED
  BY <1>4, <1>5, <1>6

\* Redis comes back empty, and no call is in progress.
LEMMA RedisRestartStep ==
  ASSUME OtpAssumption, IInv, RedisRestart
  PROVE  IInv'
<1> USE DEF IInv
<1>1. /\ UNCHANGED <<rows, issued, texted, pc, row, got, age, broke>>
      /\ pending' = Forgotten /\ cooling' = 0 /\ streak' = 0 /\ blocked' = 0
      /\ \A h \in Handlers : pc[h] = "idle"
  BY DEF RedisRestart, tables
<1>2. Forgotten \in [code : Nat, left : Int] /\ Cached' = 0
  BY <1>1 DEF Forgotten, Cached
<1>3. Typed' /\ Named'
  BY <1>1, <1>2 DEF Typed, Named
<1>4. OneRequest'
  BY <1>1, <1>2, PlacesAre, NothingNew
<1>5. Closed' /\ Counted'
  BY <1>1 DEF Closed, Counted, OtpAssumption
<1> QED
  BY <1>3, <1>4, <1>5

\* A tick: what is left gets less, calls get older by as much.
LEMMA TickStep ==
  ASSUME OtpAssumption, IInv, Tick
  PROVE  IInv'
<1> USE DEF IInv
<1>1. /\ UNCHANGED <<issued, streak, texted, pc, row, got, broke>>
      /\ rows' = [r \in DOMAIN rows |-> [rows[r] EXCEPT !.left = Less(@)]]
      /\ pending' = IF pending.left <= 1 THEN Forgotten ELSE [pending EXCEPT !.left = @ - 1]
      /\ cooling' = Less(cooling) /\ blocked' = Less(blocked)
      /\ age' = [h \in Handlers |-> IF pc[h] = "idle" THEN 0 ELSE age[h] + 1]
      /\ \A h \in Handlers : age[h] < MaxCall \/ pc[h] = "idle"
  BY DEF Tick
<1>2. cooling' \in Nat /\ cooling' + 1 >= cooling /\ blocked' \in Nat
  BY <1>1 DEF Typed, Less
<1>3. age' \in [Handlers -> 0 .. MaxCall]
      /\ \A h \in Handlers : pc[h] # "idle" => age'[h] = age[h] + 1 /\ age[h] \in Nat
  <2>1. MaxCall \in Nat /\ \A h \in Handlers : age[h] \in 0 .. MaxCall
    BY DEF Typed, OtpAssumption
  <2> QED
    BY <1>1, <2>1
<1>4. pending' \in [code : Nat, left : Int] /\ Cached' \in {Cached, 0}
  <2>1. CASE pending.left <= 1
    BY <1>1, <2>1 DEF Typed, Forgotten, Cached
  <2>2. CASE ~(pending.left <= 1)
    <3>1. pending.left \in Int /\ pending.code \in Nat /\ pending.left > 1
      BY <2>2 DEF Typed
    <3>2. pending' = [pending EXCEPT !.left = @ - 1]
      BY <1>1, <2>2
    <3>3. pending' \in [code : Nat, left : Int] /\ pending'.code = pending.code
          /\ pending'.left = pending.left - 1
      BY <3>1, <3>2 DEF Typed
    <3> QED
      BY <3>1, <3>3 DEF Cached
  <2> QED
    BY <2>1, <2>2
<1>5. \A r \in DOMAIN rows :
        /\ rows[r] \in Row /\ rows'[r] \in Row
        /\ rows'[r].code = rows[r].code /\ rows'[r].consumed = rows[r].consumed
        /\ rows'[r].attempts = rows[r].attempts
        /\ rows'[r].left > 0 => rows[r].left > 0
  <2> TAKE r \in DOMAIN rows
  <2>1. rows[r] \in Row
    BY DEF Typed
  <2>2. rows'[r] = [rows[r] EXCEPT !.left = Less(@)]
    BY <1>1
  <2>3. Less(rows[r].left) \in Int /\ (Less(rows[r].left) > 0 => rows[r].left > 0)
    BY <2>1 DEF Less, Row
  <2> QED
    BY <2>1, <2>2, <2>3 DEF Row
<1>6. rows' \in Seq(Row) /\ Len(rows') = Len(rows) /\ DOMAIN rows' = DOMAIN rows
  <2>1. DOMAIN rows = 1 .. Len(rows) /\ Len(rows) \in Nat
    BY DEF Typed
  <2>2. rows' \in [1 .. Len(rows) -> Row]
    BY <1>1, <1>5, <2>1
  <2> QED
    BY <2>1, <2>2
<1>7. Typed' /\ Named'
  BY <1>1, <1>2, <1>3, <1>4, <1>6 DEF Typed, Named
<1>8. OneRequest'
  <2>1. \A h \in Handlers : pc'[h] \in Requesting =>
          /\ pc'[h] = pc[h] /\ row'[h] = row[h] /\ got'[h] = got[h]
          /\ cooling' + age'[h] >= Cooldown
    <3> TAKE h \in Handlers
    <3> HAVE pc'[h] \in Requesting
    <3>1. pc'[h] = pc[h] /\ row'[h] = row[h] /\ got'[h] = got[h] /\ pc[h] \in Requesting
      BY <1>1
    <3>2. cooling + age[h] >= Cooldown /\ age'[h] = age[h] + 1 /\ age[h] \in Nat
      BY <1>3, <3>1, PlacesAre DEF OneRequest, Apart
    <3>3. cooling \in Nat /\ Cooldown \in Nat
      BY DEF Typed, OtpAssumption
    <3> DEFINE a == age[h]
               c == cooling'
    <3>4. c \in Nat /\ c + 1 >= cooling
      BY <1>2
    <3>5. a \in Nat /\ cooling + a >= Cooldown
      BY <3>2
    <3> HIDE DEF a, c
    <3>6. c + (a + 1) >= Cooldown
      BY <3>3, <3>4, <3>5
    <3>7. age'[h] = a + 1 /\ cooling' = c
      BY <3>2 DEF a, c
    <3> QED
      BY <3>1, <3>6, <3>7
  <2>2. ~broke' => ~broke
    BY <1>1
  <2>3. \A h \in Handlers : pc[h] = "store" => pc'[h] = "store"
    BY <1>1
  <2> QED
    BY <1>4, <1>5, <1>6, <2>1, <2>2, <2>3, NothingNew
<1>9. Closed' /\ Counted'
  BY <1>1, <1>5, <1>6 DEF Closed, Counted
<1> QED
  BY <1>7, <1>8, <1>9

-----------------------------------------------------------------------------
(* requestOtp *)

\* A request in progress is alone, and stays so.
LEMMA StaysAlone ==
  ASSUME OtpAssumption, Typed, OneRequest, NEW h \in Handlers, pc[h] \in Requesting,
         pc'[h] \in Requesting => age'[h] = age[h], cooling' = cooling,
         \A g \in Handlers \ {h} : pc'[g] = pc[g]
  PROVE  /\ Apart' /\ Alone'
         /\ \A g \in Handlers \ {h} : pc[g] \notin Requesting /\ pc'[g] \notin Requesting
<1>1. \A g \in Handlers \ {h} : pc[g] \notin Requesting /\ pc'[g] \notin Requesting
  BY DEF OneRequest, Alone
<1>2. Apart'
  BY <1>1 DEF OneRequest, Apart
<1>3. Alone'
  BY <1>1 DEF Alone
<1> QED
  BY <1>1, <1>2, <1>3

\* The cooldown is over, so nobody else is at it.
LEMMA RequestAllowedStep ==
  ASSUME OtpAssumption, IInv, NEW h \in Handlers, RequestAllowed(h)
  PROVE  IInv'
<1> USE DEF IInv
<1>1. /\ UNCHANGED <<rows, issued, pending, streak, blocked, texted>>
      /\ cooling = 0 /\ cooling' = Cooldown /\ Go(h, "idle", "find")
  BY DEF RequestAllowed, tables
<1>2. "find" \in Places /\ "find" # "idle"
  BY DEF Places, Requesting
<1>3. /\ pc[h] = "idle" /\ pc'[h] = "find" /\ broke' = broke
      /\ pc' \in [Handlers -> Places] /\ row' \in [Handlers -> Nat]
      /\ got' \in [Handlers -> Nat] /\ age' \in [Handlers -> 0 .. MaxCall]
      /\ age'[h] = age[h]
      /\ \A g \in Handlers \ {h} :
              pc'[g] = pc[g] /\ row'[g] = row[g] /\ got'[g] = got[g] /\ age'[g] = age[g]
  BY <1>1, <1>2, GoEffect, ZenonT(30)
<1>4. \A g \in Handlers : pc[g] \notin Requesting
  BY <1>1 DEF OneRequest, Apart, Typed, OtpAssumption
<1>5. \A g \in Handlers : pc'[g] \in Requesting => g = h
  BY <1>3, <1>4
<1>6. Typed' /\ Named'
  BY <1>1, <1>3 DEF Typed, Named, OtpAssumption
<1>7. Apart' /\ Alone'
  <2>1. Cooldown \in Nat /\ age'[h] \in 0 .. MaxCall
    BY <1>3 DEF OtpAssumption
  <2>2. cooling' + age'[h] >= Cooldown
    BY <1>1, <2>1
  <2> QED
    BY <1>5, <2>2 DEF Apart, Alone
<1>8. Live' = Live /\ Cached' = Cached
  BY <1>1 DEF Live, Unconsumed, Cached
<1>9. Clear' /\ OnLast' /\ Lost' /\ InHand'
  BY <1>3, <1>5 DEF Clear, OnLast, Lost, InHand, Requesting
<1>10. LastLive'
  BY <1>1, <1>8 DEF OneRequest, LastLive
<1>11. Kept'
  BY <1>1, <1>3, <1>4, <1>8 DEF OneRequest, Kept, Requesting
<1>12. Closed' /\ Counted'
  BY <1>1, <1>3 DEF Closed, Counted
<1> QED
  BY <1>6, <1>7, <1>9, <1>10, <1>11, <1>12 DEF OneRequest

\* A refused call starts the cooldown again.
LEMMA RequestRefusedStep ==
  ASSUME OtpAssumption, IInv, NEW h \in Handlers, RequestRefused(h)
  PROVE  IInv'
<1> USE DEF IInv
<1>1. /\ UNCHANGED <<rows, issued, pending, streak, blocked, texted>>
      /\ cooling' = Cooldown /\ Go(h, "idle", "idle")
  BY DEF RequestRefused, tables
<1>2. /\ pc[h] = "idle" /\ pc'[h] = "idle" /\ broke' = broke
      /\ pc' \in [Handlers -> Places] /\ row' \in [Handlers -> Nat]
      /\ got' \in [Handlers -> Nat] /\ age' \in [Handlers -> 0 .. MaxCall]
      /\ \A g \in Handlers \ {h} :
              pc'[g] = pc[g] /\ row'[g] = row[g] /\ got'[g] = got[g] /\ age'[g] = age[g]
  BY <1>1, PlacesAre, GoEffect, ZenonT(30)
<1>3. Typed' /\ Named'
  BY <1>1, <1>2 DEF Typed, Named, OtpAssumption
<1>4. OneRequest'
  BY <1>1, <1>2, OutsideRequests DEF Requesting, Cached
<1>5. Closed' /\ Counted'
  BY <1>1, <1>2 DEF Closed, Counted
<1> QED
  BY <1>3, <1>4, <1>5

\* The live row is the last one; without one there is to be a new row.
LEMMA RequestFindStep ==
  ASSUME OtpAssumption, IInv, NEW h \in Handlers, RequestFind(h)
  PROVE  IInv'
<1> USE DEF IInv
<1>1. UNCHANGED <<rows, issued, pending, cooling, streak, blocked, texted>>
  BY DEF RequestFind, tables, keys
<1>2. PICK to \in {"create", "idle", "cached"}, r \in Nat :
        /\ Step(h, "find", to, r, 0)
        /\ to = "create" => Live = {}
        /\ to = "cached" => r = Len(rows) /\ r \in DOMAIN rows
  <2>1. CASE Live = {} /\ Step(h, "find", "create", 0, 0)
    BY <2>1
  <2>2. CASE \E r \in Newest(Live) :
               Step(h, "find", IF rows[r].sends >= MaxSends THEN "idle" ELSE "cached", r, 0)
    <3>1. PICK r \in Live :
            Step(h, "find", IF rows[r].sends >= MaxSends THEN "idle" ELSE "cached", r, 0)
      BY <2>2 DEF Newest
    <3>2. r = Len(rows) /\ r \in DOMAIN rows /\ r \in Nat
      BY DEF OneRequest, LastLive, Live, Unconsumed, Typed
    <3>3. CASE rows[r].sends >= MaxSends
      BY <3>1, <3>2, <3>3
    <3>4. CASE ~(rows[r].sends >= MaxSends)
      BY <3>1, <3>2, <3>4
    <3> QED
      BY <3>3, <3>4
  <2> QED
    BY <2>1, <2>2 DEF RequestFind
<1>3. to \in Places /\ 0 \in Nat
  BY DEF Places, Requesting
<1>4. /\ pc[h] = "find" /\ pc'[h] = to /\ broke' = broke
      /\ pc' \in [Handlers -> Places] /\ row' \in [Handlers -> Nat]
      /\ got' \in [Handlers -> Nat] /\ age' \in [Handlers -> 0 .. MaxCall]
      /\ to # "idle" => row'[h] = r /\ got'[h] = 0 /\ age'[h] = age[h]
      /\ \A g \in Handlers \ {h} :
              pc'[g] = pc[g] /\ row'[g] = row[g] /\ got'[g] = got[g] /\ age'[g] = age[g]
  BY <1>2, <1>3, StepEffect, ZenonT(30)
<1>5. pc[h] \in Requesting /\ (pc'[h] \in Requesting => age'[h] = age[h])
  BY <1>4, PlacesAre DEF Requesting
<1>6. /\ Apart' /\ Alone'
      /\ \A g \in Handlers \ {h} : pc[g] \notin Requesting /\ pc'[g] \notin Requesting
  BY <1>1, <1>4, <1>5, StaysAlone
<1>7. Typed' /\ Named'
  BY <1>1, <1>2, <1>4 DEF Typed, Named
<1>8. Live' = Live /\ Cached' = Cached
  BY <1>1 DEF Live, Unconsumed, Cached
<1>9. Clear' /\ OnLast' /\ Lost' /\ InHand'
  <2>1. \A g \in Handlers : pc'[g] \in Requesting => g = h
    BY <1>6
  <2> QED
    BY <1>1, <1>2, <1>4, <1>8, <2>1 DEF Clear, OnLast, Lost, InHand, Requesting
<1>10. LastLive'
  BY <1>1, <1>8 DEF OneRequest, LastLive
<1>11. Kept'
  <2>1. \A g \in Handlers : pc[g] # "store"
    BY <1>4, <1>6 DEF Requesting
  <2> QED
    BY <1>1, <1>4, <1>8, <2>1 DEF OneRequest, Kept
<1>12. Closed' /\ Counted'
  BY <1>1, <1>4 DEF Closed, Counted
<1> QED
  BY <1>6, <1>7, <1>9, <1>10, <1>11, <1>12 DEF OneRequest

\* What the pending-code store holds is the last row's code, or nothing.
LEMMA RequestCachedStep ==
  ASSUME OtpAssumption, IInv, NEW h \in Handlers, RequestCached(h)
  PROVE  IInv'
<1> USE DEF IInv
<1>1. UNCHANGED <<rows, issued, pending, cooling, streak, blocked, texted>>
  BY DEF RequestCached, tables, keys
<1>2. PICK to \in {"count", "rehash"} :
        /\ Step(h, "cached", to, row[h], Cached)
        /\ to = "rehash" => Cached = 0
        /\ to = "count" => Cached # 0
  <2>1. CASE Cached = 0
    BY <2>1 DEF RequestCached
  <2>2. CASE Cached # 0
    BY <2>2 DEF RequestCached
  <2> QED
    BY <2>1, <2>2
<1>3. to \in Places /\ to # "idle" /\ Cached \in Nat /\ row[h] \in Nat
  BY DEF Places, Requesting, Cached, Typed
<1>4. /\ pc[h] = "cached" /\ pc'[h] = to /\ broke' = broke
      /\ pc' \in [Handlers -> Places] /\ row' \in [Handlers -> Nat]
      /\ got' \in [Handlers -> Nat] /\ age' \in [Handlers -> 0 .. MaxCall]
      /\ to # "idle" => row'[h] = row[h] /\ got'[h] = Cached /\ age'[h] = age[h]
      /\ \A g \in Handlers \ {h} :
              pc'[g] = pc[g] /\ row'[g] = row[g] /\ got'[g] = got[g] /\ age'[g] = age[g]
  BY <1>2, <1>3, StepEffect, ZenonT(30)
<1>5. pc[h] \in Requesting /\ age'[h] = age[h] /\ row'[h] = row[h] /\ got'[h] = Cached
  BY <1>3, <1>4 DEF Requesting
<1>6. /\ Apart' /\ Alone'
      /\ \A g \in Handlers \ {h} : pc[g] \notin Requesting /\ pc'[g] \notin Requesting
  BY <1>1, <1>4, <1>5, StaysAlone
<1>7. Typed' /\ Named'
  BY <1>1, <1>2, <1>4 DEF Typed, Named
<1>8. Live' = Live /\ Cached' = Cached
  BY <1>1 DEF Live, Unconsumed, Cached
<1>9. row[h] = Len(rows) /\ row[h] \in DOMAIN rows
  BY <1>4 DEF OneRequest, OnLast
<1>10. (\A g \in Handlers : pc'[g] \in Requesting => g = h) /\ \A g \in Handlers : pc[g] # "store"
  BY <1>4, <1>6 DEF Requesting
<1>11. Clear' /\ OnLast' /\ Lost'
  BY <1>1, <1>2, <1>4, <1>5, <1>8, <1>9, <1>10 DEF Clear, OnLast, Lost, Requesting
<1>12. InHand'
  <2>1. ~broke /\ Cached # 0 => Cached = rows[row[h]].code
    BY <1>9, <1>10 DEF OneRequest, Kept
  <2> QED
    BY <1>1, <1>2, <1>4, <1>5, <1>10, <2>1 DEF InHand, Requesting
<1>13. LastLive' /\ Kept'
  BY <1>1, <1>4, <1>8, <1>10 DEF OneRequest, LastLive, Kept
<1>14. Closed' /\ Counted'
  BY <1>1, <1>4 DEF Closed, Counted
<1> QED
  BY <1>6, <1>7, <1>11, <1>12, <1>13, <1>14 DEF OneRequest

\* The last row gets a new code, or one more sending.
LEMMA RequestUpdateStep ==
  ASSUME OtpAssumption, IInv, NEW h \in Handlers, RequestRehash(h) \/ RequestCount(h)
  PROVE  IInv'
<1> USE DEF IInv
<1>1. UNCHANGED <<pending, cooling, streak, blocked, texted>> /\ issued' \in {issued, issued + 1}
  BY DEF RequestRehash, RequestCount, keys
<1>2. PICK from \in {"rehash", "count"}, to \in {"count", "store"}, value \in Nat :
        /\ Step(h, from, to, row[h], value)
        /\ \/ /\ from = "rehash" /\ to = "count" /\ value = issued + 1
              /\ rows' = [rows EXCEPT ![row[h]].code = issued + 1]
           \/ /\ from = "count" /\ to = "store" /\ value = got[h]
              /\ rows' = [rows EXCEPT ![row[h]].sends = @ + 1]
  <2>1. issued + 1 \in Nat /\ got[h] \in Nat
    BY DEF Typed
  <2>2. CASE RequestRehash(h)
    BY <2>1, <2>2 DEF RequestRehash
  <2>3. CASE RequestCount(h)
    BY <2>1, <2>3 DEF RequestCount, Go
  <2> QED
    BY <2>2, <2>3
<1>3. to \in Places /\ to # "idle" /\ row[h] \in Nat
  BY DEF Places, Requesting, Typed
<1>4. /\ pc[h] = from /\ pc'[h] = to /\ broke' = broke
      /\ pc' \in [Handlers -> Places] /\ row' \in [Handlers -> Nat]
      /\ got' \in [Handlers -> Nat] /\ age' \in [Handlers -> 0 .. MaxCall]
      /\ to # "idle" => row'[h] = row[h] /\ got'[h] = value /\ age'[h] = age[h]
      /\ \A g \in Handlers \ {h} :
              pc'[g] = pc[g] /\ row'[g] = row[g] /\ got'[g] = got[g] /\ age'[g] = age[g]
  BY <1>2, <1>3, StepEffect, ZenonT(30)
<1>5. pc[h] \in Requesting /\ age'[h] = age[h] /\ row'[h] = row[h] /\ got'[h] = value
  BY <1>3, <1>4 DEF Requesting
<1>6. /\ Apart' /\ Alone'
      /\ \A g \in Handlers \ {h} : pc[g] \notin Requesting /\ pc'[g] \notin Requesting
  BY <1>1, <1>4, <1>5, StaysAlone
<1>7. row[h] = Len(rows) /\ row[h] \in DOMAIN rows /\ rows[row[h]] \in Row
  BY <1>4 DEF OneRequest, OnLast, Typed
<1>8. PICK e \in Row :
        /\ rows' = [rows EXCEPT ![row[h]] = e]
        /\ e.left = rows[row[h]].left /\ e.attempts = rows[row[h]].attempts
        /\ e.consumed = rows[row[h]].consumed
        /\ e.code = IF from = "rehash" THEN value ELSE rows[row[h]].code
  <2> DEFINE old == rows[row[h]]
  <2>1. CASE from = "rehash" /\ rows' = [rows EXCEPT ![row[h]].code = value]
    <3> DEFINE e == [old EXCEPT !.code = value]
    <3>1. e \in Row /\ e.left = old.left /\ e.attempts = old.attempts
          /\ e.consumed = old.consumed /\ e.code = value
      BY <1>7 DEF Row
    <3>2. rows' = [rows EXCEPT ![row[h]] = e]
      BY <2>1
    <3> QED
      BY <2>1, <3>1, <3>2
  <2>2. CASE from = "count" /\ rows' = [rows EXCEPT ![row[h]].sends = @ + 1]
    <3> DEFINE e == [old EXCEPT !.sends = @ + 1]
    <3>1. e \in Row /\ e.left = old.left /\ e.attempts = old.attempts
          /\ e.consumed = old.consumed /\ e.code = old.code
      BY <1>7 DEF Row
    <3>2. rows' = [rows EXCEPT ![row[h]] = e]
      BY <2>2
    <3> QED
      BY <2>2, <3>1, <3>2
  <2> QED
    BY <1>2, <2>1, <2>2
<1>9. /\ rows' \in Seq(Row) /\ Len(rows') = Len(rows) /\ DOMAIN rows' = DOMAIN rows
      /\ rows'[row[h]] = e
      /\ \A r \in DOMAIN rows : r # row[h] => rows'[r] = rows[r]
  BY <1>7, <1>8, ElementWritten DEF Typed
<1>10. Typed' /\ Named'
  <2>1. issued' \in Nat /\ broke' \in BOOLEAN
    BY <1>1, <1>4 DEF Typed
  <2>2. Typed'
    BY <1>1, <1>4, <1>9, <2>1 DEF Typed
  <2>3. \A g \in Handlers : pc'[g] \in {"consume", "fail"} => pc'[g] = pc[g] /\ row'[g] = row[g]
    BY <1>2, <1>4
  <2> QED
    BY <1>9, <2>2, <2>3 DEF Named
<1>11. Live' = Live /\ Cached' = Cached
  BY <1>1, <1>8, <1>9 DEF Live, Unconsumed, Cached
<1>12. \A g \in Handlers : pc'[g] \in Requesting => g = h
  BY <1>6
<1>13. Clear' /\ LastLive' /\ OnLast' /\ Lost'
  BY <1>2, <1>4, <1>5, <1>7, <1>9, <1>11, <1>12
     DEF OneRequest, Clear, LastLive, OnLast, Lost, Requesting
<1>14. InHand'
  <2>1. ~broke => value = e.code
    <3>1. CASE from = "rehash"
      BY <1>8, <3>1
    <3>2. CASE from = "count"
      BY <1>2, <1>4, <1>8, <3>2 DEF OneRequest, InHand
    <3> QED
      BY <3>1, <3>2
  <2> QED
    BY <1>4, <1>5, <1>9, <1>12, <2>1 DEF InHand, Requesting
<1>15. Kept'
  <2>1. CASE from = "rehash"
    BY <1>4, <1>11, <2>1 DEF OneRequest, Lost, Kept
  <2>2. CASE from = "count"
    BY <1>2, <1>4, <2>2 DEF Kept
  <2> QED
    BY <2>1, <2>2
<1>16. Closed' /\ Counted'
  BY <1>1, <1>2, <1>4, <1>8, <1>9 DEF Closed, Counted
<1> QED
  BY <1>6, <1>10, <1>13, <1>14, <1>15, <1>16 DEF OneRequest

\* No row is live, so the new one is the only one that may be.
LEMMA RequestCreateStep ==
  ASSUME OtpAssumption, IInv, NEW h \in Handlers, RequestCreate(h)
  PROVE  IInv'
<1> USE DEF IInv
<1> DEFINE new == [code |-> issued + 1, left |-> Ttl - age[h], sends |-> 1,
                   attempts |-> 0, consumed |-> FALSE]
<1>1. /\ UNCHANGED <<pending, cooling, streak, blocked>> /\ issued' = issued + 1
      /\ Step(h, "create", "store", Len(rows) + 1, issued + 1)
      /\ rows' = Append(rows, new) /\ texted' = Append(texted, 0)
  BY DEF RequestCreate, keys
<1>2. /\ issued + 1 \in Nat /\ Len(rows) + 1 \in Nat /\ new \in Row
      /\ "store" \in Places /\ "store" # "idle"
  BY DEF Typed, Row, OtpAssumption, Places, Requesting
<1>3. /\ pc[h] = "create" /\ pc'[h] = "store" /\ broke' = broke
      /\ pc' \in [Handlers -> Places] /\ row' \in [Handlers -> Nat]
      /\ got' \in [Handlers -> Nat] /\ age' \in [Handlers -> 0 .. MaxCall]
      /\ "store" # "idle" => row'[h] = Len(rows) + 1 /\ got'[h] = issued + 1 /\ age'[h] = age[h]
      /\ \A g \in Handlers \ {h} :
              pc'[g] = pc[g] /\ row'[g] = row[g] /\ got'[g] = got[g] /\ age'[g] = age[g]
  BY <1>1, <1>2, StepEffect, ZenonT(30)
<1>4. /\ pc[h] \in Requesting /\ age'[h] = age[h] /\ row'[h] = Len(rows) + 1
      /\ got'[h] = issued + 1
  BY <1>2, <1>3 DEF Requesting
<1>5. /\ Apart' /\ Alone'
      /\ \A g \in Handlers \ {h} : pc[g] \notin Requesting /\ pc'[g] \notin Requesting
  BY <1>1, <1>3, <1>4, StaysAlone
<1>6. /\ rows' \in Seq(Row) /\ Len(rows') = Len(rows) + 1
      /\ \A r \in 1 .. Len(rows) : rows'[r] = rows[r]
      /\ rows'[Len(rows) + 1] = new
      /\ DOMAIN rows' = 1 .. Len(rows) + 1 /\ DOMAIN rows = 1 .. Len(rows) /\ Len(rows) \in Nat
  BY <1>1, <1>2 DEF Typed
<1>7. texted' \in Seq(Nat) /\ Len(texted') = Len(texted) + 1
  BY <1>1 DEF Typed
<1>8. Typed'
  BY <1>1, <1>2, <1>3, <1>6, <1>7 DEF Typed
<1>9. Named'
  <2>1. \A g \in Handlers : pc'[g] \in {"consume", "fail"} => pc'[g] = pc[g] /\ row'[g] = row[g]
    BY <1>3
  <2>2. DOMAIN rows \subseteq DOMAIN rows'
    BY <1>6
  <2> QED
    BY <2>1, <2>2 DEF Named
<1>10. \A g \in Handlers : pc'[g] \in Requesting => g = h
  BY <1>5
<1>11. Live = {}
  BY <1>3 DEF OneRequest, Clear
<1>12. LastLive'
  <2>1. \A r \in 1 .. Len(rows) : ~(~rows'[r].consumed /\ rows'[r].left > 0)
    BY <1>6, <1>11 DEF Live, Unconsumed
  <2> QED
    BY <1>6, <2>1 DEF LastLive, Live, Unconsumed
<1>13. Clear' /\ OnLast' /\ Lost' /\ Kept'
  BY <1>3, <1>4, <1>6, <1>10 DEF Clear, OnLast, Lost, Kept, Requesting
<1>14. InHand'
  BY <1>3, <1>4, <1>6, <1>10 DEF InHand, Requesting
<1>15. Closed' /\ Counted'
  <2>1. Closed'
    BY <1>6 DEF Closed, OtpAssumption
  <2>2. Counted'
    BY <1>1, <1>3 DEF Counted
  <2> QED
    BY <2>1, <2>2
<1> QED
  BY <1>5, <1>8, <1>9, <1>12, <1>13, <1>14, <1>15 DEF OneRequest

\* The pending-code store gets the code in hand, which is the last row's.
LEMMA RequestStoreStep ==
  ASSUME OtpAssumption, IInv, NEW h \in Handlers, RequestStore(h)
  PROVE  IInv'
<1> USE DEF IInv
<1>1. /\ UNCHANGED <<rows, issued, cooling, streak, blocked, texted>>
      /\ pending' = [code |-> got[h], left |-> rows[row[h]].left + age[h]]
      /\ Go(h, "store", "send")
  BY DEF RequestStore, tables
<1>2. "send" \in Places /\ "send" # "idle"
  BY DEF Places, Requesting
<1>3. /\ pc[h] = "store" /\ pc'[h] = "send" /\ broke' = broke
      /\ pc' \in [Handlers -> Places] /\ row' \in [Handlers -> Nat]
      /\ got' \in [Handlers -> Nat] /\ age' \in [Handlers -> 0 .. MaxCall]
      /\ "send" # "idle" => row'[h] = row[h] /\ got'[h] = got[h] /\ age'[h] = age[h]
      /\ \A g \in Handlers \ {h} :
              pc'[g] = pc[g] /\ row'[g] = row[g] /\ got'[g] = got[g] /\ age'[g] = age[g]
  BY <1>1, <1>2, GoEffect, ZenonT(30)
<1>4. /\ pc[h] \in Requesting /\ age'[h] = age[h] /\ row'[h] = row[h] /\ got'[h] = got[h]
      /\ row[h] = Len(rows) /\ row[h] \in DOMAIN rows
  BY <1>2, <1>3 DEF Requesting, OneRequest, OnLast
<1>5. /\ Apart' /\ Alone'
      /\ \A g \in Handlers \ {h} : pc[g] \notin Requesting /\ pc'[g] \notin Requesting
  BY <1>1, <1>3, <1>4, StaysAlone
<1>6. pending' \in [code : Nat, left : Int] /\ Cached' \in {0, got[h]}
  <2>1. rows[row[h]] \in Row /\ age[h] \in Int /\ got[h] \in Nat
    BY <1>4 DEF Typed, OtpAssumption
  <2> QED
    BY <1>1, <2>1 DEF Row, Cached
<1>7. Typed' /\ Named'
  BY <1>1, <1>3, <1>6 DEF Typed, Named
<1>8. Live' = Live
  BY <1>1 DEF Live, Unconsumed
<1>9. \A g \in Handlers : pc'[g] \in Requesting => g = h
  BY <1>5
<1>10. Clear' /\ OnLast' /\ Lost' /\ LastLive'
  BY <1>1, <1>3, <1>4, <1>8, <1>9 DEF Clear, OnLast, Lost, OneRequest, LastLive, Requesting
<1>11. ~broke => got[h] = rows[row[h]].code
  BY <1>3 DEF OneRequest, InHand
<1>12. InHand'
  BY <1>1, <1>3, <1>4, <1>9, <1>11 DEF InHand, Requesting
<1>13. Kept'
  BY <1>1, <1>3, <1>4, <1>6, <1>11 DEF Kept
<1>14. Closed' /\ Counted'
  BY <1>1, <1>3 DEF Closed, Counted
<1> QED
  BY <1>5, <1>7, <1>10, <1>12, <1>13, <1>14 DEF OneRequest

\* The text goes out.
LEMMA RequestSendStep ==
  ASSUME OtpAssumption, IInv, NEW h \in Handlers, RequestSend(h)
  PROVE  IInv'
<1> USE DEF IInv
<1>1. /\ UNCHANGED <<rows, issued, pending, cooling, streak, blocked>>
      /\ texted' = [texted EXCEPT ![row[h]] = @ + 1] /\ Go(h, "send", "idle")
  BY DEF RequestSend, tables, keys
<1>2. /\ pc[h] = "send" /\ pc'[h] = "idle" /\ broke' = broke
      /\ pc' \in [Handlers -> Places] /\ row' \in [Handlers -> Nat]
      /\ got' \in [Handlers -> Nat] /\ age' \in [Handlers -> 0 .. MaxCall]
      /\ "idle" # "idle" => row'[h] = row[h] /\ got'[h] = got[h] /\ age'[h] = age[h]
      /\ \A g \in Handlers \ {h} :
              pc'[g] = pc[g] /\ row'[g] = row[g] /\ got'[g] = got[g] /\ age'[g] = age[g]
  BY <1>1, PlacesAre, GoEffect, ZenonT(30)
<1>3. row[h] \in DOMAIN texted
  BY <1>2 DEF Typed, OneRequest, OnLast
<1>4. texted' \in Seq(Nat) /\ Len(texted') = Len(texted)
  <2>1. texted[row[h]] + 1 \in Nat
    BY <1>3 DEF Typed
  <2> QED
    BY <1>1, <1>3, <2>1, ElementWritten DEF Typed
<1>5. pc[h] \in Requesting /\ pc'[h] \notin Requesting
  BY <1>2, PlacesAre DEF Requesting
<1>6. /\ Apart' /\ Alone'
      /\ \A g \in Handlers \ {h} : pc[g] \notin Requesting /\ pc'[g] \notin Requesting
  BY <1>1, <1>2, <1>5, StaysAlone
<1>7. Typed' /\ Named'
  BY <1>1, <1>2, <1>4 DEF Typed, Named
<1>8. Live' = Live /\ Cached' = Cached
  BY <1>1 DEF Live, Unconsumed, Cached
<1>9. \A g \in Handlers : pc'[g] \notin Requesting /\ pc[g] # "store"
  BY <1>2, <1>5, <1>6 DEF Requesting
<1>10. Clear' /\ OnLast' /\ Lost' /\ InHand'
  BY <1>9 DEF Clear, OnLast, Lost, InHand, Requesting
<1>11. LastLive' /\ Kept'
  BY <1>1, <1>2, <1>8, <1>9 DEF OneRequest, LastLive, Kept
<1>12. Closed' /\ Counted'
  BY <1>1, <1>2 DEF Closed, Counted
<1> QED
  BY <1>6, <1>7, <1>10, <1>11, <1>12 DEF OneRequest

-----------------------------------------------------------------------------
\* There is no row and no call.
LEMMA InitIInv == ASSUME OtpAssumption, Init PROVE IInv
<1> USE DEF OtpAssumption, Init
<1>1. Typed
  <2>1. Forgotten \in [code : Nat, left : Int] /\ 0 \in 0 .. MaxCall
    BY DEF Forgotten
  <2>2. rows \in Seq(Row) /\ texted \in Seq(Nat) /\ Len(texted) = Len(rows)
    OBVIOUS
  <2>3. /\ pc \in [Handlers -> Places] /\ row \in [Handlers -> Nat]
        /\ got \in [Handlers -> Nat] /\ age \in [Handlers -> 0 .. MaxCall]
    BY <2>1, PlacesAre
  <2>4. issued \in Nat /\ cooling \in Nat /\ streak \in Nat /\ blocked \in Nat
        /\ broke \in BOOLEAN /\ pending \in [code : Nat, left : Int]
    BY <2>1
  <2> QED
    BY <2>2, <2>3, <2>4 DEF Typed
<1>2. \A h \in Handlers : pc[h] = "idle"
  OBVIOUS
<1>3. rows = <<>> /\ Live = {} /\ Cached = 0
  BY DEF Live, Unconsumed, Cached, Forgotten
<1>4. OneRequest
  BY <1>2, <1>3, PlacesAre
     DEF OneRequest, Apart, Alone, Clear, LastLive, OnLast, InHand, Kept, Lost
<1>5. Named /\ Closed /\ Counted
  BY <1>2, <1>3 DEF Named, Closed, Counted
<1> QED
  BY <1>1, <1>4, <1>5 DEF IInv

\* Every step keeps the inductive invariant.
LEMMA StepIInv == ASSUME OtpAssumption PROVE IInv /\ [Next]_vars => IInv'
<1> SUFFICES ASSUME IInv, [Next]_vars PROVE IInv'
  OBVIOUS
<1>1. CASE Next
  <2>1. ASSUME NEW h \in Handlers, Request(h) PROVE IInv'
    BY <2>1, RequestAllowedStep, RequestRefusedStep, RequestFindStep, RequestCachedStep,
       RequestUpdateStep, RequestCreateStep, RequestStoreStep, RequestSendStep DEF Request
  <2>2. ASSUME NEW h \in Handlers, Verify(h) PROVE IInv'
    BY <2>2, VerifyReadStep, VerifyWriteStep, VerifyKeysStep DEF Verify
  <2> QED
    BY <1>1, <2>1, <2>2, FailStep, RedisRestartStep, TickStep DEF Next
<1>2. CASE UNCHANGED vars
  <2>1. /\ UNCHANGED <<rows, issued, pending, cooling, streak, blocked, texted>>
        /\ UNCHANGED <<pc, row, got, age, broke>>
    BY <1>2 DEF vars, tables, keys
  <2>2. Typed' /\ Named' /\ Closed' /\ Counted'
    BY <2>1 DEF IInv, Typed, Named, Closed, Counted
  <2>3. Live' = Live /\ Cached' = Cached
    BY <2>1 DEF Live, Unconsumed, Cached
  <2>4. OneRequest'
    BY <2>1, <2>3
       DEF IInv, OneRequest, Apart, Alone, Clear, LastLive, OnLast, InHand, Kept, Lost
  <2> QED
    BY <2>2, <2>4 DEF IInv
<1> QED
  BY <1>1, <1>2

-----------------------------------------------------------------------------
\* Code rows, Redis keys and calls stay in their types.
THEOREM TypeCorrect == ASSUME OtpAssumption PROVE Spec => []TypeOK
<1>1. IInv => TypeOK
  BY DEF IInv, Typed, TypeOK, Places, Requesting, Verifying, OtpAssumption
<1> QED
  BY <1>1, InitIInv, StepIInv, PTL DEF Spec

\* No two codes of a phone can log in at once, for any number of requests and any
\* cooldown that is longer than a call.
THEOREM OneCodeAtATime == ASSUME OtpAssumption PROVE Spec => []OneLiveCode
<1>1. IInv => OneLiveCode
  BY DEF IInv, OneRequest, LastLive, OneLiveCode
<1> QED
  BY <1>1, InitIInv, StepIInv, PTL DEF Spec

\* The code that a request is about to text is the one its row's hash verifies.
THEOREM TextsWork == ASSUME OtpAssumption PROVE Spec => []TextedCodeWorks
<1>1. IInv => TextedCodeWorks
  BY DEF IInv, OneRequest, InHand, TextedCodeWorks
<1> QED
  BY <1>1, InitIInv, StepIInv, PTL DEF Spec

\* However verifications overlap, a row whose attempts are spent is closed, and a
\* full streak has a call that goes on to block the phone.
THEOREM SpentRowsAreClosed == ASSUME OtpAssumption PROVE Spec => []SpentIsClosed
<1>1. IInv => SpentIsClosed
  BY DEF IInv, Closed, Counted, SpentIsClosed
<1> QED
  BY <1>1, InitIInv, StepIInv, PTL DEF Spec
=============================================================================
