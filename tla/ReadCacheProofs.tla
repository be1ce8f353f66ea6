-------------------------- MODULE ReadCacheProofs --------------------------
(***************************************************************************)
(* Theorems about ReadCache for any times to live and any number of calls. *)
(*                                                                         *)
(* The argument: whoever holds a version holds a bound on how long it has  *)
(* been out of date: a read its own age, the key what has passed of its    *)
(* time to live on top of a read's age, the browser what has passed of the *)
(* copy's on top of the key's (Aged).  And a read holds the current        *)
(* version for as long as no write has met it (Current).                   *)
(***************************************************************************)
EXTENDS ReadCache, TLAPS

Typed ==
    /\ truth \in 1 .. MaxVersion
    /\ since \in [1 .. MaxVersion -> Nat]
    /\ cache \in [version : Nat, left : Nat]
    /\ pc \in [Handlers -> {"idle", "read", "fill", "del"}]
    /\ got \in [Handlers -> Nat]
    /\ age \in [Handlers -> 0 .. MaxCall]
    /\ copy \in [version : Nat, left : Nat]
    /\ shown \in Nat
    /\ excused \in BOOLEAN

Latest == since[truth] = 0

ReadsAged ==
    \A h \in Handlers : pc[h] = "fill" => got[h] \in 1 .. truth /\ since[got[h]] <= age[h]

KeyAged ==
    cache.left > 0 =>
        cache.version \in 1 .. truth /\ since[cache.version] + cache.left <= MaxCall + Ttl

CopyAged ==
    copy.left > 0 =>
        /\ copy.version \in 1 .. truth
        /\ since[copy.version] + copy.left <= MaxCall + Ttl + MaxAge

Aged == Latest /\ ReadsAged /\ KeyAged /\ CopyAged

Fresh == \A v \in 1 .. MaxVersion : v > truth => since[v] = 0

Current ==
    Invalidates /\ ~excused => \A h \in Handlers : pc[h] = "fill" => got[h] = truth

IInv == Typed /\ Aged /\ Fresh /\ ChangeTakesEffect /\ Current /\ InvalidationWorks

-----------------------------------------------------------------------------
\* Nothing is cached, and nothing has been out of date.
LEMMA InitIInv == ASSUME ReadCacheAssumption, Init PROVE IInv
<1> USE DEF ReadCacheAssumption, Init, Nothing
<1>1. Typed
  <2>1. truth \in 1 .. MaxVersion /\ since \in [1 .. MaxVersion -> Nat]
    OBVIOUS
  <2>2. /\ cache \in [version : Nat, left : Nat] /\ copy \in [version : Nat, left : Nat]
        /\ shown \in Nat /\ excused \in BOOLEAN
    OBVIOUS
  <2>3. /\ pc \in [Handlers -> {"idle", "read", "fill", "del"}]
        /\ got \in [Handlers -> Nat] /\ age \in [Handlers -> 0 .. MaxCall]
    OBVIOUS
  <2> QED
    BY <2>1, <2>2, <2>3 DEF Typed
<1>2. Aged /\ Fresh
  BY DEF Aged, Latest, ReadsAged, KeyAged, CopyAged, Fresh
<1>3. ChangeTakesEffect /\ Current /\ InvalidationWorks
  BY DEF ChangeTakesEffect, Current, InvalidationWorks
<1> QED
  BY <1>1, <1>2, <1>3 DEF IInv

\* What moving on does to program counters and ages.
LEMMA MoveEffect ==
  ASSUME ReadCacheAssumption, Typed, NEW h \in Handlers, NEW from,
         NEW to \in {"idle", "read", "fill", "del"}, Move(h, from, to)
  PROVE  /\ pc[h] = from /\ pc'[h] = to /\ \A g \in Handlers \ {h} : pc'[g] = pc[g]
         /\ pc' \in [Handlers -> {"idle", "read", "fill", "del"}]
         /\ age' \in [Handlers -> 0 .. MaxCall]
         /\ to # "idle" => age' = age
         /\ \A g \in Handlers \ {h} : age'[g] = age[g]
  BY DEF Move, Typed, ReadCacheAssumption

\* A read answered from the key.
LEMMA ReadHitStep ==
  ASSUME ReadCacheAssumption, IInv, NEW h \in Handlers, ReadHit(h)
  PROVE  IInv'
<1> USE DEF IInv
<1>0. /\ cache.left > 0 /\ Move(h, "idle", "idle")
      /\ copy' = IF MaxAge > 0 THEN [version |-> cache.version, left |-> MaxAge] ELSE Nothing
      /\ shown' = since[cache.version]
      /\ UNCHANGED <<truth, since, cache, got, excused>>
  BY DEF ReadHit, Answer
<1>1. /\ pc'[h] = "idle" /\ \A g \in Handlers \ {h} : pc'[g] = pc[g] /\ age'[g] = age[g]
      /\ pc[h] = "idle"
      /\ pc' \in [Handlers -> {"idle", "read", "fill", "del"}] /\ age' \in [Handlers -> 0 .. MaxCall]
  BY <1>0, MoveEffect
<1>2. /\ cache.version \in 1 .. truth /\ since[cache.version] \in Nat /\ cache.left \in Nat
      /\ since[cache.version] + cache.left <= MaxCall + Ttl
      /\ MaxCall \in Nat /\ Ttl \in Nat /\ MaxAge \in Nat
  BY <1>0 DEF Typed, Aged, KeyAged, ReadCacheAssumption
<1>3. Typed'
  BY <1>0, <1>1, <1>2 DEF Typed, Nothing
<1>4. Latest' /\ KeyAged' /\ Fresh'
  BY <1>0 DEF Aged, Latest, KeyAged, Fresh
<1>5. ReadsAged'
  BY <1>0, <1>1 DEF Aged, ReadsAged
<1>6. CopyAged'
  BY <1>0, <1>2 DEF CopyAged, Nothing
<1>7. ChangeTakesEffect'
  BY <1>0, <1>2 DEF ChangeTakesEffect
<1>8. Current' /\ InvalidationWorks'
  BY <1>0, <1>1 DEF Current, InvalidationWorks
<1> QED
  BY <1>3, <1>4, <1>5, <1>6, <1>7, <1>8 DEF Aged

\* A read that goes to the database.
LEMMA ReadStep ==
  ASSUME ReadCacheAssumption, IInv, NEW h \in Handlers, ReadMiss(h) \/ ReadRow(h)
  PROVE  IInv'
<1> USE DEF IInv
<1>0. /\ UNCHANGED <<truth, since, cache, copy, shown, excused>>
      /\ \/ Move(h, "idle", "read") /\ got' = got
         \/ Move(h, "read", "fill") /\ got' = [got EXCEPT ![h] = truth]
  BY DEF ReadMiss, ReadRow
<1>1. /\ \A g \in Handlers \ {h} : pc'[g] = pc[g] /\ age'[g] = age[g]
      /\ pc'[h] = "read" \/ (pc'[h] = "fill" /\ got'[h] = truth)
      /\ pc[h] \in {"idle", "read"}
      /\ \A g \in Handlers \ {h} : got'[g] = got[g]
      /\ got' \in [Handlers -> Nat]
      /\ pc' \in [Handlers -> {"idle", "read", "fill", "del"}] /\ age' \in [Handlers -> 0 .. MaxCall]
  BY <1>0, MoveEffect DEF Typed
<1>2. Typed'
  BY <1>0, <1>1 DEF Typed
<1>3. Aged' /\ Fresh'
  <2>1. ReadsAged'
    BY <1>0, <1>1, MoveEffect DEF Typed, Aged, Latest, ReadsAged
  <2> QED
    BY <1>0, <2>1 DEF Aged, Latest, KeyAged, CopyAged, Fresh
<1>4. ChangeTakesEffect' /\ Current' /\ InvalidationWorks'
  BY <1>0, <1>1 DEF ChangeTakesEffect, Current, InvalidationWorks
<1> QED
  BY <1>2, <1>3, <1>4

\* The key is set to what the read holds, and lives from now on.
LEMMA FillStep ==
  ASSUME ReadCacheAssumption, IInv, NEW h \in Handlers, Fill(h)
  PROVE  IInv'
<1> USE DEF IInv
<1>0. /\ Move(h, "fill", "idle")
      /\ cache' = [version |-> got[h], left |-> Ttl]
      /\ copy' = IF MaxAge > 0 THEN [version |-> got[h], left |-> MaxAge] ELSE Nothing
      /\ shown' = since[got[h]]
      /\ got' = [got EXCEPT ![h] = 0]
      /\ UNCHANGED <<truth, since, excused>>
  BY DEF Fill, Answer
<1>1. /\ pc[h] = "fill" /\ pc'[h] = "idle"
      /\ \A g \in Handlers \ {h} : pc'[g] = pc[g] /\ age'[g] = age[g]
      /\ pc' \in [Handlers -> {"idle", "read", "fill", "del"}] /\ age' \in [Handlers -> 0 .. MaxCall]
  BY <1>0, MoveEffect
<1>2. /\ got[h] \in 1 .. truth /\ since[got[h]] \in Nat /\ since[got[h]] <= MaxCall
      /\ MaxCall \in Nat /\ Ttl \in Nat /\ MaxAge \in Nat
  BY <1>1 DEF Typed, Aged, ReadsAged, ReadCacheAssumption
<1>3. Typed'
  BY <1>0, <1>1, <1>2 DEF Typed, Nothing
<1>4. Latest' /\ KeyAged' /\ Fresh'
  BY <1>0, <1>2 DEF Aged, Latest, KeyAged, Fresh
<1>5. ReadsAged'
  BY <1>0, <1>1 DEF Typed, Aged, ReadsAged
<1>6. CopyAged'
  BY <1>0, <1>2 DEF CopyAged, Nothing
<1>7. ChangeTakesEffect'
  BY <1>0, <1>2 DEF ChangeTakesEffect
<1>8. Current' /\ InvalidationWorks'
  BY <1>0, <1>1 DEF Typed, Current, InvalidationWorks
<1> QED
  BY <1>3, <1>4, <1>5, <1>6, <1>7, <1>8 DEF Aged

\* The browser's copy.
LEMMA ReuseStep ==
  ASSUME ReadCacheAssumption, IInv, Reuse
  PROVE  IInv'
<1> USE DEF IInv
<1>0. /\ copy.left > 0 /\ shown' = since[copy.version]
      /\ UNCHANGED <<truth, since, cache, pc, got, age, copy, excused>>
  BY DEF Reuse
<1>1. /\ copy.version \in 1 .. truth /\ since[copy.version] \in Nat
      /\ since[copy.version] <= MaxCall + Ttl + MaxAge
  BY <1>0 DEF Typed, Aged, CopyAged, ReadCacheAssumption
<1>2. Typed' /\ ChangeTakesEffect'
  BY <1>0, <1>1 DEF Typed, ChangeTakesEffect, ReadCacheAssumption
<1>3. Aged' /\ Fresh' /\ Current' /\ InvalidationWorks'
  BY <1>0 DEF Aged, Latest, ReadsAged, KeyAged, CopyAged, Fresh, Current, InvalidationWorks
<1> QED
  BY <1>2, <1>3

\* A new version, which has never been out of date.
LEMMA WriteStep ==
  ASSUME ReadCacheAssumption, IInv, NEW h \in Handlers, Write(h)
  PROVE  IInv'
<1> USE DEF IInv
<1>0. /\ truth < MaxVersion /\ truth' = truth + 1
      /\ Move(h, "idle", IF Invalidates THEN "del" ELSE "idle")
      /\ excused' \in BOOLEAN
      /\ UNCHANGED <<since, cache, got, copy, shown>>
  BY DEF Write
<1>1. /\ pc[h] = "idle" /\ pc'[h] = IF Invalidates THEN "del" ELSE "idle"
      /\ \A g \in Handlers \ {h} : pc'[g] = pc[g] /\ age'[g] = age[g]
      /\ pc' \in [Handlers -> {"idle", "read", "fill", "del"}] /\ age' \in [Handlers -> 0 .. MaxCall]
  BY <1>0, MoveEffect
<1>2. ~excused' => \A g \in Handlers : pc[g] # "fill"
  BY DEF Write
<1>3. Typed'
  BY <1>0, <1>1 DEF Typed, ReadCacheAssumption
<1>4. Aged' /\ Fresh'
  <2>0. truth \in Int /\ MaxVersion \in Int /\ truth' \in 1 .. MaxVersion /\ truth' > truth
        /\ 1 .. truth \subseteq 1 .. truth'
    BY <1>0 DEF Typed, ReadCacheAssumption
  <2>1. Latest' /\ Fresh'
    BY <1>0, <2>0 DEF Latest, Fresh
  <2>2. ReadsAged'
    BY <1>0, <1>1, <2>0 DEF Aged, ReadsAged
  <2>3. KeyAged' /\ CopyAged'
    BY <1>0, <2>0 DEF Aged, KeyAged, CopyAged
  <2> QED
    BY <2>1, <2>2, <2>3 DEF Aged
<1>5. ChangeTakesEffect'
  BY <1>0 DEF ChangeTakesEffect
<1>6. Current' /\ InvalidationWorks'
  BY <1>0, <1>1, <1>2 DEF Current, InvalidationWorks
<1> QED
  BY <1>3, <1>4, <1>5, <1>6

\* The key is gone, or the call that would have deleted it is.
LEMMA EndStep ==
  ASSUME ReadCacheAssumption, IInv, NEW h \in Handlers, Invalidate(h) \/ Fail(h)
  PROVE  IInv'
<1> USE DEF IInv
<1>0. /\ Move(h, pc[h], "idle")
      /\ cache' \in {cache, Nothing} /\ excused' \in BOOLEAN
      /\ got' \in {got, [got EXCEPT ![h] = 0]}
      /\ UNCHANGED <<truth, since, copy, shown>>
  BY DEF Invalidate, Fail, Move, Typed
<1>1. /\ pc'[h] = "idle" /\ \A g \in Handlers \ {h} : pc'[g] = pc[g] /\ age'[g] = age[g]
      /\ pc' \in [Handlers -> {"idle", "read", "fill", "del"}] /\ age' \in [Handlers -> 0 .. MaxCall]
      /\ got' \in [Handlers -> Nat] /\ \A g \in Handlers \ {h} : got'[g] = got[g]
  BY <1>0, MoveEffect DEF Typed
<1>2. /\ ~excused' => ~excused
      /\ cache' = Nothing \/ (cache' = cache /\ (~excused' => pc[h] # "del"))
  <2>1. CASE Invalidate(h)
    BY <2>1 DEF Invalidate
  <2>2. CASE Fail(h)
    BY <2>2, Zenon DEF Fail
  <2> QED
    BY <2>1, <2>2
<1>3. Typed'
  BY <1>0, <1>1 DEF Typed, Nothing
<1>4. Aged' /\ Fresh'
  <2>1. ReadsAged'
    BY <1>0, <1>1 DEF Aged, ReadsAged
  <2> QED
    BY <1>0, <2>1 DEF Aged, Latest, KeyAged, CopyAged, Fresh, Nothing
<1>5. ChangeTakesEffect' /\ Current'
  BY <1>0, <1>1, <1>2 DEF ChangeTakesEffect, Current
<1>6. InvalidationWorks'
  BY <1>0, <1>1, <1>2 DEF InvalidationWorks, Nothing
<1> QED
  BY <1>3, <1>4, <1>5, <1>6

\* A tick makes what is out of date older, and what is held live shorter.
LEMMA TickStep ==
  ASSUME ReadCacheAssumption, IInv, Tick
  PROVE  IInv'
<1> USE DEF IInv
<1>0. /\ \A h \in Handlers : pc[h] # "idle" => age[h] < MaxCall
      /\ since' = [v \in 1 .. MaxVersion |-> IF v < truth THEN Cap(since[v] + 1) ELSE 0]
      /\ cache' = Passed(cache) /\ copy' = Passed(copy)
      /\ age' = [h \in Handlers |-> IF pc[h] = "idle" THEN 0 ELSE age[h] + 1]
      /\ UNCHANGED <<truth, pc, got, shown, excused>>
  BY DEF Tick
<1>1. /\ Ttl \in Nat /\ MaxCall \in Nat /\ MaxAge \in Nat /\ MaxVersion \in Nat
      /\ truth \in 1 .. MaxVersion /\ 1 .. truth \subseteq 1 .. MaxVersion
      /\ \A t \in Nat : Cap(t) \in Nat /\ Cap(t) <= t
  BY DEF ReadCacheAssumption, Cap, Horizon, Typed
<1>2. \A v \in 1 .. MaxVersion :
        /\ since[v] \in Nat /\ since'[v] \in Nat
        /\ since'[v] = 0 \/ (v < truth /\ since'[v] <= since[v] + 1)
  <2> TAKE v \in 1 .. MaxVersion
  <2>1. since[v] \in Nat /\ since'[v] = IF v < truth THEN Cap(since[v] + 1) ELSE 0
    BY <1>0 DEF Typed
  <2>2. Cap(since[v] + 1) \in Nat /\ Cap(since[v] + 1) <= since[v] + 1
    BY <1>1, <2>1
  <2> QED
    BY <2>1, <2>2
<1>3. \A e \in [version : Nat, left : Nat] :
        /\ Passed(e) \in [version : Nat, left : Nat]
        /\ Passed(e).left > 0 => Passed(e).version = e.version /\ e.left > 1 /\ Passed(e).left = e.left - 1
  BY DEF Passed, Nothing
<1>4. \A h \in Handlers :
        /\ age'[h] \in 0 .. MaxCall
        /\ pc[h] # "idle" => age'[h] = age[h] + 1
  <2> TAKE h \in Handlers
  <2>1. /\ age[h] \in 0 .. MaxCall
        /\ age'[h] = IF pc[h] = "idle" THEN 0 ELSE age[h] + 1
        /\ pc[h] # "idle" => age[h] < MaxCall
    BY <1>0 DEF Typed
  <2> QED
    BY <1>1, <2>1
<1>5. Typed'
  <2>1. since' \in [1 .. MaxVersion -> Nat]
    BY <1>0, <1>2
  <2>2. age' \in [Handlers -> 0 .. MaxCall]
    BY <1>0, <1>4
  <2>3. cache' \in [version : Nat, left : Nat] /\ copy' \in [version : Nat, left : Nat]
    BY <1>0, <1>3 DEF Typed
  <2> QED
    BY <1>0, <2>1, <2>2, <2>3 DEF Typed
<1>6. Aged'
  <2>1. Latest'
    BY <1>0, <1>1, <1>2 DEF Latest
  <2>2. ReadsAged'
    <3> SUFFICES ASSUME NEW h \in Handlers, pc[h] = "fill"
                 PROVE  got[h] \in 1 .. truth /\ since'[got[h]] <= age'[h]
      BY <1>0 DEF ReadsAged
    <3>1. got[h] \in 1 .. truth /\ since[got[h]] <= age[h] /\ age[h] \in Nat
      BY DEF Aged, ReadsAged, Typed
    <3> QED
      BY <3>1, <1>1, <1>2, <1>4
  <2>3. KeyAged'
    <3> SUFFICES ASSUME cache'.left > 0
                 PROVE  cache'.version \in 1 .. truth'
                        /\ since'[cache'.version] + cache'.left <= MaxCall + Ttl
      BY DEF KeyAged
    <3>1. /\ cache'.version = cache.version /\ cache.left > 1
          /\ cache'.left = cache.left - 1 /\ cache.left \in Nat
      BY <1>0, <1>3 DEF Typed
    <3>2. cache.version \in 1 .. truth /\ since[cache.version] + cache.left <= MaxCall + Ttl
      BY <3>1 DEF Aged, KeyAged
    <3>3. /\ since[cache.version] \in Nat /\ since'[cache.version] \in Nat
          /\ since'[cache.version] <= since[cache.version] + 1
      BY <3>2, <1>1, <1>2
    <3>4. since'[cache.version] + cache'.left <= since[cache.version] + cache.left
      BY <3>1, <3>3
    <3>5. cache'.version \in 1 .. truth'
      BY <3>1, <3>2, <1>0
    <3>6. since'[cache.version] + cache'.left <= MaxCall + Ttl
      BY <3>1, <3>2, <3>3, <3>4, <1>1
    <3> QED
      BY <3>1, <3>5, <3>6
  <2>4. CopyAged'
    <3> SUFFICES ASSUME copy'.left > 0
                 PROVE  copy'.version \in 1 .. truth'
                        /\ since'[copy'.version] + copy'.left <= MaxCall + Ttl + MaxAge
      BY DEF CopyAged
    <3>1. /\ copy'.version = copy.version /\ copy.left > 1
          /\ copy'.left = copy.left - 1 /\ copy.left \in Nat
      BY <1>0, <1>3 DEF Typed
    <3>2. copy.version \in 1 .. truth /\ since[copy.version] + copy.left <= MaxCall + Ttl + MaxAge
      BY <3>1 DEF Aged, CopyAged
    <3>3. /\ since[copy.version] \in Nat /\ since'[copy.version] \in Nat
          /\ since'[copy.version] <= since[copy.version] + 1
      BY <3>2, <1>1, <1>2
    <3>4. since'[copy.version] + copy'.left <= since[copy.version] + copy.left
      BY <3>1, <3>3
    <3>5. copy'.version \in 1 .. truth'
      BY <3>1, <3>2, <1>0
    <3>6. since'[copy.version] + copy'.left <= MaxCall + Ttl + MaxAge
      BY <3>1, <3>2, <3>3, <3>4, <1>1
    <3> QED
      BY <3>1, <3>5, <3>6
  <2> QED
    BY <2>1, <2>2, <2>3, <2>4 DEF Aged
<1>7. Fresh'
  BY <1>0, <1>1, <1>2 DEF Fresh
<1>8. ChangeTakesEffect' /\ Current'
  BY <1>0 DEF ChangeTakesEffect, Current
<1>9. InvalidationWorks'
  <2>1. cache \in [version : Nat, left : Nat]
    BY DEF Typed
  <2>2. cache'.left > 0 => cache'.version = cache.version /\ cache.left > 0
    <3>1. cache' = Passed(cache)
      BY <1>0
    <3>2. /\ cache.left \in Nat
          /\ Passed(cache).left > 0 => Passed(cache).version = cache.version /\ cache.left > 1
      BY <1>3, <2>1
    <3> QED
      BY <3>1, <3>2
  <2> QED
    BY <1>0, <2>2 DEF InvalidationWorks
<1> QED
  BY <1>5, <1>6, <1>7, <1>8, <1>9

\* Every step keeps the inductive invariant.
LEMMA StepIInv == ASSUME ReadCacheAssumption PROVE IInv /\ [Next]_vars => IInv'
<1> SUFFICES ASSUME IInv, [Next]_vars PROVE IInv'
  OBVIOUS
<1>1. CASE Next
  BY <1>1, ReadHitStep, ReadStep, FillStep, ReuseStep, WriteStep, EndStep, TickStep DEF Next
<1>2. CASE UNCHANGED vars
  BY <1>2 DEF vars, IInv, Typed, Aged, Latest, ReadsAged, KeyAged, CopyAged, Fresh, ChangeTakesEffect, Current, InvalidationWorks
<1> QED
  BY <1>1, <1>2

-----------------------------------------------------------------------------
\* Key, copy, versions and calls stay in their types.
THEOREM TypeCorrect == ASSUME ReadCacheAssumption PROVE Spec => []TypeOK
<1>1. IInv => TypeOK
  BY DEF IInv, Typed, TypeOK, ReadCacheAssumption
<1> QED
  BY <1>1, InitIInv, StepIInv, PTL DEF Spec

\* The guards and the lists of the API use nothing longer after it changed than
\* the key's time to live, a call and the browser's copy, for any of these times.
THEOREM StalenessIsBounded == ASSUME ReadCacheAssumption PROVE Spec => []ChangeTakesEffect
<1>1. IInv => ChangeTakesEffect
  BY DEF IInv
<1> QED
  BY <1>1, InitIInv, StepIInv, PTL DEF Spec

\* Where a write deletes the key, an old version is in it only until the DEL, or
\* because a read and the write overlapped.
THEOREM DeletedKeysStayTrue == ASSUME ReadCacheAssumption PROVE Spec => []InvalidationWorks
<1>1. IInv => InvalidationWorks
  BY DEF IInv
<1> QED
  BY <1>1, InitIInv, StepIInv, PTL DEF Spec
=============================================================================
