------------------------------ MODULE ReadCache ------------------------------
(***************************************************************************)
(* A value of Postgres behind a Redis key with a time to live, as the role *)
(* and verified-phone guards and the category and skill lists have it.     *)
(* Versions stand for values.  Reads, and the writes that invalidate, are  *)
(* calls in progress; time passes in ticks.  MaxCall and MaxVersion are    *)
(* bounds of the model: a call lasts MaxCall ticks at most.                *)
(***************************************************************************)
EXTENDS Integers

CONSTANTS
    Handlers,      \* HTTP calls in progress
    Ttl,           \* verifiedPhoneCacheTtlSeconds, CACHE_TTL_SECONDS
    MaxAge,        \* Cache-Control of the answer; 0 where it is not cached
    Invalidates,   \* whether a write deletes the key
    MaxCall, MaxVersion

ReadCacheAssumption ==
    /\ {Ttl, MaxVersion} \subseteq Nat \ {0}
    /\ {MaxAge, MaxCall} \subseteq Nat
    /\ Invalidates \in BOOLEAN

VARIABLES
    truth,     \* the version in the database
    since,     \* how long each earlier version has been out of date
    cache,     \* the key: a version and its time to live
    pc, got, age,   \* per handler: where it is, the version it read, its age
    copy,      \* the browser's copy: a version and how long it may be used
    shown,     \* how far out of date the last answer the browser used was
    excused    \* a write met a read in progress, or failed before its DEL

vars == <<truth, since, cache, pc, got, age, copy, shown, excused>>

-----------------------------------------------------------------------------
Nothing == [version |-> 0, left |-> 0]
Horizon == Ttl + MaxAge + MaxCall + 1   \* older than this is not told apart

Cap(t) == IF t > Horizon THEN Horizon ELSE t
Less(t) == IF t > 0 THEN t - 1 ELSE 0
Passed(entry) == IF entry.left <= 1 THEN Nothing ELSE [entry EXCEPT !.left = @ - 1]

Move(h, from, to) ==
    /\ pc[h] = from
    /\ pc' = [pc EXCEPT ![h] = to]
    /\ age' = [age EXCEPT ![h] = IF to = "idle" THEN 0 ELSE @]

Init ==
    /\ truth = 1
    /\ since = [v \in 1 .. MaxVersion |-> 0]
    /\ cache = Nothing
    /\ pc = [h \in Handlers |-> "idle"]
    /\ got = [h \in Handlers |-> 0]
    /\ age = [h \in Handlers |-> 0]
    /\ copy = Nothing
    /\ shown = 0
    /\ excused = FALSE

\* The caller gets version v, and may use it again until its copy is too old.
Answer(v) ==
    /\ copy' = IF MaxAge > 0 THEN [version |-> v, left |-> MaxAge] ELSE Nothing
    /\ shown' = since[v]

-----------------------------------------------------------------------------
(* A read: canActivate of the guards, list of the services *)

ReadHit(h) ==
    /\ copy.left = 0
    /\ cache.left > 0
    /\ Move(h, "idle", "idle")
    /\ Answer(cache.version)
    /\ UNCHANGED <<truth, since, cache, got, excused>>

ReadMiss(h) ==
    /\ copy.left = 0
    /\ cache.left = 0
    /\ Move(h, "idle", "read")
    /\ UNCHANGED <<truth, since, cache, got, copy, shown, excused>>

ReadRow(h) ==
    /\ Move(h, "read", "fill")
    /\ got' = [got EXCEPT ![h] = truth]
    /\ UNCHANGED <<truth, since, cache, copy, shown, excused>>

\* Mutant of Fill: the key is set without an expiry.
MutantNoExpiry(h) ==
    /\ Move(h, "fill", "idle")
    /\ cache' = [version |-> got[h], left |-> Horizon + 2]
    /\ Answer(got[h])
    /\ got' = [got EXCEPT ![h] = 0]
    /\ UNCHANGED <<truth, since, excused>>

Fill(h) ==
    /\ Move(h, "fill", "idle")
    /\ cache' = [version |-> got[h], left |-> Ttl]
    /\ Answer(got[h])
    /\ got' = [got EXCEPT ![h] = 0]
    /\ UNCHANGED <<truth, since, excused>>

\* The browser's own copy, without a call.
Reuse ==
    /\ copy.left > 0
    /\ shown' = since[copy.version]
    /\ UNCHANGED <<truth, since, cache, pc, got, age, copy, excused>>

-----------------------------------------------------------------------------
(* A write: an update of the user's row, create and update of the services *)

Write(h) ==
    /\ truth < MaxVersion
    /\ truth' = truth + 1
    /\ Move(h, "idle", IF Invalidates THEN "del" ELSE "idle")
    /\ excused' = (excused \/ \E g \in Handlers : pc[g] = "fill")
    /\ UNCHANGED <<since, cache, got, copy, shown>>

\* Mutant of Invalidate: the DEL comes before the row's update, so it finds
\* nothing that is out of date.
MutantNoDel(h) ==
    /\ Move(h, "del", "idle")
    /\ UNCHANGED <<truth, since, cache, got, copy, shown, excused>>

Invalidate(h) ==
    /\ Move(h, "del", "idle")
    /\ cache' = Nothing
    /\ UNCHANGED <<truth, since, got, copy, shown, excused>>

Fail(h) ==
    /\ pc[h] # "idle"
    /\ Move(h, pc[h], "idle")
    /\ got' = [got EXCEPT ![h] = 0]
    /\ excused' = (excused \/ pc[h] = "del")
    /\ UNCHANGED <<truth, since, cache, copy, shown>>

Tick ==
    /\ \A h \in Handlers : pc[h] # "idle" => age[h] < MaxCall
    /\ since' = [v \in 1 .. MaxVersion |-> IF v < truth THEN Cap(since[v] + 1) ELSE 0]
    /\ cache' = Passed(cache)
    /\ copy' = Passed(copy)
    /\ age' = [h \in Handlers |-> IF pc[h] = "idle" THEN 0 ELSE age[h] + 1]
    /\ UNCHANGED <<truth, pc, got, shown, excused>>

-----------------------------------------------------------------------------
Next ==
    \/ \E h \in Handlers :
        \/ ReadHit(h) \/ ReadMiss(h) \/ ReadRow(h) \/ Fill(h)
        \/ Write(h) \/ Invalidate(h) \/ Fail(h)
    \/ Reuse
    \/ Tick

Spec == Init /\ [][Next]_vars

-----------------------------------------------------------------------------
TypeOK ==
    /\ truth \in Nat
    /\ since \in [1 .. MaxVersion -> Nat]
    /\ cache \in [version : Nat, left : Nat]
    /\ pc \in [Handlers -> {"idle", "read", "fill", "del"}]
    /\ got \in [Handlers -> Nat]
    /\ age \in [Handlers -> Nat]
    /\ copy \in [version : Nat, left : Nat]
    /\ shown \in Nat
    /\ excused \in BOOLEAN

\* "A role change takes effect within the TTL window", and so does every other
\* cached value: whatever overlaps, nothing is used longer after it changed than
\* the key lives, a call lasts and the browser keeps its copy.
ChangeTakesEffect == shown <= Ttl + MaxCall + MaxAge

\* Where a write invalidates, the key only holds an old version while the write
\* is on its way to its DEL, or when a read that overlapped it put it back.
InvalidationWorks ==
    Invalidates /\ ~excused /\ cache.left > 0 /\ cache.version # truth =>
        \E h \in Handlers : pc[h] = "del"
=============================================================================
