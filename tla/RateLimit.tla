------------------------------ MODULE RateLimit ------------------------------
(***************************************************************************)
(* The sliding windows of apps/api/src/auth/rate-limit for one identifier: *)
(* an hourly and a daily window over the same calls, as phones and IPs     *)
(* have them.  A sorted set holds a member for each call counted, with the *)
(* time of the call as its score; the Lua script of redis.service.ts is    *)
(* one step, and the clock it is given is in milliseconds, of which the    *)
(* retryAfter it answers with is rounded up to whole seconds.  EXPIRE      *)
(* drops the key no sooner than its last member is out of the window.      *)
(*                                                                         *)
(* MaxClock and MaxRequests bound the model.                               *)
(***************************************************************************)
EXTENDS Integers, FiniteSets

CONSTANTS
    Second,                  \* 1000 ms
    HourWindow, HourLimit,   \* windowMs of 3600 s, phoneHourlyLimit or ipHourlyLimit
    DayWindow, DayLimit,     \* windowMs of 86400 s, phoneDailyLimit or ipDailyLimit
    MaxClock, MaxRequests

RateLimitAssumption ==
    /\ {Second, HourWindow, HourLimit, DayWindow, DayLimit} \subseteq Nat \ {0}
    /\ {MaxClock, MaxRequests} \subseteq Nat

VARIABLES
    clock,
    requests,    \* calls so far: the number of one is its member's random part
    hour, day,   \* the sorted sets: pairs of a score and a member
    accepted,    \* history: the calls let through, likewise
    until        \* history: the latest end of a retryAfter that a caller was told

vars == <<clock, requests, hour, day, accepted, until>>

-----------------------------------------------------------------------------
Score(entry) == entry[1]
Entry == <<clock, requests + 1>>

\* ZREMRANGEBYSCORE and ZADD: the call itself is one of those it counts.
Counted(w, window) == {e \in w : Score(e) > clock - window} \cup {Entry}

\* Mutant of Allowed: ZCARD before ZADD.
MutantCountFirst(w, limit) == Cardinality(w \ {Entry}) <= limit

Allowed(w, limit) == Cardinality(w) <= limit

\* math.ceil(ms / 1000), and one at least.
InSeconds(ms) ==
    LET ceil == (ms + Second - 1) \div Second
    IN  IF ceil < 1 THEN 1 ELSE ceil

\* Mutant of RetryAfter: from the call just counted instead of the oldest one.
MutantRetryFromNewest(w, window) == InSeconds(window)

\* The seconds after which the oldest call counted has left the window.
RetryAfter(w, window) ==
    LET oldest == CHOOSE e \in w : \A other \in w : Score(e) <= Score(other)
    IN  InSeconds(Score(oldest) + window - clock)

Init ==
    /\ clock = 0
    /\ requests = 0
    /\ hour = {}
    /\ day = {}
    /\ accepted = {}
    /\ until = 0

Refuse(retryAfter) ==
    /\ LET end == clock + retryAfter * Second IN
       until' = IF end > until THEN end ELSE until
    /\ UNCHANGED accepted

\* checkPhoneRequestLimits, checkIpRequestLimits: refused by the hour, a call is
\* not counted by the day.
Call ==
    LET inHour == Counted(hour, HourWindow)
        inDay == Counted(day, DayWindow) IN
    /\ requests < MaxRequests
    /\ requests' = requests + 1
    /\ hour' = inHour
    /\ \/ /\ ~Allowed(inHour, HourLimit)
          /\ Refuse(RetryAfter(inHour, HourWindow))
          /\ UNCHANGED day
       \/ /\ Allowed(inHour, HourLimit)
          /\ ~Allowed(inDay, DayLimit)
          /\ day' = inDay
          /\ Refuse(RetryAfter(inDay, DayWindow))
       \/ /\ Allowed(inHour, HourLimit)
          /\ Allowed(inDay, DayLimit)
          /\ day' = inDay
          /\ accepted' = accepted \cup {Entry}
          /\ UNCHANGED until
    /\ UNCHANGED clock

Tick ==
    /\ clock < MaxClock
    /\ clock' = clock + 1
    /\ UNCHANGED <<requests, hour, day, accepted, until>>

Next == Call \/ Tick

Spec == Init /\ [][Next]_vars

-----------------------------------------------------------------------------
TypeOK ==
    /\ clock \in 0 .. MaxClock
    /\ requests \in 0 .. MaxRequests
    /\ {hour, day, accepted} \subseteq SUBSET ((0 .. clock) \X (1 .. requests))
    /\ until \in Nat

\* Wherever a window is laid over time, the calls let through in it are no more
\* than its limit, the rejected calls that "still occupy a slot" included or not.
LimitHolds ==
    \A end \in 0 .. clock :
        /\ Cardinality({e \in accepted : Score(e) \in end - HourWindow + 1 .. end}) <= HourLimit
        /\ Cardinality({e \in accepted : Score(e) \in end - DayWindow + 1 .. end}) <= DayLimit

\* A Retry-After is never a second longer than it has to be: until its last
\* second, the one it was rounded up to, every call would be refused, whoever
\* makes it and whatever other calls are counted meanwhile.  (In that second a
\* call may be let through, and after it one may still be refused, since each
\* refused call is counted.)
RetryAfterNeeded ==
    clock + Second <= until =>
        ~ /\ Allowed(Counted(hour, HourWindow), HourLimit)
          /\ Allowed(Counted(day, DayWindow), DayLimit)
=============================================================================
