------------------------------ MODULE Accounts ------------------------------
(***************************************************************************)
(* The components of an account side by side, with the login of a tab and  *)
(* the page of a request: one-time codes (module Otp is extended), the     *)
(* windows that limit them, the two kinds of cached reads, the avatar, the *)
(* browsers at a request and a tab.  They share no row and no key, so a    *)
(* step of the whole is a step of one of them.                             *)
(***************************************************************************)
EXTENDS Otp

CONSTANTS
    Second, HourWindow, HourLimit, DayWindow, DayLimit,
    MaxClock, MaxRequests,       \* RateLimit
    GuardTtl,                    \* ReadCache as system-role and verified-phone
    ListTtl, ListAge,            \* ReadCache as categories:list and skills:list
    MaxRead, MaxVersion,         \* both
    MaxKeys,                     \* Avatars
    Owner, Providers, Pages, MaxActs, MaxElsewhere,           \* RequestPage
    Calls, MaxSignIns, MaxRotations                           \* SignIn

VARIABLES
    clock, requests, hour, day, accepted, until,                                         \* Rate
    phone, outdated, known, guard, checked, spent, reuse, seen, slipped,                 \* Guard
    truth, since, cache, reader, read, taken, copy, shown, excused,                      \* List
    files, storageKey, drawn, task, new, previous, doomed, disturbed,                    \* Avatar
    status, offer, elsewhere, view, load, detail, list, offers, acts, made, busy, stale, \* Page
    signIns, live, jar, fresh, user, loading, page, step, call, refresh, tangled        \* Tab

rateVars == <<clock, requests, hour, day, accepted, until>>
guardVars == <<phone, outdated, known, guard, checked, spent, reuse, seen, slipped>>
listVars == <<truth, since, cache, reader, read, taken, copy, shown, excused>>
avatarVars == <<files, storageKey, drawn, task, new, previous, doomed, disturbed>>
pageVars == <<status, offer, elsewhere, view, load, detail, list, offers, acts, made, busy, stale>>
tabVars == <<signIns, live, jar, fresh, user, loading, page, step, call, refresh, tangled>>

Rate == INSTANCE RateLimit

\* No write deletes these keys, and no browser keeps the answer.
Guard == INSTANCE ReadCache WITH
    Ttl <- GuardTtl, MaxAge <- 0, Invalidates <- FALSE, MaxCall <- MaxRead,
    truth <- phone, since <- outdated, cache <- known, pc <- guard, got <- checked,
    age <- spent, copy <- reuse, shown <- seen, excused <- slipped

List == INSTANCE ReadCache WITH
    Ttl <- ListTtl, MaxAge <- ListAge, Invalidates <- TRUE, MaxCall <- MaxRead,
    pc <- reader, got <- read, age <- taken

Avatar == INSTANCE Avatars WITH pc <- task, keys <- drawn

Page == INSTANCE RequestPage WITH excused <- stale

Tab == INSTANCE SignIn

ASSUME AccountsAssumption ==
    /\ OtpAssumption
    /\ Rate!RateLimitAssumption
    /\ Guard!ReadCacheAssumption
    /\ List!ReadCacheAssumption
    /\ MaxKeys \in Nat
    /\ Page!RequestPageAssumption
    /\ Tab!SignInAssumption

accountsVars == <<vars, rateVars, guardVars, listVars, avatarVars, pageVars, tabVars>>

AccountsInit ==
    /\ Init
    /\ Rate!Init
    /\ Guard!Init
    /\ List!Init
    /\ Avatar!Init
    /\ Page!Init
    /\ Tab!Init

OtpStep == Next /\ UNCHANGED <<rateVars, guardVars, listVars, avatarVars, pageVars, tabVars>>
RateStep == Rate!Next /\ UNCHANGED <<vars, guardVars, listVars, avatarVars, pageVars, tabVars>>
GuardStep == Guard!Next /\ UNCHANGED <<vars, rateVars, listVars, avatarVars, pageVars, tabVars>>
ListStep == List!Next /\ UNCHANGED <<vars, rateVars, guardVars, avatarVars, pageVars, tabVars>>
AvatarStep == Avatar!Next /\ UNCHANGED <<vars, rateVars, guardVars, listVars, pageVars, tabVars>>
PageStep == Page!Next /\ UNCHANGED <<vars, rateVars, guardVars, listVars, avatarVars, tabVars>>
TabStep == Tab!Next /\ UNCHANGED <<vars, rateVars, guardVars, listVars, avatarVars, pageVars>>

AccountsNext ==
    OtpStep \/ RateStep \/ GuardStep \/ ListStep \/ AvatarStep \/ PageStep \/ TabStep

AccountsSpec == AccountsInit /\ [][AccountsNext]_accountsVars

-----------------------------------------------------------------------------
\* Every component's state is of its type.
AccountsTypeOK ==
    /\ TypeOK
    /\ Rate!TypeOK
    /\ Guard!TypeOK
    /\ List!TypeOK
    /\ Avatar!TypeOK
    /\ Page!TypeOK
    /\ Tab!TypeOK

\* The components' properties, under their own names.
LimitHolds == Rate!LimitHolds
RetryAfterNeeded == Rate!RetryAfterNeeded
ChangeTakesEffect == Guard!ChangeTakesEffect /\ List!ChangeTakesEffect
InvalidationWorks == List!InvalidationWorks
NamedFilesExist == Avatar!NamedFilesExist
NothingLeftBehind == Avatar!NothingLeftBehind
StaleOnlyByOthers == Page!StaleOnlyByOthers
ShownIsTrue == Tab!ShownIsTrue
=============================================================================
