------------------------------ MODULE Exchange ------------------------------
(***************************************************************************)
(* The components of the exchange side by side: reviews (module Reviews is *)
(* extended), the market with one call at a time, a conversation, the      *)
(* public list, the wizard, the request form, and the clean-up script, the *)
(* text messages and the seed script.  They meet in rows that each module  *)
(* says it leaves to another, so a step of the whole is a step of one.     *)
(***************************************************************************)
EXTENDS Reviews, Sequences

CONSTANTS
    Providers, NoProvider,                          \* Offers
    PageSize, Old, MaxMessages,                     \* Thread
    Posts, TextCriteria, PickedCriteria, Meets,
    Limit, MaxTier, MaxClock, MaxLoads,             \* Listing
    MaxRetries, MaxPrompts, MaxSessions,            \* AiDraft
    Contents, Valid, MaxRequests, MaxCalls,         \* NewRequest
    Accounts, TestUsers, OldUsers, PerTable,        \* Cleanup
    Jobs,                                           \* SmsJobs
    SeedPlan, Editable, ActiveRows, MaxEdits        \* Seed

VARIABLES
    reqStatus, offerCount, offer, conv, handler, who, held, todo,             \* Deal
    stage, mine, readAt, lastAt, joined, wire, reply, shown, older,
    moreOlder, asking, answer, late,                                          \* Chat
    status, listTier, listRankAt, clock, filters, typed, timers, generation,
    fetches, items, below, hasMore, loading, loadingMore, error, moved,       \* Board
    sessions, turn, session, base, attempts, result, tokens, sessionId,
    chat, extracted, manual, sending, clashed,                                \* Wizard
    rows, isActive, admin, calls, form, preview, pending, overtaken,          \* Form
    users, needs, links, script, candidates, planned, quiet,                  \* Script
    job, stalls, texts,                                                       \* Sms
    written, changed, inactive, taken, lateEdits, line, outcome, edits        \* Rows

dealVars == <<reqStatus, offerCount, offer, conv, handler, who, held, todo>>
chatVars == <<stage, mine, readAt, lastAt, joined, wire, reply, shown, older, moreOlder,
    asking, answer, late>>
boardVars == <<status, listTier, listRankAt, clock, filters, typed, timers, generation,
    fetches, items, below, hasMore, loading, loadingMore, error, moved>>
wizardVars == <<sessions, turn, session, base, attempts, result, tokens, sessionId, chat,
    extracted, manual, sending, clashed>>
formVars == <<rows, isActive, admin, calls, form, preview, pending, overtaken>>
scriptVars == <<users, needs, links, script, candidates, planned, quiet>>
smsVars == <<job, stalls, texts>>
seedVars == <<written, changed, inactive, taken, lateEdits, line, outcome, edits>>

Deal == INSTANCE Offers WITH Handlers <- {"call"}, pc <- handler

Chat == INSTANCE Thread WITH messages <- shown, cursor <- older, hasMore <- moreOlder

Board == INSTANCE Listing WITH
    Requests <- Posts,
    draft <- typed, calls <- fetches, cursor <- below

Wizard == INSTANCE AiDraft WITH
    MaxMessages <- MaxPrompts,
    pc <- turn, messages <- chat, draft <- extracted, overlapped <- clashed

Form == INSTANCE NewRequest WITH draft <- preview

Script == INSTANCE Cleanup WITH Users <- Accounts, step <- script

Sms == INSTANCE SmsJobs WITH state <- job

Rows == INSTANCE Seed WITH Plan <- SeedPlan, late <- lateEdits, next <- line

ASSUME ExchangeAssumption ==
    /\ NoProvider \notin Providers /\ IsFiniteSet(Providers)
    /\ Chat!ThreadAssumption
    /\ Board!ListingAssumption
    /\ Wizard!AiDraftAssumption
    /\ Form!NewRequestAssumption
    /\ Script!CleanupAssumption
    /\ Rows!SeedAssumption

exchangeVars == <<vars, dealVars, chatVars, boardVars, wizardVars, formVars, scriptVars,
    smsVars, seedVars>>

ExchangeInit ==
    /\ Init
    /\ Deal!Init
    /\ Chat!Init
    /\ Board!Init
    /\ Wizard!Init
    /\ Form!Init
    /\ Script!Init
    /\ Sms!Init
    /\ Rows!Init

ReviewsStep ==
    /\ Next
    /\ UNCHANGED <<dealVars, chatVars, boardVars, wizardVars, formVars, scriptVars, smsVars, seedVars>>
DealStep ==
    /\ Deal!Next
    /\ UNCHANGED <<vars, chatVars, boardVars, wizardVars, formVars, scriptVars, smsVars, seedVars>>
ChatStep ==
    /\ Chat!Next
    /\ UNCHANGED <<vars, dealVars, boardVars, wizardVars, formVars, scriptVars, smsVars, seedVars>>
BoardStep ==
    /\ Board!Next
    /\ UNCHANGED <<vars, dealVars, chatVars, wizardVars, formVars, scriptVars, smsVars, seedVars>>
WizardStep ==
    /\ Wizard!Next
    /\ UNCHANGED <<vars, dealVars, chatVars, boardVars, formVars, scriptVars, smsVars, seedVars>>
FormStep ==
    /\ Form!Next
    /\ UNCHANGED <<vars, dealVars, chatVars, boardVars, wizardVars, scriptVars, smsVars, seedVars>>
ScriptStep ==
    /\ Script!Next
    /\ UNCHANGED <<vars, dealVars, chatVars, boardVars, wizardVars, formVars, smsVars, seedVars>>
SmsStep ==
    /\ Sms!Next
    /\ UNCHANGED <<vars, dealVars, chatVars, boardVars, wizardVars, formVars, scriptVars, seedVars>>
SeedStep ==
    /\ Rows!Next
    /\ UNCHANGED <<vars, dealVars, chatVars, boardVars, wizardVars, formVars, scriptVars, smsVars>>

ExchangeNext ==
    \/ ReviewsStep \/ DealStep \/ ChatStep \/ BoardStep \/ WizardStep \/ FormStep
    \/ ScriptStep \/ SmsStep \/ SeedStep

ExchangeSpec == ExchangeInit /\ [][ExchangeNext]_exchangeVars

-----------------------------------------------------------------------------
\* Every component's state is of its type.
ExchangeTypeOK ==
    /\ TypeOK
    /\ Deal!TypeOK
    /\ Chat!TypeOK
    /\ Board!TypeOK
    /\ Wizard!TypeOK
    /\ Form!TypeOK
    /\ Script!TypeOK
    /\ Sms!TypeOK
    /\ Rows!TypeOK

\* The components' properties, under their own names.
ImplementsMarket == Deal!ImplementsMarket
RenderedOnce == Chat!RenderedOnce
NoneSkippedOrRepeated == Board!NoneSkippedOrRepeated
ShownFits == Board!ShownFits
TurnsSurvive == Wizard!TurnsSurvive
PreviewIsTheRow == Form!PreviewIsTheRow
InactiveOnlyOvertaken == Form!InactiveOnlyOvertaken
QuietRunSucceeds == Script!QuietRunSucceeds
JobsEnd == Sms!JobsEnd
RunsConverge == Rows!RunsConverge
=============================================================================
