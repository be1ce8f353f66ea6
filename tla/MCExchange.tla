----------------------------- MODULE MCExchange -----------------------------
(***************************************************************************)
(* Exchange for TLC: since its components share no state, a behaviour in   *)
(* which one of them takes steps shows what that one can do.               *)
(***************************************************************************)
EXTENDS Exchange

VARIABLE part

Data == INSTANCE SeedRows

\* The seed as main() has it; a search and a category that share one request.
MCSeedPlan == Data!Plan
MCEditable == {<<"category", "thesis-review", "">>, <<"skill", "python", "">>}
MCActiveRows == Data!ActiveRequests
MCMeets == [search |-> {1, 2}, category |-> {2, 3}]

ASSUME Data!MarketWhole

MCInit ==
    /\ part \in {"reviews", "market", "thread", "listing", "wizard", "form", "cleanup", "sms",
                 "seed"}
    /\ ExchangeInit
    \* One initial state for the components that stand still.
    /\ part # "thread" => mine = {}
    /\ part # "listing" => \A r \in Posts : status[r] = "draft" /\ listRankAt[r] = 0
    /\ part # "form" => form = "bad"

MCNext ==
    /\ UNCHANGED part
    /\ \/ part = "reviews" /\ ReviewsStep
       \/ part = "market" /\ DealStep
       \/ part = "thread" /\ ChatStep
       \/ part = "listing" /\ BoardStep
       \/ part = "wizard" /\ WizardStep
       \/ part = "form" /\ FormStep
       \/ part = "cleanup" /\ ScriptStep
       \/ part = "sms" /\ SmsStep
       \/ part = "seed" /\ SeedStep

\* SmsJobs!FairSpec asks for a worker; the others assume no fairness.
MCSpec ==
    /\ MCInit /\ [][MCNext]_<<part, exchangeVars>>
    /\ \A j \in Jobs : WF_smsVars(Sms!Work(j))
=============================================================================
