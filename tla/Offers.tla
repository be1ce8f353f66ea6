------------------------------- MODULE Offers -------------------------------
(***************************************************************************)
(* apps/api/src/offers and publish of apps/api/src/requests, for one       *)
(* request (requests share no row with one another).                       *)
(*                                                                         *)
(* A handler is one HTTP call in progress: the seeker's or a provider's    *)
(* browser may have several open.  Each database statement, or run of      *)
(* statements of which only the last is visible or can block, is a step.   *)
(* Isolation is READ COMMITTED: plain reads take no lock, an UPDATE waits  *)
(* for the row's lock and then writes; updateMany re-evaluates its WHERE   *)
(* on a row it had to wait for.  Only select holds row locks from one step *)
(* to the next; its writes are buffered until SelectCommit.                *)
(*                                                                         *)
(* Abstracted: the terms of an offer and its revisionCount, the text of    *)
(* the system message, profile completeness (Providers are complete) and   *)
(* the ownership guards, which read columns nothing ever writes.           *)
(***************************************************************************)
EXTENDS Integers, FiniteSets

CONSTANTS
    Providers,   \* users other than the owner, with a complete profile
    NoProvider,
    Handlers     \* HTTP calls in progress

ASSUME OffersAssumption == NoProvider \notin Providers /\ IsFiniteSet(Providers)

VARIABLES
    reqStatus,   \* requests.status
    offerCount,  \* requests.offerCount
    offer,       \* the status of each provider's offer, "none" without a row
    conv,        \* providers whose offer has a conversation (offerId is unique there)
    pc, who,     \* per handler: where it is, and whose offer it is about
    held,        \* offers a select transaction has updated, and so locked
    todo         \* offers its updateMany has found PENDING and not reached yet

vars == <<reqStatus, offerCount, offer, conv, pc, who, held, todo>>
tables == <<reqStatus, offerCount, offer, conv>>

OfferStatus == {"none", "PENDING", "SELECTED", "REJECTED", "WITHDRAWN"}

-----------------------------------------------------------------------------
Locked(p) == \E h \in Handlers : p \in held[h]

\* A handler goes on with the offer of p / answers its caller.
Continue(h, label, p) ==
    /\ pc' = [pc EXCEPT ![h] = label]
    /\ who' = [who EXCEPT ![h] = p]

Answer(h) ==
    /\ Continue(h, "idle", NoProvider)
    /\ held' = [held EXCEPT ![h] = {}]
    /\ todo' = [todo EXCEPT ![h] = {}]

\* h cannot go on before g ends its transaction.
WaitsFor(h, g) ==
    \/ pc[h] \in {"select", "withdraw", "resubmit"} /\ who[h] \in held[g]
    \/ pc[h] = "reject" /\ g # h /\ todo[h] \cap held[g] # {}

Init ==
    /\ reqStatus = "DRAFT"
    /\ offerCount = 0
    /\ offer = [p \in Providers |-> "none"]
    /\ conv = {}
    /\ pc = [h \in Handlers |-> "idle"]
    /\ who = [h \in Handlers |-> NoProvider]
    /\ held = [h \in Handlers |-> {}]
    /\ todo = [h \in Handlers |-> {}]

-----------------------------------------------------------------------------
(* publish: a read and an unconditional update by id *)

PublishCheck(h) ==
    /\ pc[h] = "idle"
    /\ reqStatus = "DRAFT"
    /\ Continue(h, "publish", NoProvider)
    /\ UNCHANGED <<tables, held, todo>>

PublishWrite(h) ==
    /\ pc[h] = "publish"
    /\ reqStatus' = "PUBLISHED"
    /\ Answer(h)
    /\ UNCHANGED <<offerCount, offer, conv>>

-----------------------------------------------------------------------------
(* submit *)

\* The request is PUBLISHED; later steps do not look at it again.
SubmitCheckRequest(h, p) ==
    /\ pc[h] = "idle"
    /\ reqStatus = "PUBLISHED"
    /\ Continue(h, "submit", p)
    /\ UNCHANGED <<tables, held, todo>>

\* The provider's existing offer decides between create, update and a refusal.
SubmitReadExisting(h) ==
    LET p == who[h] IN
    /\ pc[h] = "submit"
    /\ Continue(h, CASE offer[p] = "none" -> "create"
                     [] offer[p] = "WITHDRAWN" -> "resubmit"
                     [] OTHER -> "idle",
                   IF offer[p] \in {"none", "WITHDRAWN"} THEN p ELSE NoProvider)
    /\ UNCHANGED <<tables, held, todo>>

\* The transaction: row and counter together, or neither when the unique key
\* (requestId, providerId) is taken by now.
SubmitCreate(h) ==
    LET p == who[h] IN
    /\ pc[h] = "create"
    /\ IF offer[p] = "none"
         THEN /\ offer' = [offer EXCEPT ![p] = "PENDING"]
              /\ offerCount' = offerCount + 1
         ELSE UNCHANGED <<offer, offerCount>>
    /\ Answer(h)
    /\ UNCHANGED <<reqStatus, conv>>

\* Mutant of SubmitAgain: a re-submit counts as another offer.
MutantCountAgain(h) ==
    LET p == who[h] IN
    /\ pc[h] = "resubmit"
    /\ ~Locked(p)
    /\ offer' = [offer EXCEPT ![p] = "PENDING"]
    /\ offerCount' = offerCount + 1
    /\ Answer(h)
    /\ UNCHANGED <<reqStatus, conv>>

\* The re-submit: an update by id, outside any transaction.
SubmitAgain(h) ==
    LET p == who[h] IN
    /\ pc[h] = "resubmit"
    /\ ~Locked(p)
    /\ offer' = [offer EXCEPT ![p] = "PENDING"]
    /\ Answer(h)
    /\ UNCHANGED <<reqStatus, offerCount, conv>>

-----------------------------------------------------------------------------
(* withdraw: a read and an unconditional update by id *)

\* Mutant of WithdrawCheck: a decided offer can be withdrawn.
MutantWithdrawAny(h, p) ==
    /\ pc[h] = "idle"
    /\ offer[p] # "none"
    /\ Continue(h, "withdraw", p)
    /\ UNCHANGED <<tables, held, todo>>

WithdrawCheck(h, p) ==
    /\ pc[h] = "idle"
    /\ offer[p] = "PENDING"
    /\ Continue(h, "withdraw", p)
    /\ UNCHANGED <<tables, held, todo>>

\* Mutant of WithdrawWrite: offerCount follows the offers that are open.
MutantUncount(h) ==
    LET p == who[h] IN
    /\ pc[h] = "withdraw"
    /\ ~Locked(p)
    /\ offer' = [offer EXCEPT ![p] = "WITHDRAWN"]
    /\ offerCount' = offerCount - 1
    /\ Answer(h)
    /\ UNCHANGED <<reqStatus, conv>>

WithdrawWrite(h) ==
    LET p == who[h] IN
    /\ pc[h] = "withdraw"
    /\ ~Locked(p)
    /\ offer' = [offer EXCEPT ![p] = "WITHDRAWN"]
    /\ Answer(h)
    /\ UNCHANGED <<reqStatus, offerCount, conv>>

-----------------------------------------------------------------------------
(* select: one transaction *)

\* The reads and their two checks.
SelectCheck(h, p) ==
    /\ pc[h] = "idle"
    /\ offer[p] = "PENDING"
    /\ reqStatus = "PUBLISHED"
    /\ Continue(h, "select", p)
    /\ UNCHANGED <<tables, held, todo>>

\* Mutant of SelectLock: the offer is updated through prisma, not through tx.
MutantOutsideTx(h) ==
    LET p == who[h] IN
    /\ pc[h] = "select"
    /\ ~Locked(p)
    /\ pc' = [pc EXCEPT ![h] = "reject"]
    /\ offer' = [offer EXCEPT ![p] = "SELECTED"]
    /\ todo' = [todo EXCEPT ![h] = {q \in Providers \ {p} : offer[q] = "PENDING"}]
    /\ UNCHANGED <<reqStatus, offerCount, conv, who, held>>

\* The offer's row is updated by id, which locks it; the updateMany starts and
\* finds the others that are PENDING now.
SelectLock(h) ==
    LET p == who[h] IN
    /\ pc[h] = "select"
    /\ ~Locked(p)
    /\ pc' = [pc EXCEPT ![h] = "reject"]
    /\ held' = [held EXCEPT ![h] = {p}]
    /\ todo' = [todo EXCEPT ![h] = {q \in Providers \ {p} : offer[q] = "PENDING"}]
    /\ UNCHANGED <<tables, who>>

\* The updateMany reaches a row: it is updated if it is still PENDING.
RejectOther(h, q) ==
    /\ pc[h] = "reject"
    /\ q \in todo[h]
    /\ ~Locked(q)
    /\ todo' = [todo EXCEPT ![h] = @ \ {q}]
    /\ held' = IF offer[q] = "PENDING" THEN [held EXCEPT ![h] = @ \cup {q}] ELSE held
    /\ UNCHANGED <<tables, pc, who>>

\* Request update, conversation, system message and COMMIT.
SelectCommit(h) ==
    LET p == who[h] IN
    /\ pc[h] = "reject"
    /\ todo[h] = {}
    /\ p \notin conv
    /\ offer' = [q \in Providers |->
                    IF q = p THEN "SELECTED"
                    ELSE IF q \in held[h] THEN "REJECTED" ELSE offer[q]]
    /\ reqStatus' = "OFFER_SELECTED"
    /\ conv' = conv \cup {p}
    /\ Answer(h)
    /\ UNCHANGED offerCount

\* Mutant of SelectDuplicate: the transaction is left open.
MutantLeakTx(h) ==
    /\ pc[h] = "reject"
    /\ todo[h] = {}
    /\ who[h] \in conv
    /\ Continue(h, "idle", NoProvider)
    /\ UNCHANGED <<tables, held, todo>>

\* The conversation's unique offerId is taken: the transaction rolls back.
SelectDuplicate(h) ==
    /\ pc[h] = "reject"
    /\ todo[h] = {}
    /\ who[h] \in conv
    /\ Answer(h)
    /\ UNCHANGED tables

-----------------------------------------------------------------------------
(* Failure *)

\* Postgres breaks a cycle of lock waits by aborting one of its transactions.
DeadlockVictim(h) ==
    /\ pc[h] = "reject"
    /\ \E S \in SUBSET Handlers : h \in S /\ \A f \in S : \E g \in S : WaitsFor(f, g)
    /\ Answer(h)
    /\ UNCHANGED tables

\* The connection or the process is lost, or the transaction times out.
Fail(h) ==
    /\ pc[h] # "idle"
    /\ Answer(h)
    /\ UNCHANGED tables

-----------------------------------------------------------------------------
Proceed(h) ==
    \/ PublishWrite(h)
    \/ SubmitReadExisting(h) \/ SubmitCreate(h) \/ SubmitAgain(h)
    \/ WithdrawWrite(h)
    \/ SelectLock(h) \/ (\E q \in Providers : RejectOther(h, q))
    \/ SelectCommit(h) \/ SelectDuplicate(h)

Next ==
    \E h \in Handlers :
        \/ PublishCheck(h)
        \/ \E p \in Providers : SubmitCheckRequest(h, p) \/ WithdrawCheck(h, p) \/ SelectCheck(h, p)
        \/ Proceed(h)
        \/ DeadlockVictim(h)
        \/ Fail(h)

Spec == Init /\ [][Next]_vars

\* A call goes on when it can, waiters of a row lock are served in order, and a
\* deadlock is detected.  No call has to be made, and none has to fail.
Fairness == \A h \in Handlers : SF_vars(Proceed(h)) /\ WF_vars(DeadlockVictim(h))

FairSpec == Spec /\ Fairness

-----------------------------------------------------------------------------
(* Properties that hold however calls overlap and fail *)

TypeOK ==
    /\ reqStatus \in {"DRAFT", "PUBLISHED", "OFFER_SELECTED"}
    /\ offerCount \in Nat
    /\ offer \in [Providers -> OfferStatus]
    /\ conv \subseteq Providers
    /\ pc \in [Handlers -> {"idle", "publish", "submit", "create", "resubmit",
                            "withdraw", "select", "reject"}]
    /\ who \in [Handlers -> Providers \cup {NoProvider}]
    /\ held \in [Handlers -> SUBSET Providers]
    /\ todo \in [Handlers -> SUBSET Providers]

\* offerCount is "how many offers has this request ever received": a re-submit,
\* a double click or a rolled back create does not count.
OfferCountExact == offerCount = Cardinality({p \in Providers : offer[p] # "none"})

\* The pieces of a selection appear together: a SELECTED offer has its
\* conversation, an offer is only REJECTED because of another's conversation,
\* and nothing is offered or decided on a request that was never published.
SelectionIsWhole ==
    \A p \in Providers :
        /\ offer[p] = "SELECTED" => p \in conv
        /\ offer[p] = "REJECTED" => conv \ {p} # {}
        /\ p \in conv => offer[p] # "none"
        /\ reqStatus = "DRAFT" => offer[p] = "none"

\* A row lock belongs to one select, and a row updated by it is as it was found:
\* no withdraw or re-submit slips in before the commit.
LockedRowsStable ==
    \A h, g \in Handlers :
        /\ held[h] \cap held[g] # {} => h = g
        /\ \A q \in held[h] \ {who[h]} : offer[q] = "PENDING"

\* Every call comes to an end: row locks never leave callers waiting on each other.
CallsEnd == \A h \in Handlers : pc[h] # "idle" ~> pc[h] = "idle"

-----------------------------------------------------------------------------
(* Properties of calls that do not overlap *)

\* One call at a time, the component is the Market.
MarketSpec == INSTANCE Market WITH
    Providers <- Providers, reqStatus <- reqStatus, offer <- offer, conv <- conv
ImplementsMarket == MarketSpec!Spec

-----------------------------------------------------------------------------
(* What the repository says and overlapping calls break *)

\* "reject them explicitly so providers see a clear outcome instead of being left
\* PENDING forever on a request that already moved on"
NoneLeftPending == reqStatus = "OFFER_SELECTED" => \A p \in Providers : offer[p] # "PENDING"

\* Selecting one offer makes it SELECTED and the rest REJECTED.
OneSelected == \A p, q \in Providers : offer[p] = "SELECTED" /\ offer[q] = "SELECTED" => p = q
===============================================================================
