------------------------------ MODULE Payments ------------------------------
(***************************************************************************)
(* apps/api/src/payments: checkout, the gateway's callback and the stale-  *)
(* order reconciliation job, down to the statement boundaries at which     *)
(* they interleave.                                                        *)
(*                                                                         *)
(* A task is one execution of processCallback, or the single worker of the *)
(* payments queue.  Both run inside a Prisma transaction that starts with  *)
(* SELECT ... FOR UPDATE on the order row: a task whose pc is in Holding   *)
(* owns that lock, its writes are buffered and become visible at the       *)
(* Commit actions, and Abort drops them (a thrown fetch, the transaction   *)
(* timeout, a crash).  Reads of the request row take no lock, as under     *)
(* READ COMMITTED.                                                         *)
(*                                                                         *)
(* Abstracted: money amounts, dates other than "older than the cut-off",   *)
(* refId/raw, log and audit rows.  reconcileStaleOrders' branch for an     *)
(* order without an authority is left out: checkout, the only writer of    *)
(* orders, always stores one.                                              *)
(***************************************************************************)
EXTENDS Integers, FiniteSets

CONSTANTS
    Orders,         \* ids of orders that may be checked out
    Requests,       \* requests a product may be bought for
    NoRequest,      \* Order.requestId = null
    NoOrder,        \* a task outside the transaction works on no order
    Callbacks,      \* concurrent executions of processCallback
    Reconciler,     \* the worker of the "payments" queue
    Products,       \* the product codes in the catalogue
    MaxPublishing   \* bound: publish handlers in flight per request

ProductCode == {"URGENT_BADGE", "BUMP", "FEATURE", "PRO_MONTHLY", "TARGETED_NOTIFY"}

ASSUME PaymentsAssumption ==
    /\ NoRequest \notin Requests
    /\ NoOrder \notin Orders
    /\ Reconciler \notin Callbacks
    /\ Products \subseteq ProductCode
    /\ MaxPublishing \in Nat

Tasks == Callbacks \cup {Reconciler}

VARIABLES
    gateway,      \* the provider's view of each order's authority
    status,       \* orders.status, "none" while there is no row
    product,      \* the product orders.productId names, "none" while there is no row
    target,       \* orders.requestId
    stale,        \* createdAt is older than the reconciliation cut-off
    ents,         \* number of entitlement rows of each order
    subscribed,   \* orders with a subscription row (orderId is unique there)
    reqStatus,    \* requests.status
    listTier,     \* requests.listTier
    badges,       \* isUrgent, isFeatured and bumpedAt # null of each request
    publishing,   \* publish handlers that read DRAFT and have not written yet
    pc, ord, seenTier,  \* per task: where it is, its order, the tier it read
    batch         \* the ids findMany returned that the worker has still to do

orderVars == <<status, product, target, stale, ents, subscribed>>
requestVars == <<reqStatus, listTier, badges, publishing>>
taskVars == <<pc, ord, seenTier>>
vars == <<gateway, orderVars, requestVars, taskVars, batch>>

-----------------------------------------------------------------------------
(* Helpers *)

\* The listTier a product raises its request to at least; 0: it leaves it alone.
Floor(p) == IF p = "FEATURE" THEN 2 ELSE IF p = "URGENT_BADGE" THEN 1 ELSE 0

Badges == {"isUrgent", "isFeatured", "bumpedAt"}

\* The columns a product sets on its request.
BadgeOf(p) ==
    CASE p = "URGENT_BADGE" -> {"isUrgent"}
      [] p = "FEATURE"      -> {"isFeatured"}
      [] p = "BUMP"         -> {"bumpedAt"}
      [] OTHER              -> {}

\* Mutant of Larger: a product adds its tier to the one that is there.
MutantAddedTier(a, b) == a + b

Larger(a, b) == IF a >= b THEN a ELSE b

\* Inside the transaction, between FOR UPDATE and COMMIT or ROLLBACK.
Holding == {"verifying", "applying", "rejecting"}

Locked(o) == \E t \in Tasks : pc[t] \in Holding /\ ord[t] = o

\* Where a task goes when its transaction ends.
Return(t) == IF t = Reconciler THEN "loop" ELSE "idle"

Become(t, label) == pc' = [pc EXCEPT ![t] = label]

\* The transaction of a task ends, and its local variables with it.
Finish(t, label) ==
    /\ Become(t, label)
    /\ ord' = [ord EXCEPT ![t] = NoOrder]
    /\ seenTier' = [seenTier EXCEPT ![t] = 0]

-----------------------------------------------------------------------------
Init ==
    /\ gateway = [o \in Orders |-> "absent"]
    /\ status = [o \in Orders |-> "none"]
    /\ product = [o \in Orders |-> "none"]
    /\ target = [o \in Orders |-> NoRequest]
    /\ stale = [o \in Orders |-> FALSE]
    /\ ents = [o \in Orders |-> 0]
    /\ subscribed = {}
    /\ reqStatus = [r \in Requests |-> "DRAFT"]
    /\ listTier = [r \in Requests |-> 0]
    /\ badges = [r \in Requests |-> {}]
    /\ publishing = [r \in Requests |-> 0]
    /\ pc = [t \in Tasks |-> "idle"]
    /\ ord = [t \in Tasks |-> NoOrder]
    /\ seenTier = [t \in Tasks |-> 0]
    /\ batch = {}

-----------------------------------------------------------------------------
(* Checkout, the user at the gateway, time *)

\* checkout, first half: paymentPort.requestPayment creates an authority.  The
\* process may die before the row is written: the authority stays orphaned.
RequestPayment(o) ==
    /\ gateway[o] = "absent"
    /\ gateway' = [gateway EXCEPT ![o] = "issued"]
    /\ UNCHANGED <<orderVars, requestVars, taskVars, batch>>

\* checkout, second half: the PENDING row, whatever the status of the request.
CreateOrder(o, p, r) ==
    /\ gateway[o] = "issued"
    /\ status[o] = "none"
    /\ status' = [status EXCEPT ![o] = "PENDING"]
    /\ product' = [product EXCEPT ![o] = p]
    /\ target' = [target EXCEPT ![o] = r]
    /\ UNCHANGED <<gateway, stale, ents, subscribed,
                   requestVars, taskVars, batch>>

\* The user completes the payment; the redirect URL came with the created row.
UserPays(o) ==
    /\ gateway[o] = "issued"
    /\ status[o] # "none"
    /\ gateway' = [gateway EXCEPT ![o] = "paid"]
    /\ UNCHANGED <<orderVars, requestVars, taskVars, batch>>

\* createdAt falls behind now - reconciliationStaleMinutes.
GrowStale(o) ==
    /\ status[o] # "none"
    /\ ~stale[o]
    /\ stale' = [stale EXCEPT ![o] = TRUE]
    /\ UNCHANGED <<gateway, status, product, target, ents, subscribed,
                   requestVars, taskVars, batch>>

-----------------------------------------------------------------------------
(* publish (requests.service): the other writer of listTier *)

\* The DRAFT check, on a row that is read without a lock.
PublishCheck(r) ==
    /\ reqStatus[r] = "DRAFT"
    /\ publishing[r] < MaxPublishing
    /\ publishing' = [publishing EXCEPT ![r] = @ + 1]
    /\ UNCHANGED <<gateway, orderVars, reqStatus, listTier, badges, taskVars, batch>>

\* The unconditional update by id, which also resets the tier.
PublishWrite(r) ==
    /\ publishing[r] > 0
    /\ publishing' = [publishing EXCEPT ![r] = @ - 1]
    /\ reqStatus' = [reqStatus EXCEPT ![r] = "PUBLISHED"]
    /\ listTier' = [listTier EXCEPT ![r] = 0]
    /\ UNCHANGED <<gateway, orderVars, badges, taskVars, batch>>

-----------------------------------------------------------------------------
(* processCallback.  An unknown authority, and the idempotent replay for an  *)
(* order that is PAID, change nothing and are stuttering steps.              *)

\* Status is not OK: the order is marked FAILED under the row lock.
CallbackNotOk(t, o) ==
    /\ pc[t] = "idle"
    /\ status[o] \in {"PENDING", "FAILED"}
    /\ ~Locked(o)
    /\ status' = [status EXCEPT ![o] = "FAILED"]
    /\ UNCHANGED <<gateway, product, target, stale, ents, subscribed,
                   requestVars, taskVars, batch>>

\* Mutant of CallbackOk: the replay of a PAID order is verified again.
MutantReplayVerifies(t, o) ==
    /\ pc[t] = "idle"
    /\ status[o] # "none"
    /\ ~Locked(o)
    /\ Become(t, "verifying")
    /\ ord' = [ord EXCEPT ![t] = o]
    /\ UNCHANGED <<gateway, orderVars, requestVars, seenTier, batch>>

\* Mutant of CallbackOk: the order is read without FOR UPDATE.
MutantNoRowLock(t, o) ==
    /\ pc[t] = "idle"
    /\ status[o] \in {"PENDING", "FAILED"}
    /\ Become(t, "verifying")
    /\ ord' = [ord EXCEPT ![t] = o]
    /\ UNCHANGED <<gateway, orderVars, requestVars, seenTier, batch>>

\* Status is OK: row locked, not PAID, and the provider is asked to verify.
CallbackOk(t, o) ==
    /\ pc[t] = "idle"
    /\ status[o] \in {"PENDING", "FAILED"}
    /\ ~Locked(o)
    /\ Become(t, "verifying")
    /\ ord' = [ord EXCEPT ![t] = o]
    /\ UNCHANGED <<gateway, orderVars, requestVars, seenTier, batch>>

-----------------------------------------------------------------------------
(* reconcileStaleOrders *)

\* Mutant of ReconcileScan: createdAt is compared with gt instead of lt.
MutantScanFresh ==
    /\ pc[Reconciler] = "idle"
    /\ batch' = {o \in Orders : status[o] = "PENDING" /\ ~stale[o]}
    /\ Become(Reconciler, "loop")
    /\ UNCHANGED <<gateway, orderVars, requestVars, ord, seenTier>>

\* findMany of the stale PENDING orders, outside any transaction.
ReconcileScan ==
    /\ pc[Reconciler] = "idle"
    /\ batch' = {o \in Orders : status[o] = "PENDING" /\ stale[o]}
    /\ Become(Reconciler, "loop")
    /\ UNCHANGED <<gateway, orderVars, requestVars, ord, seenTier>>

\* Mutant of ReconcileTake: the status found by the scan is trusted.
MutantNoRecheck(o) ==
    /\ pc[Reconciler] = "loop"
    /\ o \in batch
    /\ ~Locked(o)
    /\ batch' = batch \ {o}
    /\ ord' = [ord EXCEPT ![Reconciler] = o]
    /\ Become(Reconciler, "verifying")
    /\ UNCHANGED <<gateway, orderVars, requestVars, seenTier>>

\* One iteration: lock the row and verify, if it is still PENDING.
ReconcileTake(o) ==
    /\ pc[Reconciler] = "loop"
    /\ o \in batch
    /\ ~Locked(o)
    /\ status[o] = "PENDING"
    /\ batch' = batch \ {o}
    /\ ord' = [ord EXCEPT ![Reconciler] = o]
    /\ Become(Reconciler, "verifying")
    /\ UNCHANGED <<gateway, orderVars, requestVars, seenTier>>

\* One iteration: a callback resolved the order since the scan.
ReconcileSkip(o) ==
    /\ pc[Reconciler] = "loop"
    /\ o \in batch
    /\ ~Locked(o)
    /\ status[o] # "PENDING"
    /\ batch' = batch \ {o}
    /\ UNCHANGED <<gateway, orderVars, requestVars, taskVars>>

ReconcileDone ==
    /\ pc[Reconciler] = "loop"
    /\ batch = {}
    /\ Become(Reconciler, "idle")
    /\ UNCHANGED <<gateway, orderVars, requestVars, ord, seenTier, batch>>

-----------------------------------------------------------------------------
(* verifyAndFinalize and applyProductEffect, shared by both callers *)

\* Mutant of VerifySucceeds: the redirect's Status=OK is believed.
MutantTrustRedirect(t) ==
    /\ pc[t] = "verifying"
    /\ Become(t, "applying")
    /\ IF target[ord[t]] # NoRequest /\ Floor(product[ord[t]]) > 0
         THEN seenTier' = [seenTier EXCEPT ![t] = listTier[target[ord[t]]]]
         ELSE UNCHANGED seenTier
    /\ UNCHANGED <<gateway, orderVars, requestVars, ord, batch>>

\* The provider confirms; the transaction writes PAID and the entitlement and
\* reads the request's tier.  Nothing of it is visible yet.
VerifySucceeds(t) ==
    /\ pc[t] = "verifying"
    /\ gateway[ord[t]] = "paid"
    /\ Become(t, "applying")
    /\ IF target[ord[t]] # NoRequest /\ Floor(product[ord[t]]) > 0
         THEN seenTier' = [seenTier EXCEPT ![t] = listTier[target[ord[t]]]]
         ELSE UNCHANGED seenTier
    /\ UNCHANGED <<gateway, orderVars, requestVars, ord, batch>>

\* success: false, because the user has not paid or because the provider
\* answered with an HTTP error: the adapter does not tell them apart.
VerifyFails(t) ==
    /\ pc[t] = "verifying"
    /\ Become(t, "rejecting")
    /\ UNCHANGED <<gateway, orderVars, requestVars, ord, seenTier, batch>>

CommitFailed(t) ==
    /\ pc[t] = "rejecting"
    /\ status' = [status EXCEPT ![ord[t]] = "FAILED"]
    /\ Finish(t, Return(t))
    /\ UNCHANGED <<gateway, product, target, stale, ents, subscribed,
                   requestVars, batch>>

\* Mutant of ApplyToRequest: the badges are replaced instead of added to.
MutantReplaceBadges(t, r, p) ==
    /\ badges' = [badges EXCEPT ![r] = BadgeOf(p)]
    /\ listTier' = IF Floor(p) > 0
                     THEN [listTier EXCEPT ![r] = Larger(seenTier[t], Floor(p))]
                     ELSE listTier

\* What applyProductEffect does to the request the product was bought for.
ApplyToRequest(t, r, p) ==
    /\ badges' = [badges EXCEPT ![r] = @ \cup BadgeOf(p)]
    /\ listTier' = IF Floor(p) > 0
                     THEN [listTier EXCEPT ![r] = Larger(seenTier[t], Floor(p))]
                     ELSE listTier

CommitPaid(t) ==
    LET o == ord[t] IN
    /\ pc[t] = "applying"
    /\ o \notin subscribed \/ product[o] # "PRO_MONTHLY"
    /\ status' = [status EXCEPT ![o] = "PAID"]
    /\ ents' = [ents EXCEPT ![o] = @ + 1]
    /\ subscribed' = IF product[o] = "PRO_MONTHLY" THEN subscribed \cup {o} ELSE subscribed
    /\ IF target[o] # NoRequest
         THEN ApplyToRequest(t, target[o], product[o])
         ELSE UNCHANGED <<badges, listTier>>
    /\ Finish(t, Return(t))
    /\ UNCHANGED <<gateway, product, target, stale, reqStatus, publishing, batch>>

\* The verify call throws, the transaction times out or the process dies: the
\* row is as it was, and the job leaves its loop with the rest of the batch.
Abort(t) ==
    /\ pc[t] \in Holding \cup {"loop"}
    /\ Finish(t, "idle")
    /\ batch' = IF t = Reconciler THEN {} ELSE batch
    /\ UNCHANGED <<gateway, orderVars, requestVars>>

-----------------------------------------------------------------------------
VerifyReplies(t) == VerifySucceeds(t) \/ VerifyFails(t)

Commit(t) == CommitPaid(t) \/ CommitFailed(t)

Next ==
    \/ \E o \in Orders : RequestPayment(o) \/ UserPays(o) \/ GrowStale(o)
    \/ \E o \in Orders, p \in Products, r \in Requests \cup {NoRequest} : CreateOrder(o, p, r)
    \/ \E r \in Requests : PublishCheck(r) \/ PublishWrite(r)
    \/ \E t \in Callbacks, o \in Orders : CallbackNotOk(t, o) \/ CallbackOk(t, o)
    \/ ReconcileScan
    \/ \E o \in Orders : ReconcileTake(o) \/ ReconcileSkip(o)
    \/ ReconcileDone
    \/ \E t \in Tasks : VerifyReplies(t) \/ Commit(t) \/ Abort(t)

Spec == Init /\ [][Next]_vars

-----------------------------------------------------------------------------
(* Fairness.  BullMQ fires the scheduler every 15 minutes and the worker goes *)
(* on (weak fairness); waiters of a Postgres row lock are served in order and *)
(* the provider is not unreachable forever (strong fairness); the worker is   *)
(* not killed in between two orders, or while it waits for a lock, forever.   *)
(* Nothing is assumed of users, callbacks or publish handlers, except that a  *)
(* callback's transaction ends: its timeout rolls it back.                    *)
Fairness ==
    /\ WF_vars(ReconcileScan)
    /\ WF_vars(ReconcileDone)
    /\ \A o \in Orders :
        /\ WF_vars(GrowStale(o))
        /\ SF_vars(ReconcileTake(o))
        /\ SF_vars(ReconcileSkip(o))
        /\ SF_vars(ord[Reconciler] = o /\ VerifyReplies(Reconciler))
        /\ SF_vars(ord[Reconciler] = o /\ Commit(Reconciler))
    /\ \A t \in Callbacks : WF_vars(VerifyReplies(t) \/ Commit(t) \/ Abort(t))
    /\ <>[][~(pc[Reconciler] = "loop" /\ batch # {} /\ Abort(Reconciler))]_vars

FairSpec == Spec /\ Fairness

-----------------------------------------------------------------------------
(* Properties *)

TypeOK ==
    /\ gateway \in [Orders -> {"absent", "issued", "paid"}]
    /\ status \in [Orders -> {"none", "PENDING", "PAID", "FAILED"}]
    /\ product \in [Orders -> Products \cup {"none"}]
    /\ target \in [Orders -> Requests \cup {NoRequest}]
    /\ stale \in [Orders -> BOOLEAN]
    /\ ents \in [Orders -> Nat]
    /\ subscribed \subseteq Orders
    /\ reqStatus \in [Requests -> {"DRAFT", "PUBLISHED"}]
    /\ listTier \in [Requests -> 0..2]
    /\ badges \in [Requests -> SUBSET Badges]
    /\ publishing \in [Requests -> 0..MaxPublishing]
    /\ pc \in [Tasks -> {"idle", "loop"} \cup Holding]
    /\ ord \in [Tasks -> Orders \cup {NoOrder}]
    /\ seenTier \in [Tasks -> 0..2]
    /\ batch \subseteq Orders

\* However callbacks, replays and the reconciliation job interleave and abort,
\* an order has exactly one entitlement once it is PAID and none before, and a
\* subscription exactly when it is a PAID one for PRO_MONTHLY.
EntitledIffPaid ==
    \A o \in Orders :
        /\ ents[o] = IF status[o] = "PAID" THEN 1 ELSE 0
        /\ o \in subscribed <=> status[o] = "PAID" /\ product[o] = "PRO_MONTHLY"

\* Nothing is granted that the provider did not collect the money for.
PaidAtGateway == \A o \in Orders : status[o] = "PAID" => gateway[o] = "paid"

\* The row lock serialises verification: two tasks never verify or finalize the
\* same order at a time, and none does for an order that is already PAID.
VerifiedOnce ==
    /\ \A t, u \in Tasks :
        pc[t] \in Holding /\ pc[u] \in Holding /\ ord[t] = ord[u] => t = u
    /\ \A t \in Tasks : pc[t] \in Holding => status[ord[t]] \notin {"none", "PAID"}

PaidFor(r, p) == \E o \in Orders : status[o] = "PAID" /\ target[o] = r /\ product[o] = p

\* Badges are exactly what was paid for, and are never lost again, and no
\* request is listed in a tier nobody bought for it.
UpgradesBacked ==
    \A r \in Requests :
        /\ \A b \in Badges :
            b \in badges[r] <=> \E p \in ProductCode : b \in BadgeOf(p) /\ PaidFor(r, p)
        /\ listTier[r] = 1 => PaidFor(r, "URGENT_BADGE")
        /\ listTier[r] = 2 => PaidFor(r, "FEATURE")

\* A paid upgrade never moves its request down: "does not downgrade an
\* already-FEATURE request when URGENT_BADGE is purchased afterward".
\* (A publish, which resets the tier, is not what this speaks of.)
PurchaseNeverDowngrades ==
    [][\A r \in Requests : publishing'[r] = publishing[r] => listTier'[r] >= listTier[r]]_vars

\* Orders stuck in PENDING are closed out.
PendingIsClosed == \A o \in Orders : status[o] = "PENDING" ~> status[o] \in {"PAID", "FAILED"}

\* A payment completed at the gateway while the order is open is honoured even
\* if the user never comes back for the callback (what the comment of
\* reconcileStaleOrders says of an order "stuck in PENDING").
PaidIsHonoured ==
    \A o \in Orders : gateway[o] = "paid" /\ status[o] = "PENDING" ~> status[o] = "PAID"

\* The component keeps the promise of OrderLedger.
Ledger == INSTANCE OrderLedger WITH status <- status, ents <- ents
ImplementsLedger == Ledger!Spec
===============================================================================
