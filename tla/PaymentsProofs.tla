--------------------------- MODULE PaymentsProofs ---------------------------
(***************************************************************************)
(* Theorems about Payments for any orders, requests and callback tasks.    *)
(*                                                                         *)
(* The argument: the row lock (LockInv) makes the order a task works on    *)
(* belong to that task alone and keeps it not PAID until the commit, so    *)
(* the commit is the only step that can settle it, and happens once.       *)
(***************************************************************************)
EXTENDS Payments, TLAPS

\* A task works on an order exactly while it is inside the transaction.
HasOrder == \A t \in Tasks : pc[t] \in Holding => ord[t] \in Orders

LockInv == TypeOK /\ HasOrder /\ VerifiedOnce

-----------------------------------------------------------------------------
\* The initial state is well typed and no transaction is open.
LEMMA InitLock == Init => LockInv
  BY PaymentsAssumption DEF Init, LockInv, TypeOK, HasOrder, VerifiedOnce, Holding, Tasks

\* Every step keeps the columns in their types.
LEMMA TypeStep == TypeOK /\ HasOrder /\ [Next]_vars => TypeOK'
<1> SUFFICES ASSUME TypeOK, HasOrder, [Next]_vars PROVE TypeOK'
  OBVIOUS
<1> USE DEF TypeOK
<1>1. ASSUME NEW o \in Orders, RequestPayment(o) PROVE TypeOK'
  BY <1>1 DEF RequestPayment, orderVars, requestVars, taskVars
<1>2. ASSUME NEW o \in Orders, NEW p \in Products, NEW r \in Requests \cup {NoRequest},
             CreateOrder(o, p, r)
      PROVE TypeOK'
  BY <1>2 DEF CreateOrder, requestVars, taskVars
<1>3. ASSUME NEW o \in Orders, UserPays(o) PROVE TypeOK'
  BY <1>3 DEF UserPays, orderVars, requestVars, taskVars
<1>4. ASSUME NEW o \in Orders, GrowStale(o) PROVE TypeOK'
  BY <1>4 DEF GrowStale, requestVars, taskVars
<1>5. ASSUME NEW r \in Requests, PublishCheck(r) PROVE TypeOK'
  BY <1>5, PaymentsAssumption DEF PublishCheck, orderVars, taskVars
<1>6. ASSUME NEW r \in Requests, PublishWrite(r) PROVE TypeOK'
  BY <1>6, PaymentsAssumption DEF PublishWrite, orderVars, taskVars
<1>7. ASSUME NEW t \in Callbacks, NEW o \in Orders, CallbackNotOk(t, o) PROVE TypeOK'
  BY <1>7 DEF CallbackNotOk, requestVars, taskVars
<1>8. ASSUME NEW t \in Callbacks, NEW o \in Orders, CallbackOk(t, o) PROVE TypeOK'
  BY <1>8 DEF CallbackOk, Become, Holding, Tasks, orderVars, requestVars
<1>9. CASE ReconcileScan
  BY <1>9 DEF ReconcileScan, Become, Holding, Tasks, orderVars, requestVars
<1>10. ASSUME NEW o \in Orders, ReconcileTake(o) PROVE TypeOK'
  BY <1>10 DEF ReconcileTake, Become, Holding, Tasks, orderVars, requestVars
<1>11. ASSUME NEW o \in Orders, ReconcileSkip(o) PROVE TypeOK'
  BY <1>11 DEF ReconcileSkip, orderVars, requestVars, taskVars
<1>12. CASE ReconcileDone
  BY <1>12 DEF ReconcileDone, Become, Holding, Tasks, orderVars, requestVars
<1>13. ASSUME NEW t \in Tasks, VerifySucceeds(t) PROVE TypeOK'
  <2>1. ord[t] \in Orders
    BY <1>13 DEF VerifySucceeds, HasOrder, Holding
  <2>2. seenTier' \in [Tasks -> 0..2]
    BY <1>13, <2>1 DEF VerifySucceeds
  <2>3. pc' \in [Tasks -> {"idle", "loop"} \cup Holding]
    BY <1>13 DEF VerifySucceeds, Become, Holding
  <2> QED
    BY <1>13, <2>2, <2>3 DEF VerifySucceeds, orderVars, requestVars
<1>14. ASSUME NEW t \in Tasks, VerifyFails(t) PROVE TypeOK'
  BY <1>14 DEF VerifyFails, Become, Holding, orderVars, requestVars
<1>15. ASSUME NEW t \in Tasks, CommitFailed(t) PROVE TypeOK'
  <2>1. status' \in [Orders -> {"none", "PENDING", "PAID", "FAILED"}]
    BY <1>15 DEF CommitFailed
  <2>2. /\ pc' \in [Tasks -> {"idle", "loop"} \cup Holding]
        /\ ord' \in [Tasks -> Orders \cup {NoOrder}]
        /\ seenTier' \in [Tasks -> 0..2]
    BY <1>15 DEF CommitFailed, Finish, Become, Return
  <2> QED
    BY <1>15, <2>1, <2>2 DEF CommitFailed, requestVars
<1>16. ASSUME NEW t \in Tasks, CommitPaid(t) PROVE TypeOK'
  <2>1. ord[t] \in Orders
    BY <1>16 DEF CommitPaid, HasOrder, Holding
  <2>2. /\ status' \in [Orders -> {"none", "PENDING", "PAID", "FAILED"}]
        /\ ents' \in [Orders -> Nat]
        /\ subscribed' \subseteq Orders
    BY <1>16, <2>1 DEF CommitPaid
  <2>3. /\ pc' \in [Tasks -> {"idle", "loop"} \cup Holding]
        /\ ord' \in [Tasks -> Orders \cup {NoOrder}]
        /\ seenTier' \in [Tasks -> 0..2]
    BY <1>16 DEF CommitPaid, Finish, Become, Return
  <2>4. badges' \in [Requests -> SUBSET Badges]
    BY <1>16, <2>1 DEF CommitPaid, ApplyToRequest, BadgeOf, Badges
  <2>5. listTier' \in [Requests -> 0..2]
    BY <1>16, <2>1 DEF CommitPaid, ApplyToRequest, Larger, Floor
  <2> QED
    BY <1>16, <2>2, <2>3, <2>4, <2>5 DEF CommitPaid
<1>17. ASSUME NEW t \in Tasks, Abort(t) PROVE TypeOK'
  BY <1>17 DEF Abort, Finish, Become, orderVars, requestVars
<1>18. CASE UNCHANGED vars
  BY <1>18 DEF vars, orderVars, requestVars, taskVars
<1> QED
  BY <1>1, <1>2, <1>3, <1>4, <1>5, <1>6, <1>7, <1>8, <1>9, <1>10, <1>11, <1>12, <1>13,
     <1>14, <1>15, <1>16, <1>17, <1>18 DEF Next, VerifyReplies, Commit

\* Every step keeps the transactions apart: a task enters one only when the
\* order is unlocked and not PAID, and only its own commit settles the order.
LEMMA LockStep == LockInv /\ [Next]_vars => LockInv'
<1> SUFFICES ASSUME LockInv, [Next]_vars PROVE LockInv'
  OBVIOUS
<1>0. TypeOK /\ HasOrder /\ VerifiedOnce /\ TypeOK'
  BY TypeStep DEF LockInv
<1> SUFFICES HasOrder' /\ VerifiedOnce'
  BY <1>0 DEF LockInv
<1>a. ASSUME pc' = pc, ord' = ord,
             \A o \in Orders : status'[o] # status[o] => ~Locked(o) \/ status'[o] = "FAILED"
      PROVE HasOrder' /\ VerifiedOnce'
  BY <1>0, <1>a DEF HasOrder, VerifiedOnce, Locked, TypeOK
<1>b. ASSUME NEW t \in Tasks, NEW o \in Orders, ~Locked(o), pc[t] \notin Holding,
             status[o] \notin {"none", "PAID"}, status' = status,
             pc' = [pc EXCEPT ![t] = "verifying"], ord' = [ord EXCEPT ![t] = o]
      PROVE HasOrder' /\ VerifiedOnce'
  BY <1>0, <1>b DEF HasOrder, VerifiedOnce, Locked, TypeOK, Holding
<1>c. ASSUME NEW t \in Tasks, NEW label \in {"applying", "rejecting"}, pc[t] = "verifying",
             status' = status, pc' = [pc EXCEPT ![t] = label], ord' = ord
      PROVE HasOrder' /\ VerifiedOnce'
  BY <1>0, <1>c DEF HasOrder, VerifiedOnce, TypeOK, Holding
<1>d. ASSUME NEW t \in Tasks, NEW label \in {"idle", "loop"},
             \A o \in Orders : status'[o] # status[o] => pc[t] \in Holding /\ ord[t] = o,
             pc' = [pc EXCEPT ![t] = label], ord' = [ord EXCEPT ![t] = NoOrder]
      PROVE HasOrder' /\ VerifiedOnce'
  BY <1>0, <1>d DEF HasOrder, VerifiedOnce, TypeOK, Holding
<1>1. ASSUME NEW o \in Orders, RequestPayment(o) PROVE HasOrder' /\ VerifiedOnce'
  BY <1>1, <1>a DEF RequestPayment, orderVars, taskVars
<1>2. ASSUME NEW o \in Orders, NEW p \in Products, NEW r \in Requests \cup {NoRequest},
             CreateOrder(o, p, r)
      PROVE HasOrder' /\ VerifiedOnce'
  BY <1>0, <1>2, <1>a DEF CreateOrder, taskVars, TypeOK, VerifiedOnce, Locked
<1>3. ASSUME NEW o \in Orders, UserPays(o) PROVE HasOrder' /\ VerifiedOnce'
  BY <1>3, <1>a DEF UserPays, orderVars, taskVars
<1>4. ASSUME NEW o \in Orders, GrowStale(o) PROVE HasOrder' /\ VerifiedOnce'
  BY <1>4, <1>a DEF GrowStale, taskVars
<1>5. ASSUME NEW r \in Requests, PublishCheck(r) \/ PublishWrite(r)
      PROVE HasOrder' /\ VerifiedOnce'
  BY <1>5, <1>a DEF PublishCheck, PublishWrite, orderVars, taskVars
<1>6. ASSUME NEW t \in Callbacks, NEW o \in Orders, CallbackNotOk(t, o)
      PROVE HasOrder' /\ VerifiedOnce'
  BY <1>0, <1>6, <1>a DEF CallbackNotOk, taskVars, TypeOK
<1>7. ASSUME NEW t \in Callbacks, NEW o \in Orders, CallbackOk(t, o)
      PROVE HasOrder' /\ VerifiedOnce'
  BY <1>7, <1>b DEF CallbackOk, Become, Holding, Tasks, orderVars
<1>8. CASE ReconcileScan
  BY <1>0, <1>8 DEF ReconcileScan, Become, Holding, Tasks, orderVars, HasOrder, VerifiedOnce, TypeOK
<1>9. ASSUME NEW o \in Orders, ReconcileTake(o) PROVE HasOrder' /\ VerifiedOnce'
  BY <1>9, <1>b DEF ReconcileTake, Become, Holding, Tasks, orderVars
<1>10. ASSUME NEW o \in Orders, ReconcileSkip(o) PROVE HasOrder' /\ VerifiedOnce'
  BY <1>10, <1>a DEF ReconcileSkip, orderVars, taskVars
<1>11. CASE ReconcileDone
  BY <1>0, <1>11 DEF ReconcileDone, Become, Holding, Tasks, orderVars, HasOrder, VerifiedOnce, TypeOK
<1>12. ASSUME NEW t \in Tasks, VerifySucceeds(t) PROVE HasOrder' /\ VerifiedOnce'
  BY <1>12, <1>c DEF VerifySucceeds, Become, orderVars
<1>13. ASSUME NEW t \in Tasks, VerifyFails(t) PROVE HasOrder' /\ VerifiedOnce'
  BY <1>13, <1>c DEF VerifyFails, Become, orderVars
<1>14. ASSUME NEW t \in Tasks, CommitFailed(t) PROVE HasOrder' /\ VerifiedOnce'
  BY <1>0, <1>14, <1>d DEF CommitFailed, Finish, Become, Return, Holding, TypeOK, HasOrder
<1>15. ASSUME NEW t \in Tasks, CommitPaid(t) PROVE HasOrder' /\ VerifiedOnce'
  BY <1>0, <1>15, <1>d DEF CommitPaid, Finish, Become, Return, Holding, TypeOK, HasOrder
<1>16. ASSUME NEW t \in Tasks, Abort(t) PROVE HasOrder' /\ VerifiedOnce'
  BY <1>16, <1>d DEF Abort, Finish, Become, orderVars
<1>17. CASE UNCHANGED vars
  BY <1>17, <1>a DEF vars, orderVars, taskVars
<1> QED
  BY <1>1, <1>2, <1>3, <1>4, <1>5, <1>6, <1>7, <1>8, <1>9, <1>10, <1>11, <1>12, <1>13,
     <1>14, <1>15, <1>16, <1>17 DEF Next, VerifyReplies, Commit

\* The columns and the program counters keep their types.
THEOREM TypeCorrect == Spec => []TypeOK
<1>1. LockInv => TypeOK
  BY DEF LockInv
<1> QED
  BY <1>1, InitLock, LockStep, PTL DEF Spec

\* No order is ever verified by two tasks at a time, or again once it is PAID:
\* what SELECT ... FOR UPDATE and the PAID check after it are there for.
THEOREM VerificationIsExclusive == Spec => []VerifiedOnce
<1>1. LockInv => VerifiedOnce
  BY DEF LockInv
<1> QED
  BY <1>1, InitLock, LockStep, PTL DEF Spec

-----------------------------------------------------------------------------
(* What was bought: entitlements, badges and tiers. *)

\* A step that settles nothing: rows that exist keep what was bought and for
\* which request, no order becomes or stops being PAID, and tiers only drop.
Quiet ==
    /\ ents' = ents /\ subscribed' = subscribed /\ badges' = badges
    /\ \A o \in Orders :
        /\ status'[o] = "PAID" <=> status[o] = "PAID"
        /\ status[o] # "none" =>
             status'[o] # "none" /\ product'[o] = product[o] /\ target'[o] = target[o]
        /\ status[o] = "none" =>
             \/ status'[o] = "none" /\ product'[o] = product[o]
             \/ status'[o] # "none" /\ product'[o] \in Products
    /\ \A r \in Requests : listTier'[r] \in {0, listTier[r]}

\* CommitPaid is the only action that settles an order.
LEMMA QuietStep ==
    ASSUME LockInv, [Next]_vars
    PROVE  Quiet \/ \E t \in Tasks : CommitPaid(t)
<1> TypeOK /\ HasOrder /\ VerifiedOnce
  BY DEF LockInv
<1>1. ASSUME NEW o \in Orders, RequestPayment(o) \/ UserPays(o) \/ GrowStale(o) PROVE Quiet
  BY <1>1 DEF RequestPayment, UserPays, GrowStale, Quiet, orderVars, requestVars
<1>2. ASSUME NEW o \in Orders, NEW p \in Products, NEW r \in Requests \cup {NoRequest},
             CreateOrder(o, p, r)
      PROVE Quiet
  BY <1>2 DEF CreateOrder, Quiet, requestVars, TypeOK
<1>3. ASSUME NEW r \in Requests, PublishCheck(r) \/ PublishWrite(r) PROVE Quiet
  BY <1>3 DEF PublishCheck, PublishWrite, Quiet, orderVars, TypeOK
<1>4. ASSUME NEW t \in Callbacks, NEW o \in Orders, CallbackNotOk(t, o) PROVE Quiet
  BY <1>4 DEF CallbackNotOk, Quiet, requestVars, TypeOK
<1>5. ASSUME NEW t \in Callbacks, NEW o \in Orders, CallbackOk(t, o) PROVE Quiet
  BY <1>5 DEF CallbackOk, Quiet, orderVars, requestVars
<1>6. CASE ReconcileScan \/ ReconcileDone
  BY <1>6 DEF ReconcileScan, ReconcileDone, Quiet, orderVars, requestVars
<1>7. ASSUME NEW o \in Orders, ReconcileTake(o) \/ ReconcileSkip(o) PROVE Quiet
  BY <1>7 DEF ReconcileTake, ReconcileSkip, Quiet, orderVars, requestVars
<1>8. ASSUME NEW t \in Tasks, VerifyReplies(t) \/ Abort(t) PROVE Quiet
  BY <1>8 DEF VerifyReplies, VerifySucceeds, VerifyFails, Abort, Quiet, orderVars, requestVars
<1>9. ASSUME NEW t \in Tasks, CommitFailed(t) PROVE Quiet
  BY <1>9 DEF CommitFailed, Quiet, requestVars, TypeOK, HasOrder, VerifiedOnce, Holding
<1>10. CASE UNCHANGED vars
  BY <1>10 DEF vars, Quiet, orderVars, requestVars
<1> QED
  BY <1>1, <1>2, <1>3, <1>4, <1>5, <1>6, <1>7, <1>8, <1>9, <1>10 DEF Next, VerifyReplies, Commit

\* A row exists exactly when it names a product of the catalogue.
RowInv == \A o \in Orders : status[o] = "none" <=> product[o] = "none"

EntitledInv == LockInv /\ RowInv /\ EntitledIffPaid

\* The entitlement and the subscription appear in the commit that settles the
\* order, which VerifiedOnce says was not PAID before.
LEMMA EntitledStep == EntitledInv /\ [Next]_vars => EntitledInv'
<1> SUFFICES ASSUME EntitledInv, [Next]_vars PROVE EntitledInv'
  OBVIOUS
<1>1. LockInv' /\ LockInv /\ TypeOK /\ HasOrder /\ VerifiedOnce /\ TypeOK'
  BY LockStep DEF EntitledInv, LockInv
<1>2. CASE Quiet
  <2>1. RowInv'
    BY <1>1, <1>2, PaymentsAssumption DEF Quiet, EntitledInv, RowInv, ProductCode
  <2>2. EntitledIffPaid'
    BY <1>1, <1>2 DEF Quiet, EntitledInv, EntitledIffPaid, TypeOK
  <2> QED
    BY <1>1, <2>1, <2>2 DEF EntitledInv
<1>3. ASSUME NEW t \in Tasks, CommitPaid(t) PROVE EntitledInv'
  <2>1. ord[t] \in Orders /\ status[ord[t]] \notin {"none", "PAID"}
    BY <1>1, <1>3 DEF CommitPaid, HasOrder, VerifiedOnce, Holding
  <2>2. RowInv'
    BY <1>1, <1>3, <2>1 DEF CommitPaid, EntitledInv, RowInv, TypeOK
  <2>3. EntitledIffPaid'
    BY <1>1, <1>3, <2>1 DEF CommitPaid, EntitledInv, EntitledIffPaid, TypeOK
  <2> QED
    BY <1>1, <2>2, <2>3 DEF EntitledInv
<1> QED
  BY <1>1, <1>2, <1>3, QuietStep

\* However callbacks, their replays and the reconciliation job interleave, time
\* out and crash, a PAID order has exactly one entitlement and no other has any.
THEOREM EntitledExactlyOnce == Spec => []EntitledIffPaid
<1>1. Init => EntitledInv
  BY InitLock DEF Init, EntitledInv, RowInv, EntitledIffPaid
<1>2. EntitledInv => EntitledIffPaid
  BY DEF EntitledInv
<1> QED
  BY <1>1, <1>2, EntitledStep, PTL DEF Spec

\* The task about to commit PAID was told so by the provider, and the provider
\* does not give money back.
GatewayInv ==
    /\ LockInv
    /\ PaidAtGateway
    /\ \A t \in Tasks : pc[t] = "applying" => gateway[ord[t]] = "paid"

\* The reply of verify, not the callback's query string, is what pays an order.
LEMMA GatewayStep == GatewayInv /\ [Next]_vars => GatewayInv'
<1> SUFFICES ASSUME GatewayInv, [Next]_vars PROVE GatewayInv'
  OBVIOUS
<1>1. LockInv' /\ LockInv /\ TypeOK /\ HasOrder /\ VerifiedOnce
  BY LockStep DEF GatewayInv, LockInv
<1>2. \A o \in Orders : gateway[o] = "paid" => gateway'[o] = "paid"
  BY <1>1 DEF Next, RequestPayment, CreateOrder, UserPays, GrowStale, PublishCheck, PublishWrite,
     CallbackNotOk, CallbackOk, ReconcileScan, ReconcileTake, ReconcileSkip, ReconcileDone,
     VerifyReplies, VerifySucceeds, VerifyFails, Commit, CommitFailed, CommitPaid, Abort,
     vars, TypeOK
<1>3. ASSUME NEW t \in Tasks, pc'[t] = "applying"
      PROVE  ord'[t] = ord[t] /\ gateway[ord[t]] = "paid" /\ ord[t] \in Orders
  <2>1. CASE pc' = pc /\ ord' = ord
    BY <1>1, <1>3, <2>1 DEF GatewayInv, HasOrder, Holding
  <2>2. ASSUME NEW u \in Tasks, NEW label \in {"idle", "loop", "verifying", "rejecting"},
               pc' = [pc EXCEPT ![u] = label],
               \A v \in Tasks \ {u} : ord'[v] = ord[v]
        PROVE  ord'[t] = ord[t] /\ gateway[ord[t]] = "paid" /\ ord[t] \in Orders
    BY <1>1, <1>3, <2>2 DEF GatewayInv, HasOrder, Holding, TypeOK
  <2>3. ASSUME NEW u \in Tasks, VerifySucceeds(u)
        PROVE  ord'[t] = ord[t] /\ gateway[ord[t]] = "paid" /\ ord[t] \in Orders
    BY <1>1, <1>3, <2>3 DEF VerifySucceeds, Become, GatewayInv, HasOrder, Holding, TypeOK
  <2>4. ASSUME NEW u \in Tasks, CommitPaid(u) \/ CommitFailed(u) \/ Abort(u) \/ VerifyFails(u)
        PROVE  ord'[t] = ord[t] /\ gateway[ord[t]] = "paid" /\ ord[t] \in Orders
    BY <1>1, <2>2, <2>4 DEF CommitPaid, CommitFailed, Abort, VerifyFails, Finish, Become, Return,
       TypeOK
  <2>5. ASSUME NEW u \in Callbacks, NEW o \in Orders, CallbackOk(u, o)
        PROVE  ord'[t] = ord[t] /\ gateway[ord[t]] = "paid" /\ ord[t] \in Orders
    BY <1>1, <2>2, <2>5 DEF CallbackOk, Become, Tasks, TypeOK
  <2>6. CASE ReconcileScan \/ ReconcileDone \/ \E o \in Orders : ReconcileTake(o)
    BY <1>1, <2>2, <2>6 DEF ReconcileScan, ReconcileDone, ReconcileTake, Become, Tasks, TypeOK
  <2>7. \/ pc' = pc /\ ord' = ord
        \/ ReconcileScan \/ ReconcileDone \/ \E o \in Orders : ReconcileTake(o)
        \/ \E u \in Callbacks, o \in Orders : CallbackOk(u, o)
        \/ \E u \in Tasks : VerifySucceeds(u) \/ CommitPaid(u) \/ CommitFailed(u)
                             \/ Abort(u) \/ VerifyFails(u)
    BY DEF Next, RequestPayment, CreateOrder, UserPays, GrowStale, PublishCheck, PublishWrite,
       CallbackNotOk, ReconcileSkip, VerifyReplies, Commit, vars, taskVars
  <2> QED
    BY <2>1, <2>3, <2>4, <2>5, <2>6, <2>7
<1>4. PaidAtGateway'
  <2>1. ASSUME NEW t \in Tasks, CommitPaid(t) PROVE PaidAtGateway'
    BY <1>1, <1>2, <2>1 DEF CommitPaid, GatewayInv, PaidAtGateway, TypeOK
  <2>2. CASE Quiet
    BY <1>2, <2>2 DEF Quiet, GatewayInv, PaidAtGateway
  <2> QED
    BY <1>1, <2>1, <2>2, QuietStep
<1> QED
  BY <1>1, <1>2, <1>3, <1>4 DEF GatewayInv

\* Nothing is ever granted that the provider has not collected the money for.
THEOREM PaidMeansCollected == Spec => []PaidAtGateway
<1>1. Init => GatewayInv
  BY InitLock DEF Init, GatewayInv, PaidAtGateway
<1>2. GatewayInv => PaidAtGateway
  BY DEF GatewayInv
<1> QED
  BY <1>1, <1>2, GatewayStep, PTL DEF Spec

-----------------------------------------------------------------------------
(* Upgrades of the request *)

\* The tier a task read for its update was somebody's paid tier when it read it,
\* and what was paid for stays paid for; other tasks hold no tier.
SeenInv ==
    \A t \in Tasks :
        /\ pc[t] # "applying" => seenTier[t] = 0
        /\ seenTier[t] = 1 => PaidFor(target[ord[t]], "URGENT_BADGE")
        /\ seenTier[t] = 2 => PaidFor(target[ord[t]], "FEATURE")

UpgradeInv == EntitledInv /\ UpgradesBacked /\ SeenInv

\* Which products set which column.
LEMMA BadgeProducts ==
    /\ \A p \in ProductCode : \A b \in BadgeOf(p) : b \in Badges
    /\ BadgeOf("none") = {}
  BY DEF ProductCode, BadgeOf, Badges

\* No step makes an upgrade unpaid.
LEMMA PaidForStays ==
    ASSUME EntitledInv, [Next]_vars, NEW r, NEW p, PaidFor(r, p)
    PROVE  PaidFor(r, p)'
<1>1. LockInv /\ TypeOK
  BY DEF EntitledInv, LockInv
<1>2. PICK o \in Orders : status[o] = "PAID" /\ target[o] = r /\ product[o] = p
  BY DEF PaidFor
<1>3. CASE Quiet
  BY <1>2, <1>3 DEF Quiet, PaidFor
<1>4. ASSUME NEW t \in Tasks, CommitPaid(t) PROVE PaidFor(r, p)'
  BY <1>1, <1>2, <1>4 DEF CommitPaid, PaidFor, TypeOK
<1> QED
  BY <1>1, <1>3, <1>4, QuietStep

\* A request only looks at rows that are settled: a quiet step pays for nothing.
LEMMA QuietPaysNothing ==
    ASSUME Quiet, NEW r, NEW p, PaidFor(r, p)'
    PROVE  PaidFor(r, p)
  BY DEF Quiet, PaidFor

\* A task keeps its order, and that order its request, while it applies.
LEMMA SeenStep == UpgradeInv /\ [Next]_vars => SeenInv'
<1> SUFFICES ASSUME UpgradeInv, [Next]_vars, NEW t \in Tasks
             PROVE  /\ pc'[t] # "applying" => seenTier'[t] = 0
                    /\ seenTier'[t] = 1 => PaidFor(target[ord[t]], "URGENT_BADGE")'
                    /\ seenTier'[t] = 2 => PaidFor(target[ord[t]], "FEATURE")'
  BY DEF SeenInv
<1>1. EntitledInv /\ LockInv /\ TypeOK /\ HasOrder /\ VerifiedOnce /\ UpgradesBacked /\ SeenInv
  BY DEF UpgradeInv, EntitledInv, LockInv
<1>2. ASSUME pc'[t] = pc[t], ord'[t] = ord[t], seenTier'[t] = seenTier[t]
      PROVE  /\ pc'[t] # "applying" => seenTier'[t] = 0
             /\ seenTier'[t] = 1 => PaidFor(target[ord[t]], "URGENT_BADGE")'
             /\ seenTier'[t] = 2 => PaidFor(target[ord[t]], "FEATURE")'
  <2>1. pc[t] # "applying" => seenTier[t] = 0
    BY <1>1 DEF SeenInv
  <2>2. CASE pc[t] = "applying"
    <3>1. ord[t] \in Orders /\ status[ord[t]] # "none"
      BY <1>1, <2>2 DEF HasOrder, VerifiedOnce, Holding
    <3>2. target'[ord'[t]] = target[ord[t]]
      <4>1. CASE Quiet
        BY <1>2, <3>1, <4>1 DEF Quiet
      <4>2. ASSUME NEW u \in Tasks, CommitPaid(u) PROVE target' = target
        BY <4>2 DEF CommitPaid
      <4> QED
        BY <1>1, <1>2, <4>1, <4>2, QuietStep
    <3>3. \A r, p : PaidFor(r, p) => PaidFor(r, p)'
      BY <1>1, PaidForStays
    <3> QED
      BY <1>1, <1>2, <2>2, <3>2, <3>3 DEF SeenInv, PaidFor
  <2> QED
    BY <1>2, <2>1, <2>2
<1>3. ASSUME seenTier'[t] = 0
      PROVE  /\ pc'[t] # "applying" => seenTier'[t] = 0
             /\ seenTier'[t] = 1 => PaidFor(target[ord[t]], "URGENT_BADGE")'
             /\ seenTier'[t] = 2 => PaidFor(target[ord[t]], "FEATURE")'
  BY <1>3
<1>4. CASE VerifySucceeds(t)
  <2>1. ord[t] \in Orders /\ target'= target /\ ord' = ord /\ pc'[t] = "applying"
    BY <1>1, <1>4 DEF VerifySucceeds, Become, HasOrder, Holding, orderVars, TypeOK
  <2>2. CASE seenTier' = seenTier
    BY <1>1, <1>3, <1>4, <2>2 DEF VerifySucceeds, SeenInv
  <2>3. CASE target[ord[t]] # NoRequest /\ seenTier' = [seenTier EXCEPT ![t] = listTier[target[ord[t]]]]
    <3>1. target[ord[t]] \in Requests /\ seenTier'[t] = listTier[target[ord[t]]]
      BY <1>1, <2>1, <2>3 DEF TypeOK
    <3>2. /\ seenTier'[t] = 1 => PaidFor(target[ord[t]], "URGENT_BADGE")
          /\ seenTier'[t] = 2 => PaidFor(target[ord[t]], "FEATURE")
      BY <1>1, <3>1 DEF UpgradesBacked
    <3>3. \A r, p : PaidFor(r, p) => PaidFor(r, p)'
      BY <1>1, PaidForStays
    <3> QED
      BY <2>1, <3>2, <3>3 DEF PaidFor
  <2> QED
    BY <1>4, <2>2, <2>3 DEF VerifySucceeds
<1>5. ASSUME NEW u \in Tasks, u # t \/ pc[t] # "applying", pc[u] # "applying" \/ u # t,
             VerifyReplies(u) \/ Commit(u) \/ Abort(u), ~VerifySucceeds(t)
      PROVE  /\ pc'[t] # "applying" => seenTier'[t] = 0
             /\ seenTier'[t] = 1 => PaidFor(target[ord[t]], "URGENT_BADGE")'
             /\ seenTier'[t] = 2 => PaidFor(target[ord[t]], "FEATURE")'
  <2>1. CASE u # t
    BY <1>1, <1>2, <1>5, <2>1 DEF VerifyReplies, VerifySucceeds, VerifyFails, Commit, CommitPaid,
       CommitFailed, Abort, Finish, Become, TypeOK
  <2>2. CASE u = t
    BY <1>1, <1>3, <1>5, <2>2 DEF VerifyReplies, VerifyFails, Commit, CommitPaid,
       CommitFailed, Abort, Finish, Become, TypeOK, SeenInv
  <2> QED
    BY <2>1, <2>2
<1>6. CASE CommitPaid(t) \/ Abort(t)
  BY <1>1, <1>3, <1>6 DEF CommitPaid, Abort, Finish, TypeOK
<1>7. ASSUME NEW u \in Callbacks, NEW o \in Orders, CallbackOk(u, o)
      PROVE  /\ pc'[t] # "applying" => seenTier'[t] = 0
             /\ seenTier'[t] = 1 => PaidFor(target[ord[t]], "URGENT_BADGE")'
             /\ seenTier'[t] = 2 => PaidFor(target[ord[t]], "FEATURE")'
  BY <1>1, <1>2, <1>3, <1>7 DEF CallbackOk, Become, SeenInv, TypeOK, Tasks
<1>8. CASE ReconcileScan \/ ReconcileDone \/ \E o \in Orders : ReconcileTake(o)
  BY <1>1, <1>2, <1>3, <1>8 DEF ReconcileScan, ReconcileDone, ReconcileTake, Become, SeenInv,
     TypeOK, Tasks
<1>9. CASE taskVars' = taskVars
  BY <1>2, <1>9 DEF taskVars
<1>10. \/ taskVars' = taskVars
       \/ ReconcileScan \/ ReconcileDone \/ \E o \in Orders : ReconcileTake(o)
       \/ \E u \in Callbacks, o \in Orders : CallbackOk(u, o)
       \/ \E u \in Tasks : VerifyReplies(u) \/ Commit(u) \/ Abort(u)
  BY DEF Next, RequestPayment, CreateOrder, UserPays, GrowStale, PublishCheck, PublishWrite,
     CallbackNotOk, ReconcileSkip, vars
<1>11. ASSUME pc[t] = "applying", VerifyReplies(t) \/ Commit(t) \/ Abort(t)
       PROVE  CommitPaid(t) \/ Abort(t)
  BY <1>11 DEF VerifyReplies, VerifySucceeds, VerifyFails, Commit, CommitFailed
<1> QED
  BY <1>4, <1>5, <1>6, <1>7, <1>8, <1>9, <1>10, <1>11

\* Badges and tiers change in the commit of an order that pays for them.
LEMMA UpgradeStep == UpgradeInv /\ [Next]_vars => UpgradeInv'
<1> SUFFICES ASSUME UpgradeInv, [Next]_vars PROVE UpgradeInv'
  OBVIOUS
<1>1. EntitledInv /\ LockInv /\ RowInv /\ TypeOK /\ HasOrder /\ VerifiedOnce /\ UpgradesBacked
  BY DEF UpgradeInv, EntitledInv, LockInv
<1>2. EntitledInv' /\ SeenInv'
  BY EntitledStep, SeenStep DEF UpgradeInv
<1>3. \A r, p : PaidFor(r, p) => PaidFor(r, p)'
  BY <1>1, PaidForStays
<1>4. CASE Quiet
  <2>1. \A r, p : PaidFor(r, p)' => PaidFor(r, p)
    BY <1>4, QuietPaysNothing
  <2> QED
    BY <1>1, <1>2, <1>3, <1>4, <2>1 DEF Quiet, UpgradeInv, UpgradesBacked, TypeOK
<1>5. ASSUME NEW t \in Tasks, CommitPaid(t) PROVE UpgradesBacked'
  <2> DEFINE o == ord[t]
  <2>1. o \in Orders /\ status[o] \notin {"none", "PAID"} /\ product[o] \in ProductCode
    BY <1>1, <1>5, PaymentsAssumption DEF CommitPaid, HasOrder, VerifiedOnce, Holding, RowInv, TypeOK
  <2>2. \A r, p : PaidFor(r, p)' <=> PaidFor(r, p) \/ (target[o] = r /\ product[o] = p)
    BY <1>1, <1>5, <2>1 DEF CommitPaid, PaidFor, TypeOK
  <2>3. ASSUME NEW r \in Requests, r # target[o]
        PROVE  badges'[r] = badges[r] /\ listTier'[r] = listTier[r]
    BY <1>1, <1>5, <2>3 DEF CommitPaid, ApplyToRequest, TypeOK
  <2>4. ASSUME NEW r \in Requests, r = target[o]
        PROVE  /\ badges'[r] = badges[r] \cup BadgeOf(product[o])
               /\ listTier'[r] = IF Floor(product[o]) > 0
                                   THEN Larger(seenTier[t], Floor(product[o])) ELSE listTier[r]
    BY <1>1, <1>5, <2>4, PaymentsAssumption DEF CommitPaid, ApplyToRequest, TypeOK
  <2>5. ASSUME NEW r \in Requests, NEW b \in Badges
        PROVE  b \in badges'[r] <=> \E p \in ProductCode : b \in BadgeOf(p) /\ PaidFor(r, p)'
    <3>1. b \in badges[r] <=> \E p \in ProductCode : b \in BadgeOf(p) /\ PaidFor(r, p)
      BY <1>1 DEF UpgradesBacked
    <3> QED
      BY <2>1, <2>2, <2>3, <2>4, <3>1
  <2>6. ASSUME NEW r \in Requests
        PROVE  /\ listTier'[r] = 1 => PaidFor(r, "URGENT_BADGE")'
               /\ listTier'[r] = 2 => PaidFor(r, "FEATURE")'
    <3>1. /\ listTier[r] = 1 => PaidFor(r, "URGENT_BADGE")
          /\ listTier[r] = 2 => PaidFor(r, "FEATURE")
          /\ seenTier[t] \in 0..2
          /\ seenTier[t] = 1 => PaidFor(target[o], "URGENT_BADGE")
          /\ seenTier[t] = 2 => PaidFor(target[o], "FEATURE")
      BY <1>1 DEF UpgradesBacked, UpgradeInv, SeenInv, TypeOK
    <3> QED
      BY <2>2, <2>3, <2>4, <3>1 DEF Larger, Floor
  <2> QED
    BY <2>5, <2>6 DEF UpgradesBacked
<1> QED
  BY <1>1, <1>2, <1>4, <1>5, QuietStep DEF UpgradeInv

\* Every badge a request shows, and the tier it is listed in, was paid for, and no
\* badge that was paid for is missing, whatever transactions overlapped.
THEOREM UpgradesAreBacked == Spec => []UpgradesBacked
<1>1. Init => UpgradeInv
  BY InitLock DEF Init, UpgradeInv, EntitledInv, RowInv, EntitledIffPaid, UpgradesBacked, SeenInv,
     PaidFor
<1>2. UpgradeInv => UpgradesBacked
  BY DEF UpgradeInv
<1> QED
  BY <1>1, <1>2, UpgradeStep, PTL DEF Spec

-----------------------------------------------------------------------------
(* Refinement *)

\* Each step opens, rejects or settles one order, or is none of the ledger's business.
LEMMA LedgerStep == LockInv /\ [Next]_vars => [Ledger!Next]_<<status, ents>>
<1> SUFFICES ASSUME LockInv, [Next]_vars PROVE Ledger!Next \/ UNCHANGED <<status, ents>>
  OBVIOUS
<1> TypeOK /\ HasOrder /\ VerifiedOnce
  BY DEF LockInv
<1>1. ASSUME NEW o \in Orders, NEW p \in Products, NEW r \in Requests \cup {NoRequest},
             CreateOrder(o, p, r)
      PROVE Ledger!Next
  BY <1>1 DEF CreateOrder, Ledger!Next, Ledger!Open
<1>2. ASSUME NEW t \in Callbacks, NEW o \in Orders, CallbackNotOk(t, o) PROVE Ledger!Next
  BY <1>2 DEF CallbackNotOk, Ledger!Next, Ledger!Reject
<1>3. ASSUME NEW t \in Tasks, Commit(t) PROVE Ledger!Next
  <2>1. ord[t] \in Orders /\ status[ord[t]] \in {"PENDING", "FAILED"}
    BY <1>3 DEF Commit, CommitPaid, CommitFailed, HasOrder, VerifiedOnce, Holding, TypeOK
  <2>2. CASE CommitPaid(t)
    BY <2>1, <2>2 DEF CommitPaid, Ledger!Next, Ledger!Settle
  <2>3. CASE CommitFailed(t)
    BY <2>1, <2>3 DEF CommitFailed, Ledger!Next, Ledger!Reject
  <2> QED
    BY <1>3, <2>2, <2>3 DEF Commit
<1>4. ASSUME NEW t \in Tasks, VerifyReplies(t) \/ Abort(t) PROVE UNCHANGED <<status, ents>>
  BY <1>4 DEF VerifyReplies, VerifySucceeds, VerifyFails, Abort, orderVars
<1> QED
  BY <1>1, <1>2, <1>3, <1>4 DEF Next, RequestPayment, UserPays, GrowStale, PublishCheck,
     PublishWrite, CallbackOk, ReconcileScan, ReconcileTake, ReconcileSkip, ReconcileDone,
     vars, orderVars

\* The component implements the promise of OrderLedger: an order is settled at
\* most once, in the step that grants what it bought.
THEOREM PaymentsImplementLedger == Spec => ImplementsLedger
<1>1. Init => Ledger!Init
  BY DEF Init, Ledger!Init
<1> QED
  BY <1>1, InitLock, LockStep, LedgerStep, PTL DEF Spec, ImplementsLedger, Ledger!Spec
===============================================================================
