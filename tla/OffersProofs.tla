---------------------------- MODULE OffersProofs ----------------------------
(***************************************************************************)
(* Theorems about Offers for any providers and any number of open calls.   *)
(*                                                                         *)
(* The argument: a call that passed its check stays inside what the check  *)
(* said in the parts nothing takes back (Working: the request was          *)
(* published, the row exists), and the rows a select has updated are its   *)
(* own until it commits (LockedRowsStable), so the commit decides exactly  *)
(* offers that were PENDING.                                               *)
(***************************************************************************)
EXTENDS Offers, FiniteSetTheorems, TLAPS

\* What a call keeps between its check and its answer.
Working ==
    \A h \in Handlers :
        /\ pc[h] # "reject" => held[h] = {}
        /\ pc[h] \notin {"idle", "publish"} => who[h] \in Providers /\ reqStatus # "DRAFT"
        /\ pc[h] \in {"resubmit", "withdraw", "select", "reject"} => offer[who[h]] # "none"
        /\ pc[h] = "reject" => who[h] \in held[h]

IInv == TypeOK /\ Working /\ LockedRowsStable /\ SelectionIsWhole

-----------------------------------------------------------------------------
\* The initial state is well typed, with no call in progress.
LEMMA InitIInv == Init => IInv
  BY OffersAssumption
  DEF Init, IInv, TypeOK, Working, LockedRowsStable, SelectionIsWhole, OfferStatus

\* A call ends and keeps no row lock.
LEMMA AnswerEffect ==
  ASSUME TypeOK, NEW h \in Handlers, Answer(h)
  PROVE  /\ pc' = [pc EXCEPT ![h] = "idle"]
         /\ who' = [who EXCEPT ![h] = NoProvider]
         /\ held' = [held EXCEPT ![h] = {}]
         /\ todo' = [todo EXCEPT ![h] = {}]
         /\ held' \in [Handlers -> SUBSET Providers]
         /\ todo' \in [Handlers -> SUBSET Providers]
  BY DEF Answer, Continue, TypeOK

\* A call that goes on without a lock, and writes nothing, disturbs nothing.
LEMMA ContinueStep ==
  ASSUME IInv, NEW h \in Handlers, NEW label \in {"idle", "publish", "submit", "create",
             "resubmit", "withdraw", "select"}, NEW p \in Providers \cup {NoProvider},
         Continue(h, label, p), pc[h] # "reject", UNCHANGED <<tables, held, todo>>,
         label \notin {"idle", "publish"} => p \in Providers /\ reqStatus # "DRAFT",
         label \in {"resubmit", "withdraw", "select"} => offer[p] # "none"
  PROVE  IInv'
<1>1. TypeOK'
  BY DEF IInv, TypeOK, Continue, tables
<1>2. Working'
  BY DEF IInv, TypeOK, Working, Continue, tables
<1>3. LockedRowsStable'
  BY DEF IInv, TypeOK, Working, LockedRowsStable, Continue, tables
<1>4. SelectionIsWhole'
  BY DEF IInv, SelectionIsWhole, tables
<1> QED
  BY <1>1, <1>2, <1>3, <1>4 DEF IInv

\* A call that ends by writing one unlocked offer PENDING or WITHDRAWN.
LEMMA OneOfferStep ==
  ASSUME IInv, NEW h \in Handlers, NEW p \in Providers, NEW s \in {"PENDING", "WITHDRAWN"},
         Answer(h), pc[h] # "reject", reqStatus # "DRAFT",
         s = "PENDING" \/ ~Locked(p),
         offer' = [offer EXCEPT ![p] = s], offerCount' \in Nat, UNCHANGED <<reqStatus, conv>>
  PROVE  IInv'
<1> USE AnswerEffect DEF IInv
<1>1. TypeOK'
  BY DEF TypeOK, OfferStatus
<1>2. Working'
  BY DEF TypeOK, Working
<1>3. LockedRowsStable'
  BY DEF TypeOK, Working, LockedRowsStable, Locked
<1>4. SelectionIsWhole'
  BY DEF TypeOK, SelectionIsWhole
<1> QED
  BY <1>1, <1>2, <1>3, <1>4

\* A call that ends without having written anything.
LEMMA RollbackStep ==
  ASSUME IInv, NEW h \in Handlers, Answer(h), UNCHANGED tables
  PROVE  IInv'
<1> USE AnswerEffect DEF IInv, tables
<1>1. TypeOK'
  BY DEF TypeOK
<1>2. Working'
  BY DEF TypeOK, Working
<1>3. LockedRowsStable'
  BY DEF TypeOK, LockedRowsStable
<1>4. SelectionIsWhole'
  BY DEF SelectionIsWhole
<1> QED
  BY <1>1, <1>2, <1>3, <1>4

\* The commit of a select decides rows that are its own.
LEMMA CommitStep ==
  ASSUME IInv, NEW h \in Handlers, SelectCommit(h)
  PROVE  IInv'
<1> DEFINE p == who[h]
<1> USE DEF IInv
<1>0. /\ p \in Providers /\ p \in held[h] /\ pc[h] = "reject"
      /\ offer' = [q \in Providers |->
                    IF q = p THEN "SELECTED"
                    ELSE IF q \in held[h] THEN "REJECTED" ELSE offer[q]]
      /\ reqStatus' = "OFFER_SELECTED" /\ conv' = conv \cup {p} /\ offerCount' = offerCount
      /\ Answer(h)
  BY DEF SelectCommit, Working
<1> HIDE DEF p
<1> USE AnswerEffect
<1>1. TypeOK'
  BY <1>0 DEF TypeOK, OfferStatus
<1>2. Working'
  BY <1>0 DEF TypeOK, Working
<1>3. LockedRowsStable'
  BY <1>0 DEF TypeOK, Working, LockedRowsStable
<1>4. SelectionIsWhole'
  BY <1>0 DEF TypeOK, SelectionIsWhole
<1> QED
  BY <1>1, <1>2, <1>3, <1>4

\* Every step keeps the inductive invariant.
LEMMA IInvStep == IInv /\ [Next]_vars => IInv'
<1> SUFFICES ASSUME IInv, [Next]_vars PROVE IInv'
  OBVIOUS
<1>1. ASSUME NEW h \in Handlers, PublishCheck(h) PROVE IInv'
  BY <1>1, ContinueStep DEF PublishCheck
<1>2. ASSUME NEW h \in Handlers, NEW p \in Providers, SubmitCheckRequest(h, p) PROVE IInv'
  BY <1>2, ContinueStep DEF SubmitCheckRequest
<1>3. ASSUME NEW h \in Handlers, NEW p \in Providers, WithdrawCheck(h, p) PROVE IInv'
  BY <1>3, ContinueStep DEF WithdrawCheck, IInv, SelectionIsWhole
<1>4. ASSUME NEW h \in Handlers, NEW p \in Providers, SelectCheck(h, p) PROVE IInv'
  BY <1>4, ContinueStep DEF SelectCheck
<1>5. ASSUME NEW h \in Handlers, PublishWrite(h) PROVE IInv'
  <2> USE AnswerEffect DEF PublishWrite, IInv
  <2>1. TypeOK'
    BY <1>5 DEF TypeOK
  <2>2. Working'
    BY <1>5 DEF TypeOK, Working
  <2>3. LockedRowsStable'
    BY <1>5 DEF TypeOK, LockedRowsStable
  <2>4. SelectionIsWhole'
    BY <1>5 DEF SelectionIsWhole
  <2> QED
    BY <2>1, <2>2, <2>3, <2>4
<1>6. ASSUME NEW h \in Handlers, SubmitReadExisting(h) PROVE IInv'
  <2>1. who[h] \in Providers /\ reqStatus # "DRAFT"
    BY <1>6 DEF SubmitReadExisting, IInv, Working
  <2>2. CASE offer[who[h]] = "none"
    BY <1>6, <2>1, <2>2, ContinueStep DEF SubmitReadExisting
  <2>3. CASE offer[who[h]] = "WITHDRAWN"
    BY <1>6, <2>1, <2>3, ContinueStep DEF SubmitReadExisting
  <2>4. CASE offer[who[h]] \notin {"none", "WITHDRAWN"}
    <3>1. Continue(h, "idle", NoProvider)
      BY <1>6, <2>4 DEF SubmitReadExisting
    <3> QED
      BY <1>6, <3>1, ContinueStep DEF SubmitReadExisting
  <2> QED
    BY <2>2, <2>3, <2>4
<1>7. ASSUME NEW h \in Handlers, SubmitCreate(h) PROVE IInv'
  <2>1. who[h] \in Providers /\ reqStatus # "DRAFT" /\ pc[h] # "reject"
    BY <1>7 DEF SubmitCreate, IInv, Working
  <2>2. CASE offer[who[h]] = "none"
    BY <1>7, <2>1, <2>2, OneOfferStep DEF SubmitCreate, IInv, TypeOK
  <2>3. CASE offer[who[h]] # "none"
    BY <1>7, <2>3, RollbackStep DEF SubmitCreate, tables
  <2> QED
    BY <2>2, <2>3
<1>8. ASSUME NEW h \in Handlers, SubmitAgain(h) \/ WithdrawWrite(h) PROVE IInv'
  <2>1. who[h] \in Providers /\ reqStatus # "DRAFT" /\ pc[h] # "reject"
    BY <1>8 DEF SubmitAgain, WithdrawWrite, IInv, Working
  <2> QED
    BY <1>8, <2>1, OneOfferStep DEF SubmitAgain, WithdrawWrite, IInv, TypeOK
<1>9. ASSUME NEW h \in Handlers, SelectLock(h) PROVE IInv'
  <2>1. who[h] \in Providers
    BY <1>9 DEF SelectLock, IInv, Working
  <2> USE DEF SelectLock, tables, IInv
  <2>2. TypeOK'
    BY <1>9, <2>1 DEF TypeOK
  <2>3. Working'
    BY <1>9, <2>1 DEF TypeOK, Working
  <2>4. LockedRowsStable'
    BY <1>9, <2>1 DEF TypeOK, LockedRowsStable, Locked
  <2>5. SelectionIsWhole'
    BY <1>9 DEF SelectionIsWhole
  <2> QED
    BY <2>2, <2>3, <2>4, <2>5
<1>10. ASSUME NEW h \in Handlers, NEW q \in Providers, RejectOther(h, q) PROVE IInv'
  <2> USE DEF RejectOther, tables, IInv
  <2>1. TypeOK'
    BY <1>10 DEF TypeOK
  <2>2. Working'
    BY <1>10 DEF TypeOK, Working
  <2>3. LockedRowsStable'
    BY <1>10 DEF TypeOK, LockedRowsStable, Locked
  <2>4. SelectionIsWhole'
    BY <1>10 DEF SelectionIsWhole
  <2> QED
    BY <2>1, <2>2, <2>3, <2>4
<1>11. ASSUME NEW h \in Handlers, SelectCommit(h) PROVE IInv'
  BY <1>11, CommitStep
<1>12. ASSUME NEW h \in Handlers, SelectDuplicate(h) \/ DeadlockVictim(h) \/ Fail(h) PROVE IInv'
  BY <1>12, RollbackStep DEF SelectDuplicate, DeadlockVictim, Fail
<1>13. CASE UNCHANGED vars
  BY <1>13 DEF vars, IInv, TypeOK, Working, LockedRowsStable, SelectionIsWhole
<1> QED
  BY <1>1, <1>2, <1>3, <1>4, <1>5, <1>6, <1>7, <1>8, <1>9, <1>10, <1>11, <1>12, <1>13
  DEF Next, Proceed

\* The inductive invariant holds of every reachable state.
LEMMA Inductive == Spec => []IInv
  BY InitIInv, IInvStep, PTL DEF Spec

-----------------------------------------------------------------------------
\* The columns and the calls stay in their types (the handlers of offers.service).
THEOREM TypeCorrect == Spec => []TypeOK
  BY Inductive, PTL DEF IInv

\* A row updated by a select belongs to it alone, and is as it was found, until
\* the transaction ends.
THEOREM SelectedRowsAreStable == Spec => []LockedRowsStable
  BY Inductive, PTL DEF IInv

\* However calls overlap and fail, a SELECTED offer has its conversation and a
\* REJECTED one lost to another's.
THEOREM SelectionsAreWhole == Spec => []SelectionIsWhole
  BY Inductive, PTL DEF IInv

-----------------------------------------------------------------------------
\* The providers who ever offered: the rows of the offers table.
Offered == {p \in Providers : offer[p] # "none"}

\* A finite set of rows grows by the one that is created.
LEMMA OneMore ==
  ASSUME NEW S \in SUBSET Providers, NEW p \in Providers \ S
  PROVE  Cardinality(S \cup {p}) = Cardinality(S) + 1
  BY OffersAssumption, FS_Subset, FS_AddElement

\* offerCount moves with the rows of the offers table: both or neither.
LEMMA CountStep == IInv /\ OfferCountExact /\ [Next]_vars => OfferCountExact'
<1> SUFFICES ASSUME IInv, OfferCountExact, [Next]_vars PROVE OfferCountExact'
  OBVIOUS
<1>0. offerCount = Cardinality(Offered)
  BY DEF OfferCountExact, Offered
<1> SUFFICES offerCount' = Cardinality(Offered')
  BY DEF OfferCountExact, Offered
<1>a. ASSUME Offered' = Offered, offerCount' = offerCount
      PROVE offerCount' = Cardinality(Offered')
  BY <1>a, <1>0
<1>1. ASSUME NEW h \in Handlers, SubmitCreate(h), offer[who[h]] = "none"
      PROVE offerCount' = Cardinality(Offered')
  <2>1. who[h] \in Providers \ Offered
    BY <1>1 DEF SubmitCreate, IInv, Working, Offered
  <2>2. Offered' = Offered \cup {who[h]}
    BY <1>1, <2>1 DEF SubmitCreate, Offered, IInv, TypeOK
  <2>3. offerCount' = offerCount + 1
    BY <1>1 DEF SubmitCreate
  <2> QED
    BY <1>0, <2>1, <2>2, <2>3, OneMore DEF Offered
<1>2. ASSUME NEW h \in Handlers, SubmitAgain(h) \/ WithdrawWrite(h)
      PROVE Offered' = Offered /\ offerCount' = offerCount
  BY <1>2 DEF SubmitAgain, WithdrawWrite, Offered, IInv, TypeOK, Working
<1>3. ASSUME NEW h \in Handlers, SelectCommit(h)
      PROVE Offered' = Offered /\ offerCount' = offerCount
  <2>1. \A q \in held[h] : offer[q] # "none"
    BY <1>3 DEF SelectCommit, IInv, TypeOK, Working, LockedRowsStable
  <2>2. who[h] \in held[h]
    BY <1>3 DEF SelectCommit, IInv, Working
  <2> QED
    BY <1>3, <2>1, <2>2 DEF SelectCommit, Offered
<1>4. ASSUME UNCHANGED <<offer, offerCount>>
      PROVE Offered' = Offered /\ offerCount' = offerCount
  BY <1>4 DEF Offered
<1>5. ASSUME NEW h \in Handlers, SubmitCreate(h), offer[who[h]] # "none"
      PROVE UNCHANGED <<offer, offerCount>>
  BY <1>5 DEF SubmitCreate
<1>6. ASSUME NEW h \in Handlers, NEW p \in Providers,
             \/ PublishCheck(h) \/ SubmitCheckRequest(h, p) \/ WithdrawCheck(h, p)
             \/ SelectCheck(h, p) \/ RejectOther(h, p)
      PROVE UNCHANGED <<offer, offerCount>>
  BY <1>6 DEF PublishCheck, SubmitCheckRequest, WithdrawCheck, SelectCheck, RejectOther, tables
<1>7. ASSUME NEW h \in Handlers,
             \/ PublishCheck(h) \/ PublishWrite(h) \/ SubmitReadExisting(h) \/ SelectLock(h)
             \/ SelectDuplicate(h) \/ DeadlockVictim(h) \/ Fail(h)
      PROVE UNCHANGED <<offer, offerCount>>
  BY <1>7 DEF PublishCheck, PublishWrite, SubmitReadExisting, SelectLock, SelectDuplicate,
              DeadlockVictim, Fail, tables
<1>8. CASE UNCHANGED vars
  BY <1>8, <1>4, <1>a DEF vars
<1> QED
  BY <1>a, <1>1, <1>2, <1>3, <1>4, <1>5, <1>6, <1>7, <1>8 DEF Next, Proceed

\* offerCount is the number of providers who ever offered, whatever is double
\* clicked, withdrawn, submitted again or rolled back.
THEOREM CountIsExact == Spec => []OfferCountExact
<1>1. Init => OfferCountExact
  <2>1. Init => {p \in Providers : offer[p] # "none"} = {}
    BY DEF Init
  <2> QED
    BY <2>1, FS_EmptySet DEF Init, OfferCountExact
<1> QED
  BY <1>1, Inductive, CountStep, PTL DEF Spec

-----------------------------------------------------------------------------
(* One call at a time *)

OneCall == \A g, h \in Handlers : g = h

\* What the call has read is still so: nobody else could change it.
AsRead ==
    /\ reqStatus # "OFFER_SELECTED" => conv = {}
    /\ \A h \in Handlers :
        /\ pc[h] = "publish" => reqStatus = "DRAFT"
        /\ pc[h] \in {"submit", "create", "resubmit", "select", "reject"} => reqStatus = "PUBLISHED"
        /\ pc[h] = "create" => offer[who[h]] = "none"
        /\ pc[h] = "resubmit" => offer[who[h]] = "WITHDRAWN"
        /\ pc[h] \in {"withdraw", "select", "reject"} => offer[who[h]] = "PENDING"
        /\ pc[h] = "reject" => held[h] \cup todo[h] = {q \in Providers : offer[q] = "PENDING"}

\* A step of the call keeps what it has read, and is a step of the Market or none.
LEMMA AloneStep ==
  ASSUME OneCall, IInv, AsRead, NEW h \in Handlers,
         \/ PublishCheck(h) \/ Proceed(h) \/ DeadlockVictim(h) \/ Fail(h)
         \/ \E p \in Providers : SubmitCheckRequest(h, p) \/ WithdrawCheck(h, p) \/ SelectCheck(h, p)
  PROVE  AsRead' /\ [MarketSpec!Next]_<<reqStatus, offer, conv>>
<1>0. /\ TypeOK /\ Working /\ Handlers = {h}
  BY DEF IInv, OneCall
<1>a. ASSUME pc'[h] = "idle", UNCHANGED <<reqStatus, offer, conv>>
      PROVE  AsRead'
  BY <1>0, <1>a DEF AsRead
<1>1. ASSUME PublishCheck(h) PROVE AsRead' /\ UNCHANGED <<reqStatus, offer, conv>>
  BY <1>0, <1>1 DEF PublishCheck, Continue, tables, AsRead, TypeOK
<1>2. ASSUME NEW p \in Providers,
             SubmitCheckRequest(h, p) \/ WithdrawCheck(h, p) \/ SelectCheck(h, p)
      PROVE  AsRead' /\ UNCHANGED <<reqStatus, offer, conv>>
  BY <1>0, <1>2 DEF SubmitCheckRequest, WithdrawCheck, SelectCheck, Continue, tables, AsRead, TypeOK
<1>3. ASSUME SubmitReadExisting(h) PROVE AsRead' /\ UNCHANGED <<reqStatus, offer, conv>>
  <2>1. /\ UNCHANGED <<reqStatus, offer, conv, held, todo>> /\ reqStatus = "PUBLISHED"
        /\ \/ pc'[h] = "idle"
           \/ pc'[h] = "create" /\ who'[h] = who[h] /\ offer[who[h]] = "none"
           \/ pc'[h] = "resubmit" /\ who'[h] = who[h] /\ offer[who[h]] = "WITHDRAWN"
    BY <1>0, <1>3 DEF SubmitReadExisting, Continue, tables, AsRead, TypeOK
  <2> QED
    BY <1>0, <2>1 DEF AsRead
<1>4. ASSUME SelectLock(h) PROVE AsRead' /\ UNCHANGED <<reqStatus, offer, conv>>
  <2>1. /\ pc'[h] = "reject" /\ held'[h] = {who[h]}
        /\ todo'[h] = {q \in Providers \ {who[h]} : offer[q] = "PENDING"}
        /\ UNCHANGED <<reqStatus, offer, conv, who>>
        /\ who[h] \in Providers /\ offer[who[h]] = "PENDING" /\ reqStatus = "PUBLISHED"
    BY <1>0, <1>4 DEF SelectLock, tables, AsRead, TypeOK, Working
  <2> QED
    BY <1>0, <2>1 DEF AsRead
<1>5. ASSUME NEW q \in Providers, RejectOther(h, q)
      PROVE  AsRead' /\ UNCHANGED <<reqStatus, offer, conv>>
  <2>1. /\ pc[h] = "reject" /\ q \in todo[h] /\ held[h] \cup todo[h] = {p \in Providers : offer[p] = "PENDING"}
        /\ UNCHANGED <<reqStatus, offer, conv, pc, who>>
        /\ todo'[h] = todo[h] \ {q}
        /\ held'[h] = IF offer[q] = "PENDING" THEN held[h] \cup {q} ELSE held[h]
    BY <1>0, <1>5 DEF RejectOther, tables, AsRead, TypeOK
  <2>2. held'[h] \cup todo'[h] = {p \in Providers : offer[p] = "PENDING"}
    BY <2>1
  <2> QED
    BY <1>0, <2>1, <2>2 DEF AsRead
<1>6. ASSUME SelectDuplicate(h) \/ DeadlockVictim(h) \/ Fail(h)
      PROVE  AsRead' /\ UNCHANGED <<reqStatus, offer, conv>>
  <2>1. UNCHANGED <<reqStatus, offer, conv>> /\ pc'[h] = "idle"
    BY <1>0, <1>6 DEF SelectDuplicate, DeadlockVictim, Fail, Answer, Continue, tables, TypeOK
  <2> QED
    BY <1>a, <2>1
<1>7. ASSUME PublishWrite(h) PROVE AsRead' /\ MarketSpec!Publish
  <2>1. /\ reqStatus = "DRAFT" /\ reqStatus' = "PUBLISHED" /\ pc'[h] = "idle"
        /\ UNCHANGED <<offer, conv>>
    BY <1>0, <1>7 DEF PublishWrite, Answer, Continue, AsRead, TypeOK
  <2> QED
    BY <1>0, <2>1 DEF AsRead, MarketSpec!Publish
<1>8. ASSUME SubmitCreate(h) \/ SubmitAgain(h)
      PROVE  AsRead' /\ \E p \in Providers : MarketSpec!Submit(p)
  <2>1. /\ reqStatus = "PUBLISHED" /\ who[h] \in Providers /\ pc'[h] = "idle"
        /\ offer[who[h]] \in {"none", "WITHDRAWN"}
        /\ offer' = [offer EXCEPT ![who[h]] = "PENDING"]
        /\ UNCHANGED <<reqStatus, conv>>
    BY <1>0, <1>8 DEF SubmitCreate, SubmitAgain, Answer, Continue, AsRead, TypeOK, Working
  <2> QED
    BY <1>0, <2>1 DEF AsRead, MarketSpec!Submit
<1>9. ASSUME WithdrawWrite(h) PROVE AsRead' /\ \E p \in Providers : MarketSpec!Withdraw(p)
  <2>1. /\ who[h] \in Providers /\ pc'[h] = "idle" /\ offer[who[h]] = "PENDING"
        /\ offer' = [offer EXCEPT ![who[h]] = "WITHDRAWN"]
        /\ UNCHANGED <<reqStatus, conv>>
    BY <1>0, <1>9 DEF WithdrawWrite, Answer, Continue, AsRead, TypeOK, Working
  <2> QED
    BY <1>0, <2>1 DEF AsRead, MarketSpec!Withdraw
<1>10. ASSUME SelectCommit(h) PROVE AsRead' /\ \E p \in Providers : MarketSpec!Select(p)
  <2>1. /\ reqStatus = "PUBLISHED" /\ who[h] \in Providers /\ pc'[h] = "idle"
        /\ offer[who[h]] = "PENDING" /\ conv = {} /\ conv' = {who[h]}
        /\ reqStatus' = "OFFER_SELECTED"
    BY <1>0, <1>10 DEF SelectCommit, Answer, Continue, AsRead, TypeOK, Working
  <2>2. \A q \in Providers : q \in held[h] <=> offer[q] = "PENDING"
    BY <1>0, <1>10 DEF SelectCommit, AsRead, TypeOK
  <2>3. offer' = [q \in Providers |->
                    IF q = who[h] THEN "SELECTED"
                    ELSE IF offer[q] = "PENDING" THEN "REJECTED" ELSE offer[q]]
    BY <1>10, <2>2 DEF SelectCommit
  <2> QED
    BY <1>0, <2>1, <2>3 DEF AsRead, MarketSpec!Select
<1> QED
  BY <1>1, <1>2, <1>3, <1>4, <1>5, <1>6, <1>7, <1>8, <1>9, <1>10 DEF Proceed, MarketSpec!Next

\* While no two calls overlap, the statements of publish, submit, withdraw and
\* select are, one transaction a step, what Market promises.
THEOREM MarketImplemented == ASSUME OneCall PROVE Spec => ImplementsMarket
<1>1. Init => AsRead /\ MarketSpec!Init
  BY DEF Init, AsRead, MarketSpec!Init
<1>2. IInv /\ AsRead /\ [Next]_vars => AsRead' /\ [MarketSpec!Next]_<<reqStatus, offer, conv>>
  <2> SUFFICES ASSUME IInv, AsRead, [Next]_vars
               PROVE  AsRead' /\ [MarketSpec!Next]_<<reqStatus, offer, conv>>
    OBVIOUS
  <2>1. CASE Next
    BY <2>1, AloneStep, OneCall DEF Next
  <2>2. CASE UNCHANGED vars
    BY <2>2 DEF vars, AsRead
  <2> QED
    BY <2>1, <2>2
<1> QED
  BY <1>1, <1>2, Inductive, PTL DEF Spec, ImplementsMarket, MarketSpec!Spec
===============================================================================
