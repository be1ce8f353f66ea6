--------------------------- MODULE ExchangeProofs ---------------------------
(***************************************************************************)
(* Theorems about the components of Exchange, for any values of their      *)
(* constants, and about the whole.                                         *)
(*                                                                         *)
(* A component's definitions carry the name of its instance: Form, Rows    *)
(* (the seed), Script (the clean-up), Chat, Board and Wizard; Reviews is   *)
(* extended and has no prefix, and the market's proofs are those of        *)
(* OffersProofs.  Each section gives the inductive invariant of one        *)
(* component and one lemma per action; the last one puts the components    *)
(* together: a step of the whole is a step of one and a stutter of the     *)
(* others, so a behaviour of the whole is one of each.                     *)
(***************************************************************************)
EXTENDS Exchange, FiniteSetTheorems, SequenceTheorems, WellFoundedInduction, TLAPS

\* The elements of a sequence.
LEMMA Elements ==
  ASSUME NEW S, NEW s \in Seq(S)
  PROVE  /\ Len(s) \in Nat /\ DOMAIN s = 1 .. Len(s)
         /\ \A i \in DOMAIN s : s[i] \in S
         /\ s # <<>> => 1 \in DOMAIN s
  BY LenProperties, ElementOfSeq, EmptySeq

\* A sequence with one element replaced.
LEMMA Replaced ==
  ASSUME NEW S, NEW s \in Seq(S), NEW i \in DOMAIN s, NEW e \in S
  PROVE  /\ [s EXCEPT ![i] = e] \in Seq(S)
         /\ DOMAIN [s EXCEPT ![i] = e] = DOMAIN s
         /\ [s EXCEPT ![i] = e][i] = e
         /\ \A j \in DOMAIN s \ {i} : [s EXCEPT ![i] = e][j] = s[j]
  BY Elements, ExceptSeq

\* A sequence with one element more.
LEMMA Appended ==
  ASSUME NEW S, NEW s \in Seq(S), NEW e \in S
  PROVE  /\ Append(s, e) \in Seq(S)
         /\ DOMAIN Append(s, e) = DOMAIN s \cup {Len(s) + 1}
         /\ Append(s, e)[Len(s) + 1] = e
         /\ \A i \in DOMAIN s : Append(s, e)[i] = s[i]
  BY Elements

\* A sequence of one element.
LEMMA Single ==
  ASSUME NEW S, NEW e \in S
  PROVE  <<e>> \in Seq(S) /\ <<e>>[1] = e
  OBVIOUS

\* A set of naturals has a least element, and one below a bound a largest.
LEMMA Smallest ==
    ASSUME NEW S, S \subseteq Nat, S # {}
    PROVE  \E n \in S : \A m \in S : n <= m
<1>. DEFINE R == OpToRel(<, Nat)
<1>1. IsWellFoundedOn(R, Nat)
    BY NatLessThanWellFounded
<1>2. \A x, y \in Nat : x < y => <<x, y>> \in R
    BY DEF OpToRel
<1>. HIDE DEF R
<1>3. PICK n \in S : \A m \in S : ~ (<<m, n>> \in R)
    BY <1>1, WFMin
<1>4. ASSUME NEW m \in S PROVE n <= m
    <2>1. ~ (m < n)
        BY <1>2, <1>3
    <2>. QED BY <2>1
<1>. QED BY <1>4

LEMMA Largest ==
    ASSUME NEW n \in Nat, NEW S, S \subseteq 0 .. n, S # {}
    PROVE  \E k \in S : \A m \in S : m <= k
<1>. DEFINE D == {d \in Nat : n - d \in S}
<1>1. PICK k \in S : TRUE
    OBVIOUS
<1>2. n - k \in Nat /\ n - (n - k) = k
    BY <1>1
<1>3. D \subseteq Nat /\ D # {}
    BY <1>1, <1>2
<1>4. PICK d \in D : \A e \in D : d <= e
    BY <1>3, Smallest
<1>5. ASSUME NEW m \in S PROVE m <= n - d
    <2>1. n - m \in Nat /\ n - (n - m) = m
        OBVIOUS
    <2>2. d <= n - m
        BY <1>4, <2>1
    <2>. QED BY <1>4, <2>2
<1>. QED BY <1>4, <1>5

\* A column after a call is added, and after one of its entries is written.
LEMMA ColumnGrows ==
    ASSUME NEW S, NEW q \in Seq(S), NEW x \in S
    PROVE  /\ Append(q, x) \in Seq(S) /\ Len(Append(q, x)) = Len(q) + 1
           /\ Append(q, x)[Len(q) + 1] = x
           /\ \A i \in 1 .. Len(q) : Append(q, x)[i] = q[i]
OBVIOUS

LEMMA ColumnWritten ==
    ASSUME NEW S, NEW q \in Seq(S), NEW k \in 1 .. Len(q), NEW x \in S
    PROVE  /\ [q EXCEPT ![k] = x] \in Seq(S) /\ Len([q EXCEPT ![k] = x]) = Len(q)
           /\ [q EXCEPT ![k] = x][k] = x
           /\ \A i \in 1 .. Len(q) : i # k => [q EXCEPT ![k] = x][i] = q[i]
OBVIOUS

\* The components count with the same operators.
LEMMA SameCardinality ==
    \A S : /\ Chat!Cardinality(S) = Cardinality(S)
           /\ Board!Cardinality(S) = Cardinality(S)
           /\ Script!Cardinality(S) = Cardinality(S)
           /\ Board!IsFiniteSet(S) <=> IsFiniteSet(S)
    BY DEF Cardinality, IsFiniteSet, Chat!Cardinality, Board!Cardinality, Script!Cardinality,
           Chat!IsFiniteSet, Board!IsFiniteSet, Script!IsFiniteSet

\* What each component assumes of its constants.
LEMMA RowsAssumed == Rows!SeedAssumption
  BY ExchangeAssumption

LEMMA ScriptAssumed == Script!CleanupAssumption
  BY ExchangeAssumption

LEMMA ChatAssumed == Chat!ThreadAssumption
  BY ExchangeAssumption

LEMMA BoardAssumed == Board!ListingAssumption
  BY ExchangeAssumption

LEMMA WizardAssumed == Wizard!AiDraftAssumption
  BY ExchangeAssumption

-----------------------------------------------------------------------------
(* Reviews.  The unique index lets one transaction at a time insert a      *)
(* conversation's review, and none once it is there (Exclusive); so a      *)
(* review is answered with success once (Counted).  What a transaction has *)
(* computed lacks only reviews that were committed while it was open, and  *)
(* their transactions overlapped it (Computed).                            *)

Exclusive ==
    \A p \in InTransaction :
        /\ Conv(p) \notin reviews
        /\ \A q \in InTransaction \ {p} : Conv(q) # Conv(p) /\ Conv(p) \in overlapped

Counted == \A c \in Conversations : created[c] = IF c \in reviews THEN 1 ELSE 0

Computed ==
    \A p \in Panels : pc[p] \in {"update", "commit"} =>
        /\ Conv(p) \in aggregate[p]
        /\ aggregate[p] \subseteq reviews \cup {Conv(p)}
        /\ reviews \ aggregate[p] \subseteq overlapped
        /\ Conv(p) \notin overlapped => reviews \subseteq aggregate[p]

IInv == TypeOK /\ Exclusive /\ Counted /\ Computed /\ RatingMissesOnlyOverlaps

-----------------------------------------------------------------------------
\* A panel is of a conversation.
LEMMA ConvType == \A p \in Panels : Conv(p) \in Conversations
  BY DEF Panels, Conv

\* Nothing is there at first.
LEMMA InitIInv == Init => IInv
  BY ConvType
  DEF Init, IInv, TypeOK, Exclusive, Counted, Computed, RatingMissesOnlyOverlaps, InTransaction

\* A step that writes no row, enters no transaction and reaches no aggregate.
LEMMA OutsideStep ==
  ASSUME IInv, NEW p \in Panels,
         pc' = pc \/ \E to \in {"idle", "check", "insert"} : pc' = [pc EXCEPT ![p] = to],
         aggregate' = aggregate \/ (aggregate' = [aggregate EXCEPT ![p] = {}] /\ pc'[p] = "idle"),
         panel' \in [Panels -> {"loading", "form", "reviewed", "hidden"}],
         UNCHANGED <<db, created, overlapped>>
  PROVE  IInv'
<1> USE ConvType DEF IInv, db
<1>1. TypeOK'
  BY DEF TypeOK
<1>2. InTransaction' \subseteq InTransaction
  BY DEF TypeOK, InTransaction
<1>3. Exclusive'
  BY <1>2 DEF Exclusive, Conv
<1>4. Counted' /\ RatingMissesOnlyOverlaps'
  BY DEF Counted, RatingMissesOnlyOverlaps
<1>5. Computed'
  BY DEF TypeOK, Computed, Conv
<1> QED
  BY <1>1, <1>3, <1>4, <1>5

\* An insert that the index lets through opens a transaction, beside others of
\* other conversations.
LEMMA InsertStep ==
  ASSUME IInv, NEW p \in Panels, Insert(p)
  PROVE  IInv'
<1> USE ConvType DEF IInv, db, Go
<1>1. CASE Conv(p) \in reviews
  <2>1. pc' = [pc EXCEPT ![p] = "idle"] /\ UNCHANGED <<db, aggregate, panel, created, overlapped>>
    BY <1>1 DEF Insert
  <2> QED
    BY <2>1, OutsideStep DEF TypeOK
<1>2. CASE Conv(p) \notin reviews
  <2>0. /\ pc[p] = "insert" /\ pc' = [pc EXCEPT ![p] = "aggregate"]
        /\ \A q \in InTransaction : Conv(q) # Conv(p)
        /\ overlapped' = IF InTransaction = {} THEN overlapped
                         ELSE overlapped \cup {Conv(q) : q \in InTransaction \cup {p}}
        /\ UNCHANGED <<db, aggregate, panel, created>>
    BY <1>2 DEF Insert
  <2>1. InTransaction \subseteq Panels /\ InTransaction' = InTransaction \cup {p}
        /\ p \notin InTransaction
    BY <2>0 DEF TypeOK, InTransaction
  <2>2. TypeOK'
    BY <2>0, <2>1 DEF TypeOK
  <2>3. Exclusive'
    BY <1>2, <2>0, <2>1 DEF Exclusive, Conv
  <2>4. Counted' /\ RatingMissesOnlyOverlaps'
    BY <2>0 DEF Counted, RatingMissesOnlyOverlaps
  <2>5. Computed'
    BY <2>0 DEF TypeOK, Computed, Conv
  <2> QED
    BY <2>2, <2>3, <2>4, <2>5
<1> QED
  BY <1>1, <1>2

\* An aggregate counts what is committed, and the new review.
LEMMA AggregateStep ==
  ASSUME IInv, NEW p \in Panels, Aggregate(p)
  PROVE  IInv'
<1> USE ConvType DEF IInv, db, Go, Aggregate
<1>1. TypeOK'
  BY DEF TypeOK
<1>2. InTransaction' = InTransaction
  BY DEF TypeOK, InTransaction
<1>3. Exclusive' /\ Counted' /\ RatingMissesOnlyOverlaps'
  BY <1>2 DEF Exclusive, Counted, RatingMissesOnlyOverlaps, Conv
<1>4. Computed'
  BY DEF TypeOK, Computed, Conv
<1> QED
  BY <1>1, <1>3, <1>4

\* Taking the row's lock writes nothing that others read.
LEMMA UpdateStep ==
  ASSUME IInv, NEW p \in Panels, Update(p)
  PROVE  IInv'
<1> USE ConvType DEF IInv, db, Go, Update
<1>1. TypeOK'
  BY DEF TypeOK
<1>2. InTransaction' = InTransaction
  BY DEF TypeOK, InTransaction
<1>3. Exclusive' /\ Counted' /\ RatingMissesOnlyOverlaps'
  BY <1>2 DEF Exclusive, Counted, RatingMissesOnlyOverlaps, Conv
<1>4. Computed'
  BY DEF TypeOK, Computed, Conv
<1> QED
  BY <1>1, <1>3, <1>4

\* A commit adds a review that nobody added, and a rating that lacks overlaps.
LEMMA CommitStep ==
  ASSUME IInv, NEW p \in Panels, Commit(p)
  PROVE  /\ IInv'
         /\ reviews' = reviews \cup {Conv(p)}
         /\ Conv(p) \notin overlapped => rating' = reviews'
<1> USE ConvType DEF IInv, Go
<1>0. /\ pc[p] = "commit" /\ pc' = [pc EXCEPT ![p] = "answer"]
      /\ reviews' = reviews \cup {Conv(p)} /\ rating' = aggregate[p]
      /\ aggregate' = [aggregate EXCEPT ![p] = {}]
      /\ created' = [created EXCEPT ![Conv(p)] = @ + 1]
      /\ UNCHANGED <<panel, overlapped>>
  BY DEF Commit
<1>1. p \in InTransaction /\ InTransaction' = InTransaction \ {p} /\ InTransaction \subseteq Panels
  BY <1>0 DEF TypeOK, InTransaction
<1>2. Conv(p) \notin reviews
  BY <1>1 DEF Exclusive
<1>3. /\ Conv(p) \in aggregate[p]
      /\ aggregate[p] \subseteq reviews \cup {Conv(p)}
      /\ reviews \ aggregate[p] \subseteq overlapped
      /\ Conv(p) \notin overlapped => reviews \subseteq aggregate[p]
  BY <1>0 DEF Computed
<1>4. TypeOK'
  BY <1>0, <1>3 DEF TypeOK
<1>5. Exclusive'
  BY <1>0, <1>1 DEF Exclusive, Conv
<1>6. Counted'
  BY <1>0, <1>2 DEF TypeOK, Counted
<1>7. RatingMissesOnlyOverlaps' /\ (Conv(p) \notin overlapped => rating' = reviews')
  BY <1>0, <1>3 DEF RatingMissesOnlyOverlaps
<1>8. Computed'
  <2> SUFFICES ASSUME NEW q \in Panels, pc'[q] \in {"update", "commit"}
               PROVE  /\ Conv(q) \in aggregate'[q]
                      /\ aggregate'[q] \subseteq reviews' \cup {Conv(q)}
                      /\ reviews' \ aggregate'[q] \subseteq overlapped'
                      /\ Conv(q) \notin overlapped' => reviews' \subseteq aggregate'[q]
    BY DEF Computed, Conv
  <2>1. q # p /\ pc[q] \in {"update", "commit"} /\ aggregate'[q] = aggregate[q]
    BY <1>0 DEF TypeOK
  <2>2. q \in InTransaction
    BY <2>1 DEF InTransaction
  <2>3. Conv(p) \in overlapped /\ Conv(q) \in overlapped
    BY <1>1, <2>1, <2>2 DEF Exclusive
  <2> QED
    BY <1>0, <2>1, <2>3 DEF Computed
<1> QED
  BY <1>0, <1>4, <1>5, <1>6, <1>7, <1>8

\* A rollback leaves the tables as they were.
LEMMA RollbackStep ==
  ASSUME IInv, NEW p \in Panels, Rollback(p)
  PROVE  IInv'
<1>1. /\ pc' = [pc EXCEPT ![p] = "idle"] /\ aggregate' = [aggregate EXCEPT ![p] = {}]
      /\ pc'[p] = "idle" /\ UNCHANGED <<db, panel, created, overlapped>>
  BY DEF Rollback, IInv, TypeOK
<1> QED
  BY <1>1, OutsideStep DEF IInv, TypeOK

\* Every other step only moves a panel.
LEMMA PanelStep ==
  ASSUME IInv, NEW p \in Panels,
         LoadStatus(p) \/ LoadFails(p) \/ Open(p) \/ Submit(p) \/ Check(p) \/ Answer(p)
  PROVE  IInv'
<1>1. panel' \in [Panels -> {"loading", "form", "reviewed", "hidden"}]
  BY DEF IInv, TypeOK, Show, LoadStatus, LoadFails, Open, Submit, Check, Answer
<1>2. aggregate' = aggregate /\ UNCHANGED <<db, created, overlapped>>
  BY DEF LoadStatus, LoadFails, Open, Submit, Check, Answer
<1>3. pc' = pc \/ \E to \in {"idle", "check", "insert"} : pc' = [pc EXCEPT ![p] = to]
  BY DEF Go, LoadStatus, LoadFails, Open, Submit, Check, Answer
<1> QED
  BY <1>1, <1>2, <1>3, OutsideStep

\* Every step keeps the inductive invariant.
LEMMA StepIInv == IInv /\ [Next]_vars => IInv'
<1> SUFFICES ASSUME IInv, [Next]_vars PROVE IInv'
  OBVIOUS
<1>1. CASE Next
  <2>1. PICK p \in Panels : LoadStatus(p) \/ LoadFails(p) \/ Open(p) \/ Submit(p) \/ Call(p)
    BY <1>1 DEF Next
  <2> QED
    BY <2>1, PanelStep, InsertStep, AggregateStep, UpdateStep, CommitStep, RollbackStep DEF Call
<1>2. CASE UNCHANGED vars
  BY <1>2 DEF vars, db, IInv, TypeOK, Exclusive, Counted, Computed,
              RatingMissesOnlyOverlaps, InTransaction, Conv
<1> QED
  BY <1>1, <1>2

\* The invariant holds throughout.
LEMMA Invariance == Spec => []IInv
  BY InitIInv, StepIInv, PTL DEF Spec

-----------------------------------------------------------------------------
\* The tables, calls and panels stay in their types.
LEMMA TypeCorrect == Spec => []TypeOK
<1>1. IInv => TypeOK
  BY DEF IInv
<1> QED
  BY <1>1, Invariance, PTL

\* ReviewsService.submit creates one review for a conversation and a reviewer,
\* for any number of tabs, attempts and lost answers.
LEMMA ReviewedOnce == Spec => []OneReviewEach
<1>1. IInv => OneReviewEach
  BY DEF IInv, Counted, OneReviewEach
<1> QED
  BY <1>1, Invariance, PTL

\* The cached rating counts only reviews there are, and misses only those whose
\* transactions overlapped.
LEMMA RatingIsClose == Spec => []RatingMissesOnlyOverlaps
<1>1. IInv => RatingMissesOnlyOverlaps
  BY DEF IInv
<1> QED
  BY <1>1, Invariance, PTL

\* A submit that overlaps no other leaves the rating exact, whatever was lost
\* before it.
LEMMA LoneSubmitIsExact == Spec => LoneSubmitRepairs
<1> DEFINE Repairs == \A c \in reviews' \ reviews : c \notin overlapped => rating' = reviews'
<1>1. IInv /\ [Next]_vars => [Repairs]_vars
  <2> SUFFICES ASSUME IInv, Next, NEW c \in reviews' \ reviews, c \notin overlapped
               PROVE  rating' = reviews'
    BY DEF vars
  <2>1. PICK p \in Panels : LoadStatus(p) \/ LoadFails(p) \/ Open(p) \/ Submit(p) \/ Call(p)
    BY DEF Next
  <2>2. Commit(p)
    BY <2>1 DEF LoadStatus, LoadFails, Open, Submit, Call, Check, Insert, Aggregate, Update,
                Rollback, Answer, db
  <2> QED
    BY <2>2, CommitStep
<1> QED
  BY <1>1, Invariance, PTL DEF Spec, LoneSubmitRepairs

-----------------------------------------------------------------------------
(* The request form.  No row changes its content, and a create keeps what  *)
(* it was sent together with the row it made (FormMatching), so it does    *)
(* not matter what the form holds by the time the answer comes.  A         *)
(* category is only deactivated after a count of no rows, and every insert *)
(* since then is in overtaken (FormCountedNone).                           *)

\* Row id holds what x says.
FormHolds(x) == x.id \in DOMAIN rows /\ rows[x.id].content = x.content

\* The preview, and a call that has made or read a row, hold what the row holds.
FormMatching ==
    /\ preview # <<>> => FormHolds(preview[1])
    /\ \A c \in DOMAIN calls :
           calls[c].step \in {"created", "read", "update", "published"} => FormHolds(calls[c])

\* After the count of none, every row is one that overtook it.
FormCountedNone == admin = "write" \/ ~isActive => DOMAIN rows \subseteq overtaken

FormIInv == Form!TypeOK /\ FormMatching /\ FormCountedNone

-----------------------------------------------------------------------------
\* No row, no call and no preview at first.
LEMMA FormInitIInv == Form!Init => FormIInv
  BY DEF Form!Init, FormIInv, Form!TypeOK, FormMatching, FormCountedNone

\* What moving on does to the calls.
LEMMA FormProceedEffect ==
  ASSUME Form!TypeOK, NEW c \in DOMAIN calls, NEW to \in Form!Steps,
         calls' = [calls EXCEPT ![c].step = to]
  PROVE  /\ calls' \in Seq(Form!CallType)
         /\ DOMAIN calls' = DOMAIN calls
         /\ \A d \in DOMAIN calls : calls'[d].content = calls[d].content /\ calls'[d].id = calls[d].id
         /\ calls'[c].step = to
         /\ \A d \in DOMAIN calls \ {c} : calls'[d].step = calls[d].step
<1> DEFINE call == [calls[c] EXCEPT !.step = to]
<1>1. calls \in Seq(Form!CallType) /\ calls[c] \in Form!CallType
  BY Elements DEF Form!TypeOK
<1>2. /\ call \in Form!CallType /\ call.step = to
      /\ call.content = calls[c].content /\ call.id = calls[c].id
  BY <1>1 DEF Form!CallType
<1>3. calls' = [calls EXCEPT ![c] = call]
  OBVIOUS
<1> HIDE DEF call
<1>4. /\ calls' \in Seq(Form!CallType) /\ DOMAIN calls' = DOMAIN calls /\ calls'[c] = call
      /\ \A d \in DOMAIN calls \ {c} : calls'[d] = calls[d]
  BY <1>1, <1>2, <1>3, Replaced
<1> QED
  BY <1>2, <1>4

\* Steps of the browser that make no call.
LEMMA FormBrowserStep ==
  ASSUME FormIInv, Form!Type \/ Form!Edit \/ Form!GiveUp \/ Form!Leave
  PROVE  FormIInv'
<1> USE DEF FormIInv
<1>1. /\ form' \in Contents /\ preview' \in {preview, <<>>} /\ pending' \in Nat
      /\ UNCHANGED <<rows, isActive, admin, overtaken, calls>>
  BY DEF Form!TypeOK, Form!Type, Form!Edit, Form!GiveUp, Form!Leave, Form!server
<1>2. Form!TypeOK'
  <2>1. preview' \in Seq(Form!PreviewType)
    BY <1>1, EmptySeq DEF Form!TypeOK
  <2> QED
    BY <1>1, <2>1 DEF Form!TypeOK
<1>3. FormMatching'
  BY <1>1 DEF FormMatching, FormHolds
<1>4. FormCountedNone'
  BY <1>1 DEF FormCountedNone
<1> QED
  BY <1>2, <1>3, <1>4

\* A new call creates what the form holds, or publishes what the preview shows.
LEMMA FormAwaitStep ==
  ASSUME FormIInv, Form!HandleCreate \/ Form!HandlePublish
  PROVE  FormIInv'
<1> USE DEF FormIInv
<1>1. PICK call \in [step : {"check", "read"}, content : Valid, id : Nat] :
        /\ calls' = Append(calls, call)
        /\ call.step = "read" => FormHolds(call)
        /\ pending' = Len(calls) + 1
        /\ UNCHANGED <<rows, isActive, admin, overtaken, form, preview>>
  <2>1. CASE Form!HandleCreate
    <3> DEFINE call == [step |-> "check", content |-> form, id |-> 0]
    <3>1. call \in [step : {"check", "read"}, content : Valid, id : Nat] /\ call.step # "read"
      BY <2>1 DEF Form!HandleCreate
    <3>2. /\ calls' = Append(calls, call) /\ pending' = Len(calls) + 1
          /\ UNCHANGED <<rows, isActive, admin, overtaken, form, preview>>
      BY <2>1 DEF Form!HandleCreate, Form!Await, Form!server
    <3> QED
      BY <3>1, <3>2
  <2>2. CASE Form!HandlePublish
    <3> DEFINE call == [step |-> "read", content |-> preview[1].content, id |-> preview[1].id]
    <3>0. preview # <<>> /\ preview \in Seq(Form!PreviewType)
      BY <2>2 DEF Form!HandlePublish, Form!TypeOK
    <3>1. preview[1] \in Form!PreviewType /\ FormHolds(preview[1])
      BY <3>0, Elements DEF FormMatching
    <3>2. call \in [step : {"check", "read"}, content : Valid, id : Nat] /\ FormHolds(call)
      BY <3>1 DEF FormHolds, Form!PreviewType
    <3>3. /\ calls' = Append(calls, call) /\ pending' = Len(calls) + 1
          /\ UNCHANGED <<rows, isActive, admin, overtaken, form, preview>>
      BY <2>2 DEF Form!HandlePublish, Form!Await, Form!server
    <3> QED
      BY <3>2, <3>3
  <2> QED
    BY <2>1, <2>2
<1>2. call \in Form!CallType /\ calls \in Seq(Form!CallType)
  BY DEF Form!CallType, Form!Steps, Form!TypeOK
<1>3. /\ calls' \in Seq(Form!CallType)
      /\ DOMAIN calls' = DOMAIN calls \cup {Len(calls) + 1}
      /\ calls'[Len(calls) + 1] = call
      /\ \A d \in DOMAIN calls : calls'[d] = calls[d]
  BY <1>1, <1>2, Appended
<1>4. Form!TypeOK'
  BY <1>1, <1>2, <1>3, Elements DEF Form!TypeOK
<1>5. FormMatching'
  BY <1>1, <1>3 DEF FormMatching, FormHolds
<1>6. FormCountedNone'
  BY <1>1 DEF FormCountedNone
<1> QED
  BY <1>4, <1>5, <1>6

\* A call that moves on without writing a row; an answered create may become the
\* preview.
LEMMA FormMoveStep ==
  ASSUME FormIInv, NEW c \in DOMAIN calls,
         Form!CreateCheck(c) \/ Form!PublishCheck(c) \/ Form!Answered(c) \/ Form!Created(c)
  PROVE  FormIInv'
<1> USE DEF FormIInv
<1>0. PICK to \in Form!Steps \ {"created"} :
        /\ calls' = [calls EXCEPT ![c].step = to]
        /\ to = "update" => calls[c].step = "read"
        /\ to \notin {"read", "published"}
  BY DEF Form!CreateCheck, Form!PublishCheck, Form!Answered, Form!Created, Form!Proceed, Form!Steps
<1>1. /\ preview' = preview \/ (calls[c].step = "created"
                                /\ preview' = <<[id |-> calls[c].id, content |-> calls[c].content]>>)
      /\ pending' \in {pending, 0}
      /\ UNCHANGED <<rows, isActive, admin, overtaken, form>>
  BY DEF Form!CreateCheck, Form!PublishCheck, Form!Answered, Form!Created, Form!Proceed, Form!server, Form!component
<1>2. calls[c] \in Form!CallType
  BY Elements DEF Form!TypeOK
<1>3. preview' \in Seq(Form!PreviewType) /\ calls' \in Seq(Form!CallType)
  <2> DEFINE inserted == [id |-> calls[c].id, content |-> calls[c].content]
  <2>1. inserted \in Form!PreviewType
    BY <1>2 DEF Form!CallType, Form!PreviewType
  <2>2. preview' = preview \/ preview' = <<inserted>>
    BY <1>1
  <2>3. preview \in Seq(Form!PreviewType)
    BY DEF Form!TypeOK
  <2>4. calls' \in Seq(Form!CallType)
    BY <1>0, FormProceedEffect
  <2> HIDE DEF inserted
  <2>5. preview' \in Seq(Form!PreviewType)
    BY <2>1, <2>2, <2>3, Single
  <2> QED
    BY <2>4, <2>5
<1>4. Form!TypeOK'
  BY <1>1, <1>3 DEF Form!TypeOK
<1>5. FormMatching'
  <2>1. preview' # <<>> => FormHolds(preview'[1])
    BY <1>1 DEF FormMatching, FormHolds
  <2>2. \A d \in DOMAIN calls : calls'[d].step \in {"created", "read", "update", "published"} =>
            FormHolds(calls[d])
    BY <1>0, FormProceedEffect DEF FormMatching
  <2> QED
    BY <1>0, <1>1, <2>1, <2>2, FormProceedEffect DEF FormMatching, FormHolds
<1>6. FormCountedNone'
  BY <1>1 DEF FormCountedNone
<1> QED
  BY <1>4, <1>5, <1>6

\* The new row holds what its call was sent; after a count of none it is overtaken.
LEMMA FormInsertStep ==
  ASSUME FormIInv, NEW c \in DOMAIN calls, Form!CreateInsert(c)
  PROVE  FormIInv'
<1> USE DEF FormIInv
<1> DEFINE id == Len(rows) + 1
           row == [content |-> calls[c].content, status |-> "DRAFT"]
<1>0. /\ calls' = [calls EXCEPT ![c].step = "created", ![c].id = id]
      /\ rows' = Append(rows, row)
      /\ overtaken' = IF admin = "write" \/ ~isActive THEN overtaken \cup {id} ELSE overtaken
      /\ UNCHANGED <<isActive, admin, form, preview, pending>>
  BY DEF Form!CreateInsert, Form!component
<1>1. /\ calls \in Seq(Form!CallType) /\ calls[c] \in Form!CallType
      /\ rows \in Seq(Form!RowType) /\ id \in Nat /\ row \in Form!RowType
  <2>1. calls \in Seq(Form!CallType) /\ rows \in Seq(Form!RowType)
    BY DEF Form!TypeOK
  <2>2. calls[c] \in Form!CallType /\ Len(rows) \in Nat
    BY <2>1, Elements
  <2> QED
    BY <2>1, <2>2 DEF Form!CallType, Form!RowType
<1> HIDE DEF id, row
<1>2. /\ rows' \in Seq(Form!RowType)
      /\ DOMAIN rows' = DOMAIN rows \cup {id} /\ rows'[id] = row
      /\ \A r \in DOMAIN rows : rows'[r] = rows[r]
  BY <1>0, <1>1, Appended DEF id
<1>3. /\ calls' \in Seq(Form!CallType)
      /\ DOMAIN calls' = DOMAIN calls
      /\ calls'[c].content = calls[c].content /\ calls'[c].id = id
      /\ \A d \in DOMAIN calls \ {c} : calls'[d] = calls[d]
  <2> DEFINE call == [calls[c] EXCEPT !.step = "created", !.id = id]
  <2>1. call \in Form!CallType /\ call.content = calls[c].content /\ call.id = id
    BY <1>1 DEF Form!CallType, Form!Steps
  <2>2. calls' = [calls EXCEPT ![c] = call]
    BY <1>0
  <2> HIDE DEF call
  <2> QED
    BY <1>1, <2>1, <2>2, Replaced
<1>4. Form!TypeOK'
  BY <1>0, <1>1, <1>2, <1>3 DEF Form!TypeOK
<1>5. FormMatching'
  <2>1. \A x : FormHolds(x) => FormHolds(x)'
    BY <1>2 DEF FormHolds
  <2>2. calls'[c].id \in DOMAIN rows' /\ rows'[calls'[c].id].content = calls'[c].content
    BY <1>2, <1>3 DEF row
  <2> QED
    BY <1>0, <1>2, <1>3, <2>1, <2>2 DEF FormMatching, FormHolds
<1>6. FormCountedNone'
  BY <1>0, <1>2 DEF FormCountedNone
<1> QED
  BY <1>4, <1>5, <1>6

\* A publish changes the status of a row, never what it holds.
LEMMA FormPublishStep ==
  ASSUME FormIInv, NEW c \in DOMAIN calls, Form!PublishWrite(c)
  PROVE  FormIInv'
<1> USE DEF FormIInv
<1>0. /\ calls[c].step = "update" /\ calls' = [calls EXCEPT ![c].step = "published"]
      /\ rows' = [rows EXCEPT ![calls[c].id].status = "PUBLISHED"]
      /\ UNCHANGED <<isActive, admin, overtaken, form, preview, pending>>
  BY DEF Form!PublishWrite, Form!Proceed, Form!component
<1>1. calls[c].id \in DOMAIN rows
  BY <1>0 DEF FormMatching, FormHolds
<1>2. /\ rows' \in Seq(Form!RowType)
      /\ DOMAIN rows' = DOMAIN rows
      /\ \A r \in DOMAIN rows : rows'[r].content = rows[r].content
  <2> DEFINE id == calls[c].id
             row == [rows[id] EXCEPT !.status = "PUBLISHED"]
  <2>1. rows \in Seq(Form!RowType) /\ rows[id] \in Form!RowType
    BY <1>1, Elements DEF Form!TypeOK
  <2>2. row \in Form!RowType /\ row.content = rows[id].content
    BY <2>1 DEF Form!RowType
  <2>3. rows' = [rows EXCEPT ![id] = row]
    BY <1>0
  <2> HIDE DEF id, row
  <2>4. id \in DOMAIN rows
    BY <1>1 DEF id
  <2> QED
    BY <2>1, <2>2, <2>3, <2>4, Replaced
<1>3. Form!TypeOK'
  BY <1>0, <1>2, FormProceedEffect DEF Form!TypeOK, Form!Steps
<1>4. FormMatching'
  <2>1. \A d \in DOMAIN calls : calls'[d].step \in {"created", "read", "update", "published"} =>
            FormHolds(calls[d])
    BY <1>0, FormProceedEffect DEF FormMatching, Form!Steps
  <2> QED
    BY <1>0, <1>2, <2>1, FormProceedEffect DEF FormMatching, FormHolds, Form!Steps
<1>5. FormCountedNone'
  BY <1>0, <1>2 DEF FormCountedNone
<1> QED
  BY <1>3, <1>4, <1>5

\* An administrator's update that deactivates has counted no row.
LEMMA FormUpdateStep ==
  ASSUME FormIInv, Form!Update \/ Form!AssertNoActiveRequests \/ Form!Deactivate
  PROVE  FormIInv'
<1> USE DEF FormIInv
<1>1. UNCHANGED <<rows, overtaken, calls, form, preview, pending>>
  BY DEF Form!Update, Form!AssertNoActiveRequests, Form!Deactivate, Form!component
<1>2. Form!TypeOK'
  BY <1>1 DEF Form!TypeOK, Form!Update, Form!AssertNoActiveRequests, Form!Deactivate
<1>3. FormMatching'
  BY <1>1 DEF FormMatching, FormHolds
<1>4. FormCountedNone'
  BY <1>1 DEF Form!TypeOK, FormCountedNone, Form!Update, Form!AssertNoActiveRequests, Form!Deactivate
<1> QED
  BY <1>2, <1>3, <1>4

\* Every step keeps the inductive invariant.
LEMMA FormStepIInv == FormIInv /\ [Form!Next]_(Form!vars) => FormIInv'
<1> SUFFICES ASSUME FormIInv, [Form!Next]_(Form!vars) PROVE FormIInv'
  OBVIOUS
<1>1. CASE Form!Next
  BY <1>1, FormBrowserStep, FormAwaitStep, FormMoveStep, FormInsertStep, FormPublishStep, FormUpdateStep DEF Form!Next, Form!Call
<1>2. CASE UNCHANGED Form!vars
  BY <1>2 DEF Form!vars, Form!server, Form!component, FormIInv, Form!TypeOK, FormMatching, FormHolds, FormCountedNone
<1> QED
  BY <1>1, <1>2

\* The invariant holds throughout.
LEMMA FormInvariance == Form!Spec => []FormIInv
  BY FormInitIInv, FormStepIInv, PTL DEF Form!Spec

-----------------------------------------------------------------------------
\* Rows, calls and the component's state stay in their types.
LEMMA FormTypeCorrect == Form!Spec => []Form!TypeOK
<1>1. FormIInv => Form!TypeOK
  BY DEF FormIInv
<1> QED
  BY <1>1, FormInvariance, PTL

\* The preview of RequestForm shows what its row holds, and what publish makes
\* public is what was previewed.
LEMMA FormPreviewIsTrue == Form!Spec => []Form!PreviewIsTheRow
<1>1. FormIInv => Form!PreviewIsTheRow
  BY DEF FormIInv, FormMatching, FormHolds, Form!PreviewIsTheRow
<1> QED
  BY <1>1, FormInvariance, PTL

\* A category that CategoriesService.update has deactivated has only requests
\* whose insert the count could not see.
LEMMA FormInactiveIsEmpty == Form!Spec => []Form!InactiveOnlyOvertaken
<1>1. FormIInv => Form!InactiveOnlyOvertaken
  BY DEF FormIInv, FormCountedNone, Form!InactiveOnlyOvertaken
<1> QED
  BY <1>1, FormInvariance, PTL

-----------------------------------------------------------------------------
(* The seed.  Whatever dies and whatever an administrator edits, a run has *)
(* written every row of the plan that it has passed (RowsInv), and a row   *)
(* refers to earlier ones only.                                            *)

\* The rows of the plan.
RowsOfPlan == {SeedPlan[i].row : i \in DOMAIN SeedPlan}

\* A run has written what it has passed, as seeded but for what an administrator
\* has changed since; he holds no slug of a row that is there.
RowsInv ==
    /\ Rows!TypeOK
    /\ outcome # "none" => line = 0
    /\ line # 0 => lateEdits \subseteq Rows!Passed
    /\ taken \cap written = {}
    /\ Rows!RunsConverge

\* The plan is a sequence of distinct rows that refer to earlier ones.
LEMMA RowsPlanFacts ==
    /\ Len(SeedPlan) \in Nat
    /\ DOMAIN SeedPlan = 1 .. Len(SeedPlan)
    /\ \A i \in DOMAIN SeedPlan :
        /\ SeedPlan[i] \in [row : RowsOfPlan, refs : SUBSET RowsOfPlan, unique : {l.unique : l \in Rows!Range(SeedPlan)}]
        /\ SeedPlan[i].refs \subseteq {SeedPlan[j].row : j \in 1 .. i - 1}
        /\ \A j \in DOMAIN SeedPlan : SeedPlan[i].row = SeedPlan[j].row => i = j
        /\ SeedPlan[i].unique \in Editable => SeedPlan[i].unique = SeedPlan[i].row
        /\ SeedPlan[i].row \in Editable => SeedPlan[i].unique = SeedPlan[i].row
    /\ {l.row : l \in Rows!Range(SeedPlan)} = RowsOfPlan
    /\ MaxEdits \in Nat
<1>1. {l.row : l \in Rows!Range(SeedPlan)} = RowsOfPlan
    BY DEF Rows!Range, RowsOfPlan
<1>2. SeedPlan \in Seq([row : RowsOfPlan, refs : SUBSET RowsOfPlan, unique : {l.unique : l \in Rows!Range(SeedPlan)}])
    BY <1>1, RowsAssumed DEF Rows!SeedAssumption
<1>3. /\ Len(SeedPlan) \in Nat
      /\ DOMAIN SeedPlan = 1 .. Len(SeedPlan)
      /\ \A i \in DOMAIN SeedPlan :
            SeedPlan[i] \in [row : RowsOfPlan, refs : SUBSET RowsOfPlan, unique : {l.unique : l \in Rows!Range(SeedPlan)}]
    BY <1>2, Elements
<1>4. \A i \in DOMAIN SeedPlan :
        /\ SeedPlan[i].refs \subseteq {SeedPlan[j].row : j \in 1 .. i - 1}
        /\ \A j \in DOMAIN SeedPlan : SeedPlan[i].row = SeedPlan[j].row => i = j
        /\ SeedPlan[i].unique \in Editable => SeedPlan[i].unique = SeedPlan[i].row
        /\ SeedPlan[i].row \in Editable => SeedPlan[i].unique = SeedPlan[i].row
    BY RowsAssumed DEF Rows!SeedAssumption
<1>. QED BY <1>1, <1>3, <1>4, RowsAssumed DEF Rows!SeedAssumption

LEMMA RowsInitInv == Rows!Init => RowsInv
    BY RowsPlanFacts DEF Rows!Init, RowsInv, Rows!TypeOK, Rows!RunsConverge, Rows!Passed

LEMMA RowsStartStep == RowsInv /\ Rows!Start => RowsInv'
    BY RowsPlanFacts DEF RowsInv, Rows!Start, Rows!TypeOK, Rows!RunsConverge, Rows!Passed

\* An upsert writes the row at hand, whose references are there.
LEMMA RowsUpsertStep == RowsInv /\ Rows!Upsert => RowsInv'
<1>. SUFFICES ASSUME RowsInv, Rows!Upsert PROVE RowsInv'
    OBVIOUS
<1>. DEFINE row == SeedPlan[line].row
<1>1. line \in Nat /\ line \in DOMAIN SeedPlan /\ line # 0 /\ line' = line + 1
    BY RowsPlanFacts DEF RowsInv, Rows!Upsert, Rows!TypeOK
<1>2. Rows!Passed' = Rows!Passed \cup {row}
    BY <1>1, RowsPlanFacts DEF Rows!Passed
<1>3. row \notin Rows!Passed
    BY <1>1, RowsPlanFacts DEF Rows!Passed
<1>4. written' = written \cup {row} /\ changed' = changed \ {row} /\ row \in RowsOfPlan
    BY <1>1, RowsPlanFacts DEF Rows!Upsert, Rows!Overwritten, RowsOfPlan
<1>5. row \notin taken
    <2>1. CASE row \in written
        BY <2>1 DEF RowsInv
    <2>2. CASE row \notin written
        BY <2>2, <1>1, RowsPlanFacts DEF RowsInv, Rows!TypeOK, Rows!Upsert, Rows!Refused
    <2>. QED BY <2>1, <2>2
<1>6. outcome = "none" /\ outcome' = "none" /\ inactive' = inactive /\ taken' = taken /\ lateEdits' = lateEdits /\ edits' = edits
    BY <1>1 DEF RowsInv, Rows!Upsert
<1>7. Rows!TypeOK'
    BY <1>1, <1>3, <1>4, <1>6, RowsPlanFacts DEF RowsInv, Rows!TypeOK
<1>8. Rows!RunsConverge'
    BY <1>2, <1>4, <1>6 DEF RowsInv, Rows!RunsConverge
<1>. QED BY <1>1, <1>2, <1>4, <1>5, <1>6, <1>7, <1>8 DEF RowsInv

LEMMA RowsCompleteStep == RowsInv /\ Rows!Complete => RowsInv'
<1>. SUFFICES ASSUME RowsInv, Rows!Complete PROVE RowsInv'
    OBVIOUS
<1>1. Rows!Passed = RowsOfPlan /\ Rows!Passed' = {}
    BY RowsPlanFacts DEF Rows!Passed, Rows!Complete, RowsOfPlan
<1>2. written = RowsOfPlan /\ changed \subseteq lateEdits
    BY <1>1, RowsPlanFacts DEF RowsInv, Rows!TypeOK, Rows!RunsConverge
<1>. QED BY <1>1, <1>2, RowsPlanFacts DEF RowsInv, Rows!TypeOK, Rows!RunsConverge, Rows!Complete

\* A run only fails on a slug that somebody holds.
LEMMA RowsRunFailsStep == RowsInv /\ Rows!RunFails => RowsInv'
<1>. SUFFICES ASSUME RowsInv, Rows!RunFails PROVE RowsInv'
    OBVIOUS
<1>1. line \in DOMAIN SeedPlan /\ SeedPlan[line].refs \subseteq Rows!Passed
    BY RowsPlanFacts DEF Rows!RunFails, Rows!Passed
<1>2. SeedPlan[line].unique \in taken /\ SeedPlan[line].row \notin written
    BY <1>1 DEF Rows!RunFails, Rows!Refused, RowsInv, Rows!RunsConverge
<1>3. SeedPlan[line].row \in taken
    BY <1>1, <1>2, RowsPlanFacts DEF RowsInv, Rows!TypeOK
<1>4. Rows!Passed' = {}
    BY DEF Rows!Passed, Rows!RunFails
<1>. QED BY <1>2, <1>3, <1>4, RowsPlanFacts DEF RowsInv, Rows!TypeOK, Rows!RunsConverge, Rows!RunFails

LEMMA RowsKilledStep == RowsInv /\ Rows!Killed => RowsInv'
<1>. SUFFICES ASSUME RowsInv, Rows!Killed PROVE RowsInv'
    OBVIOUS
<1>1. Rows!Passed' = {}
    BY DEF Rows!Passed, Rows!Killed
<1>. QED BY <1>1, RowsPlanFacts DEF RowsInv, Rows!TypeOK, Rows!RunsConverge, Rows!Killed

LEMMA RowsUpdateStep == RowsInv /\ Rows!Update => RowsInv'
<1>. SUFFICES ASSUME RowsInv, Rows!Update PROVE RowsInv'
    OBVIOUS
<1>1. PICK r \in Editable \cap written :
        /\ changed' = changed \cup {r}
        /\ lateEdits' = IF r \in Rows!Passed THEN lateEdits \cup {r} ELSE lateEdits
    BY DEF Rows!Update
<1>2. Rows!Passed' = Rows!Passed
    BY DEF Rows!Passed, Rows!Update
<1>3. Rows!TypeOK'
    BY <1>1, RowsPlanFacts DEF RowsInv, Rows!TypeOK, Rows!Update
<1>. QED BY <1>1, <1>2, <1>3 DEF RowsInv, Rows!RunsConverge, Rows!Update

LEMMA RowsSwitchStep == RowsInv /\ Rows!Switch => RowsInv'
<1>. SUFFICES ASSUME RowsInv, Rows!Switch PROVE RowsInv'
    OBVIOUS
<1>1. PICK r \in Editable \cap written : inactive' \in {inactive \ {r}, inactive \cup {r}}
    BY DEF Rows!Switch
<1>2. Rows!Passed' = Rows!Passed
    BY DEF Rows!Passed, Rows!Switch
<1>. QED BY <1>1, <1>2, RowsPlanFacts DEF RowsInv, Rows!TypeOK, Rows!RunsConverge, Rows!Switch

LEMMA RowsCreateStep == RowsInv /\ Rows!Create => RowsInv'
<1>. SUFFICES ASSUME RowsInv, Rows!Create PROVE RowsInv'
    OBVIOUS
<1>1. PICK r \in Editable \ (written \cup taken) : taken' = taken \cup {r}
    BY DEF Rows!Create
<1>2. Rows!Passed' = Rows!Passed
    BY DEF Rows!Passed, Rows!Create
<1>. QED BY <1>1, <1>2, RowsPlanFacts DEF RowsInv, Rows!TypeOK, Rows!RunsConverge, Rows!Create

\* Every step of the seed keeps its invariant.
LEMMA RowsNext == RowsInv /\ [Rows!Next]_(Rows!vars) => RowsInv'
<1>. SUFFICES ASSUME RowsInv, [Rows!Next]_(Rows!vars) PROVE RowsInv'
    OBVIOUS
<1>1. CASE UNCHANGED Rows!vars
    BY <1>1 DEF Rows!vars, RowsInv, Rows!TypeOK, Rows!RunsConverge, Rows!Passed
<1>. QED
    BY <1>1, RowsStartStep, RowsUpsertStep, RowsCompleteStep, RowsRunFailsStep, RowsKilledStep,
       RowsUpdateStep, RowsSwitchStep, RowsCreateStep
    DEF Rows!Next

LEMMA RowsConverges == Rows!Spec => [](Rows!TypeOK /\ Rows!RunsConverge)
<1>1. RowsInv => Rows!TypeOK /\ Rows!RunsConverge
    BY DEF RowsInv
<1>. QED BY <1>1, RowsInitInv, RowsNext, PTL DEF Rows!Spec

-----------------------------------------------------------------------------
(* The clean-up.  The foreign keys hold (ScriptSchema), and while nobody   *)
(* inserts a row the plan has every row that refers to what it has         *)
(* (ScriptKnown).  Since the tables are emptied in an order in which the   *)
(* referring one comes first (ScriptPlace), no delete is refused.          *)

ScriptRowSet == Script!Tables \X (1 .. PerTable)

\* Whose rows a row needs: <<needed, by>>.
ScriptNeeded ==
    {<<"request", "offer">>, <<"request", "conversation">>, <<"offer", "conversation">>,
     <<"order", "subscription">>, <<"conversation", "message">>, <<"conversation", "review">>}

\* The foreign keys hold; a conversation has all that its offer needs, an offer
\* one request.
ScriptSchema ==
    /\ DOMAIN links = Script!Rows
    /\ Script!Rows \subseteq ScriptRowSet
    /\ users \subseteq Accounts
    /\ \A x \in Script!Rows : needs[x] \subseteq users \cup Script!Rows /\ links[x] \subseteq users \cup Script!Rows
    /\ \A x \in Script!Rows : \A r \in needs[x] \cap Script!Rows :
        /\ <<r[1], x[1]>> \in ScriptNeeded
        /\ r[1] = "offer" => needs[r] \subseteq needs[x]
    /\ \A o \in Script!In("offer") :
        /\ links[o] = {}
        /\ \A r, s \in needs[o] \cap Script!Rows : r = s

\* The rows of a table that should have been planned are.
ScriptPlannedAll(table, of) == \A x \in Script!In(table) : Script!Refs(x) \cap of # {} => x \in planned

\* What the script knows, if nothing was inserted meanwhile.
ScriptKnown ==
    /\ script \in {"candidates", "requests"} => planned = {}
    /\ \A x \in planned : x \in ScriptRowSet /\ x[1] \in {"request", "conversation", "order"}
    /\ quiet =>
        /\ script \in {"conversations", "orders", "execute"} => ScriptPlannedAll("request", candidates)
        /\ script \in {"orders", "execute"} =>
            ScriptPlannedAll("conversation", candidates \cup {x \in planned : x[1] = "request"})
        /\ script = "execute" => ScriptPlannedAll("order", candidates)

ScriptTypes ==
    /\ script \in {"candidates", "requests", "conversations", "orders", "execute", "done", "failed"}
    /\ candidates \subseteq Accounts
    /\ quiet \in BOOLEAN

ScriptInv == ScriptTypes /\ ScriptSchema /\ ScriptKnown /\ Script!QuietRunSucceeds

\* A row is of one table, and no row is an account.
LEMMA ScriptTabled ==
    /\ \A x \in ScriptRowSet : x[1] \in Script!Tables /\ x \notin Accounts
    /\ \A table \in Script!Tables : \A x \in {table} \X (1 .. PerTable) : x \in ScriptRowSet /\ x[1] = table
<1>1. \A x \in ScriptRowSet : x[1] \in Script!Tables
    BY DEF ScriptRowSet
<1>2. \A table \in Script!Tables : \A x \in {table} \X (1 .. PerTable) : x \in ScriptRowSet /\ x[1] = table
    BY DEF ScriptRowSet
<1>3. \A x \in ScriptRowSet : x \notin Accounts
    BY ScriptAssumed DEF Script!CleanupAssumption, ScriptRowSet
<1>. QED BY <1>1, <1>2, <1>3

-----------------------------------------------------------------------------
(* An insert *)

\* A table with room has a row that is not taken.
LEMMA ScriptRoom ==
    ASSUME ScriptSchema, NEW table \in Script!Tables, Cardinality(Script!In(table)) + 1 <= PerTable
    PROVE  \E x \in {table} \X (1 .. PerTable) : x \notin Script!Rows
<1>. SUFFICES ASSUME {table} \X (1 .. PerTable) \subseteq Script!Rows PROVE FALSE
    OBVIOUS
<1>. DEFINE all == {table} \X (1 .. PerTable)
<1>1. PerTable \in Nat
    BY ScriptAssumed DEF Script!CleanupAssumption
<1>2. IsFiniteSet(1 .. PerTable) /\ Cardinality(1 .. PerTable) = PerTable
    BY <1>1, FS_Interval
<1>3. IsFiniteSet({table}) /\ Cardinality({table}) = 1
    BY FS_Singleton
<1>4. IsFiniteSet(all) /\ Cardinality(all) = 1 * PerTable
    <2>1. Cardinality(all) = Cardinality({table}) * Cardinality(1 .. PerTable) /\ IsFiniteSet(all)
        BY <1>2, <1>3, FS_Product, Zenon
    <2>. QED BY <1>2, <1>3, <2>1, Zenon
<1>5. Script!In(table) = all
    <2>1. all \subseteq Script!In(table)
        BY ScriptTabled DEF Script!In
    <2>2. Script!In(table) \subseteq all
        BY DEF Script!In, ScriptSchema, ScriptRowSet
    <2>. QED BY <2>1, <2>2
<1>. QED BY <1>1, <1>4, <1>5

\* A row that is inserted, with what it must and may refer to.
ScriptAdded(r, must, may) ==
    /\ r \in ScriptRowSet
    /\ r \notin Script!Rows
    /\ Script!Rows' = Script!Rows \cup {r}
    /\ DOMAIN links' = DOMAIN links \cup {r}
    /\ needs'[r] = must
    /\ links'[r] = may
    /\ \A x \in Script!Rows : needs'[x] = needs[x] /\ links'[x] = links[x]
    /\ UNCHANGED <<users, script, candidates, planned>>
    /\ quiet' = (quiet /\ script \in {"candidates", "done", "failed"})

\* Insert adds a row of its table.
LEMMA ScriptInserted ==
    ASSUME ScriptSchema, NEW table \in Script!Tables, NEW must, NEW may, Script!Insert(table, must, may)
    PROVE  \E r : r[1] = table /\ ScriptAdded(r, must, may)
<1>. DEFINE r == CHOOSE x \in {table} \X (1 .. PerTable) : x \notin Script!Rows
<1>1. r \in {table} \X (1 .. PerTable) /\ r \notin Script!Rows
    BY ScriptRoom, SameCardinality DEF Script!Insert
<1>2. r \in ScriptRowSet /\ r[1] = table
    BY <1>1, ScriptTabled
<1>3. /\ needs' = [x \in Script!Rows \cup {r} |-> IF x = r THEN must ELSE needs[x]]
      /\ links' = [x \in Script!Rows \cup {r} |-> IF x = r THEN may ELSE links[x]]
      /\ UNCHANGED <<users, script, candidates, planned>>
      /\ quiet' = (quiet /\ script \in {"candidates", "done", "failed"})
    BY DEF Script!Insert
<1>. HIDE DEF r
<1>4. ScriptAdded(r, must, may)
    BY <1>1, <1>2, <1>3 DEF ScriptAdded, Script!Rows, ScriptSchema
<1>. QED BY <1>2, <1>4

\* What an inserted row refers to keeps the schema.
LEMMA ScriptGrown ==
    ASSUME ScriptInv, NEW r, NEW must, NEW may, ScriptAdded(r, must, may),
           must \subseteq users \cup Script!Rows, may \subseteq users \cup Script!Rows,
           \A s \in must \cap Script!Rows : /\ <<s[1], r[1]>> \in ScriptNeeded
                                            /\ s[1] = "offer" => needs[s] \subseteq must,
           r[1] = "offer" => may = {} /\ \A s, t \in must \cap Script!Rows : s = t
    PROVE  ScriptInv'
<1>1. r \notin users
    BY ScriptTabled DEF ScriptInv, ScriptSchema, ScriptAdded
<1>2. DOMAIN links' = Script!Rows' /\ Script!Rows' \subseteq ScriptRowSet /\ users' \subseteq Accounts
    BY DEF ScriptInv, ScriptSchema, ScriptAdded
<1>3. \A x \in Script!Rows' : needs'[x] \subseteq users' \cup Script!Rows' /\ links'[x] \subseteq users' \cup Script!Rows'
    BY DEF ScriptInv, ScriptSchema, ScriptAdded
<1>4. \A x \in Script!Rows : needs'[x] \cap Script!Rows' = needs[x] \cap Script!Rows
    BY <1>1 DEF ScriptInv, ScriptSchema, ScriptAdded
<1>5. must \cap Script!Rows' = must \cap Script!Rows
    BY <1>1 DEF ScriptInv, ScriptSchema, ScriptAdded
<1>6. ASSUME NEW x \in Script!Rows', NEW s \in needs'[x] \cap Script!Rows'
      PROVE  <<s[1], x[1]>> \in ScriptNeeded /\ (s[1] = "offer" => needs'[s] \subseteq needs'[x])
    <2>1. s \in Script!Rows /\ needs'[s] = needs[s]
        BY <1>4, <1>5, <1>6 DEF ScriptAdded
    <2>2. CASE x \in Script!Rows
        BY <2>1, <2>2, <1>4 DEF ScriptInv, ScriptSchema, ScriptAdded
    <2>3. CASE x = r
        <3>1. s \in must \cap Script!Rows /\ needs'[x] = must
            BY <1>5, <1>6, <2>1, <2>3 DEF ScriptAdded
        <3>2. <<s[1], r[1]>> \in ScriptNeeded /\ (s[1] = "offer" => needs[s] \subseteq must)
            <4>1. s \in must \cap Script!Rows
                BY <2>1, <3>1
            <4>. QED BY <4>1
        <3>3. needs'[x] = must /\ needs'[s] = needs[s]
            BY <2>1, <2>3, <3>1
        <3>. QED BY <2>3, <3>2, <3>3
    <2>. QED BY <2>2, <2>3 DEF ScriptAdded
<1>7. ASSUME NEW o \in Script!In("offer")'
      PROVE  links'[o] = {} /\ \A s, t \in needs'[o] \cap Script!Rows' : s = t
    <2>1. o[1] = "offer" /\ o \in Script!Rows'
        BY DEF Script!In
    <2>2. CASE o \in Script!Rows
        BY <2>1, <2>2, <1>4 DEF ScriptInv, ScriptSchema, ScriptAdded, Script!In
    <2>3. CASE o = r
        BY <2>1, <2>3, <1>5 DEF ScriptAdded
    <2>. QED BY <2>1, <2>2, <2>3 DEF ScriptAdded
<1>8. ScriptSchema'
    BY <1>2, <1>3, <1>6, <1>7 DEF ScriptSchema
<1>9. ScriptKnown'
    <2>1. quiet' => script \in {"candidates", "done", "failed"}
        BY DEF ScriptAdded, ScriptInv, ScriptTypes
    <2>. QED BY <2>1 DEF ScriptAdded, ScriptInv, ScriptKnown
<1>10. ScriptTypes' /\ Script!QuietRunSucceeds'
    BY DEF ScriptAdded, ScriptInv, ScriptTypes, Script!QuietRunSucceeds
<1>. QED BY <1>8, <1>9, <1>10 DEF ScriptInv

\* The cases of Application, in its order.
LEMMA ScriptApplicationStep == ScriptInv /\ Script!Application => ScriptInv'
<1>. SUFFICES ASSUME ScriptInv, Script!Application PROVE ScriptInv'
    OBVIOUS
<1>0. ScriptSchema
    BY DEF ScriptInv
<1>. USE <1>0
<1>1. ASSUME NEW u \in users, NEW table \in {"session", "request", "order"}, Script!Insert(table, {u}, {})
      PROVE  ScriptInv'
    <2>1. PICK r : r[1] = table /\ ScriptAdded(r, {u}, {})
        BY <1>1, ScriptInserted DEF Script!Tables
    <2>2. u \notin Script!Rows
        BY ScriptTabled DEF ScriptSchema
    <2>. QED BY <1>1, <2>1, <2>2, ScriptGrown
<1>2. ASSUME NEW u \in users, NEW q \in Script!In("request"), Script!Insert("offer", {q, u}, {})
      PROVE  ScriptInv'
    <2>1. PICK r : r[1] = "offer" /\ ScriptAdded(r, {q, u}, {})
        BY <1>2, ScriptInserted DEF Script!Tables
    <2>2. u \notin Script!Rows /\ q \in Script!Rows /\ q[1] = "request"
        BY ScriptTabled DEF ScriptSchema, Script!In
    <2>3. {q, u} \cap Script!Rows = {q}
        BY <2>2
    <2>4. <<q[1], r[1]>> \in ScriptNeeded
        BY <2>1, <2>2 DEF ScriptNeeded
    <2>. QED BY <1>2, <2>1, <2>2, <2>3, <2>4, ScriptGrown
<1>3. ASSUME NEW u \in users, NEW q \in Script!In("request"), Script!Insert("order", {u}, {q})
      PROVE  ScriptInv'
    <2>1. PICK r : r[1] = "order" /\ ScriptAdded(r, {u}, {q})
        BY <1>3, ScriptInserted DEF Script!Tables
    <2>2. u \notin Script!Rows /\ q \in Script!Rows
        BY ScriptTabled DEF ScriptSchema, Script!In
    <2>. QED BY <1>3, <2>1, <2>2, ScriptGrown
<1>4. ASSUME NEW u \in users, NEW o \in Script!In("order"), Script!Insert("subscription", {o, u}, {})
      PROVE  ScriptInv'
    <2>1. PICK r : r[1] = "subscription" /\ ScriptAdded(r, {o, u}, {})
        BY <1>4, ScriptInserted DEF Script!Tables
    <2>2. u \notin Script!Rows /\ o \in Script!Rows /\ o[1] = "order"
        BY ScriptTabled DEF ScriptSchema, Script!In
    <2>3. <<o[1], r[1]>> \in ScriptNeeded
        BY <2>1, <2>2 DEF ScriptNeeded
    <2>. QED BY <1>4, <2>1, <2>2, <2>3, ScriptGrown
<1>5. ASSUME NEW u \in users, NEW o \in Script!In("order"), Script!Insert("entitlement", {u}, {o} \cup links[o])
      PROVE  ScriptInv'
    <2>1. PICK r : r[1] = "entitlement" /\ ScriptAdded(r, {u}, {o} \cup links[o])
        BY <1>5, ScriptInserted DEF Script!Tables
    <2>2. u \notin Script!Rows /\ o \in Script!Rows
        BY ScriptTabled DEF ScriptSchema, Script!In
    <2>3. links[o] \subseteq users \cup Script!Rows
        BY <2>2 DEF ScriptSchema
    <2>. QED BY <1>5, <2>1, <2>2, <2>3, ScriptGrown
<1>6. ASSUME NEW u \in users, NEW c \in Script!In("conversation"), Script!Insert("message", {c}, {u})
      PROVE  ScriptInv'
    <2>1. PICK r : r[1] = "message" /\ ScriptAdded(r, {c}, {u})
        BY <1>6, ScriptInserted DEF Script!Tables
    <2>2. c \in Script!Rows /\ c[1] = "conversation"
        BY DEF Script!In
    <2>3. <<c[1], r[1]>> \in ScriptNeeded
        BY <2>1, <2>2 DEF ScriptNeeded
    <2>. QED BY <1>6, <2>1, <2>2, <2>3, ScriptGrown
<1>7. ASSUME NEW c \in Script!In("conversation"), Script!Insert("review", {c} \cup Script!OwnersOf(c), {})
      PROVE  ScriptInv'
    <2>1. PICK r : r[1] = "review" /\ ScriptAdded(r, {c} \cup Script!OwnersOf(c), {})
        BY <1>7, ScriptInserted DEF Script!Tables
    <2>2. c \in Script!Rows /\ c[1] = "conversation" /\ Script!OwnersOf(c) \subseteq users
        BY DEF Script!In, Script!OwnersOf
    <2>3. ({c} \cup Script!OwnersOf(c)) \cap Script!Rows = {c}
        BY <2>2, ScriptTabled DEF ScriptSchema
    <2>4. <<c[1], r[1]>> \in ScriptNeeded
        BY <2>1, <2>2 DEF ScriptNeeded
    <2>. QED BY <1>7, <2>1, <2>2, <2>3, <2>4, ScriptGrown
<1>8. ASSUME NEW o \in Script!In("offer"), NEW q \in needs[o] \cap Script!In("request"),
             Script!Insert("conversation", {q, o} \cup Script!OwnersOf(q) \cup Script!OwnersOf(o), {})
      PROVE  ScriptInv'
    <2>. DEFINE must == {q, o} \cup Script!OwnersOf(q) \cup Script!OwnersOf(o)
    <2>1. PICK r : r[1] = "conversation" /\ ScriptAdded(r, must, {})
        BY <1>8, ScriptInserted DEF Script!Tables
    <2>2. /\ o \in Script!Rows /\ o[1] = "offer" /\ q \in Script!Rows /\ q[1] = "request"
          /\ Script!OwnersOf(q) \subseteq users /\ Script!OwnersOf(o) \subseteq users
        BY DEF Script!In, Script!OwnersOf
    <2>3. must \cap Script!Rows = {q, o}
        BY <2>2, ScriptTabled DEF ScriptSchema
    <2>4. <<q[1], r[1]>> \in ScriptNeeded /\ <<o[1], r[1]>> \in ScriptNeeded
        BY <2>1, <2>2 DEF ScriptNeeded
    <2>5. needs[o] \subseteq must
        BY <2>2 DEF ScriptSchema, Script!OwnersOf
    <2>6. must \subseteq users \cup Script!Rows
        BY <2>2
    <2>. HIDE DEF must
    <2>. QED BY <2>1, <2>2, <2>3, <2>4, <2>5, <2>6, ScriptGrown
<1>. QED BY <1>1, <1>2, <1>3, <1>4, <1>5, <1>6, <1>7, <1>8 DEF Script!Application

-----------------------------------------------------------------------------
(* The script *)

\* The candidates, the plan, and starting again.
LEMMA ScriptSearchStep == ScriptInv /\ (Script!FindCandidates \/ Script!BuildPlan \/ Script!Again) => ScriptInv'
<1>. SUFFICES ASSUME ScriptInv, Script!FindCandidates \/ Script!BuildPlan \/ Script!Again PROVE ScriptInv'
    OBVIOUS
<1>0. UNCHANGED Script!db
    BY DEF Script!FindCandidates, Script!BuildPlan, Script!Plan, Script!Again
<1>1. ScriptSchema' /\ \A x : Script!Refs(x)' = Script!Refs(x)
    BY <1>0 DEF Script!db, ScriptInv, ScriptSchema, Script!In, Script!Rows, Script!Refs
<1>2. \A table : Script!In(table)' = Script!In(table)
    BY <1>0 DEF Script!db, Script!In, Script!Rows
<1>3. CASE Script!FindCandidates
    <2>1. ScriptTypes' /\ Script!QuietRunSucceeds'
        BY <1>3 DEF Script!FindCandidates, Script!Then, ScriptInv, ScriptTypes, Script!QuietRunSucceeds, ScriptSchema
    <2>2. ScriptKnown'
        BY <1>3 DEF Script!FindCandidates, Script!Then, ScriptInv, ScriptKnown
    <2>. QED BY <1>1, <2>1, <2>2 DEF ScriptInv
<1>4. CASE Script!BuildPlan
    <2>0. /\ candidates' = candidates /\ quiet' = quiet
          /\ script' \in {"conversations", "orders", "execute"}
        BY <1>4 DEF Script!BuildPlan, Script!Plan, Script!Then
    <2>1. ScriptTypes' /\ Script!QuietRunSucceeds'
        BY <2>0 DEF ScriptInv, ScriptTypes, Script!QuietRunSucceeds
    <2>. DEFINE new(table) == {r \in Script!In(table) : Script!Refs(r) \cap (candidates \cup planned) # {}}
    <2>2. ASSUME NEW table \in {"request", "conversation", "order"}, planned' = planned \cup new(table)
          PROVE  \A x \in planned' : x \in ScriptRowSet /\ x[1] \in {"request", "conversation", "order"}
        BY <2>2 DEF ScriptInv, ScriptKnown, ScriptSchema, Script!In
    <2>3. CASE Script!Plan("requests", "request", "conversations")
        <3>1. script' = "conversations" /\ planned' = planned \cup new("request")
            BY <2>3 DEF Script!Plan, Script!Then
        <3>2. ScriptPlannedAll("request", candidates)'
            BY <2>0, <3>1, <1>1, <1>2 DEF ScriptPlannedAll
        <3>. QED BY <1>1, <2>0, <2>1, <2>2, <3>1, <3>2 DEF ScriptInv, ScriptKnown
    <2>4. CASE Script!Plan("conversations", "conversation", "orders")
        <3>1. script = "conversations" /\ script' = "orders" /\ planned' = planned \cup new("conversation")
            BY <2>4 DEF Script!Plan, Script!Then
        <3>2. {x \in planned' : x[1] = "request"} = {x \in planned : x[1] = "request"}
            BY <3>1 DEF Script!In
        <3>3. ScriptPlannedAll("conversation", candidates \cup {x \in planned : x[1] = "request"})'
            BY <2>0, <3>1, <3>2, <1>1, <1>2 DEF ScriptPlannedAll
        <3>4. quiet => ScriptPlannedAll("request", candidates)'
            BY <2>0, <3>1, <1>1, <1>2 DEF ScriptPlannedAll, ScriptInv, ScriptKnown
        <3>. QED BY <1>1, <2>0, <2>1, <2>2, <3>1, <3>3, <3>4 DEF ScriptInv, ScriptKnown
    <2>5. CASE Script!Plan("orders", "order", "execute")
        <3>1. script = "orders" /\ script' = "execute" /\ planned' = planned \cup new("order")
            BY <2>5 DEF Script!Plan, Script!Then
        <3>2. {x \in planned' : x[1] = "request"} = {x \in planned : x[1] = "request"}
            BY <3>1 DEF Script!In
        <3>3. ScriptPlannedAll("order", candidates)'
            BY <2>0, <3>1, <1>1, <1>2 DEF ScriptPlannedAll
        <3>4. quiet =>
                /\ ScriptPlannedAll("request", candidates)'
                /\ ScriptPlannedAll("conversation", candidates \cup {x \in planned : x[1] = "request"})'
            BY <2>0, <3>1, <3>2, <1>1, <1>2 DEF ScriptPlannedAll, ScriptInv, ScriptKnown
        <3>. QED BY <1>1, <2>0, <2>1, <2>2, <3>1, <3>3, <3>4 DEF ScriptInv, ScriptKnown
    <2>. QED BY <1>4, <2>3, <2>4, <2>5 DEF Script!BuildPlan
<1>5. CASE Script!Again
    BY <1>1, <1>5 DEF Script!Again, ScriptInv, ScriptTypes, ScriptKnown, Script!QuietRunSucceeds
<1>. QED BY <1>3, <1>4, <1>5

\* Where a table comes in the order of the deletes.
ScriptPlace == [t \in Script!Tables |->
    CASE t = "subscription" -> 1 [] t = "entitlement" -> 2 [] t = "order" -> 3
      [] t = "message" -> 4 [] t = "review" -> 5 [] t = "conversation" -> 6
      [] t = "offer" -> 7 [] t = "request" -> 8 [] t = "session" -> 9]

\* A table that needs another comes before it.
LEMMA ScriptPlaces ==
    /\ DOMAIN Script!Order = 1 .. 9
    /\ \A t \in Script!Tables : ScriptPlace[t] \in 1 .. 9 /\ Script!Order[ScriptPlace[t]] = t
    /\ \A i \in 1 .. 9 : Script!Order[i] \in Script!Tables /\ ScriptPlace[Script!Order[i]] = i
    /\ \A p \in ScriptNeeded : p[1] \in Script!Tables /\ p[2] \in Script!Tables /\ ScriptPlace[p[2]] < ScriptPlace[p[1]]
    BY DEF Script!Order, Script!Tables, ScriptPlace, ScriptNeeded

\* Nothing inserted: whoever needs a row that goes, goes, and goes before.
LEMMA ScriptNotRefused == ScriptInv /\ script = "execute" /\ quiet => ~Script!Refused
<1>. SUFFICES ASSUME ScriptInv, script = "execute", quiet PROVE ~Script!Refused
    OBVIOUS
<1>1. /\ ScriptPlannedAll("request", candidates)
      /\ ScriptPlannedAll("conversation", candidates \cup {x \in planned : x[1] = "request"})
      /\ ScriptPlannedAll("order", candidates)
      /\ \A x \in planned : x[1] \in {"request", "conversation", "order"}
    BY DEF ScriptInv, ScriptKnown
<1>2. \A x \in Script!Rows : x[1] \in Script!Tables /\ x \in Script!In(x[1])
    BY ScriptTabled DEF ScriptInv, ScriptSchema, Script!In
<1>3. ASSUME NEW x \in Script!Rows, needs[x] \cap candidates # {}
      PROVE  x \in Script!Doomed(x[1])
    <2>1. Script!Refs(x) \cap candidates # {}
        BY <1>3 DEF Script!Refs
    <2>2. CASE x[1] \in {"request", "conversation", "order"}
        <3>1. x \in planned
            BY <1>1, <1>2, <2>1, <2>2 DEF ScriptPlannedAll
        <3>. QED BY <3>1, <1>2 DEF Script!Doomed
    <2>3. CASE x[1] \notin {"request", "conversation", "order"}
        BY <2>1, <2>3, <1>2 DEF Script!Doomed
    <2>. QED BY <2>2, <2>3
<1>4. ASSUME NEW x \in Script!Rows, NEW r \in Script!Rows, r \in needs[x], r \in Script!Doomed(r[1])
      PROVE  x \in Script!Doomed(x[1])
    <2>0. <<r[1], x[1]>> \in ScriptNeeded /\ r \in Script!Refs(x) /\ x \in Script!In(x[1]) /\ r \in Script!In(r[1])
        BY <1>2, <1>4 DEF ScriptInv, ScriptSchema, Script!Refs
    <2>1. CASE r[1] \in {"request", "conversation", "order"}
        <3>1. r \in planned
            BY <1>4, <2>1 DEF Script!Doomed
        <3>2. CASE x[1] = "conversation"
            <4>1. r[1] = "request"
                BY <2>0, <2>1, <3>2 DEF ScriptNeeded
            <4>2. x \in planned
                BY <1>1, <2>0, <3>1, <3>2, <4>1 DEF ScriptPlannedAll
            <4>. QED BY <4>2, <2>0 DEF Script!Doomed
        <3>3. CASE x[1] # "conversation"
            <4>1. x[1] \notin {"request", "conversation", "order"}
                BY <2>0, <3>3 DEF ScriptNeeded
            <4>. QED BY <4>1, <3>1, <2>0 DEF Script!Doomed
        <3>. QED BY <3>2, <3>3
    <2>2. CASE r[1] \notin {"request", "conversation", "order"}
        <3>1. r[1] = "offer" /\ x[1] = "conversation"
            BY <2>0, <2>2 DEF ScriptNeeded
        <3>2. r \notin planned /\ Script!Refs(r) = needs[r] /\ needs[r] \subseteq needs[x]
            BY <1>1, <1>4, <2>0, <3>1 DEF ScriptInv, ScriptSchema, Script!Refs
        <3>3. PICK s \in needs[r] : s \in candidates \cup planned
            BY <1>4, <3>1, <3>2 DEF Script!Doomed
        <3>4. CASE s \in candidates
            BY <1>3, <3>2, <3>3, <3>4
        <3>5. CASE s \in planned /\ s \notin candidates
            <4>1. s \in Script!Rows
                <5>1. s \in ScriptRowSet
                    BY <3>5 DEF ScriptInv, ScriptKnown
                <5>2. s \in users \cup Script!Rows /\ s \notin users
                    BY <5>1, <3>3, ScriptTabled DEF ScriptInv, ScriptSchema
                <5>. QED BY <5>2
            <4>2. <<s[1], r[1]>> \in ScriptNeeded
                BY <4>1, <3>3 DEF ScriptInv, ScriptSchema
            <4>3. s[1] = "request"
                BY <4>2, <3>1 DEF ScriptNeeded
            <4>4. s \in Script!Refs(x)
                BY <3>2, <3>3 DEF Script!Refs
            <4>5. x \in planned
                BY <1>1, <2>0, <3>1, <3>5, <4>3, <4>4 DEF ScriptPlannedAll
            <4>. QED BY <4>5, <2>0 DEF Script!Doomed
        <3>. QED BY <3>3, <3>4, <3>5
    <2>. QED BY <2>1, <2>2
<1>5. ASSUME NEW i \in DOMAIN Script!Order, NEW r \in Script!Doomed(Script!Order[i]), NEW x \in Script!Rows, r \in needs[x],
             \A j \in 1 .. i : x \notin Script!Doomed(Script!Order[j])
      PROVE  FALSE
    <2>1. r \in Script!Rows /\ r[1] = Script!Order[i] /\ i \in 1 .. 9
        BY ScriptPlaces DEF Script!Doomed, Script!In
    <2>2. x \in Script!Doomed(x[1])
        BY <1>4, <1>5, <2>1
    <2>3. <<r[1], x[1]>> \in ScriptNeeded
        BY <1>5, <2>1 DEF ScriptInv, ScriptSchema
    <2>4. <<r[1], x[1]>>[1] = r[1] /\ <<r[1], x[1]>>[2] = x[1]
        OBVIOUS
    <2>5. x[1] \in Script!Tables /\ ScriptPlace[x[1]] < ScriptPlace[r[1]] /\ ScriptPlace[r[1]] = i
        BY <2>1, <2>3, <2>4, ScriptPlaces
    <2>6. ScriptPlace[x[1]] \in 1 .. i /\ Script!Order[ScriptPlace[x[1]]] = x[1]
        BY <2>1, <2>5, ScriptPlaces
    <2>. QED BY <1>5, <2>2, <2>6
<1>. QED BY <1>3, <1>5 DEF Script!Refused

\* The transaction deletes what was planned.
LEMMA ScriptExecuteStep == ScriptInv /\ Script!ExecuteCleanupPlan => ScriptInv'
<1>. SUFFICES ASSUME ScriptInv, Script!ExecuteCleanupPlan PROVE ScriptInv'
    OBVIOUS
<1>. DEFINE gone == UNION {Script!Doomed(Script!Order[i]) : i \in DOMAIN Script!Order}
<1>1. /\ ~Script!Refused
      /\ users' = users \ candidates
      /\ needs' = [x \in Script!Rows \ gone |-> needs[x]]
      /\ links' = [x \in Script!Rows \ gone |-> links[x] \ (gone \cup candidates)]
      /\ script' = "done"
      /\ UNCHANGED <<candidates, planned, quiet>>
    BY DEF Script!ExecuteCleanupPlan, Script!Then
<1>2. ASSUME NEW x \in Script!Rows, x \notin gone
      PROVE  needs[x] \cap gone = {} /\ needs[x] \cap candidates = {}
    <2>1. ASSUME NEW r \in needs[x], r \in gone PROVE FALSE
        <3>1. PICK i \in DOMAIN Script!Order : r \in Script!Doomed(Script!Order[i])
            BY <2>1
        <3>2. PICK j \in 1 .. i : x \in Script!Doomed(Script!Order[j])
            BY <1>1, <2>1, <3>1 DEF Script!Refused
        <3>3. j \in DOMAIN Script!Order
            BY <3>1, <3>2, ScriptPlaces
        <3>. QED BY <1>2, <3>2, <3>3
    <2>2. ASSUME needs[x] \cap candidates # {} PROVE FALSE
        <3>1. x \in Script!Doomed(x[1])
            BY <1>1, <2>2 DEF Script!Refused
        <3>2. x[1] \in Script!Tables
            BY ScriptTabled DEF ScriptInv, ScriptSchema
        <3>3. ScriptPlace[x[1]] \in DOMAIN Script!Order /\ Script!Order[ScriptPlace[x[1]]] = x[1]
            BY <3>2, ScriptPlaces
        <3>. QED BY <1>2, <3>1, <3>3
    <2>. QED BY <2>1, <2>2
<1>. HIDE DEF gone
<1>3. Script!Rows' = Script!Rows \ gone /\ DOMAIN links' = Script!Rows'
    BY <1>1 DEF Script!Rows
<1>4. \A x \in Script!Rows' : needs'[x] = needs[x] /\ links'[x] = links[x] \ (gone \cup candidates)
    BY <1>1, <1>3
<1>5. ScriptSchema'
    <2>1. Script!Rows' \subseteq ScriptRowSet /\ users' \subseteq Accounts
        BY <1>1, <1>3 DEF ScriptInv, ScriptSchema
    <2>2. ASSUME NEW x \in Script!Rows'
          PROVE  needs'[x] \subseteq users' \cup Script!Rows' /\ links'[x] \subseteq users' \cup Script!Rows'
        BY <1>1, <1>2, <1>3, <1>4, <2>2 DEF ScriptInv, ScriptSchema
    <2>3. ASSUME NEW x \in Script!Rows', NEW r \in needs'[x] \cap Script!Rows'
          PROVE  <<r[1], x[1]>> \in ScriptNeeded /\ (r[1] = "offer" => needs'[r] \subseteq needs'[x])
        <3>1. x \in Script!Rows /\ r \in needs[x] \cap Script!Rows
            BY <1>3, <1>4, <2>3
        <3>. QED BY <3>1, <1>4, <2>3 DEF ScriptInv, ScriptSchema
    <2>4. ASSUME NEW o \in Script!In("offer")'
          PROVE  links'[o] = {} /\ \A r, s \in needs'[o] \cap Script!Rows' : r = s
        <3>1. o \in Script!Rows' /\ o \in Script!In("offer")
            BY <1>3 DEF Script!In
        <3>. QED BY <3>1, <1>3, <1>4 DEF ScriptInv, ScriptSchema
    <2>. QED BY <1>3, <2>1, <2>2, <2>3, <2>4 DEF ScriptSchema
<1>6. ScriptTypes' /\ ScriptKnown' /\ Script!QuietRunSucceeds'
    BY <1>1 DEF ScriptInv, ScriptTypes, ScriptKnown, Script!QuietRunSucceeds
<1>. QED BY <1>5, <1>6 DEF ScriptInv

\* The transaction is only refused if something was inserted.
LEMMA ScriptFailStep == ScriptInv /\ Script!CleanupFails => ScriptInv'
<1>. SUFFICES ASSUME ScriptInv, Script!CleanupFails PROVE ScriptInv'
    OBVIOUS
<1>1. ~quiet /\ script' = "failed" /\ UNCHANGED <<Script!db, candidates, planned, quiet>>
    BY ScriptNotRefused DEF Script!CleanupFails, Script!Then, ScriptInv, ScriptTypes
<1>2. ScriptSchema'
    BY <1>1 DEF Script!db, ScriptInv, ScriptSchema, Script!In, Script!Rows
<1>. QED BY <1>1, <1>2 DEF ScriptInv, ScriptTypes, ScriptKnown, Script!QuietRunSucceeds

LEMMA ScriptInitInv == Script!Init => ScriptInv
BY DEF Script!Init, ScriptInv, ScriptTypes, ScriptSchema, ScriptKnown, Script!QuietRunSucceeds, Script!Rows, Script!In

\* Every step of the clean-up, or of the application, keeps its invariant.
LEMMA ScriptNext == ScriptInv /\ [Script!Next]_(Script!vars) => ScriptInv'
<1>. SUFFICES ASSUME ScriptInv, [Script!Next]_(Script!vars) PROVE ScriptInv'
    OBVIOUS
<1>1. CASE UNCHANGED Script!vars
    BY <1>1 DEF Script!vars, Script!db, ScriptInv, ScriptTypes, ScriptSchema, ScriptKnown, Script!QuietRunSucceeds, ScriptPlannedAll, Script!In,
       Script!Rows, Script!Refs
<1>. QED BY <1>1, ScriptApplicationStep, ScriptSearchStep, ScriptExecuteStep, ScriptFailStep DEF Script!Next

LEMMA ScriptTyped == ScriptInv => Script!TypeOK
BY DEF ScriptInv, ScriptTypes, ScriptSchema, Script!TypeOK, Script!Refs

LEMMA ScriptQuietSucceeds == Script!Spec => [](Script!TypeOK /\ Script!QuietRunSucceeds)
<1>1. ScriptInv => Script!TypeOK /\ Script!QuietRunSucceeds
    BY ScriptTyped DEF ScriptInv
<1>. QED BY <1>1, ScriptInitInv, ScriptNext, PTL DEF Script!Spec

-----------------------------------------------------------------------------
(* The conversation.  Everything the browser shows or is about to be       *)
(* brought lies at or above the cursor, but for the messages that were     *)
(* inserted late (ChatAbove); an older page lies below it (ChatPaging), so *)
(* it has nothing that is shown.                                           *)

\* A page is some of the rows, and ends in its cursor if there are more.
ChatWhole(page, n) ==
    /\ page.items \subseteq 1 .. n
    /\ page.more \in BOOLEAN
    /\ page.cursor \in 0 .. n
    /\ page.more => page.cursor \in page.items /\ \A m \in page.items : page.cursor <= m

\* listMessages returns such a page.
LEMMA ChatPageWhole ==
    ASSUME NEW n \in Nat, NEW S, S \subseteq 1 .. n
    PROVE  /\ Chat!Page(S).items \subseteq S
           /\ ChatWhole(Chat!Page(S), n)
<1>. DEFINE page == Chat!Newest(S)
            least == CHOOSE m \in page : \A k \in page : m <= k
<1>1. page \subseteq S
    BY DEF Chat!Newest
<1>2. /\ Chat!Page(S).items = page
      /\ Chat!Page(S).more = (page # S)
      /\ Chat!Page(S).cursor = IF page = S THEN 0 ELSE least
    BY DEF Chat!Page
<1>3. ASSUME page # S
      PROVE  least \in page /\ \A m \in page : least <= m
    <2>1. S # {}
        BY <1>1, <1>3
    <2>2. PICK k \in S : \A m \in S : m <= k
        <3>1. S \subseteq 0 .. n
            OBVIOUS
        <3>. QED BY <2>1, <3>1, Largest
    <2>3. {m \in S : m > k} = {}
        <3>1. k \in Nat /\ \A m \in S : m \in Nat /\ m <= k /\ ~(m > k)
            BY <2>2
        <3>. QED BY <3>1
    <2>4. Cardinality({m \in S : m > k}) = 0
        BY <2>3, FS_EmptySet
    <2>5. k \in page
        BY <2>2, <2>4, ChatAssumed, SameCardinality DEF Chat!Newest, Chat!ThreadAssumption
    <2>. HIDE DEF page
    <2>6. page \subseteq Nat /\ page # {}
        BY <1>1, <2>5
    <2>7. \E m \in page : \A i \in page : m <= i
        BY <2>6, Smallest
    <2>. QED BY <2>7
<1>. HIDE DEF page, least
<1>4. page \subseteq 1 .. n
    BY <1>1
<1>5. Chat!Page(S).cursor \in 0 .. n
    <2>1. CASE page = S
        BY <1>2, <2>1
    <2>2. CASE page # S
        <3>1. least \in 1 .. n /\ Chat!Page(S).cursor = least
            BY <1>2, <1>3, <1>4, <2>2
        <3>. QED BY <3>1
    <2>. QED BY <2>1, <2>2
<1>6. Chat!Page(S).more \in BOOLEAN
    BY <1>2
<1>7. Chat!Page(S).more => Chat!Page(S).cursor = least /\ page # S
    BY <1>2
<1>. QED BY <1>1, <1>2, <1>3, <1>4, <1>5, <1>6, <1>7 DEF ChatWhole

-----------------------------------------------------------------------------
\* The types, and what is under way has been inserted.
ChatBounds ==
    /\ stage \in Seq({"inserted", "committed", "sent"})
    /\ Len(stage) <= MaxMessages
    /\ {mine, readAt, reply, late} \subseteq SUBSET Chat!Inserted
    /\ joined \in BOOLEAN
    /\ wire \in Seq(Chat!Inserted)
    /\ shown \in [1 .. MaxMessages -> Nat]
    /\ Chat!Shown \subseteq Chat!Inserted
    /\ {older, lastAt} \subseteq 0 .. Len(stage)
    /\ moreOlder \in BOOLEAN
    /\ asking \in {"first", "older", "nothing"}
    /\ answer # <<>> => answer = <<answer[1]>> /\ ChatWhole(answer[1], Len(stage))

\* A request and the page on its way: the first comes to a component that has no
\* page yet, an older one lies below the cursor.
ChatPaging ==
    /\ asking = "first" => ~moreOlder
    /\ asking = "first" /\ answer = <<>> => late = {}
    /\ asking = "older" => moreOlder
    /\ asking = "nothing" => answer = <<>>
    /\ asking = "older" /\ answer # <<>> =>
        /\ \A m \in answer[1].items : m < older
        /\ answer[1].more => answer[1].cursor < older

\* What the browser has, or may still be brought, is not below the cursor, but for
\* what is late.
ChatAbove ==
    /\ moreOlder => \A m \in Chat!UnderWay \cup Chat!Shown : m \in late \/ older <= m
    /\ asking = "first" /\ answer # <<>> =>
        (answer[1].more => \A m \in Chat!UnderWay : m \in late \/ answer[1].cursor <= m)

ChatInv == ChatBounds /\ ChatPaging /\ ChatAbove /\ Chat!RenderedOnce

LEMMA ChatInsertedIs ==
    ASSUME ChatBounds
    PROVE  /\ Len(stage) \in Nat
           /\ Chat!Inserted = 1 .. Len(stage)
           /\ Chat!Inserted \subseteq 1 .. MaxMessages
           /\ MaxMessages \in Nat
    BY ChatAssumed DEF ChatBounds, Chat!Inserted, Chat!ThreadAssumption

LEMMA ChatInitInv == Chat!Init => ChatInv
<1>. SUFFICES ASSUME Chat!Init PROVE ChatInv
    OBVIOUS
<1>1. Old \in Nat /\ MaxMessages \in Nat /\ Old <= MaxMessages
    BY ChatAssumed DEF Chat!ThreadAssumption
<1>2. Len(stage) = Old /\ Chat!Inserted = 1 .. Old /\ stage \in Seq({"inserted", "committed", "sent"})
    BY <1>1 DEF Chat!Init, Chat!Inserted
<1>3. Chat!Shown = {}
    BY DEF Chat!Init, Chat!Shown
<1>4. wire = <<>> /\ wire \in Seq(Chat!Inserted)
    BY DEF Chat!Init
<1>5. shown \in [1 .. MaxMessages -> Nat]
    BY DEF Chat!Init
<1>6. {mine, readAt, reply, late} \subseteq SUBSET Chat!Inserted
    BY <1>2 DEF Chat!Init
<1>7. {older, lastAt} \subseteq 0 .. Len(stage)
    BY <1>1, <1>2 DEF Chat!Init
<1>8. ChatBounds
    BY <1>1, <1>2, <1>3, <1>4, <1>5, <1>6, <1>7 DEF Chat!Init, ChatBounds
<1>. QED BY <1>1, <1>8 DEF Chat!Init, ChatInv, ChatPaging, ChatAbove, Chat!RenderedOnce

\* The invariant of the page side from what a step does to the rest.
LEMMA ChatQuieter ==
    ASSUME ChatInv, ChatBounds', UNCHANGED <<older, moreOlder, Chat!request>>, Chat!RenderedOnce',
           \A m \in (Chat!UnderWay \cup Chat!Shown)' :
               m \in Chat!UnderWay \cup Chat!Shown \/ \A k \in 0 .. Len(stage) : k <= m,
           \A m \in Chat!UnderWay' : m \in Chat!UnderWay \/ \A k \in 0 .. Len(stage) : k <= m
    PROVE  ChatInv'
<1>1. ChatPaging'
    BY DEF ChatInv, ChatPaging, Chat!request
<1>2. ChatAbove'
    <2>1. answer # <<>> => answer[1].cursor \in 0 .. Len(stage)
        BY DEF ChatInv, ChatBounds, ChatWhole
    <2>2. older \in 0 .. Len(stage)
        BY DEF ChatInv, ChatBounds
    <2>. QED BY <2>1, <2>2 DEF ChatInv, ChatAbove, Chat!request
<1>. QED BY <1>1, <1>2 DEF ChatInv

\* The elements of a longer and of a shorter sequence.
LEMMA ChatInAppend ==
    ASSUME NEW S, NEW q \in Seq(S), NEW x \in S
    PROVE  Append(q, x) \in Seq(S) /\ Chat!ToSet(Append(q, x)) = Chat!ToSet(q) \cup {x}
<1>1. /\ Append(q, x) \in Seq(S) /\ Len(q) \in Nat
      /\ Append(q, x)[Len(q) + 1] = x
      /\ \A i \in 1 .. Len(q) : Append(q, x)[i] = q[i]
    OBVIOUS
<1>2. DOMAIN Append(q, x) = 1 .. Len(q) + 1 /\ DOMAIN q = 1 .. Len(q)
    OBVIOUS
<1>3. 1 .. Len(q) + 1 = (1 .. Len(q)) \cup {Len(q) + 1}
    BY <1>1
<1>. QED BY <1>1, <1>2, <1>3 DEF Chat!ToSet

LEMMA ChatInTail ==
    ASSUME NEW S, NEW q \in Seq(S), q # <<>>
    PROVE  /\ Tail(q) \in Seq(S) /\ Head(q) \in S /\ Head(q) \in Chat!ToSet(q)
           /\ Chat!ToSet(Tail(q)) \subseteq Chat!ToSet(q)
<1>1. /\ Tail(q) \in Seq(S) /\ Len(Tail(q)) = Len(q) - 1 /\ Len(q) \in Nat \ {0}
      /\ \A i \in 1 .. Len(q) - 1 : Tail(q)[i] = q[i + 1]
    OBVIOUS
<1>2. \A i \in 1 .. Len(q) - 1 : i + 1 \in DOMAIN q
    BY <1>1
<1>3. 1 \in DOMAIN q /\ Head(q) = q[1] /\ q[1] \in S
    BY <1>1
<1>4. DOMAIN Tail(q) = 1 .. Len(q) - 1
    BY <1>1
<1>. QED BY <1>1, <1>2, <1>3, <1>4 DEF Chat!ToSet

LEMMA ChatWiderSeq ==
    ASSUME NEW S, NEW T, S \subseteq T, NEW q \in Seq(S)
    PROVE  q \in Seq(T)
OBVIOUS

-----------------------------------------------------------------------------
(* sendMessage *)

\* A message is inserted: it is above all others, or late.
LEMMA ChatInsertStep == ChatInv /\ Chat!Insert => ChatInv'
<1>. SUFFICES ASSUME ChatInv, Chat!Insert PROVE ChatInv'
    OBVIOUS
<1>. DEFINE m == Len(stage) + 1
<1>0. ChatBounds /\ Len(stage) \in Nat /\ Chat!Inserted = 1 .. Len(stage)
    BY ChatInsertedIs DEF ChatInv
<1>1. /\ m <= MaxMessages
      /\ stage' = Append(stage, "inserted")
      /\ mine' \in {mine, mine \cup {m}}
      /\ UNCHANGED <<readAt, lastAt, Chat!net, Chat!view, Chat!request>>
    BY DEF Chat!Insert
<1>2. /\ stage' \in Seq({"inserted", "committed", "sent"})
      /\ Len(stage') = m
      /\ Chat!Inserted' = 1 .. m
      /\ \A k \in 1 .. Len(stage) : stage'[k] = stage[k]
    BY <1>0, <1>1 DEF ChatBounds, Chat!Inserted
<1>3. Chat!Inserted \subseteq Chat!Inserted' /\ Chat!Inserted' = Chat!Inserted \cup {m} /\ m \notin Chat!Inserted
    BY <1>0, <1>2
<1>4. wire' = wire /\ wire \in Seq(Chat!Inserted')
    <2>1. wire \in Seq(Chat!Inserted)
        BY <1>0 DEF ChatBounds
    <2>2. Chat!Inserted \subseteq Chat!Inserted'
        BY <1>3
    <2>. QED BY <1>1, <2>1, <2>2, ChatWiderSeq DEF Chat!net
<1>5. Chat!Shown' = Chat!Shown
    BY <1>1 DEF Chat!view, Chat!Shown
<1>6. ChatBounds'
    <2>1. answer # <<>> => ChatWhole(answer[1], Len(stage'))
        BY <1>0, <1>2 DEF ChatBounds, ChatWhole
    <2>2. {mine, readAt, reply, late}' \subseteq SUBSET Chat!Inserted'
        BY <1>0, <1>1, <1>3 DEF ChatBounds, Chat!net, Chat!request
    <2>3. {older, lastAt}' \subseteq 0 .. Len(stage')
        BY <1>0, <1>1, <1>2 DEF ChatBounds, Chat!view
    <2>. QED BY <1>0, <1>1, <1>2, <1>3, <1>4, <1>5, <2>1, <2>2, <2>3 DEF ChatBounds, Chat!net, Chat!view, Chat!request
<1>7. Chat!UnderWay' \subseteq Chat!UnderWay \cup {m}
    BY <1>0, <1>1, <1>2, <1>3 DEF Chat!UnderWay, Chat!net
<1>8. \A k \in 0 .. Len(stage) : k <= m
    BY <1>0
<1>9. Chat!RenderedOnce'
    BY <1>1 DEF ChatInv, Chat!RenderedOnce, Chat!view, Chat!request
<1>. QED BY <1>1, <1>5, <1>6, <1>7, <1>8, <1>9, ChatQuieter DEF Chat!view

\* A stage that goes on leaves the messages inserted what they are.
LEMMA ChatAdvanced ==
    ASSUME ChatBounds, NEW m \in Chat!Inserted, NEW to \in {"committed", "sent"},
           stage' = [stage EXCEPT ![m] = to]
    PROVE  /\ stage' \in Seq({"inserted", "committed", "sent"})
           /\ Len(stage') = Len(stage)
           /\ Chat!Inserted' = Chat!Inserted
           /\ \A k \in Chat!Inserted : k # m => stage'[k] = stage[k]
           /\ stage'[m] = to
    BY DEF ChatBounds, Chat!Inserted

LEMMA ChatCommitStep == ASSUME ChatInv, NEW m \in Chat!Inserted, Chat!Commit(m) PROVE ChatInv'
<1>0. ChatBounds /\ Len(stage) \in Nat /\ Chat!Inserted = 1 .. Len(stage)
    BY ChatInsertedIs DEF ChatInv
<1>1. /\ stage[m] = "inserted"
      /\ stage' = [stage EXCEPT ![m] = "committed"]
      /\ lastAt' = m
      /\ UNCHANGED <<mine, readAt, Chat!net, Chat!view, Chat!request>>
    BY DEF Chat!Commit
<1>2. /\ stage' \in Seq({"inserted", "committed", "sent"})
      /\ Len(stage') = Len(stage) /\ Chat!Inserted' = Chat!Inserted
      /\ \A k \in Chat!Inserted : k # m => stage'[k] = stage[k]
      /\ stage'[m] = "committed"
    BY <1>0, <1>1, ChatAdvanced
<1>3. Chat!Shown' = Chat!Shown
    BY <1>1 DEF Chat!view, Chat!Shown
<1>4. ChatBounds'
    BY <1>0, <1>1, <1>2, <1>3 DEF ChatBounds, Chat!net, Chat!view, Chat!request
<1>5. Chat!UnderWay' \subseteq Chat!UnderWay
    BY <1>1, <1>2 DEF Chat!UnderWay, Chat!net
<1>6. Chat!RenderedOnce'
    BY <1>1 DEF ChatInv, Chat!RenderedOnce, Chat!view, Chat!request
<1>. QED BY <1>1, <1>3, <1>4, <1>5, <1>6, ChatQuieter DEF Chat!view

LEMMA ChatBroadcastStep == ASSUME ChatInv, NEW m \in Chat!Inserted, Chat!Broadcast(m) PROVE ChatInv'
<1>0. ChatBounds /\ Len(stage) \in Nat /\ Chat!Inserted = 1 .. Len(stage)
    BY ChatInsertedIs DEF ChatInv
<1>1. /\ stage[m] = "committed"
      /\ stage' = [stage EXCEPT ![m] = "sent"]
      /\ wire' = IF joined THEN Append(wire, m) ELSE wire
      /\ reply' = IF m \in mine THEN reply \cup {m} ELSE reply
      /\ UNCHANGED <<mine, readAt, lastAt, joined, Chat!view, Chat!request>>
    BY DEF Chat!Broadcast
<1>2. /\ stage' \in Seq({"inserted", "committed", "sent"})
      /\ Len(stage') = Len(stage) /\ Chat!Inserted' = Chat!Inserted
      /\ \A k \in Chat!Inserted : k # m => stage'[k] = stage[k]
      /\ stage'[m] = "sent"
    BY <1>0, <1>1, ChatAdvanced
<1>3. Chat!Shown' = Chat!Shown
    BY <1>1 DEF Chat!view, Chat!Shown
<1>4. wire' \in Seq(Chat!Inserted) /\ Chat!ToSet(wire') \subseteq Chat!ToSet(wire) \cup {m}
    BY <1>0, <1>1, ChatInAppend DEF ChatBounds
<1>5. reply' \subseteq reply \cup {m} /\ reply' \subseteq Chat!Inserted
    BY <1>0, <1>1 DEF ChatBounds
<1>6. ChatBounds'
    BY <1>0, <1>1, <1>2, <1>3, <1>4, <1>5 DEF ChatBounds, Chat!view, Chat!request
<1>7. m \in Chat!UnderWay
    BY <1>1 DEF Chat!UnderWay
<1>8. Chat!UnderWay' \subseteq Chat!UnderWay
    BY <1>2, <1>4, <1>5, <1>7 DEF Chat!UnderWay
<1>9. Chat!RenderedOnce'
    BY <1>1 DEF ChatInv, Chat!RenderedOnce, Chat!view, Chat!request
<1>. QED BY <1>1, <1>3, <1>6, <1>8, <1>9, ChatQuieter DEF Chat!view

-----------------------------------------------------------------------------
(* listMessages *)

\* The server answers with the newest of what was asked for.
LEMMA ChatListMessagesStep == ChatInv /\ Chat!ListMessages => ChatInv'
<1>. SUFFICES ASSUME ChatInv, Chat!ListMessages PROVE ChatInv'
    OBVIOUS
<1>. DEFINE S == {m \in Chat!Committed : asking = "older" => m < older}
            page == Chat!Page(S)
<1>0. ChatBounds /\ Len(stage) \in Nat /\ Chat!Inserted = 1 .. Len(stage)
    BY ChatInsertedIs DEF ChatInv
<1>1. S \subseteq 1 .. Len(stage)
    BY <1>0 DEF Chat!Committed
<1>2. page.items \subseteq S /\ ChatWhole(page, Len(stage))
    BY <1>0, <1>1, ChatPageWhole
<1>3. /\ asking # "nothing" /\ answer = <<>> /\ answer' = <<page>>
      /\ readAt' = readAt \cup (page.items \ mine)
      /\ late' = IF asking = "first" THEN Chat!UnderWay \ page.items ELSE late
      /\ UNCHANGED <<stage, mine, lastAt, Chat!net, Chat!view, asking>>
    BY DEF Chat!ListMessages
<1>4. asking = "older" => \A m \in page.items : m < older
    BY <1>2
<1>. HIDE DEF page, S
<1>5. Chat!UnderWay \subseteq Chat!Inserted
    BY <1>0 DEF Chat!UnderWay, ChatBounds, Chat!ToSet
<1>6. Chat!UnderWay' = Chat!UnderWay /\ Chat!Shown' = Chat!Shown /\ Chat!Inserted' = Chat!Inserted
    BY <1>3 DEF Chat!UnderWay, Chat!Shown, Chat!Inserted, Chat!net, Chat!view
<1>7. answer' # <<>> /\ answer'[1] = page
    BY <1>3
<1>8. ChatBounds'
    <2>1. {mine, readAt, reply, late}' \subseteq SUBSET Chat!Inserted
        <3>1. readAt' \subseteq Chat!Inserted /\ late' \subseteq Chat!Inserted
            BY <1>0, <1>2, <1>3, <1>5 DEF ChatBounds, ChatWhole
        <3>. QED BY <1>0, <1>3, <3>1 DEF ChatBounds, Chat!net
    <2>. QED BY <1>0, <1>2, <1>3, <1>6, <1>7, <2>1 DEF ChatBounds, Chat!net, Chat!view
<1>9. ChatPaging'
    <2>1. asking = "older" /\ page.more => page.cursor < older
        BY <1>2, <1>4 DEF ChatWhole
    <2>. QED BY <1>3, <1>4, <1>7, <2>1 DEF ChatInv, ChatPaging, Chat!view
<1>10. ChatAbove'
    <2>1. moreOlder => asking # "first" /\ late' = late /\ moreOlder' = moreOlder /\ older' = older
        BY <1>3 DEF ChatInv, ChatPaging, Chat!view
    <2>2. moreOlder' => moreOlder
        BY <1>3 DEF Chat!view
    <2>3. asking' = "first" /\ page.more => \A m \in Chat!UnderWay : m \in late' \/ page.cursor <= m
        BY <1>2, <1>3 DEF ChatWhole
    <2>. QED BY <1>6, <1>7, <2>1, <2>2, <2>3 DEF ChatInv, ChatAbove
<1>11. Chat!RenderedOnce'
    <2>1. late \subseteq late'
        BY <1>3 DEF ChatInv, ChatPaging
    <2>. QED BY <1>3, <2>1 DEF ChatInv, Chat!RenderedOnce, Chat!view
<1>. QED BY <1>8, <1>9, <1>10, <1>11 DEF ChatInv

-----------------------------------------------------------------------------
(* The component *)

\* A page is put before what is shown: it lies below the cursor.
LEMMA ChatPageArrivesStep == ChatInv /\ Chat!PageArrives => ChatInv'
<1>. SUFFICES ASSUME ChatInv, Chat!PageArrives PROVE ChatInv'
    OBVIOUS
<1>. DEFINE page == answer[1]
<1>0. ChatBounds /\ Len(stage) \in Nat /\ Chat!Inserted = 1 .. Len(stage) /\ Chat!Inserted \subseteq 1 .. MaxMessages
    BY ChatInsertedIs DEF ChatInv
<1>1. /\ answer # <<>>
      /\ shown' = [m \in 1 .. MaxMessages |->
              (IF asking = "older" THEN shown[m] ELSE 0) + (IF m \in page.items THEN 1 ELSE 0)]
      /\ older' = page.cursor
      /\ moreOlder' = page.more
      /\ asking' = "nothing"
      /\ answer' = <<>>
      /\ UNCHANGED <<Chat!server, Chat!net, late>>
    BY DEF Chat!PageArrives
<1>2. ChatWhole(page, Len(stage)) /\ asking \in {"first", "older"}
    BY <1>0, <1>1 DEF ChatBounds, ChatInv, ChatPaging
<1>. HIDE DEF page
<1>3. Chat!UnderWay' = Chat!UnderWay /\ Chat!Inserted' = Chat!Inserted
    BY <1>1 DEF Chat!UnderWay, Chat!Inserted, Chat!server, Chat!net
<1>4. \A m \in 1 .. MaxMessages : shown[m] \in Nat
    BY <1>0 DEF ChatBounds
<1>5. shown' \in [1 .. MaxMessages -> Nat]
    BY <1>1, <1>4
<1>6. Chat!Shown' \subseteq page.items \cup (IF asking = "older" THEN Chat!Shown ELSE {})
    BY <1>1, <1>4 DEF Chat!Shown
<1>7. ChatBounds'
    <2>1. Chat!Shown' \subseteq Chat!Inserted
        BY <1>0, <1>2, <1>6 DEF ChatBounds, ChatWhole
    <2>. QED BY <1>0, <1>1, <1>2, <1>3, <1>5, <2>1 DEF ChatBounds, ChatWhole, Chat!server, Chat!net
<1>8. ChatPaging'
    BY <1>1 DEF ChatPaging
<1>9. ChatAbove'
    <2>1. ASSUME page.more, NEW m \in Chat!UnderWay \cup Chat!Shown' PROVE m \in late \/ page.cursor <= m
        <3>1. CASE m \in page.items
            BY <1>2, <2>1, <3>1 DEF ChatWhole
        <3>2. CASE asking = "first" /\ m \notin page.items
            <4>1. m \in Chat!UnderWay
                BY <1>6, <3>2, <2>1
            <4>. QED BY <1>1, <2>1, <3>2, <4>1 DEF ChatInv, ChatAbove, page
        <3>3. CASE asking = "older" /\ m \notin page.items
            <4>1. m \in Chat!UnderWay \cup Chat!Shown
                BY <1>6, <2>1, <3>3
            <4>2. m \in late \/ older <= m
                BY <3>3, <4>1 DEF ChatInv, ChatAbove, ChatPaging
            <4>3. page.cursor < older
                BY <1>1, <2>1, <3>3 DEF ChatInv, ChatPaging, page
            <4>4. m \in Chat!Inserted
                BY <1>0, <4>1 DEF ChatBounds, Chat!UnderWay, Chat!ToSet
            <4>. QED BY <1>0, <1>2, <4>2, <4>3, <4>4 DEF ChatBounds, ChatWhole
        <3>. QED BY <1>2, <3>1, <3>2, <3>3
    <2>. QED BY <1>1, <1>3, <2>1 DEF ChatAbove
<1>10. Chat!RenderedOnce'
    <2>. SUFFICES ASSUME NEW m \in 1 .. MaxMessages, m \notin late PROVE shown'[m] <= 1
        BY <1>1 DEF Chat!RenderedOnce
    <2>1. CASE asking = "first"
        BY <1>1, <2>1
    <2>2. CASE asking = "older" /\ m \notin page.items
        BY <1>1, <1>4, <2>2 DEF ChatInv, Chat!RenderedOnce
    <2>3. CASE asking = "older" /\ m \in page.items
        <3>1. m < older
            BY <1>1, <2>3 DEF ChatInv, ChatPaging, page
        <3>2. m \notin Chat!Shown
            <4>1. older \in Nat
                BY <1>0 DEF ChatBounds
            <4>. QED BY <2>3, <3>1, <4>1 DEF ChatInv, ChatAbove, ChatPaging
        <3>3. shown[m] = 0
            BY <1>4, <3>2 DEF Chat!Shown
        <3>. QED BY <1>1, <2>3, <3>3
    <2>. QED BY <1>2, <2>1, <2>2, <2>3
<1>. QED BY <1>7, <1>8, <1>9, <1>10 DEF ChatInv

LEMMA ChatAskStep == ChatInv /\ (Chat!PageLost \/ Chat!AskOlder) => ChatInv'
<1>. SUFFICES ASSUME ChatInv, Chat!PageLost \/ Chat!AskOlder PROVE ChatInv'
    OBVIOUS
<1>1. UNCHANGED <<Chat!server, Chat!net, Chat!view, late>> /\ asking' \in {"nothing", "older"} /\ answer' = <<>>
    BY DEF Chat!PageLost, Chat!AskOlder, ChatInv, ChatPaging
<1>2. Chat!Inserted' = Chat!Inserted /\ Chat!UnderWay' = Chat!UnderWay /\ Chat!Shown' = Chat!Shown
    BY <1>1 DEF Chat!server, Chat!net, Chat!view, Chat!Inserted, Chat!UnderWay, Chat!Shown
<1>3. ChatBounds'
    BY <1>1, <1>2 DEF ChatInv, ChatBounds, Chat!server, Chat!net, Chat!view
<1>4. asking' = "older" => moreOlder
    BY DEF Chat!PageLost, Chat!AskOlder, ChatInv, ChatPaging
<1>5. ChatPaging'
    BY <1>1, <1>4 DEF ChatPaging, Chat!view
<1>6. ChatAbove' /\ Chat!RenderedOnce'
    BY <1>1, <1>2 DEF ChatInv, ChatAbove, Chat!RenderedOnce, Chat!view
<1>. QED BY <1>3, <1>5, <1>6 DEF ChatInv

\* A message that was under way is shown.
LEMMA ChatMerged ==
    ASSUME ChatBounds, Chat!RenderedOnce, NEW m \in Chat!Inserted, Chat!Merge(m), late' = late
    PROVE  /\ shown' \in [1 .. MaxMessages -> Nat]
           /\ Chat!Shown' \subseteq Chat!Shown \cup {m}
           /\ Chat!RenderedOnce'
<1>0. m \in 1 .. MaxMessages /\ \A k \in 1 .. MaxMessages : shown[k] \in Nat
    BY ChatInsertedIs DEF ChatBounds
<1>1. shown' = shown \/ shown' = [shown EXCEPT ![m] = 1]
    BY DEF Chat!Merge
<1>2. CASE shown' = shown
    BY <1>2 DEF ChatBounds, Chat!Shown, Chat!RenderedOnce
<1>3. CASE shown' = [shown EXCEPT ![m] = 1]
    <2>1. /\ shown' \in [1 .. MaxMessages -> Nat]
          /\ shown'[m] = 1
          /\ \A k \in 1 .. MaxMessages : k # m => shown'[k] = shown[k]
        BY <1>0, <1>3 DEF ChatBounds
    <2>. QED BY <2>1 DEF Chat!Shown, Chat!RenderedOnce
<1>. QED BY <1>1, <1>2, <1>3

LEMMA ChatDeliverStep == ChatInv /\ Chat!Deliver => ChatInv'
<1>. SUFFICES ASSUME ChatInv, Chat!Deliver PROVE ChatInv'
    OBVIOUS
<1>. DEFINE m == Head(wire)
<1>0. ChatBounds /\ Chat!RenderedOnce
    BY DEF ChatInv
<1>1. wire # <<>> /\ Chat!Merge(m) /\ wire' = Tail(wire) /\ UNCHANGED <<Chat!server, joined, reply, older, moreOlder, Chat!request>>
    BY DEF Chat!Deliver
<1>2. wire' \in Seq(Chat!Inserted) /\ m \in Chat!Inserted /\ m \in Chat!ToSet(wire) /\ Chat!ToSet(wire') \subseteq Chat!ToSet(wire)
    BY <1>0, <1>1, ChatInTail DEF ChatBounds
<1>3. shown' \in [1 .. MaxMessages -> Nat] /\ Chat!Shown' \subseteq Chat!Shown \cup {m} /\ Chat!RenderedOnce'
    BY <1>0, <1>1, <1>2, ChatMerged DEF Chat!request
<1>4. Chat!Inserted' = Chat!Inserted
    BY <1>1 DEF Chat!server, Chat!Inserted
<1>. HIDE DEF m
<1>5. ChatBounds'
    BY <1>0, <1>1, <1>2, <1>3, <1>4 DEF ChatBounds, Chat!server, Chat!request
<1>6. Chat!UnderWay' \subseteq Chat!UnderWay /\ m \in Chat!UnderWay
    BY <1>1, <1>2, <1>4 DEF Chat!UnderWay, Chat!server
<1>. QED BY <1>1, <1>3, <1>5, <1>6, ChatQuieter

LEMMA ChatReplyStep ==
    ASSUME ChatInv, NEW m \in reply, Chat!ReplyArrives(m) \/ Chat!ReplyLost(m)
    PROVE  ChatInv'
<1>0. ChatBounds /\ Chat!RenderedOnce /\ m \in Chat!Inserted
    BY DEF ChatInv, ChatBounds
<1>1. reply' = reply \ {m} /\ UNCHANGED <<Chat!server, joined, wire, older, moreOlder, Chat!request>>
    BY DEF Chat!ReplyArrives, Chat!ReplyLost, Chat!view
<1>2. Chat!Merge(m) \/ shown' = shown
    BY DEF Chat!ReplyArrives, Chat!ReplyLost, Chat!view
<1>3. shown' \in [1 .. MaxMessages -> Nat] /\ Chat!Shown' \subseteq Chat!Shown \cup {m} /\ Chat!RenderedOnce'
    <2>1. CASE Chat!Merge(m)
        BY <1>0, <1>1, <2>1, ChatMerged DEF Chat!request
    <2>2. CASE shown' = shown
        BY <1>0, <1>1, <2>2 DEF ChatBounds, Chat!Shown, Chat!RenderedOnce, Chat!request
    <2>. QED BY <1>2, <2>1, <2>2
<1>4. Chat!Inserted' = Chat!Inserted
    BY <1>1 DEF Chat!server, Chat!Inserted
<1>5. ChatBounds'
    BY <1>0, <1>1, <1>3, <1>4 DEF ChatBounds, Chat!server, Chat!request
<1>6. Chat!UnderWay' \subseteq Chat!UnderWay /\ m \in Chat!UnderWay
    BY <1>1, <1>4 DEF Chat!UnderWay, Chat!server
<1>. QED BY <1>1, <1>3, <1>5, <1>6, ChatQuieter

LEMMA ChatSocketStep == ChatInv /\ (Chat!Join \/ Chat!Disconnect) => ChatInv'
<1>. SUFFICES ASSUME ChatInv, Chat!Join \/ Chat!Disconnect PROVE ChatInv'
    OBVIOUS
<1>0. ChatBounds
    BY DEF ChatInv
<1>1. /\ wire' \in {wire, <<>>} /\ joined' \in BOOLEAN
      /\ UNCHANGED <<Chat!server, reply, Chat!view, Chat!request>>
    BY DEF Chat!Join, Chat!Disconnect
<1>2. Chat!Inserted' = Chat!Inserted /\ Chat!Shown' = Chat!Shown
    BY <1>1 DEF Chat!server, Chat!view, Chat!Inserted, Chat!Shown
<1>3. wire' \in Seq(Chat!Inserted) /\ Chat!ToSet(wire') \subseteq Chat!ToSet(wire)
    <2>1. CASE wire' = wire
        BY <1>0, <2>1 DEF ChatBounds
    <2>2. CASE wire' = <<>>
        BY <2>2 DEF Chat!ToSet
    <2>. QED BY <1>1, <2>1, <2>2
<1>4. ChatBounds'
    BY <1>0, <1>1, <1>2, <1>3 DEF ChatBounds, Chat!server, Chat!view, Chat!request
<1>5. Chat!UnderWay' \subseteq Chat!UnderWay
    BY <1>1, <1>2, <1>3 DEF Chat!UnderWay, Chat!server
<1>6. Chat!RenderedOnce'
    BY <1>1 DEF ChatInv, Chat!RenderedOnce, Chat!view, Chat!request
<1>. QED BY <1>1, <1>2, <1>4, <1>5, <1>6, ChatQuieter DEF Chat!view

\* Every step of the conversation keeps its invariant.
LEMMA ChatNext == ChatInv /\ [Chat!Next]_(Chat!vars) => ChatInv'
<1>. SUFFICES ASSUME ChatInv, [Chat!Next]_(Chat!vars) PROVE ChatInv'
    OBVIOUS
<1>1. CASE UNCHANGED Chat!vars
    <2>1. Chat!Inserted' = Chat!Inserted /\ Chat!UnderWay' = Chat!UnderWay /\ Chat!Shown' = Chat!Shown
        BY <1>1 DEF Chat!vars, Chat!server, Chat!net, Chat!view, Chat!Inserted, Chat!UnderWay, Chat!Shown
    <2>. QED BY <1>1, <2>1
            DEF Chat!vars, Chat!server, Chat!net, Chat!view, Chat!request, ChatInv, ChatBounds, ChatPaging, ChatAbove, Chat!RenderedOnce
<1>2. CASE Chat!Send
    BY <1>2, ChatInsertStep, ChatCommitStep, ChatBroadcastStep DEF Chat!Send
<1>3. CASE Chat!Browser
    BY <1>3, ChatPageArrivesStep, ChatAskStep, ChatDeliverStep, ChatReplyStep, ChatSocketStep DEF Chat!Browser
<1>. QED BY <1>1, <1>2, <1>3, ChatListMessagesStep DEF Chat!Next

LEMMA ChatTyped == ChatInv => Chat!TypeOK
<1>. SUFFICES ASSUME ChatInv PROVE Chat!TypeOK
    OBVIOUS
<1>1. ChatBounds /\ Len(stage) \in Nat
    BY ChatInsertedIs DEF ChatInv
<1>2. answer = <<>> \/ answer[1].cursor \in 0 .. Len(stage)
    BY <1>1 DEF ChatBounds, ChatWhole
<1>. QED BY <1>1, <1>2 DEF ChatBounds, Chat!TypeOK

LEMMA ChatRendersOnce == Chat!Spec => [](Chat!TypeOK /\ Chat!RenderedOnce)
<1>1. ChatInv => Chat!TypeOK /\ Chat!RenderedOnce
    BY ChatTyped DEF ChatInv
<1>. QED BY <1>1, ChatInitInv, ChatNext, PTL DEF Chat!Spec

-----------------------------------------------------------------------------
(* The public list.  At most one fetch is current (BoardOneCurrent), and   *)
(* what it brings is, but for requests that have moved, the rows between   *)
(* two cursors (BoardPagesSound); rows above the cursor are shown once     *)
(* (NoneSkippedOrRepeated) and fit the filters they were asked with        *)
(* (BoardItemsFit).                                                        *)

(* Pages *)

BoardRanked ==
    /\ status \in [Posts -> {"draft", "published", "selected"}]
    /\ listTier \in [Posts -> 0 .. MaxTier]
    /\ listRankAt \in [Posts -> 0 .. MaxClock]
    /\ clock \in 1 .. MaxClock

\* What rows are ordered by, and no cursor or one.
BoardKeys == [tier : Nat, at : Nat, id : Nat]
BoardCursors == {<<>>} \cup {<<k>> : k \in BoardKeys}

LEMMA BoardRanking ==
    ASSUME BoardRanked
    PROVE  \A r \in Posts : r \in Nat /\ listTier[r] \in Nat /\ listRankAt[r] \in Nat /\ Board!Key(r) \in BoardKeys
    BY BoardAssumed DEF BoardRanked, Board!ListingAssumption, BoardKeys, Board!Key

\* The order of the list is total on the rows there are.
LEMMA BoardBeforeOrder ==
    ASSUME BoardRanked
    PROVE  /\ \A a, b \in Posts : a = b \/ Board!Before(a, b) \/ Board!Before(b, a)
           /\ \A a, b \in Posts : Board!Before(a, b) => a # b /\ ~Board!Before(b, a)
           /\ \A a, b, c \in Posts : Board!Before(a, b) /\ Board!Before(b, c) => Board!Before(a, c)
           /\ \A a, b \in Posts : Board!Below(Board!Key(b), Board!Key(a)) <=> Board!Before(a, b)
<1>1. \A r \in Posts : r \in Nat /\ listTier[r] \in Nat /\ listRankAt[r] \in Nat
    BY BoardRanking
<1>2. \A a, b \in Posts : a = b \/ Board!Before(a, b) \/ Board!Before(b, a)
    BY <1>1 DEF Board!Before
<1>3. \A a, b \in Posts : Board!Before(a, b) => a # b /\ ~Board!Before(b, a)
    BY <1>1 DEF Board!Before
<1>4. \A a, b, c \in Posts : Board!Before(a, b) /\ Board!Before(b, c) => Board!Before(a, c)
    BY <1>1 DEF Board!Before
<1>5. \A a, b \in Posts : Board!Below(Board!Key(b), Board!Key(a)) <=> Board!Before(a, b)
    BY <1>1 DEF Board!Before, Board!Below, Board!Key
<1>. QED BY <1>2, <1>3, <1>4, <1>5

LEMMA BoardBelowOrder ==
    ASSUME NEW j \in BoardKeys, NEW k \in BoardKeys, NEW l \in BoardKeys, Board!Below(j, k), Board!Below(k, l)
    PROVE  Board!Below(j, l)
    BY DEF Board!Below, BoardKeys

\* The rows that come before one.
BoardAbove(found, r) == {s \in found : Board!Before(s, r)}

\* How many rows come before a row is its place among them.
LEMMA BoardPositions ==
    ASSUME BoardRanked, NEW found, found \subseteq Posts
    PROVE  /\ \A r \in found : Cardinality(BoardAbove(found, r)) \in Nat
           /\ \A a, b \in found :
                Board!Before(a, b) => Cardinality(BoardAbove(found, a)) < Cardinality(BoardAbove(found, b))
           /\ \A r \in found : Cardinality(BoardAbove(found, r)) # 0 => \E s \in found : Board!Before(s, r)
<1>1. ASSUME NEW r \in found
      PROVE  IsFiniteSet(BoardAbove(found, r)) /\ Cardinality(BoardAbove(found, r)) \in Nat
    <2>1. IsFiniteSet(Posts) /\ BoardAbove(found, r) \in SUBSET Posts
        BY BoardAssumed, SameCardinality DEF Board!ListingAssumption, BoardAbove
    <2>2. IsFiniteSet(BoardAbove(found, r))
        BY <2>1, FS_Subset
    <2>. QED BY <2>2, FS_CardinalityType
<1>2. ASSUME NEW a \in found, NEW b \in found, Board!Before(a, b)
      PROVE  Cardinality(BoardAbove(found, a)) < Cardinality(BoardAbove(found, b))
    <2>1. a \in BoardAbove(found, b) /\ a \notin BoardAbove(found, a) /\ BoardAbove(found, a) \subseteq BoardAbove(found, b)
        BY <1>2, BoardBeforeOrder DEF BoardAbove
    <2>2. /\ Cardinality(BoardAbove(found, a)) <= Cardinality(BoardAbove(found, b))
          /\ Cardinality(BoardAbove(found, b)) = Cardinality(BoardAbove(found, a)) =>
                BoardAbove(found, b) = BoardAbove(found, a)
        BY <1>1, <2>1, FS_Subset
    <2>. QED BY <1>1, <2>1, <2>2
<1>3. ASSUME NEW r \in found, Cardinality(BoardAbove(found, r)) # 0
      PROVE  \E s \in found : Board!Before(s, r)
    <2>1. BoardAbove(found, r) # {}
        BY <1>3, FS_EmptySet
    <2>. QED BY <2>1 DEF BoardAbove
<1>. QED BY <1>1, <1>2, <1>3

\* The first rows are those not below their last.
LEMMA BoardFirstRows ==
    ASSUME BoardRanked, NEW found, found \subseteq Posts, Board!First(found) # found
    PROVE  /\ Board!First(found) \subseteq found
           /\ Board!Bottom(Board!First(found)) \in Board!First(found)
           /\ \A r \in found : r \in Board!First(found) <=> ~Board!Below(Board!Key(r), Board!Key(Board!Bottom(Board!First(found))))
<1>. DEFINE page == Board!First(found)
            pos(r) == Cardinality(BoardAbove(found, r))
            places == {pos(r) : r \in page}
<1>0. Limit \in Nat \ {0}
    BY BoardAssumed DEF Board!ListingAssumption
<1>1. \A r : r \in page <=> r \in found /\ pos(r) < Limit
    BY SameCardinality DEF Board!First, BoardAbove
<1>2. page \subseteq found /\ found # {}
    BY <1>1
<1>3. /\ \A r \in found : pos(r) \in Nat
      /\ \A a, b \in found : Board!Before(a, b) => pos(a) < pos(b)
      /\ \A r \in found : pos(r) # 0 => \E s \in found : Board!Before(s, r)
    BY BoardPositions
<1>. HIDE DEF page, pos
<1>4. page # {}
    <2>. DEFINE all == {pos(r) : r \in found}
    <2>1. all \subseteq Nat /\ all # {}
        BY <1>2, <1>3
    <2>2. PICK n \in all : \A m \in all : n <= m
        BY <2>1, Smallest
    <2>3. PICK r \in found : n = pos(r)
        BY <2>2
    <2>4. \A s \in found : pos(r) <= pos(s)
        BY <2>2, <2>3
    <2>5. pos(r) = 0
        <3>1. \A s \in found : ~Board!Before(s, r)
            BY <1>3, <2>4
        <3>. QED BY <1>3, <3>1
    <2>. QED BY <1>0, <1>1, <2>5
<1>5. places \subseteq 0 .. Limit /\ places # {}
    BY <1>0, <1>1, <1>3, <1>4
<1>6. PICK n \in places : \A m \in places : m <= n
    BY <1>0, <1>5, Largest
<1>7. PICK l \in page : n = pos(l)
    BY <1>6
<1>8. \A s \in page : s = l \/ Board!Before(s, l)
    <2>. SUFFICES ASSUME NEW s \in page, s # l, ~Board!Before(s, l) PROVE FALSE
        OBVIOUS
    <2>1. Board!Before(l, s)
        BY <1>2, BoardBeforeOrder
    <2>2. pos(l) < pos(s) /\ pos(l) \in Nat /\ pos(s) \in Nat
        BY <1>2, <1>3, <2>1
    <2>3. pos(s) <= pos(l)
        BY <1>6, <1>7
    <2>. QED BY <2>2, <2>3
<1>9. /\ Board!Bottom(page) \in page
      /\ \A s \in page : s = Board!Bottom(page) \/ Board!Before(s, Board!Bottom(page))
    BY <1>7, <1>8 DEF Board!Bottom
<1>10. ASSUME NEW r \in found
       PROVE  r \in page <=> ~Board!Below(Board!Key(r), Board!Key(Board!Bottom(page)))
    <2>1. Board!Bottom(page) \in found
        BY <1>2, <1>9
    <2>2. r \in page => ~Board!Before(Board!Bottom(page), r)
        BY <1>2, <1>9, <2>1, BoardBeforeOrder
    <2>3. r \notin page => Board!Before(Board!Bottom(page), r)
        <3>. SUFFICES ASSUME r \notin page, ~Board!Before(Board!Bottom(page), r) PROVE FALSE
            OBVIOUS
        <3>1. Board!Before(r, Board!Bottom(page))
            BY <1>9, <2>1, BoardBeforeOrder
        <3>2. pos(r) < pos(Board!Bottom(page)) /\ pos(Board!Bottom(page)) < Limit
            BY <1>1, <1>3, <1>9, <2>1, <3>1
        <3>. QED BY <1>0, <1>1, <1>3, <2>1, <3>2
    <2>. QED BY <2>1, <2>2, <2>3, BoardBeforeOrder
<1>. QED BY <1>2, <1>9, <1>10 DEF page

BoardPageType == [items : SUBSET Posts, more : BOOLEAN, cursor : BoardCursors]

\* A page has the first rows below the cursor, up to the next one.
LEMMA BoardPageSound ==
    ASSUME BoardRanked, NEW f, NEW c \in BoardCursors
    PROVE  /\ Board!Page(f, c) \in BoardPageType
           /\ \A r \in Board!Page(f, c).items : Board!Fits(r, f)
           /\ Board!Page(f, c).more =>
                /\ Board!Page(f, c).cursor # <<>>
                /\ c # <<>> => Board!Below(Board!Page(f, c).cursor[1], c[1])
           /\ \A r \in Posts : r \in Board!Page(f, c).items <=>
                /\ Board!Listed(r, f)
                /\ c # <<>> => Board!Below(Board!Key(r), c[1])
                /\ Board!Page(f, c).more => ~Board!Below(Board!Key(r), Board!Page(f, c).cursor[1])
<1>. DEFINE found == {r \in Posts : Board!Listed(r, f) /\ (c # <<>> => Board!Below(Board!Key(r), c[1]))}
            page == Board!First(found)
            b == Board!Bottom(page)
<1>1. /\ Board!Page(f, c).items = page
      /\ Board!Page(f, c).more = (page # found)
      /\ Board!Page(f, c).cursor = IF page = found THEN <<>> ELSE <<Board!Key(b)>>
      /\ Board!Page(f, c) = [items |-> page, more |-> page # found,
                             cursor |-> IF page = found THEN <<>> ELSE <<Board!Key(b)>>]
    BY DEF Board!Page
<1>2. found \subseteq Posts /\ page \subseteq found
    BY DEF Board!First
<1>3. \A r \in Posts : r \in found <=> Board!Listed(r, f) /\ (c # <<>> => Board!Below(Board!Key(r), c[1]))
    OBVIOUS
<1>. HIDE DEF found
<1>4. page # found => b \in page /\ \A r \in found : r \in page <=> ~Board!Below(Board!Key(r), Board!Key(b))
    BY <1>2, BoardFirstRows
<1>. HIDE DEF page, b
<1>5. CASE page = found
    <2>1. Board!Page(f, c).more = FALSE /\ Board!Page(f, c).cursor = <<>>
        BY <1>1, <1>5
    <2>2. Board!Page(f, c) \in BoardPageType
        BY <1>1, <1>2, <1>5 DEF BoardPageType, BoardCursors
    <2>. QED BY <1>1, <1>2, <1>3, <1>5, <2>1, <2>2 DEF Board!Listed
<1>6. CASE page # found
    <2>1. Board!Page(f, c).more = TRUE /\ Board!Page(f, c).cursor = <<Board!Key(b)>> /\ <<Board!Key(b)>>[1] = Board!Key(b)
        BY <1>1, <1>6
    <2>2. b \in Posts /\ b \in found /\ Board!Key(b) \in BoardKeys
        BY <1>2, <1>4, <1>6, BoardRanking
    <2>3. Board!Page(f, c) \in BoardPageType
        BY <1>1, <1>2, <1>6, <2>2 DEF BoardPageType, BoardCursors
    <2>. QED BY <1>1, <1>2, <1>3, <1>4, <1>6, <2>1, <2>2, <2>3 DEF Board!Listed
<1>. QED BY <1>5, <1>6

-----------------------------------------------------------------------------
(* The invariant *)

\* A fetch under way.
BoardCallType ==
    [more : BOOLEAN, gen : Nat, filters : SUBSET Board!Criteria, cursor : BoardCursors,
     page : {<<>>} \cup {<<p>> : p \in BoardPageType}]

BoardTyped ==
    /\ BoardRanked
    /\ filters \subseteq Board!Criteria /\ typed \subseteq TextCriteria /\ timers \subseteq TextCriteria
    /\ generation \in 1 .. MaxLoads
    /\ fetches \subseteq BoardCallType
    /\ items \in [Posts -> Nat]
    /\ below \in BoardCursors
    /\ {hasMore, loading, loadingMore, error} \subseteq BOOLEAN
    /\ moved \subseteq Posts

\* What is typed and not applied has a timer.
BoardBarWaits == \A x \in TextCriteria \ timers : x \in typed <=> x \in filters

\* At most one fetch is current: the first page while it loads, or the page after
\* the last that came.
BoardOneCurrent ==
    /\ \A c \in fetches : c.gen <= generation
    /\ \A c \in fetches : Board!Current(c) =>
        /\ c.filters = filters
        /\ ~c.more => loading /\ c.cursor = <<>>
        /\ c.more => ~loading /\ loadingMore /\ ~error /\ hasMore /\ c.cursor = below
        /\ \A d \in fetches : Board!Current(d) => c = d
    /\ hasMore => below # <<>>

\* A page on its way is right about the requests that have not moved.
BoardSound(c, page) ==
    /\ \A r \in page.items : Board!Fits(r, c.filters)
    /\ page.more => page.cursor # <<>>
    /\ page.more /\ c.cursor # <<>> => Board!Below(page.cursor[1], c.cursor[1])
    /\ \A r \in Posts \ moved : r \in page.items <=>
        /\ Board!Listed(r, c.filters)
        /\ c.cursor # <<>> => Board!Below(Board!Key(r), c.cursor[1])
        /\ page.more => ~Board!Below(Board!Key(r), page.cursor[1])

\* The page of the current fetch is right.
BoardPagesSound == \A c \in fetches : Board!Current(c) /\ c.page # <<>> => BoardSound(c, c.page[1])

\* What is shown meets the filters.
BoardItemsFit == ~loading /\ ~error => \A r \in Posts : items[r] > 0 => Board!Fits(r, filters)

BoardInv ==
    BoardTyped /\ BoardBarWaits /\ BoardOneCurrent /\ BoardPagesSound /\ BoardItemsFit /\ Board!NoneSkippedOrRepeated

LEMMA BoardInitInv == Board!Init => BoardInv
<1>. SUFFICES ASSUME Board!Init PROVE BoardInv
    OBVIOUS
<1>0. {MaxClock, MaxLoads} \subseteq Nat \ {0} /\ MaxTier \in Nat
    BY BoardAssumed DEF Board!ListingAssumption
<1>. DEFINE c == [more |-> FALSE, gen |-> 1, filters |-> {}, cursor |-> <<>>, page |-> <<>>]
<1>1. fetches = {c} /\ c \in BoardCallType
    BY DEF Board!Init, BoardCallType, BoardCursors
<1>2. BoardTyped
    <2>1. BoardRanked
        BY <1>0 DEF Board!Init, BoardRanked
    <2>. HIDE DEF c
    <2>2. items \in [Posts -> Nat] /\ below \in BoardCursors
        BY DEF Board!Init, BoardCursors
    <2>3. filters \subseteq Board!Criteria /\ typed \subseteq TextCriteria /\ timers \subseteq TextCriteria
        BY DEF Board!Init
    <2>4. generation \in 1 .. MaxLoads /\ fetches \subseteq BoardCallType /\ moved \subseteq Posts
        BY <1>0, <1>1 DEF Board!Init
    <2>5. {hasMore, loading, loadingMore, error} \subseteq BOOLEAN
        BY DEF Board!Init
    <2>. QED BY <2>1, <2>2, <2>3, <2>4, <2>5 DEF BoardTyped
<1>3. /\ c.more = FALSE /\ c.gen = 1 /\ c.filters = {} /\ c.cursor = <<>> /\ c.page = <<>>
    OBVIOUS
<1>. HIDE DEF c
<1>4. BoardOneCurrent /\ BoardPagesSound
    BY <1>1, <1>3 DEF Board!Init, BoardOneCurrent, BoardPagesSound
<1>. QED BY <1>2, <1>4 DEF Board!Init, BoardInv, BoardBarWaits, BoardItemsFit, Board!NoneSkippedOrRepeated

-----------------------------------------------------------------------------
(* What happens to requests *)

\* A request that moves is one that nothing is said of.
LEMMA BoardRerankStep ==
    ASSUME BoardInv, NEW r \in Posts,
           NEW state \in {"draft", "published", "selected"},
           NEW tier \in 0 .. MaxTier, NEW at \in 0 .. MaxClock,
           Board!Rerank(r, state, tier, at)
    PROVE  BoardInv'
<1>1. /\ clock' = clock + 1 /\ clock < MaxClock
      /\ status' = [status EXCEPT ![r] = state]
      /\ listTier' = [listTier EXCEPT ![r] = tier]
      /\ listRankAt' = [listRankAt EXCEPT ![r] = at]
      /\ moved' = moved \cup {r}
      /\ UNCHANGED <<Board!bar, generation, fetches, Board!list, Board!flags>>
    BY DEF Board!Rerank
<1>2. BoardRanked'
    BY <1>1, BoardAssumed DEF BoardInv, BoardTyped, BoardRanked, Board!ListingAssumption
<1>3. BoardTyped'
    BY <1>1, <1>2 DEF BoardInv, BoardTyped, Board!bar, Board!list, Board!flags
<1>4. BoardBarWaits' /\ BoardOneCurrent' /\ BoardItemsFit'
    BY <1>1 DEF BoardInv, BoardBarWaits, BoardOneCurrent, BoardItemsFit, Board!Current, Board!Fits, Board!bar, Board!list, Board!flags
<1>5. \A s \in Posts \ moved' : s \in Posts \ moved /\ Board!Key(s)' = Board!Key(s) /\ status'[s] = status[s]
    BY <1>1 DEF Board!Key, BoardInv, BoardTyped, BoardRanked
<1>6. \A s \in Posts \ moved' : \A f : Board!Listed(s, f)' <=> Board!Listed(s, f)
    BY <1>5 DEF Board!Listed, Board!Fits
<1>7. ASSUME NEW c, NEW page, BoardSound(c, page) PROVE BoardSound(c, page)'
    <2>1. ASSUME NEW s \in Posts \ moved'
          PROVE  s \in page.items <=>
            /\ Board!Listed(s, c.filters)'
            /\ c.cursor # <<>> => Board!Below(Board!Key(s)', c.cursor[1])
            /\ page.more => ~Board!Below(Board!Key(s)', page.cursor[1])
        BY <1>5, <1>6, <1>7 DEF BoardSound
    <2>. QED BY <1>7, <2>1 DEF BoardSound, Board!Fits, Board!Below
<1>8. BoardPagesSound'
    BY <1>1, <1>7 DEF BoardInv, BoardPagesSound, Board!Current
<1>9. Board!NoneSkippedOrRepeated'
    <2>. SUFFICES ASSUME ~loading, ~error, NEW s \in Posts \ moved'
         PROVE items'[s] = IF Board!Listed(s, filters)' /\ ~(hasMore /\ Board!Below(Board!Key(s)', below[1]))
                           THEN 1 ELSE 0
        BY <1>1 DEF Board!NoneSkippedOrRepeated, Board!bar, Board!list, Board!flags, Board!Below
    <2>1. /\ filters' = filters /\ items'[s] = items[s] /\ s \in Posts \ moved
          /\ Board!Key(s)' = Board!Key(s) /\ (Board!Listed(s, filters)' <=> Board!Listed(s, filters))
        BY <1>1, <1>5, <1>6 DEF Board!bar, Board!list
    <2>. QED BY <2>1 DEF BoardInv, Board!NoneSkippedOrRepeated
<1>. QED BY <1>3, <1>4, <1>8, <1>9 DEF BoardInv

LEMMA BoardRequestStep ==
    ASSUME BoardInv, NEW r \in Posts, Board!Publish(r) \/ Board!Upgrade(r) \/ Board!Bump(r) \/ Board!Select(r)
    PROVE  BoardInv'
<1>0. /\ status[r] \in {"draft", "published", "selected"}
      /\ listTier[r] \in 0 .. MaxTier /\ listRankAt[r] \in 0 .. MaxClock
      /\ clock \in 1 .. MaxClock /\ MaxClock \in Nat /\ MaxTier \in Nat
    BY BoardAssumed DEF BoardInv, BoardTyped, BoardRanked, Board!ListingAssumption
<1>1. CASE Board!Publish(r)
    <2>1. clock + 1 \in 0 .. MaxClock /\ 0 \in 0 .. MaxTier
        BY <1>0, <1>1 DEF Board!Publish, Board!Rerank
    <2>. QED BY <1>1, <2>1, BoardRerankStep DEF Board!Publish
<1>2. CASE Board!Upgrade(r)
    BY <1>0, <1>2, BoardRerankStep DEF Board!Upgrade
<1>3. CASE Board!Bump(r)
    <2>1. clock + 1 \in 0 .. MaxClock
        BY <1>0, <1>3 DEF Board!Bump, Board!Rerank
    <2>. QED BY <1>0, <1>3, <2>1, BoardRerankStep DEF Board!Bump
<1>4. CASE Board!Select(r)
    BY <1>0, <1>4, BoardRerankStep DEF Board!Select
<1>. QED BY <1>1, <1>2, <1>3, <1>4

-----------------------------------------------------------------------------
(* The filter bar *)

\* New filters make every fetch under way one that is not current.
LEMMA BoardFiltersStep ==
    ASSUME BoardInv, NEW f \in SUBSET Board!Criteria, Board!SetFilters(f),
           typed' \subseteq TextCriteria, timers' \subseteq TextCriteria, BoardBarWaits'
    PROVE  BoardInv'
<1>1. filters' = f /\ UNCHANGED <<Board!ranks, Board!list, moved, loadingMore>>
    BY DEF Board!SetFilters, Board!flags
<1>2. BoardRanked' /\ (\A r : Board!Key(r)' = Board!Key(r)) /\ \A r, g : Board!Fits(r, g)' = Board!Fits(r, g)
    BY <1>1 DEF BoardInv, BoardTyped, BoardRanked, Board!ranks, Board!Key, Board!Fits
<1>3. CASE f = filters
    <2>1. filters' = filters /\ UNCHANGED <<generation, fetches, Board!flags>>
        BY <1>1, <1>3 DEF Board!SetFilters
    <2>2. BoardTyped'
        BY <1>1, <1>2, <2>1 DEF BoardInv, BoardTyped, Board!list, Board!flags
    <2>3. BoardOneCurrent' /\ BoardPagesSound' /\ BoardItemsFit' /\ Board!NoneSkippedOrRepeated'
        BY <1>1, <2>1
        DEF BoardInv, BoardOneCurrent, BoardPagesSound, BoardItemsFit, Board!NoneSkippedOrRepeated, Board!Current, BoardSound,
            Board!Listed, Board!Fits, Board!Key, Board!Below, Board!ranks, Board!list, Board!flags
    <2>. QED BY <2>2, <2>3 DEF BoardInv
<1>4. CASE f # filters
    <2>. DEFINE c == [more |-> FALSE, gen |-> generation', filters |-> f, cursor |-> <<>>,
                      page |-> <<>>]
    <2>1. /\ generation < MaxLoads /\ generation' = generation + 1
          /\ fetches' = fetches \cup {c}
          /\ loading' = TRUE /\ error' = FALSE
        BY <1>4 DEF Board!SetFilters
    <2>2. generation \in 1 .. MaxLoads /\ MaxLoads \in Nat
        BY BoardAssumed DEF BoardInv, BoardTyped, Board!ListingAssumption
    <2>3. c \in BoardCallType
        BY <2>1, <2>2 DEF BoardCallType, BoardCursors
    <2>4. c.more = FALSE /\ c.gen = generation' /\ c.filters = f /\ c.cursor = <<>> /\ c.page = <<>>
        OBVIOUS
    <2>. HIDE DEF c
    <2>5. \A d \in fetches : d.gen \in Nat /\ d.gen <= generation
        BY DEF BoardInv, BoardTyped, BoardOneCurrent, BoardCallType
    <2>6. \A d \in fetches' : Board!Current(d)' <=> d = c
        BY <2>1, <2>2, <2>4, <2>5 DEF Board!Current
    <2>7. BoardTyped'
        <3>1. fetches' \subseteq BoardCallType /\ generation' \in 1 .. MaxLoads
            BY <2>1, <2>2, <2>3 DEF BoardInv, BoardTyped
        <3>2. {hasMore, loading, loadingMore, error}' \subseteq BOOLEAN
            BY <1>1, <2>1 DEF BoardInv, BoardTyped, Board!list
        <3>. QED BY <1>1, <1>2, <3>1, <3>2 DEF BoardInv, BoardTyped, Board!list
    <2>8. BoardOneCurrent'
        <3>1. \A d \in fetches' : d.gen <= generation'
            BY <2>1, <2>2, <2>4, <2>5
        <3>2. hasMore' => below' # <<>>
            BY <1>1 DEF BoardInv, BoardOneCurrent, Board!list
        <3>. QED BY <1>1, <2>1, <2>4, <2>6, <3>1, <3>2 DEF BoardOneCurrent
    <2>9. BoardPagesSound'
        BY <2>4, <2>6 DEF BoardPagesSound
    <2>10. BoardItemsFit' /\ Board!NoneSkippedOrRepeated'
        BY <2>1 DEF BoardItemsFit, Board!NoneSkippedOrRepeated
    <2>. QED BY <2>7, <2>8, <2>9, <2>10 DEF BoardInv
<1>. QED BY <1>3, <1>4

LEMMA BoardBarStep ==
    ASSUME BoardInv,
           \/ \E x \in TextCriteria : Board!Debounced(x)
           \/ \E x \in PickedCriteria : Board!Pick(x)
           \/ Board!Clear
    PROVE  BoardInv'
<1>0. /\ filters \subseteq Board!Criteria /\ typed \subseteq TextCriteria /\ timers \subseteq TextCriteria
      /\ TextCriteria \subseteq Board!Criteria /\ PickedCriteria \subseteq Board!Criteria
      /\ TextCriteria \cap PickedCriteria = {}
    BY BoardAssumed DEF BoardInv, BoardTyped, Board!Criteria, Board!ListingAssumption
<1>1. ASSUME NEW x \in TextCriteria, Board!Debounced(x) PROVE BoardInv'
    <2>. DEFINE f == IF x \in typed THEN filters \cup {x} ELSE filters \ {x}
    <2>1. Board!SetFilters(f) /\ timers' = timers \ {x} /\ typed' = typed
        BY <1>1 DEF Board!Debounced
    <2>2. f \in SUBSET Board!Criteria /\ filters' = f
        BY <1>0, <2>1 DEF Board!SetFilters
    <2>3. BoardBarWaits'
        BY <2>1, <2>2 DEF BoardInv, BoardBarWaits
    <2>. HIDE DEF f
    <2>. QED BY <1>0, <2>1, <2>2, <2>3, BoardFiltersStep
<1>2. ASSUME NEW x \in PickedCriteria, Board!Pick(x) PROVE BoardInv'
    <2>1. PICK f \in {filters \cup {x}, filters \ {x}} : Board!SetFilters(f)
        BY <1>2 DEF Board!Pick
    <2>2. f \in SUBSET Board!Criteria /\ filters' = f /\ typed' = typed /\ timers' = timers
        BY <1>0, <1>2, <2>1 DEF Board!SetFilters, Board!Pick
    <2>3. BoardBarWaits'
        BY <1>0, <2>2 DEF BoardInv, BoardBarWaits
    <2>. QED BY <1>0, <2>1, <2>2, <2>3, BoardFiltersStep
<1>3. CASE Board!Clear
    <2>1. Board!SetFilters({}) /\ typed' = {} /\ timers' = timers \cup typed /\ filters' = {}
        BY <1>3 DEF Board!Clear, Board!SetFilters
    <2>2. BoardBarWaits'
        BY <2>1 DEF BoardBarWaits
    <2>. QED BY <1>0, <2>1, <2>2, BoardFiltersStep
<1>. QED BY <1>1, <1>2, <1>3

\* What is said of the requests and the pages depends on neither the text typed nor
\* the timers.
LEMMA BoardKeeps ==
    ASSUME UNCHANGED <<Board!ranks, filters, generation, fetches, Board!list, Board!flags, moved>>
    PROVE  /\ BoardOneCurrent => BoardOneCurrent'
           /\ BoardPagesSound => BoardPagesSound'
           /\ BoardItemsFit => BoardItemsFit'
           /\ Board!NoneSkippedOrRepeated => Board!NoneSkippedOrRepeated'
<1>. USE DEF Board!ranks, Board!list, Board!flags
<1>1. /\ \A c : Board!Current(c)' <=> Board!Current(c)
      /\ \A r : Board!Key(r)' = Board!Key(r)
      /\ \A r, f : Board!Fits(r, f)' <=> Board!Fits(r, f)
      /\ \A r, f : Board!Listed(r, f)' <=> Board!Listed(r, f)
    BY DEF Board!Current, Board!Key, Board!Fits, Board!Listed
<1>2. \A c, page : BoardSound(c, page)' <=> BoardSound(c, page)
    BY <1>1 DEF BoardSound
<1>3. BoardOneCurrent => BoardOneCurrent'
    BY <1>1 DEF BoardOneCurrent
<1>4. BoardPagesSound => BoardPagesSound'
    BY <1>1, <1>2 DEF BoardPagesSound
<1>5. BoardItemsFit => BoardItemsFit'
    BY <1>1 DEF BoardItemsFit
<1>6. Board!NoneSkippedOrRepeated => Board!NoneSkippedOrRepeated'
    BY <1>1 DEF Board!NoneSkippedOrRepeated
<1>. QED BY <1>3, <1>4, <1>5, <1>6

\* A key is pressed in the search or city field.
LEMMA BoardTypeStep == ASSUME BoardInv, NEW x \in TextCriteria, Board!Type(x) PROVE BoardInv'
<1>1. /\ typed' \in {typed \cup {x}, typed \ {x}} /\ timers' = timers \cup {x}
      /\ UNCHANGED <<Board!ranks, filters, generation, fetches, Board!list, Board!flags, moved>>
    BY DEF Board!Type
<1>2. BoardTyped'
    BY <1>1 DEF BoardInv, BoardTyped, BoardRanked, Board!ranks, Board!list, Board!flags
<1>3. BoardBarWaits'
    BY <1>1 DEF BoardInv, BoardBarWaits
<1>4. BoardOneCurrent' /\ BoardPagesSound' /\ BoardItemsFit' /\ Board!NoneSkippedOrRepeated'
    BY <1>1, BoardKeeps DEF BoardInv
<1>. QED BY <1>2, <1>3, <1>4 DEF BoardInv

-----------------------------------------------------------------------------
(* The page *)

\* The server reads the page of a fetch.
LEMMA BoardReadStep == ASSUME BoardInv, NEW c \in fetches, Board!Read(c) PROVE BoardInv'
<1>. PICK page : page = Board!Page(c.filters, c.cursor)
    OBVIOUS
<1>. PICK d : d = [c EXCEPT !.page = <<page>>]
    OBVIOUS
<1>1. /\ c.page = <<>>
      /\ fetches' = (fetches \ {c}) \cup {d}
      /\ moved' = IF c.more \/ c.gen # generation THEN moved ELSE {}
      /\ UNCHANGED <<Board!ranks, Board!bar, generation, Board!list, Board!flags>>
    BY DEF Board!Read
<1>2. BoardRanked /\ c \in BoardCallType /\ c.cursor \in BoardCursors
    BY DEF BoardInv, BoardTyped, BoardCallType
<1>3. /\ page \in BoardPageType
      /\ \A r \in page.items : Board!Fits(r, c.filters)
      /\ page.more => page.cursor # <<>> /\ (c.cursor # <<>> => Board!Below(page.cursor[1], c.cursor[1]))
      /\ \A r \in Posts : r \in page.items <=>
            /\ Board!Listed(r, c.filters)
            /\ c.cursor # <<>> => Board!Below(Board!Key(r), c.cursor[1])
            /\ page.more => ~Board!Below(Board!Key(r), page.cursor[1])
    BY <1>2, BoardPageSound
<1>4. /\ d \in BoardCallType
      /\ d.more = c.more /\ d.gen = c.gen /\ d.filters = c.filters /\ d.cursor = c.cursor
      /\ d.page = <<page>> /\ d.page[1] = page
    BY <1>2, <1>3 DEF BoardCallType
<1>5. BoardTyped'
    BY <1>1, <1>4 DEF BoardInv, BoardTyped, BoardRanked, Board!ranks, Board!bar, Board!list, Board!flags
<1>6. BoardBarWaits' /\ BoardItemsFit'
    BY <1>1 DEF BoardInv, BoardBarWaits, BoardItemsFit, Board!Fits, Board!bar, Board!list, Board!flags
<1>7. \A e : Board!Current(e)' <=> Board!Current(e)
    BY <1>1 DEF Board!Current
<1>8. \A e \in fetches : Board!Current(c) /\ Board!Current(e) => e = c
    BY DEF BoardInv, BoardOneCurrent
<1>9. (Board!Current(d) <=> Board!Current(c)) /\ \A e \in fetches' : e = d \/ (e \in fetches /\ e # c)
    BY <1>1, <1>4 DEF Board!Current
<1>10. BoardOneCurrent'
    BY <1>1, <1>4, <1>7, <1>8, <1>9 DEF BoardInv, BoardOneCurrent, Board!bar, Board!list, Board!flags
<1>11. (\A r : Board!Key(r)' = Board!Key(r)) /\ (\A r, f : Board!Listed(r, f)' = Board!Listed(r, f))
    BY <1>1 DEF Board!Key, Board!Listed, Board!Fits, Board!ranks
<1>12. BoardSound(d, page)'
    BY <1>3, <1>4, <1>11 DEF BoardSound, Board!Fits, Board!Below
<1>13. BoardPagesSound'
    <2>. SUFFICES ASSUME NEW e \in fetches', Board!Current(e), e.page # <<>> PROVE BoardSound(e, e.page[1])'
        BY <1>7 DEF BoardPagesSound
    <2>1. CASE e = d
        BY <1>4, <1>12, <2>1
    <2>2. CASE e \in fetches /\ e # c
        <3>1. ~Board!Current(c)
            BY <1>8, <2>2
        <3>2. moved' = moved
            BY <1>1, <3>1 DEF Board!Current
        <3>3. BoardSound(e, e.page[1])
            BY <2>2 DEF BoardInv, BoardPagesSound
        <3>. QED BY <1>11, <3>2, <3>3 DEF BoardSound, Board!Fits, Board!Below
    <2>. QED BY <1>9, <2>1, <2>2
<1>14. Board!NoneSkippedOrRepeated'
    <2>1. loading \/ moved' = moved
        BY <1>1 DEF BoardInv, BoardOneCurrent, Board!Current
    <2>. QED BY <1>1, <1>11, <2>1 DEF BoardInv, Board!NoneSkippedOrRepeated, Board!Below, Board!bar, Board!list, Board!flags
<1>. QED BY <1>5, <1>6, <1>10, <1>13, <1>14 DEF BoardInv

\* The page after the last one is asked for.
LEMMA BoardLoadMoreStep == BoardInv /\ Board!LoadMore => BoardInv'
<1>. SUFFICES ASSUME BoardInv, Board!LoadMore PROVE BoardInv'
    OBVIOUS
<1>. DEFINE c == [more |-> TRUE, gen |-> generation, filters |-> filters, cursor |-> below,
                  page |-> <<>>]
<1>1. /\ ~loading /\ ~error /\ hasMore /\ ~loadingMore /\ loadingMore' = TRUE
      /\ fetches' = fetches \cup {c}
      /\ UNCHANGED <<Board!ranks, Board!bar, generation, Board!list, loading, error, moved>>
    BY DEF Board!LoadMore
<1>2. c \in BoardCallType
    BY BoardAssumed DEF BoardInv, BoardTyped, BoardCallType, Board!ListingAssumption
<1>3. /\ c.more = TRUE /\ c.gen = generation /\ c.filters = filters /\ c.cursor = below
      /\ c.page = <<>>
    OBVIOUS
<1>. HIDE DEF c
<1>4. BoardTyped'
    BY <1>1, <1>2 DEF BoardInv, BoardTyped, BoardRanked, Board!ranks, Board!bar, Board!list
<1>5. BoardBarWaits' /\ BoardItemsFit' /\ Board!NoneSkippedOrRepeated'
    BY <1>1
    DEF BoardInv, BoardBarWaits, BoardItemsFit, Board!NoneSkippedOrRepeated, Board!Listed, Board!Fits, Board!Key, Board!Below, Board!ranks, Board!bar,
        Board!list
<1>6. \A d \in fetches : ~Board!Current(d)
    BY <1>1 DEF BoardInv, BoardOneCurrent, BoardTyped, BoardCallType
<1>7. \A d \in fetches' : Board!Current(d)' <=> d = c
    BY <1>1, <1>3, <1>6 DEF Board!Current
<1>8. BoardOneCurrent'
    <2>1. \A d \in fetches' : d.gen <= generation'
        BY <1>1, <1>3, BoardAssumed DEF BoardInv, BoardOneCurrent, BoardTyped, Board!ListingAssumption
    <2>. QED BY <1>1, <1>3, <1>7, <2>1 DEF BoardInv, BoardOneCurrent, Board!bar, Board!list
<1>9. BoardPagesSound'
    BY <1>3, <1>7 DEF BoardPagesSound
<1>. QED BY <1>4, <1>5, <1>8, <1>9 DEF BoardInv

\* A page arrives: it is shown if its fetch is the current one.
LEMMA BoardArriveStep ==
    ASSUME BoardInv, NEW c \in fetches, NEW failed \in BOOLEAN, Board!Arrive(c, failed)
    PROVE  BoardInv'
<1>1. /\ failed \/ c.page # <<>>
      /\ fetches' = fetches \ {c}
      /\ UNCHANGED <<Board!ranks, Board!bar, generation, moved>>
    BY DEF Board!Arrive
<1>2. (\A r : Board!Key(r)' = Board!Key(r)) /\ (\A r, f : Board!Listed(r, f)' = Board!Listed(r, f))
    BY <1>1 DEF Board!Key, Board!Listed, Board!Fits, Board!ranks
<1>3. BoardRanked' /\ BoardBarWaits' /\ fetches' \subseteq fetches /\ \A d : Board!Current(d)' <=> Board!Current(d)
    BY <1>1 DEF BoardInv, BoardTyped, BoardRanked, BoardBarWaits, Board!Current, Board!ranks, Board!bar
<1>4. BoardPagesSound'
    BY <1>1, <1>2, <1>3 DEF BoardInv, BoardPagesSound, BoardSound, Board!Fits, Board!Below
<1>5. CASE ~Board!Current(c) \/ (failed /\ c.more)
    <2>1. UNCHANGED <<Board!list, loading, error>>
        BY <1>5 DEF Board!Arrive, Board!flags, Board!Current, BoardInv, BoardTyped, BoardCallType
    <2>2. loadingMore' \in BOOLEAN /\ (loadingMore' = loadingMore \/ Board!Current(c))
        BY <1>5 DEF Board!Arrive, Board!flags, Board!Current, BoardInv, BoardTyped, BoardCallType
    <2>3. BoardTyped'
        BY <1>1, <1>3, <2>1, <2>2 DEF BoardInv, BoardTyped, Board!bar, Board!list
    <2>4. BoardOneCurrent'
        BY <1>1, <1>3, <2>1, <2>2 DEF BoardInv, BoardOneCurrent, Board!bar, Board!list
    <2>5. BoardItemsFit' /\ Board!NoneSkippedOrRepeated'
        BY <1>1, <1>2, <2>1
        DEF BoardInv, BoardItemsFit, Board!NoneSkippedOrRepeated, Board!Fits, Board!Below, Board!bar, Board!list
    <2>. QED BY <1>3, <1>4, <2>3, <2>4, <2>5 DEF BoardInv
<1>6. CASE Board!Current(c) /\ ~(failed /\ c.more)
    <2>1. c \in BoardCallType /\ c.filters = filters /\ \A d \in fetches' : ~Board!Current(d)
        BY <1>1, <1>6 DEF BoardInv, BoardTyped, BoardOneCurrent
    <2>2. BoardOneCurrent' <=> (hasMore' => below' # <<>>)
        BY <1>1, <1>3, <2>1 DEF BoardInv, BoardOneCurrent, Board!bar
    <2>3. /\ loading' = (loading /\ c.more)
          /\ loadingMore' = (loadingMore /\ ~c.more)
          /\ error' = (error \/ (failed /\ ~c.more))
        BY <1>6 DEF Board!Arrive
    <2>4. CASE failed
        <3>1. UNCHANGED Board!list /\ error'
            BY <1>6, <2>3, <2>4 DEF Board!Arrive, BoardCallType
        <3>2. BoardTyped'
            BY <1>1, <1>3, <2>3, <3>1 DEF BoardInv, BoardTyped, Board!bar, Board!list
        <3>3. BoardOneCurrent'
            BY <2>2, <3>1 DEF BoardInv, BoardOneCurrent, Board!list
        <3>. QED BY <1>3, <1>4, <3>1, <3>2, <3>3 DEF BoardInv, BoardItemsFit, Board!NoneSkippedOrRepeated
    <2>5. CASE ~failed
        <3>. DEFINE page == c.page[1]
        <3>1. /\ c.page # <<>>
              /\ items' = [r \in Posts |-> (IF c.more THEN items[r] ELSE 0)
                                          + (IF r \in page.items THEN 1 ELSE 0)]
              /\ below' = page.cursor
              /\ hasMore' = page.more
            BY <1>1, <1>6, <2>5 DEF Board!Arrive
        <3>2. page \in BoardPageType /\ BoardSound(c, page)
            BY <1>6, <2>1, <3>1 DEF BoardInv, BoardPagesSound, BoardCallType
        <3>. HIDE DEF page
        <3>3. \A r \in Posts : items[r] \in Nat
            BY DEF BoardInv, BoardTyped
        <3>4. BoardTyped'
            <4>1. items' \in [Posts -> Nat]
                BY <3>1, <3>3
            <4>2. below' \in BoardCursors /\ hasMore' \in BOOLEAN
                BY <3>1, <3>2 DEF BoardPageType
            <4>. QED BY <1>1, <1>3, <2>3, <4>1, <4>2 DEF BoardInv, BoardTyped, Board!bar
        <3>5. BoardOneCurrent'
            BY <2>2, <3>1, <3>2 DEF BoardSound
        <3>6. c.more => /\ ~loading /\ ~error /\ hasMore /\ c.cursor = below /\ below # <<>>
            BY <1>6 DEF BoardInv, BoardOneCurrent
        <3>7. ~c.more => c.cursor = <<>>
            BY <1>6 DEF BoardInv, BoardOneCurrent
        <3>8. BoardItemsFit'
            <4>. SUFFICES ASSUME NEW r \in Posts, items'[r] > 0 PROVE Board!Fits(r, filters)
                BY <1>1 DEF BoardItemsFit, Board!Fits, Board!bar
            <4>1. CASE r \in page.items
                BY <2>1, <3>2, <4>1 DEF BoardSound
            <4>2. CASE r \notin page.items
                <5>1. c.more /\ items[r] > 0
                    BY <3>1, <3>3, <4>2
                <5>. QED BY <3>6, <5>1 DEF BoardInv, BoardItemsFit
            <4>. QED BY <4>1, <4>2
        <3>9. Board!NoneSkippedOrRepeated'
            <4>. SUFFICES ASSUME NEW r \in Posts \ moved
                 PROVE items'[r] = IF Board!Listed(r, filters) /\ ~(page.more /\ Board!Below(Board!Key(r), page.cursor[1]))
                                   THEN 1 ELSE 0
                BY <1>1, <1>2, <3>1 DEF Board!NoneSkippedOrRepeated, Board!Below, Board!bar
            <4>1. r \in page.items <=> /\ Board!Listed(r, filters)
                                       /\ c.cursor # <<>> => Board!Below(Board!Key(r), c.cursor[1])
                                       /\ page.more => ~Board!Below(Board!Key(r), page.cursor[1])
                BY <2>1, <3>2 DEF BoardSound
            <4>2. CASE ~c.more
                BY <3>1, <3>7, <4>1, <4>2
            <4>3. CASE c.more
                <5>1. items[r] = IF Board!Listed(r, filters) /\ ~Board!Below(Board!Key(r), below[1]) THEN 1 ELSE 0
                    BY <3>6, <4>3 DEF BoardInv, Board!NoneSkippedOrRepeated
                <5>2. page.more /\ Board!Below(Board!Key(r), page.cursor[1]) => Board!Below(Board!Key(r), below[1])
                    <6>. SUFFICES ASSUME page.more, Board!Below(Board!Key(r), page.cursor[1])
                         PROVE Board!Below(Board!Key(r), below[1])
                        OBVIOUS
                    <6>1. Board!Key(r) \in BoardKeys
                        BY BoardRanking DEF BoardInv, BoardTyped
                    <6>2. page.cursor # <<>> /\ Board!Below(page.cursor[1], below[1])
                        BY <3>2, <3>6, <4>3 DEF BoardSound
                    <6>3. page.cursor[1] \in BoardKeys /\ below[1] \in BoardKeys
                        BY <3>2, <3>6, <4>3, <6>2 DEF BoardPageType, BoardCursors, BoardInv, BoardTyped
                    <6>. QED BY <6>1, <6>2, <6>3, BoardBelowOrder
                <5>. QED BY <3>1, <3>6, <4>1, <4>3, <5>1, <5>2
            <4>. QED BY <2>1, <4>2, <4>3 DEF BoardCallType
        <3>. QED BY <1>3, <1>4, <3>4, <3>5, <3>8, <3>9 DEF BoardInv
    <2>. QED BY <2>4, <2>5
<1>. QED BY <1>5, <1>6

-----------------------------------------------------------------------------
\* Every step of the list keeps its invariant.
LEMMA BoardNext == BoardInv /\ [Board!Next]_(Board!vars) => BoardInv'
<1>. SUFFICES ASSUME BoardInv, [Board!Next]_(Board!vars) PROVE BoardInv'
    OBVIOUS
<1>1. CASE UNCHANGED Board!vars
    <2>1. BoardTyped' /\ BoardBarWaits'
        BY <1>1
        DEF Board!vars, Board!ranks, Board!bar, Board!list, Board!flags, BoardInv, BoardTyped, BoardRanked, BoardBarWaits
    <2>2. UNCHANGED <<Board!ranks, filters, generation, fetches, Board!list, Board!flags, moved>>
        BY <1>1 DEF Board!vars, Board!bar
    <2>. QED BY <2>1, <2>2, BoardKeeps DEF BoardInv
<1>. QED BY <1>1, BoardRequestStep, BoardBarStep, BoardTypeStep, BoardReadStep, BoardLoadMoreStep, BoardArriveStep DEF Board!Next

LEMMA BoardShows == BoardInv => Board!TypeOK /\ Board!NoneSkippedOrRepeated /\ Board!ShownFits
<1>. SUFFICES ASSUME BoardInv PROVE Board!TypeOK /\ Board!NoneSkippedOrRepeated /\ Board!ShownFits
    OBVIOUS
<1>1. Board!TypeOK
    <2>1. MaxClock \in Nat /\ clock \in 0 .. MaxClock
        BY BoardAssumed DEF Board!ListingAssumption, BoardInv, BoardTyped, BoardRanked
    <2>. QED BY <2>1 DEF BoardInv, BoardTyped, BoardRanked, Board!TypeOK, Board!Criteria
<1>2. timers = {} => typed = filters \cap TextCriteria
    BY DEF BoardInv, BoardBarWaits, BoardTyped
<1>. QED BY <1>1, <1>2 DEF BoardInv, BoardItemsFit, Board!ShownFits

LEMMA BoardHolds == Board!Spec => [](Board!TypeOK /\ Board!NoneSkippedOrRepeated /\ Board!ShownFits)
BY BoardInitInv, BoardNext, BoardShows, PTL DEF Board!Spec

-----------------------------------------------------------------------------
(* The wizard.  A session whose calls came one after the other has the     *)
(* turns of exactly the calls that stored one, the running call has read   *)
(* the history as it is, and what is answered is a beginning of it         *)
(* (WizardInTurn).  What a session has cost is counted whatever overlapped *)
(* (WizardSessionOK).                                                      *)

\* A history, and a row of ai_sessions.
WizardEntry == [role : {"user", "assistant"}, of : Nat]
WizardRow == [messages : Seq(WizardEntry), draft : Wizard!Drafts, tokensUsed : [1 .. MaxPrompts -> Nat]]

\* The messages a history has turns of.
WizardOf(h) == {h[i].of : i \in DOMAIN h}

\* User and assistant in turn, and the assistant last.
WizardAlternating(h) ==
    /\ h \in Seq(WizardEntry)
    /\ Len(h) % 2 = 0
    /\ \A i \in DOMAIN h : h[i].role = IF i % 2 = 1 THEN "user" ELSE "assistant"
    /\ WizardOf(h) \subseteq Wizard!Sent

\* The calls that have stored their turn in a session.
WizardStored(s) == {m \in Wizard!Sent : session[m] = s /\ turn[m] \in {"answer", "done"}}

WizardSteps == {"read", "extract", "write", "answer", "done", "lost"}

\* The columns of a call are there for every message.
WizardCallsTyped ==
    /\ turn \in Seq(WizardSteps) /\ Len(turn) <= MaxPrompts
    /\ session \in Seq(Nat) /\ Len(session) = Len(turn)
    /\ base \in Seq(Seq(WizardEntry)) /\ Len(base) = Len(turn)
    /\ attempts \in Seq(Nat) /\ Len(attempts) = Len(turn)
    /\ result \in Seq(Wizard!Drafts) /\ Len(result) = Len(turn)
    /\ tokens \in Seq(Nat) /\ Len(tokens) = Len(turn)

WizardTyped ==
    /\ sessions \in Seq(WizardRow)
    /\ sessionId \in 0 .. Len(sessions)
    /\ chat \in Seq(WizardEntry)
    /\ extracted \in Wizard!Drafts /\ manual \in BOOLEAN
    /\ sending \in 0 .. Len(turn)
    /\ clashed \subseteq DOMAIN sessions

\* A call has read whole turns; start has read none and has no session yet.
WizardCallOK(m) ==
    /\ session[m] <= Len(sessions)
    /\ WizardAlternating(base[m])
    /\ session[m] = 0 => turn[m] \in {"extract", "write", "lost"} /\ base[m] = <<>>

\* A session whose calls came one after the other: the running one, if any, has
\* the history as it is, and what was answered is a beginning of it.
WizardInTurn(s) ==
    LET history == sessions[s].messages IN
    /\ WizardStored(s) = WizardOf(history)
    /\ \A m, n \in Wizard!Running(s) : m = n
    /\ \A m \in Wizard!Running(s) : base[m] = history
    /\ \A m \in Wizard!Sent : session[m] = s /\ turn[m] = "answer" => Wizard!IsPrefix(base[m] \o Wizard!Turn(m), history)
    /\ s = sessionId => Wizard!IsPrefix(chat, history)

\* A stored session: whole turns, their cost, and, if its calls took turns, all of them.
WizardSessionOK(s) ==
    /\ WizardAlternating(sessions[s].messages)
    /\ \A m \in 1 .. MaxPrompts :
        sessions[s].tokensUsed[m] = IF m \in WizardStored(s) THEN tokens[m] ELSE 0
    /\ s \notin clashed => WizardInTurn(s)

WizardInv ==
    /\ WizardCallsTyped /\ WizardTyped
    /\ \A m \in Wizard!Sent : WizardCallOK(m)
    /\ \A s \in DOMAIN sessions : WizardSessionOK(s)

-----------------------------------------------------------------------------
(* Sequences *)

\* A beginning of a sequence, position by position.
LEMMA WizardPrefixMeans ==
    ASSUME NEW S, NEW p \in Seq(S), NEW q \in Seq(S)
    PROVE  Wizard!IsPrefix(p, q) <=> Len(p) <= Len(q) /\ \A i \in 1 .. Len(p) : p[i] = q[i]
<1>1. Len(p) \in Nat /\ Len(q) \in Nat
    BY Elements
<1>2. SubSeq(p, 1, Len(p)) = p
    OBVIOUS
<1>3. ASSUME Len(p) <= Len(q)
      PROVE  /\ SubSeq(q, 1, Len(p)) \in Seq(S)
             /\ Len(SubSeq(q, 1, Len(p))) = Len(p)
             /\ \A i \in 1 .. Len(p) : SubSeq(q, 1, Len(p))[i] = q[i]
    BY <1>1, <1>3
<1>4. ASSUME Len(p) <= Len(q), \A i \in 1 .. Len(p) : p[i] = q[i]
      PROVE  SubSeq(q, 1, Len(p)) = p
    <2>. DEFINE r == SubSeq(q, 1, Len(p))
    <2>1. r \in Seq(S) /\ Len(r) = Len(p) /\ \A i \in 1 .. Len(p) : r[i] = p[i]
        BY <1>3, <1>4
    <2>. HIDE DEF r
    <2>2. r = p
        BY <2>1
    <2>. QED BY <2>2 DEF r
<1>. QED BY <1>2, <1>3, <1>4 DEF Wizard!IsPrefix

\* A sequence continued begins with what it was.
LEMMA WizardLonger ==
    ASSUME NEW S, NEW p \in Seq(S), NEW q \in Seq(S), NEW r \in Seq(S)
    PROVE  /\ q \o r \in Seq(S)
           /\ Len(q \o r) = Len(q) + Len(r)
           /\ \A i \in 1 .. Len(q) : (q \o r)[i] = q[i]
           /\ \A i \in 1 .. Len(r) : (q \o r)[Len(q) + i] = r[i]
           /\ Wizard!IsPrefix(q, q)
           /\ Wizard!IsPrefix(p, q) => Wizard!IsPrefix(p, q \o r)
<1>1. /\ q \o r \in Seq(S)
      /\ Len(q \o r) = Len(q) + Len(r)
      /\ \A i \in 1 .. Len(q) : (q \o r)[i] = q[i]
      /\ \A i \in 1 .. Len(r) : (q \o r)[Len(q) + i] = r[i]
    OBVIOUS
<1>2. Len(q) \in Nat /\ Len(p) \in Nat /\ Len(r) \in Nat
    BY Elements
<1>3. Wizard!IsPrefix(q, q)
    BY <1>2, WizardPrefixMeans
<1>. DEFINE t == q \o r
<1>. HIDE DEF t
<1>4. t \in Seq(S) /\ Len(t) = Len(q) + Len(r) /\ \A i \in 1 .. Len(q) : t[i] = q[i]
    BY <1>1 DEF t
<1>5. ASSUME Wizard!IsPrefix(p, q) PROVE Wizard!IsPrefix(p, t)
    <2>1. Len(p) <= Len(q) /\ \A i \in 1 .. Len(p) : p[i] = q[i]
        BY <1>5, WizardPrefixMeans
    <2>2. Len(p) <= Len(t) /\ \A i \in 1 .. Len(p) : p[i] = t[i]
        BY <1>2, <1>4, <2>1
    <2>. QED BY <1>4, <2>2, WizardPrefixMeans
<1>. QED BY <1>1, <1>3, <1>5 DEF t

\* A history and a turn of a message that was sent.
LEMMA WizardTurnAdded ==
    ASSUME NEW h, WizardAlternating(h), NEW m \in Nat
    PROVE  /\ h \o Wizard!Turn(m) \in Seq(WizardEntry)
           /\ WizardOf(h \o Wizard!Turn(m)) = WizardOf(h) \cup {m}
           /\ m \in Wizard!Sent => WizardAlternating(h \o Wizard!Turn(m))
<1>. DEFINE t == Wizard!Turn(m)
            g == h \o t
<1>1. /\ t \in Seq(WizardEntry) /\ Len(t) = 2
      /\ t[1].of = m /\ t[2].of = m /\ t[1].role = "user" /\ t[2].role = "assistant"
    BY DEF Wizard!Turn, WizardEntry
<1>2. h \in Seq(WizardEntry) /\ Len(h) \in Nat /\ Len(h) % 2 = 0
    BY DEF WizardAlternating
<1>. HIDE DEF t
<1>3. /\ g \in Seq(WizardEntry) /\ Len(g) = Len(h) + 2
      /\ \A i \in 1 .. Len(h) : g[i] = h[i]
      /\ g[Len(h) + 1] = t[1] /\ g[Len(h) + 2] = t[2]
    <2>1. /\ g \in Seq(WizardEntry) /\ Len(g) = Len(h) + Len(t)
          /\ \A i \in 1 .. Len(h) : g[i] = h[i]
          /\ \A i \in 1 .. Len(t) : g[Len(h) + i] = t[i]
        BY <1>1, <1>2, WizardLonger
    <2>. QED BY <1>1, <2>1
<1>. HIDE DEF g
<1>4. DOMAIN g = 1 .. Len(h) + 2 /\ DOMAIN h = 1 .. Len(h)
    BY <1>2, <1>3
<1>5. 1 .. Len(h) + 2 = (1 .. Len(h)) \cup {Len(h) + 1, Len(h) + 2}
    BY <1>2
<1>6. WizardOf(g) = WizardOf(h) \cup {m}
    BY <1>1, <1>3, <1>4, <1>5 DEF WizardOf
<1>7. ASSUME NEW i \in DOMAIN g
      PROVE  g[i].role = IF i % 2 = 1 THEN "user" ELSE "assistant"
    <2>1. CASE i \in 1 .. Len(h)
        BY <1>3, <1>4, <2>1 DEF WizardAlternating
    <2>2. CASE i = Len(h) + 1
        <3>1. i % 2 = 1
            BY <1>2, <2>2
        <3>. QED BY <1>1, <1>3, <2>2, <3>1
    <2>3. CASE i = Len(h) + 2
        <3>1. i % 2 = 0
            BY <1>2, <2>3
        <3>. QED BY <1>1, <1>3, <2>3, <3>1
    <2>. QED BY <1>4, <1>5, <2>1, <2>2, <2>3
<1>8. Len(g) % 2 = 0
    BY <1>2, <1>3
<1>9. m \in Wizard!Sent => WizardAlternating(g)
    BY <1>3, <1>6, <1>7, <1>8 DEF WizardAlternating
<1>. QED BY <1>3, <1>6, <1>9 DEF g, t

LEMMA WizardSentIs ==
    ASSUME WizardCallsTyped
    PROVE  Len(turn) \in Nat /\ Wizard!Sent = 1 .. Len(turn) /\ MaxPrompts \in Nat /\ Wizard!Sent \subseteq 1 .. MaxPrompts
    BY WizardAssumed DEF WizardCallsTyped, Wizard!Sent, Wizard!AiDraftAssumption

LEMMA WizardInitInv == Wizard!Init => WizardInv
<1>. SUFFICES ASSUME Wizard!Init PROVE WizardInv
    OBVIOUS
<1>1. WizardCallsTyped
    BY WizardAssumed DEF Wizard!Init, WizardCallsTyped, Wizard!AiDraftAssumption
<1>2. WizardTyped
    <2>1. sessions = <<>> /\ chat = <<>> /\ Len(sessions) = 0 /\ Len(turn) = 0 /\ DOMAIN sessions = {}
        BY DEF Wizard!Init
    <2>2. sessions \in Seq(WizardRow) /\ chat \in Seq(WizardEntry)
        BY <2>1
    <2>3. sessionId \in 0 .. Len(sessions) /\ sending \in 0 .. Len(turn) /\ clashed \subseteq DOMAIN sessions
        BY <2>1 DEF Wizard!Init
    <2>4. extracted \in Wizard!Drafts /\ manual \in BOOLEAN
        BY DEF Wizard!Init, Wizard!Drafts
    <2>. QED BY <2>2, <2>3, <2>4 DEF WizardTyped
<1>. QED BY <1>1, <1>2 DEF Wizard!Init, WizardInv, Wizard!Sent

-----------------------------------------------------------------------------
(* The wizard *)

LEMMA WizardSessionsAre ==
    ASSUME WizardTyped
    PROVE  /\ Len(sessions) \in Nat /\ DOMAIN sessions = 1 .. Len(sessions)
           /\ \A s \in DOMAIN sessions : sessions[s] \in WizardRow
    BY DEF WizardTyped

\* What a step leaves alone keeps a session in turn.
LEMMA WizardTurnsKept ==
    ASSUME NEW s, WizardInTurn(s), UNCHANGED sessions,
           WizardStored(s)' = WizardStored(s), Wizard!Running(s)' \subseteq Wizard!Running(s),
           \A k \in Wizard!Running(s)' : base'[k] = base[k],
           \A k \in Wizard!Sent' : session'[k] = s /\ turn'[k] = "answer" =>
                k \in Wizard!Sent /\ session[k] = s /\ turn[k] = "answer" /\ base'[k] = base[k],
           s = sessionId' => Wizard!IsPrefix(chat', sessions[s].messages)
    PROVE  WizardInTurn(s)'
<1>. DEFINE h == sessions[s].messages
<1>1. h' = h
    OBVIOUS
<1>2. WizardStored(s)' = WizardOf(h)
    BY DEF WizardInTurn
<1>3. \A m, n \in Wizard!Running(s)' : m = n
    BY DEF WizardInTurn
<1>4. \A m \in Wizard!Running(s)' : base'[m] = h
    BY DEF WizardInTurn
<1>5. ASSUME NEW m \in Wizard!Sent', session'[m] = s, turn'[m] = "answer"
      PROVE  Wizard!IsPrefix(base'[m] \o Wizard!Turn(m), h)
    <2>1. m \in Wizard!Sent /\ session[m] = s /\ turn[m] = "answer" /\ base'[m] = base[m]
        BY <1>5
    <2>2. Wizard!IsPrefix(base[m] \o Wizard!Turn(m), h)
        BY <2>1 DEF WizardInTurn
    <2>. QED BY <2>1, <2>2
<1>. HIDE DEF h
<1>6. s = sessionId' => Wizard!IsPrefix(chat', h)
    BY DEF h
<1>7. sessions'[s].messages = h
    BY DEF h
<1>8. WizardOf(h)' = WizardOf(h)
    BY <1>1 DEF WizardOf
<1>9. \A m : Wizard!Turn(m)' = Wizard!Turn(m)
    BY DEF Wizard!Turn
<1>. QED BY <1>2, <1>3, <1>4, <1>5, <1>6, <1>7, <1>8, <1>9 DEF WizardInTurn, WizardOf

\* A new message: its call has read nothing yet.
LEMMA WizardSendStep == WizardInv /\ Wizard!Send => WizardInv'
<1>. SUFFICES ASSUME WizardInv, Wizard!Send PROVE WizardInv'
    OBVIOUS
<1>. DEFINE n == Len(turn) + 1
<1>0. WizardCallsTyped /\ WizardTyped /\ Len(turn) \in Nat /\ Wizard!Sent = 1 .. Len(turn) /\ MaxPrompts \in Nat
    BY WizardSentIs DEF WizardInv
<1>1. /\ Len(turn) < MaxPrompts
      /\ sending' = n
      /\ turn' = Append(turn, IF sessionId = 0 THEN "extract" ELSE "read")
      /\ session' = Append(session, sessionId)
      /\ base' = Append(base, <<>>)
      /\ attempts' = Append(attempts, 0)
      /\ result' = Append(result, "none")
      /\ tokens' = Append(tokens, 0)
      /\ UNCHANGED <<sessions, sessionId, chat, extracted, manual, clashed>>
    BY DEF Wizard!Send
<1>2. sessionId \in Nat /\ sessionId <= Len(sessions)
    BY <1>0, WizardSessionsAre DEF WizardTyped
<1>3. /\ turn' \in Seq(WizardSteps) /\ Len(turn') = n
      /\ turn'[n] = IF sessionId = 0 THEN "extract" ELSE "read"
      /\ \A m \in Wizard!Sent : turn'[m] = turn[m]
    BY <1>0, <1>1, ColumnGrows DEF WizardCallsTyped, WizardSteps
<1>4. /\ session' \in Seq(Nat) /\ Len(session') = n
      /\ session'[n] = sessionId
      /\ \A m \in Wizard!Sent : session'[m] = session[m]
    BY <1>0, <1>1, <1>2, ColumnGrows DEF WizardCallsTyped
<1>5. /\ base' \in Seq(Seq(WizardEntry)) /\ Len(base') = n
      /\ base'[n] = <<>>
      /\ \A m \in Wizard!Sent : base'[m] = base[m]
    <2>1. <<>> \in Seq(WizardEntry)
        OBVIOUS
    <2>2. base \in Seq(Seq(WizardEntry)) /\ Len(base) = Len(turn)
        BY <1>0 DEF WizardCallsTyped
    <2>. QED BY <1>0, <1>1, <2>1, <2>2, ColumnGrows
<1>6. attempts' \in Seq(Nat) /\ Len(attempts') = n
    BY <1>0, <1>1, ColumnGrows DEF WizardCallsTyped
<1>7. result' \in Seq(Wizard!Drafts) /\ Len(result') = n
    BY <1>0, <1>1, ColumnGrows DEF WizardCallsTyped, Wizard!Drafts
<1>8. tokens' \in Seq(Nat) /\ Len(tokens') = n /\ \A m \in Wizard!Sent : tokens'[m] = tokens[m]
    BY <1>0, <1>1, ColumnGrows DEF WizardCallsTyped
<1>9. n <= MaxPrompts /\ Wizard!Sent' = Wizard!Sent \cup {n} /\ n \notin Wizard!Sent
    BY <1>0, <1>1, <1>3 DEF Wizard!Sent
<1>10. WizardCallsTyped'
    BY <1>3, <1>4, <1>5, <1>6, <1>7, <1>8, <1>9 DEF WizardCallsTyped
<1>11. WizardTyped'
    BY <1>0, <1>1, <1>3 DEF WizardTyped
<1>. HIDE DEF n
<1>12. \A h : WizardAlternating(h) => WizardAlternating(h)'
    BY <1>9 DEF WizardAlternating
<1>13. ASSUME NEW m \in Wizard!Sent' PROVE WizardCallOK(m)'
    <2>1. CASE m \in Wizard!Sent
        BY <1>1, <1>3, <1>4, <1>5, <1>12, <2>1 DEF WizardInv, WizardCallOK
    <2>2. CASE m = n
        <3>1. WizardAlternating(<<>>)'
            BY DEF WizardAlternating, WizardOf
        <3>. QED BY <1>1, <1>2, <1>3, <1>4, <1>5, <2>2, <3>1 DEF WizardCallOK
    <2>. QED BY <1>9, <2>1, <2>2
<1>14. ASSUME NEW s \in DOMAIN sessions PROVE WizardSessionOK(s)'
    <2>1. WizardSessionOK(s) /\ s # 0
        BY <1>0, WizardSessionsAre DEF WizardInv
    <2>2. WizardStored(s)' = WizardStored(s)
        BY <1>3, <1>4, <1>9 DEF WizardStored
    <2>3. Wizard!Running(s)' = Wizard!Running(s)
        BY <1>3, <1>4, <1>9, <2>1 DEF Wizard!Running
    <2>4. WizardStored(s) \subseteq Wizard!Sent /\ Wizard!Running(s) \subseteq Wizard!Sent
        BY DEF WizardStored, Wizard!Running
    <2>5. WizardInTurn(s) => WizardInTurn(s)'
        <3>. SUFFICES ASSUME WizardInTurn(s) PROVE WizardInTurn(s)'
            OBVIOUS
        <3>1. \A k \in Wizard!Sent' : session'[k] = s /\ turn'[k] = "answer" =>
                k \in Wizard!Sent /\ session[k] = s /\ turn[k] = "answer" /\ base'[k] = base[k]
            BY <1>3, <1>4, <1>5, <1>9
        <3>2. \A k \in Wizard!Running(s)' : base'[k] = base[k]
            BY <1>5, <2>3, <2>4
        <3>3. s = sessionId' => Wizard!IsPrefix(chat', sessions[s].messages)
            BY <1>1 DEF WizardInTurn
        <3>. QED BY <1>1, <2>2, <2>3, <3>1, <3>2, <3>3, WizardTurnsKept
    <2>. QED BY <1>1, <1>8, <1>12, <2>1, <2>2, <2>4, <2>5 DEF WizardSessionOK
<1>. QED BY <1>1, <1>10, <1>11, <1>13, <1>14 DEF WizardInv

LEMMA WizardShownStep == WizardInv /\ (Wizard!Leave \/ Wizard!GiveUp) => WizardInv'
<1>. SUFFICES ASSUME WizardInv, Wizard!Leave \/ Wizard!GiveUp PROVE WizardInv'
    OBVIOUS
<1>1. /\ UNCHANGED <<sessions, Wizard!calls, sessionId, chat, extracted, clashed>>
      /\ sending' \in {0, sending} /\ manual' \in {TRUE, manual}
    BY DEF Wizard!Leave, Wizard!GiveUp
<1>2. WizardCallsTyped' /\ Wizard!Sent' = Wizard!Sent
    BY <1>1 DEF WizardInv, WizardCallsTyped, Wizard!calls, Wizard!Sent
<1>3. WizardTyped'
    <2>1. turn' = turn /\ Len(turn) \in Nat
        BY <1>1, WizardSentIs DEF WizardInv, Wizard!calls
    <2>2. WizardTyped
        BY DEF WizardInv
    <2>3. sending' \in 0 .. Len(turn')
        BY <1>1, <2>1, <2>2 DEF WizardTyped
    <2>. QED BY <1>1, <2>2, <2>3 DEF WizardTyped
<1>4. \A m : WizardCallOK(m) => WizardCallOK(m)'
    BY <1>1, <1>2 DEF WizardCallOK, WizardAlternating, Wizard!calls
<1>5. ASSUME NEW s \in DOMAIN sessions PROVE WizardSessionOK(s)'
    <2>1. WizardSessionOK(s) /\ WizardStored(s)' = WizardStored(s) /\ Wizard!Running(s)' = Wizard!Running(s)
        BY <1>1, <1>2 DEF WizardInv, WizardStored, Wizard!Running, Wizard!calls
    <2>2. WizardAlternating(sessions[s].messages)'
        BY <1>1, <1>2, <2>1 DEF WizardSessionOK, WizardAlternating, WizardOf
    <2>3. WizardInTurn(s) => WizardInTurn(s)'
        <3>1. WizardInTurn(s) => (s = sessionId' => Wizard!IsPrefix(chat', sessions[s].messages))
            BY <1>1 DEF WizardInTurn
        <3>2. \A k : base'[k] = base[k] /\ turn'[k] = turn[k] /\ session'[k] = session[k]
            BY <1>1 DEF Wizard!calls
        <3>. QED BY <1>1, <1>2, <2>1, <3>1, <3>2, WizardTurnsKept
    <2>. QED BY <1>1, <2>1, <2>2, <2>3 DEF WizardSessionOK, Wizard!calls
<1>. QED BY <1>1, <1>2, <1>3, <1>4, <1>5 DEF WizardInv

-----------------------------------------------------------------------------
(* The calls *)

\* A call that goes on: what does not change with it.
WizardGoes(m, to) ==
    /\ turn' = [turn EXCEPT ![m] = to]
    /\ UNCHANGED <<sessions, session>>

LEMMA WizardGone ==
    ASSUME WizardInv, NEW m \in Wizard!Sent, NEW to \in WizardSteps, WizardGoes(m, to)
    PROVE  /\ turn' \in Seq(WizardSteps) /\ Len(turn') = Len(turn) /\ Wizard!Sent' = Wizard!Sent
           /\ turn'[m] = to /\ \A n \in Wizard!Sent : n # m => turn'[n] = turn[n]
           /\ \A s : Wizard!Running(s)' = {n \in Wizard!Sent : session[n] = s /\
                        IF n = m THEN to \in {"extract", "write"} ELSE turn[n] \in {"extract", "write"}}
           /\ (turn[m] \in {"answer", "done"} <=> to \in {"answer", "done"}) =>
                \A s : WizardStored(s)' = WizardStored(s)
           /\ \A h : WizardAlternating(h)' <=> WizardAlternating(h)
<1>0. WizardCallsTyped /\ Wizard!Sent = 1 .. Len(turn)
    BY WizardSentIs DEF WizardInv
<1>1. /\ turn' \in Seq(WizardSteps) /\ Len(turn') = Len(turn)
      /\ turn'[m] = to /\ \A n \in Wizard!Sent : n # m => turn'[n] = turn[n]
    BY <1>0, ColumnWritten DEF WizardCallsTyped, WizardGoes
<1>2. Wizard!Sent' = Wizard!Sent
    BY <1>0, <1>1 DEF Wizard!Sent
<1>. QED BY <1>1, <1>2 DEF Wizard!Running, WizardStored, WizardAlternating, WizardGoes

\* A call reads the history; one that finds another running overlaps it.
LEMMA WizardReadStep == ASSUME WizardInv, NEW m \in Wizard!Sent, Wizard!Read(m) PROVE WizardInv'
<1>. DEFINE t == session[m]
<1>0. WizardCallsTyped /\ WizardTyped /\ Wizard!Sent = 1 .. Len(turn) /\ WizardCallOK(m)
    BY WizardSentIs DEF WizardInv
<1>1. /\ turn[m] = "read" /\ WizardGoes(m, "extract")
      /\ base' = [base EXCEPT ![m] = sessions[t].messages]
      /\ clashed' = IF Wizard!Running(t) = {} THEN clashed ELSE clashed \cup {t}
      /\ UNCHANGED <<attempts, result, tokens, Wizard!wizard>>
    BY DEF Wizard!Read, Wizard!Go, WizardGoes
<1>2. t \in DOMAIN sessions
    <2>1. t \in Nat
        BY <1>0 DEF WizardCallsTyped
    <2>. QED BY <1>0, <1>1, <2>1, WizardSessionsAre DEF WizardCallOK
<1>3. sessions[t].messages \in Seq(WizardEntry) /\ WizardAlternating(sessions[t].messages)
    BY <1>0, <1>2, WizardSessionsAre DEF WizardInv, WizardSessionOK, WizardRow
<1>4. /\ base' \in Seq(Seq(WizardEntry)) /\ Len(base') = Len(turn)
      /\ base'[m] = sessions[t].messages /\ \A n \in Wizard!Sent : n # m => base'[n] = base[n]
    BY <1>0, <1>1, <1>3, ColumnWritten DEF WizardCallsTyped
<1>5. /\ turn' \in Seq(WizardSteps) /\ Len(turn') = Len(turn) /\ Wizard!Sent' = Wizard!Sent
      /\ turn'[m] = "extract" /\ (\A n \in Wizard!Sent : n # m => turn'[n] = turn[n])
      /\ \A s : Wizard!Running(s)' = Wizard!Running(s) \cup (IF s = t THEN {m} ELSE {})
      /\ \A s : WizardStored(s)' = WizardStored(s)
      /\ \A h : WizardAlternating(h)' <=> WizardAlternating(h)
    <2>1. "extract" \in WizardSteps
        BY DEF WizardSteps
    <2>2. \A s : Wizard!Running(s)' = {n \in Wizard!Sent : session[n] = s /\
                    IF n = m THEN "extract" \in {"extract", "write"} ELSE turn[n] \in {"extract", "write"}}
        BY <1>1, <2>1, WizardGone
    <2>3. \A s : Wizard!Running(s)' = Wizard!Running(s) \cup (IF s = t THEN {m} ELSE {})
        BY <1>1, <2>2 DEF Wizard!Running
    <2>. QED BY <1>1, <2>1, <2>3, WizardGone
<1>6. WizardCallsTyped' /\ WizardTyped'
    BY <1>0, <1>1, <1>2, <1>4, <1>5 DEF WizardCallsTyped, WizardTyped, WizardGoes, Wizard!wizard
<1>7. ASSUME NEW n \in Wizard!Sent PROVE WizardCallOK(n)'
    <2>1. WizardCallOK(n)
        BY DEF WizardInv
    <2>2. t # 0
        BY <1>0, <1>1 DEF WizardCallOK
    <2>. QED BY <1>1, <1>3, <1>4, <1>5, <2>1, <2>2 DEF WizardCallOK, WizardGoes
<1>8. ASSUME NEW s \in DOMAIN sessions PROVE WizardSessionOK(s)'
    <2>1. WizardSessionOK(s)
        BY DEF WizardInv
    <2>2. s \notin clashed' => WizardInTurn(s)'
        <3>. SUFFICES ASSUME s \notin clashed' PROVE WizardInTurn(s)'
            OBVIOUS
        <3>1. s \notin clashed /\ (s = t => Wizard!Running(t) = {}) /\ WizardInTurn(s)
            BY <1>1, <2>1 DEF WizardSessionOK
        <3>2. \A n \in Wizard!Sent : session'[n] = s /\ turn'[n] = "answer" => n # m /\ turn[n] = "answer"
            BY <1>5
        <3>3. Wizard!Running(s) \subseteq Wizard!Sent /\ m \notin Wizard!Running(s)
            BY <1>1 DEF Wizard!Running
        <3>4. /\ session' = session /\ sessions' = sessions
              /\ sessionId' = sessionId /\ chat' = chat
            BY <1>1 DEF WizardGoes, Wizard!wizard
        <3>5. CASE s # t
            <4>1. Wizard!Running(s)' = Wizard!Running(s) /\ \A k \in Wizard!Running(s)' : base'[k] = base[k]
                BY <1>4, <1>5, <3>3, <3>5
            <4>2. \A k \in Wizard!Sent' : session'[k] = s /\ turn'[k] = "answer" =>
                    k \in Wizard!Sent /\ session[k] = s /\ turn[k] = "answer" /\ base'[k] = base[k]
                BY <1>4, <1>5, <3>2, <3>4
            <4>3. s = sessionId' => Wizard!IsPrefix(chat', sessions[s].messages)
                BY <3>1, <3>4 DEF WizardInTurn
            <4>. QED BY <1>5, <3>1, <3>4, <4>1, <4>2, <4>3, WizardTurnsKept
        <3>6. CASE s = t
            <4>1. Wizard!Running(s)' = {m}
                BY <1>5, <3>1, <3>6
            <4>2. base'[m] = sessions'[s].messages
                BY <1>4, <3>4, <3>6
            <4>3. ASSUME NEW k \in Wizard!Sent', session'[k] = s, turn'[k] = "answer"
                  PROVE  Wizard!IsPrefix(base'[k] \o Wizard!Turn(k), sessions'[s].messages)
                <5>1. k \in Wizard!Sent /\ session[k] = s /\ turn[k] = "answer" /\ base'[k] = base[k]
                    BY <1>4, <1>5, <3>2, <3>4, <4>3
                <5>2. Wizard!IsPrefix(base[k] \o Wizard!Turn(k), sessions[s].messages)
                    BY <3>1, <5>1 DEF WizardInTurn
                <5>. QED BY <3>4, <5>1, <5>2
            <4>4. s = sessionId' => Wizard!IsPrefix(chat', sessions'[s].messages)
                BY <3>1, <3>4 DEF WizardInTurn
            <4>5. WizardStored(s)' = WizardOf(sessions'[s].messages)
                BY <1>5, <3>1, <3>4 DEF WizardInTurn, WizardOf
            <4>6. \A k : Wizard!Turn(k)' = Wizard!Turn(k)
                BY DEF Wizard!Turn
            <4>. QED BY <4>1, <4>2, <4>3, <4>4, <4>5, <4>6 DEF WizardInTurn, WizardOf
        <3>. QED BY <3>5, <3>6
    <2>. QED BY <1>1, <1>5, <2>1, <2>2 DEF WizardSessionOK, WizardGoes
<1>. QED BY <1>1, <1>5, <1>6, <1>7, <1>8 DEF WizardInv, WizardGoes

\* A call that goes on, or is lost, before its turn is stored.
LEMMA WizardUnstoredStep ==
    ASSUME WizardInv, NEW m \in Wizard!Sent, Wizard!ExtractOk(m) \/ Wizard!ExtractFails(m) \/ Wizard!Crash(m)
    PROVE  WizardInv'
<1>0. WizardCallsTyped /\ WizardTyped /\ Wizard!Sent = 1 .. Len(turn) /\ Len(turn) \in Nat /\ WizardCallOK(m)
    BY WizardSentIs DEF WizardInv
<1>1. PICK to \in {"extract", "write", "lost"} : WizardGoes(m, to) /\ (to = "lost" \/ turn[m] = "extract")
    BY DEF Wizard!ExtractOk, Wizard!ExtractFails, Wizard!Crash, Wizard!Go, WizardGoes
<1>2. /\ turn[m] \in {"read", "extract", "write"}
      /\ UNCHANGED <<sessions, session, base, sessionId, chat, extracted, manual, clashed>>
      /\ sending' \in {0, sending}
    BY DEF Wizard!ExtractOk, Wizard!ExtractFails, Wizard!Crash, Wizard!Go, Wizard!wizard
<1>3. to \in WizardSteps
    BY <1>1 DEF WizardSteps
<1>4. /\ turn' \in Seq(WizardSteps) /\ Len(turn') = Len(turn) /\ Wizard!Sent' = Wizard!Sent
      /\ turn'[m] = to /\ (\A n \in Wizard!Sent : n # m => turn'[n] = turn[n])
      /\ \A h : WizardAlternating(h)' <=> WizardAlternating(h)
    BY <1>1, <1>3, WizardGone
<1>5. \A s : WizardStored(s)' = WizardStored(s)
    <2>1. turn[m] \notin {"answer", "done"} /\ to \notin {"answer", "done"}
        BY <1>1, <1>2
    <2>. QED BY <1>1, <1>3, <2>1, WizardGone
<1>6. \A s : Wizard!Running(s)' \subseteq Wizard!Running(s)
    BY <1>1, <1>2, <1>4 DEF Wizard!Running
<1>7. /\ attempts' \in Seq(Nat) /\ Len(attempts') = Len(turn)
    <2>1. attempts' = attempts \/ attempts' = [attempts EXCEPT ![m] = attempts[m] + 1]
        BY DEF Wizard!ExtractOk, Wizard!ExtractFails, Wizard!Crash
    <2>2. attempts \in Seq(Nat) /\ Len(attempts) = Len(turn) /\ m \in 1 .. Len(attempts)
        BY <1>0 DEF WizardCallsTyped
    <2>3. attempts[m] + 1 \in Nat
        BY <2>2
    <2>. QED BY <2>1, <2>2, <2>3, ColumnWritten
<1>8. /\ result' \in Seq(Wizard!Drafts) /\ Len(result') = Len(turn)
    <2>1. result' = result \/ \E d \in Wizard!Drafts : result' = [result EXCEPT ![m] = d]
        BY DEF Wizard!ExtractOk, Wizard!ExtractFails, Wizard!Crash
    <2>2. result \in Seq(Wizard!Drafts) /\ Len(result) = Len(turn) /\ m \in 1 .. Len(result)
        BY <1>0 DEF WizardCallsTyped
    <2>. QED BY <2>1, <2>2, ColumnWritten
<1>9. /\ tokens' \in Seq(Nat) /\ Len(tokens') = Len(turn)
      /\ \A n \in Wizard!Sent : n # m => tokens'[n] = tokens[n]
    <2>1. tokens' = tokens \/ tokens' = [tokens EXCEPT ![m] = tokens[m] + 1]
        BY DEF Wizard!ExtractOk, Wizard!ExtractFails, Wizard!Crash
    <2>2. tokens \in Seq(Nat) /\ Len(tokens) = Len(turn) /\ m \in 1 .. Len(tokens)
        BY <1>0 DEF WizardCallsTyped
    <2>3. tokens[m] + 1 \in Nat
        BY <2>2
    <2>4. tokens' \in Seq(Nat) /\ Len(tokens') = Len(tokens)
        BY <2>1, <2>2, <2>3, ColumnWritten
    <2>5. \A n \in 1 .. Len(tokens) : n # m => tokens'[n] = tokens[n]
        BY <2>1, <2>2, <2>3, ColumnWritten
    <2>. QED BY <1>0, <2>2, <2>4, <2>5
<1>10. WizardCallsTyped' /\ WizardTyped'
    <2>1. WizardCallsTyped'
        BY <1>0, <1>2, <1>4, <1>7, <1>8, <1>9 DEF WizardCallsTyped
    <2>2. WizardTyped'
        BY <1>0, <1>2, <1>4 DEF WizardTyped
    <2>. QED BY <2>1, <2>2
<1>11. ASSUME NEW n \in Wizard!Sent PROVE WizardCallOK(n)'
    BY <1>1, <1>2, <1>4 DEF WizardInv, WizardCallOK
<1>12. ASSUME NEW s \in DOMAIN sessions PROVE WizardSessionOK(s)'
    <2>1. WizardSessionOK(s)
        BY DEF WizardInv
    <2>2. m \notin WizardStored(s) /\ WizardStored(s) \subseteq Wizard!Sent
        BY <1>2 DEF WizardStored
    <2>3. WizardInTurn(s) => WizardInTurn(s)'
        <3>1. \A k \in Wizard!Sent' : turn'[k] = "answer" => k \in Wizard!Sent /\ turn[k] = "answer"
            BY <1>1, <1>4
        <3>2. WizardInTurn(s) => (s = sessionId' => Wizard!IsPrefix(chat', sessions[s].messages))
            BY <1>2 DEF WizardInTurn
        <3>. QED BY <1>2, <1>5, <1>6, <3>1, <3>2, WizardTurnsKept
    <2>. QED BY <1>2, <1>4, <1>5, <1>9, <2>1, <2>2, <2>3 DEF WizardSessionOK
<1>. QED BY <1>2, <1>4, <1>10, <1>11, <1>12 DEF WizardInv

\* The wizard shows the history its call has stored.
LEMMA WizardAnswerStep == ASSUME WizardInv, NEW m \in Wizard!Sent, Wizard!Answer(m) PROVE WizardInv'
<1>0. WizardCallsTyped /\ WizardTyped /\ Wizard!Sent = 1 .. Len(turn) /\ Len(turn) \in Nat /\ WizardCallOK(m)
    BY WizardSentIs DEF WizardInv
<1>1. /\ turn[m] = "answer" /\ WizardGoes(m, "done")
      /\ UNCHANGED <<sessions, session, base, attempts, result, tokens, clashed>>
    BY DEF Wizard!Answer, Wizard!Go, WizardGoes
<1>2. /\ turn' \in Seq(WizardSteps) /\ Len(turn') = Len(turn) /\ Wizard!Sent' = Wizard!Sent
      /\ turn'[m] = "done" /\ (\A n \in Wizard!Sent : n # m => turn'[n] = turn[n])
      /\ (\A s : WizardStored(s)' = WizardStored(s))
      /\ \A h : WizardAlternating(h)' <=> WizardAlternating(h)
    <2>1. "done" \in WizardSteps
        BY DEF WizardSteps
    <2>. QED BY <1>1, <2>1, WizardGone
<1>3. \A s : Wizard!Running(s)' \subseteq Wizard!Running(s)
    BY <1>1, <1>2 DEF Wizard!Running
<1>4. /\ \/ sessionId' = sessionId /\ chat' = chat /\ extracted' = extracted
         \/ /\ sessionId' = session[m] /\ chat' = base[m] \o Wizard!Turn(m) /\ extracted' = result[m]
      /\ sending' \in {0, sending} /\ manual' \in BOOLEAN
    BY <1>0 DEF Wizard!Answer, Wizard!wizard, WizardTyped
<1>5. /\ session[m] \in 0 .. Len(sessions) /\ base[m] \o Wizard!Turn(m) \in Seq(WizardEntry) /\ result[m] \in Wizard!Drafts
    <2>1. session[m] \in Nat /\ result[m] \in Wizard!Drafts
        BY <1>0 DEF WizardCallsTyped
    <2>2. base[m] \o Wizard!Turn(m) \in Seq(WizardEntry)
        <3>1. m \in Nat
            BY <1>0
        <3>. QED BY <1>0, <3>1, WizardTurnAdded DEF WizardCallOK
    <2>. QED BY <1>0, <2>1, <2>2, WizardSessionsAre DEF WizardCallOK
<1>6. WizardCallsTyped' /\ WizardTyped'
    <2>1. WizardCallsTyped'
        BY <1>0, <1>1, <1>2 DEF WizardCallsTyped
    <2>2. WizardTyped'
        <3>1. /\ sessions \in Seq(WizardRow) /\ sessionId \in 0 .. Len(sessions) /\ chat \in Seq(WizardEntry)
              /\ extracted \in Wizard!Drafts /\ sending \in 0 .. Len(turn) /\ clashed \subseteq DOMAIN sessions
            BY <1>0 DEF WizardTyped
        <3>2. sessions' = sessions /\ clashed' = clashed
            BY <1>1 DEF WizardGoes
        <3>3. sessionId' \in 0 .. Len(sessions) /\ chat' \in Seq(WizardEntry) /\ extracted' \in Wizard!Drafts
            BY <1>4, <1>5, <3>1
        <3>4. sending' \in 0 .. Len(turn)
            BY <1>0, <1>4, <3>1
        <3>. QED BY <1>2, <1>4, <3>1, <3>2, <3>3, <3>4 DEF WizardTyped
    <2>. QED BY <2>1, <2>2
<1>7. ASSUME NEW n \in Wizard!Sent PROVE WizardCallOK(n)'
    BY <1>1, <1>2 DEF WizardInv, WizardCallOK
<1>8. ASSUME NEW s \in DOMAIN sessions PROVE WizardSessionOK(s)'
    <2>1. WizardSessionOK(s)
        BY DEF WizardInv
    <2>2. WizardInTurn(s) => WizardInTurn(s)'
        <3>. SUFFICES ASSUME WizardInTurn(s) PROVE WizardInTurn(s)'
            OBVIOUS
        <3>1. \A k \in Wizard!Sent' : turn'[k] = "answer" => k \in Wizard!Sent /\ turn[k] = "answer"
            BY <1>1, <1>2
        <3>2. s = sessionId' => Wizard!IsPrefix(chat', sessions[s].messages)
            BY <1>1, <1>4 DEF WizardInTurn
        <3>. QED BY <1>1, <1>2, <1>3, <3>1, <3>2, WizardTurnsKept
    <2>. QED BY <1>1, <1>2, <2>1, <2>2 DEF WizardSessionOK
<1>. QED BY <1>1, <1>2, <1>6, <1>7, <1>8 DEF WizardInv

\* The turn of a call, stored with the history it has read.
LEMMA WizardWriteStep == ASSUME WizardInv, NEW m \in Wizard!Sent, Wizard!Write(m) PROVE WizardInv'
<1>. DEFINE t == session[m]
            h == base[m] \o Wizard!Turn(m)
<1>a. PICK S : S = IF t = 0 THEN Len(sessions) + 1 ELSE t
    OBVIOUS
<1>0. WizardCallsTyped /\ WizardTyped /\ Wizard!Sent = 1 .. Len(turn) /\ Len(turn) \in Nat /\ WizardCallOK(m)
    BY WizardSentIs DEF WizardInv
<1>1. m \in Nat /\ t \in Nat /\ t <= Len(sessions) /\ Len(sessions) \in Nat
    BY <1>0, WizardSessionsAre DEF WizardCallsTyped, WizardCallOK
<1>2. /\ turn[m] = "write" /\ turn' = [turn EXCEPT ![m] = "answer"]
      /\ UNCHANGED <<base, attempts, result, tokens, Wizard!wizard, clashed>>
      /\ t = 0 => /\ sessions' = Append(sessions, [messages |-> h, draft |-> result[m], tokensUsed |-> Wizard!Spent(m)])
                  /\ session' = [session EXCEPT ![m] = Len(sessions) + 1]
      /\ t # 0 => /\ sessions' = [sessions EXCEPT ![t].messages = h,
                                    ![t].draft = result[m],
                                    ![t].tokensUsed = [n \in 1 .. MaxPrompts |-> @[n] + Wizard!Spent(m)[n]]]
                  /\ session' = session
    BY DEF Wizard!Write, Wizard!Go
<1>3. h \in Seq(WizardEntry) /\ WizardOf(h) = WizardOf(base[m]) \cup {m} /\ WizardAlternating(h)
    BY <1>0, <1>1, WizardTurnAdded DEF WizardCallOK
<1>4. /\ turn' \in Seq(WizardSteps) /\ Len(turn') = Len(turn) /\ Wizard!Sent' = Wizard!Sent
      /\ turn'[m] = "answer" /\ \A n \in Wizard!Sent : n # m => turn'[n] = turn[n]
    <2>1. /\ turn' \in Seq(WizardSteps) /\ Len(turn') = Len(turn)
          /\ turn'[m] = "answer" /\ \A n \in 1 .. Len(turn) : n # m => turn'[n] = turn[n]
        <3>1. turn \in Seq(WizardSteps) /\ m \in 1 .. Len(turn) /\ "answer" \in WizardSteps
            BY <1>0 DEF WizardCallsTyped, WizardSteps
        <3>. QED BY <1>2, <3>1, ColumnWritten
    <2>. QED BY <1>0, <2>1 DEF Wizard!Sent
<1>5. /\ session' \in Seq(Nat) /\ Len(session') = Len(turn)
      /\ session'[m] = S /\ \A n \in Wizard!Sent : n # m => session'[n] = session[n]
    <2>1. session \in Seq(Nat) /\ Len(session) = Len(turn) /\ m \in 1 .. Len(session) /\ S \in Nat
        BY <1>0, <1>1, <1>a DEF WizardCallsTyped
    <2>2. CASE t = 0
        <3>1. session' = [session EXCEPT ![m] = S]
            BY <1>2, <1>a, <2>2
        <3>2. /\ session' \in Seq(Nat) /\ Len(session') = Len(session)
              /\ session'[m] = S /\ \A n \in 1 .. Len(session) : n # m => session'[n] = session[n]
            BY <2>1, <3>1, ColumnWritten
        <3>. QED BY <1>0, <2>1, <3>2
    <2>3. CASE t # 0
        BY <1>0, <1>2, <1>a, <2>1, <2>3
    <2>. QED BY <2>2, <2>3
<1>6. /\ Wizard!Spent(m) \in [1 .. MaxPrompts -> Nat]
      /\ \A n \in 1 .. MaxPrompts : Wizard!Spent(m)[n] = IF n = m THEN tokens[m] ELSE 0
      /\ result[m] \in Wizard!Drafts /\ tokens[m] \in Nat
    <2>1. result[m] \in Wizard!Drafts /\ tokens[m] \in Nat
        BY <1>0 DEF WizardCallsTyped
    <2>. QED BY <2>1 DEF Wizard!Spent
<1>. DEFINE old == IF t = 0 THEN [n \in 1 .. MaxPrompts |-> 0] ELSE sessions[t].tokensUsed
            new == [messages |-> h, draft |-> result[m],
                    tokensUsed |-> [n \in 1 .. MaxPrompts |-> old[n] + Wizard!Spent(m)[n]]]
<1>7. old \in [1 .. MaxPrompts -> Nat]
    BY <1>0, <1>1, WizardSessionsAre DEF WizardRow
<1>. HIDE DEF old
<1>8. new \in WizardRow
    BY <1>3, <1>6, <1>7 DEF WizardRow
<1>. HIDE DEF h
<1>9. /\ sessions' \in Seq(WizardRow)
      /\ Len(sessions') = IF t = 0 THEN Len(sessions) + 1 ELSE Len(sessions)
      /\ sessions'[S] = new
      /\ \A s \in 1 .. Len(sessions) : s # S => sessions'[s] = sessions[s]
    <2>0. sessions \in Seq(WizardRow)
        BY <1>0 DEF WizardTyped
    <2>1. CASE t = 0
        <3>1. [n \in 1 .. MaxPrompts |-> old[n] + Wizard!Spent(m)[n]] = Wizard!Spent(m)
            BY <1>6, <2>1 DEF old
        <3>2. sessions' = Append(sessions, new)
            BY <1>2, <2>1, <3>1
        <3>. HIDE DEF new
        <3>. QED BY <1>8, <1>a, <2>0, <2>1, <3>2, ColumnGrows
    <2>2. CASE t # 0
        <3>1. t \in 1 .. Len(sessions) /\ sessions[t] \in WizardRow
            BY <1>1, <2>0, <2>2
        <3>2. [sessions[t] EXCEPT !.messages = h, !.draft = result[m],
                   !.tokensUsed = [n \in 1 .. MaxPrompts |-> @[n] + Wizard!Spent(m)[n]]] = new
            <4>. DEFINE r == sessions[t]
            <4>1. r = [messages |-> r.messages, draft |-> r.draft, tokensUsed |-> r.tokensUsed]
                BY <3>1 DEF WizardRow
            <4>2. old = r.tokensUsed
                BY <2>2 DEF old
            <4>. HIDE DEF r
            <4>3. [r EXCEPT !.messages = h, !.draft = result[m],
                            !.tokensUsed = [n \in 1 .. MaxPrompts |-> @[n] + Wizard!Spent(m)[n]]]
                    = [messages |-> h, draft |-> result[m],
                       tokensUsed |-> [n \in 1 .. MaxPrompts |-> r.tokensUsed[n] + Wizard!Spent(m)[n]]]
                <5>1. PICK a, b, c : r = [messages |-> a, draft |-> b, tokensUsed |-> c]
                    BY <4>1
                <5>. DEFINE k == [n \in 1 .. MaxPrompts |-> c[n] + Wizard!Spent(m)[n]]
                <5>2. [r EXCEPT !.messages = h, !.draft = result[m],
                                !.tokensUsed = [n \in 1 .. MaxPrompts |-> @[n] + Wizard!Spent(m)[n]]]
                        = [r EXCEPT !.messages = h, !.draft = result[m], !.tokensUsed = k]
                    BY <5>1
                <5>. HIDE DEF k
                <5>3. [r EXCEPT !.messages = h, !.draft = result[m], !.tokensUsed = k]
                        = [messages |-> h, draft |-> result[m], tokensUsed |-> k]
                    <6>1. PICK q : q = [r EXCEPT !.messages = h]
                        OBVIOUS
                    <6>2. PICK p : p = [q EXCEPT !.draft = result[m]]
                        OBVIOUS
                    <6>3. q = [messages |-> h, draft |-> b, tokensUsed |-> c]
                        BY <5>1, <6>1
                    <6>4. p = [messages |-> h, draft |-> result[m], tokensUsed |-> c]
                        BY <6>2, <6>3
                    <6>5. [p EXCEPT !.tokensUsed = k]
                            = [messages |-> h, draft |-> result[m], tokensUsed |-> k]
                        BY <6>4
                    <6>6. [r EXCEPT !.messages = h, !.draft = result[m], !.tokensUsed = k]
                            = [p EXCEPT !.tokensUsed = k]
                        BY <6>1, <6>2
                    <6>. QED BY <6>5, <6>6
                <5>4. r.tokensUsed = c
                    BY <5>1
                <5>. QED BY <5>2, <5>3, <5>4 DEF k
            <4>. QED BY <4>2, <4>3 DEF r
        <3>3. sessions' = [sessions EXCEPT ![t] = new]
            BY <1>2, <2>0, <2>2, <3>1, <3>2
        <3>. HIDE DEF new
        <3>. QED BY <1>8, <1>a, <2>0, <2>2, <3>1, <3>3, ColumnWritten
    <2>. QED BY <2>1, <2>2
<1>10. /\ S \in 1 .. Len(sessions') /\ Len(sessions) <= Len(sessions') /\ Len(sessions') \in Nat
       /\ DOMAIN sessions = 1 .. Len(sessions) /\ DOMAIN sessions' = 1 .. Len(sessions')
       /\ \A s \in 1 .. Len(sessions') : s = S \/ (s # S /\ s \in 1 .. Len(sessions))
    <2>1. /\ S \in 1 .. Len(sessions') /\ Len(sessions) <= Len(sessions') /\ Len(sessions') \in Nat
          /\ \A s \in 1 .. Len(sessions') : s = S \/ (s # S /\ s \in 1 .. Len(sessions))
        BY <1>1, <1>9, <1>a
    <2>. QED BY <1>0, <1>9, <2>1, WizardSessionsAre
<1>11. /\ sessions'[S].messages = h /\ sessions'[S].draft = result[m]
       /\ \A n \in 1 .. MaxPrompts : sessions'[S].tokensUsed[n] = old[n] + Wizard!Spent(m)[n]
    BY <1>9
<1>. HIDE DEF new
<1>12. S # 0 /\ (t # 0 => S = t) /\ (t = 0 => S = Len(sessions) + 1)
    BY <1>1, <1>a
<1>13. \A g : WizardAlternating(g)' <=> WizardAlternating(g)
    BY <1>4 DEF WizardAlternating
<1>14. WizardStored(S)' = {n \in WizardStored(t) : t # 0} \cup {m} /\ m \notin WizardStored(t)
    <2>1. m \notin WizardStored(t)
        BY <1>2 DEF WizardStored
    <2>2. m \in WizardStored(S)'
        BY <1>4, <1>5 DEF WizardStored
    <2>3. ASSUME NEW n \in Wizard!Sent, n # m
          PROVE  n \in WizardStored(S)' <=> t # 0 /\ n \in WizardStored(t)
        <3>1. session'[n] = session[n] /\ turn'[n] = turn[n]
            BY <1>4, <1>5, <2>3
        <3>2. session[n] <= Len(sessions) /\ session[n] \in Nat
            <4>1. session[n] <= Len(sessions)
                BY <2>3 DEF WizardInv, WizardCallOK
            <4>2. session \in Seq(Nat) /\ n \in 1 .. Len(session)
                BY <1>0, <2>3 DEF WizardCallsTyped
            <4>. QED BY <4>1, <4>2, Elements
        <3>3. CASE t = 0
            BY <1>1, <1>12, <3>1, <3>2, <3>3 DEF WizardStored
        <3>4. CASE t # 0
            BY <1>4, <1>12, <2>3, <3>1, <3>4 DEF WizardStored
        <3>. QED BY <3>3, <3>4
    <2>4. WizardStored(S)' \subseteq Wizard!Sent /\ WizardStored(t) \subseteq Wizard!Sent
        BY <1>4 DEF WizardStored
    <2>. QED BY <2>1, <2>2, <2>3, <2>4
<1>15. \A s \in 1 .. Len(sessions) : s # S => WizardStored(s)' = WizardStored(s) /\ Wizard!Running(s)' = Wizard!Running(s)
    <2>1. SUFFICES ASSUME NEW s \in 1 .. Len(sessions), s # S
                   PROVE  WizardStored(s)' = WizardStored(s) /\ Wizard!Running(s)' = Wizard!Running(s)
        OBVIOUS
    <2>2. t # s /\ session'[m] # s /\ m \notin WizardStored(s) /\ m \notin Wizard!Running(s)
        BY <1>1, <1>5, <1>12, <2>1 DEF WizardStored, Wizard!Running
    <2>3. \A n \in Wizard!Sent : n \in WizardStored(s)' <=> n \in WizardStored(s)
        BY <1>4, <1>5, <2>2 DEF WizardStored
    <2>4. \A n \in Wizard!Sent : n \in Wizard!Running(s)' <=> n \in Wizard!Running(s)
        BY <1>4, <1>5, <2>2 DEF Wizard!Running
    <2>5. /\ WizardStored(s)' \subseteq Wizard!Sent /\ WizardStored(s) \subseteq Wizard!Sent
          /\ Wizard!Running(s)' \subseteq Wizard!Sent /\ Wizard!Running(s) \subseteq Wizard!Sent
        BY <1>4 DEF WizardStored, Wizard!Running
    <2>. QED BY <2>3, <2>4, <2>5
<1>16. WizardCallsTyped'
    BY <1>0, <1>2, <1>4, <1>5 DEF WizardCallsTyped
<1>17. WizardTyped'
    <2>0. sessionId' = sessionId /\ clashed' = clashed
        BY <1>2 DEF Wizard!wizard
    <2>1. sessionId' \in 0 .. Len(sessions') /\ clashed' \subseteq DOMAIN sessions'
        BY <1>0, <1>1, <1>10, <2>0 DEF WizardTyped
    <2>. QED BY <1>0, <1>2, <1>4, <1>9, <2>1 DEF WizardTyped, Wizard!wizard
<1>18. ASSUME NEW n \in Wizard!Sent PROVE WizardCallOK(n)'
    <2>0. WizardCallOK(n) /\ WizardAlternating(base[n]) /\ base' = base
        BY <1>2 DEF WizardInv, WizardCallOK
    <2>1. WizardCallOK(n) /\ session[n] \in Nat /\ WizardAlternating(base[n])' /\ base' = base
        <3>1. session \in Seq(Nat) /\ n \in 1 .. Len(session)
            BY <1>0 DEF WizardCallsTyped
        <3>2. session[n] \in Nat
            BY <3>1, Elements
        <3>. QED BY <1>13, <2>0, <3>2
    <2>2. CASE n = m
        BY <1>5, <1>10, <1>12, <2>1, <2>2 DEF WizardCallOK
    <2>3. CASE n # m
        <3>1. session'[n] = session[n] /\ turn'[n] = turn[n]
            BY <1>4, <1>5, <2>3
        <3>2. session'[n] <= Len(sessions')
            BY <1>1, <1>10, <2>1, <3>1 DEF WizardCallOK
        <3>. QED BY <2>1, <3>1, <3>2 DEF WizardCallOK
    <2>. QED BY <2>2, <2>3
<1>19. ASSUME NEW s \in 1 .. Len(sessions), s # S PROVE WizardSessionOK(s)'
    <2>1. WizardSessionOK(s) /\ WizardStored(s)' = WizardStored(s) /\ Wizard!Running(s)' = Wizard!Running(s)
        BY <1>10, <1>15, <1>19 DEF WizardInv
    <2>2. sessions'[s] = sessions[s] /\ WizardAlternating(sessions[s].messages)'
        BY <1>9, <1>13, <1>19, <2>1 DEF WizardSessionOK
    <2>3. ASSUME WizardInTurn(s) PROVE WizardInTurn(s)'
        <3>1. \A k \in Wizard!Sent : session'[k] = s /\ turn'[k] = "answer" => session[k] = s /\ turn[k] = "answer"
            BY <1>4, <1>5, <1>19
        <3>2. ASSUME NEW k \in Wizard!Sent', session'[k] = s, turn'[k] = "answer"
              PROVE  Wizard!IsPrefix(base'[k] \o Wizard!Turn(k), sessions'[s].messages)
            <4>1. Wizard!IsPrefix(base[k] \o Wizard!Turn(k), sessions[s].messages)
                BY <1>4, <2>3, <3>1, <3>2 DEF WizardInTurn
            <4>. QED BY <1>2, <2>2, <4>1
        <3>3. /\ WizardStored(s)' = WizardOf(sessions'[s].messages)
              /\ \A k, n \in Wizard!Running(s)' : k = n
              /\ \A k \in Wizard!Running(s)' : base'[k] = sessions'[s].messages
              /\ s = sessionId' => Wizard!IsPrefix(chat', sessions'[s].messages)
            BY <1>2, <2>1, <2>2, <2>3 DEF WizardInTurn, Wizard!wizard
        <3>4. \A k : Wizard!Turn(k)' = Wizard!Turn(k)
            BY DEF Wizard!Turn
        <3>. QED BY <3>2, <3>3, <3>4 DEF WizardInTurn, WizardOf
    <2>. QED BY <1>2, <2>1, <2>2, <2>3 DEF WizardSessionOK
<1>20. WizardSessionOK(S)'
    <2>1. WizardAlternating(sessions[S].messages)'
        BY <1>3, <1>11, <1>13
    <2>2. \A n \in 1 .. MaxPrompts : old[n] = IF t # 0 /\ n \in WizardStored(t) THEN tokens[n] ELSE 0
        <3>1. CASE t = 0
            BY <3>1 DEF old
        <3>2. CASE t # 0
            <4>1. WizardSessionOK(t)
                BY <1>1, <1>10, <3>2 DEF WizardInv
            <4>. QED BY <3>2, <4>1 DEF old, WizardSessionOK
        <3>. QED BY <3>1, <3>2
    <2>3. ASSUME NEW n \in 1 .. MaxPrompts
          PROVE  sessions'[S].tokensUsed[n] = IF n \in WizardStored(S)' THEN tokens'[n] ELSE 0
        <3>1. sessions'[S].tokensUsed[n] = old[n] + (IF n = m THEN tokens[m] ELSE 0) /\ old[n] \in Nat
            BY <1>6, <1>7, <1>11
        <3>2. tokens' = tokens /\ (n \in WizardStored(S)' <=> n = m \/ (t # 0 /\ n \in WizardStored(t)))
            BY <1>2, <1>14
        <3>3. CASE n = m
            BY <1>6, <1>14, <2>2, <3>1, <3>2, <3>3
        <3>4. CASE n # m
            BY <2>2, <3>1, <3>2, <3>4
        <3>. QED BY <3>3, <3>4
    <2>4. ASSUME S \notin clashed' PROVE WizardInTurn(S)'
        <3>1. t # 0 => WizardInTurn(t)
            BY <1>1, <1>2, <1>10, <1>12, <2>4 DEF WizardInv, WizardSessionOK
        <3>2. t # 0 => m \in Wizard!Running(t)
            BY <1>2 DEF Wizard!Running
        <3>3. t # 0 => Wizard!Running(t) = {m} /\ base[m] = sessions[t].messages
            BY <3>1, <3>2 DEF WizardInTurn
        <3>4. t = 0 => base[m] = <<>>
            BY <1>0 DEF WizardCallOK
        <3>5. \A n \in Wizard!Sent : session'[n] = S => n = m \/ (t # 0 /\ n # m /\ session[n] = t)
            <4>1. SUFFICES ASSUME NEW n \in Wizard!Sent, session'[n] = S, n # m
                           PROVE  t # 0 /\ session[n] = t
                OBVIOUS
            <4>2. session[n] = S
                BY <1>5, <4>1
            <4>3. session[n] <= Len(sessions)
                BY <4>1 DEF WizardInv, WizardCallOK
            <4>. QED BY <1>1, <1>12, <4>2, <4>3
        <3>6. Wizard!Running(S)' = {}
            <4>1. SUFFICES ASSUME NEW n \in Wizard!Sent, session'[n] = S, turn'[n] \in {"extract", "write"}
                           PROVE  FALSE
                BY <1>4 DEF Wizard!Running
            <4>2. n # m /\ t # 0 /\ session[n] = t /\ turn[n] \in {"extract", "write"}
                BY <1>4, <3>5, <4>1
            <4>3. n \in Wizard!Running(t)
                BY <4>1, <4>2 DEF Wizard!Running
            <4>. QED BY <3>3, <4>2, <4>3
        <3>7. WizardStored(S)' = WizardOf(h)
            <4>1. t = 0 => WizardOf(base[m]) = {}
                BY <3>4 DEF WizardOf
            <4>2. t # 0 => WizardOf(base[m]) = WizardStored(t)
                BY <3>1, <3>3 DEF WizardInTurn
            <4>. QED BY <1>3, <1>14, <4>1, <4>2
        <3>8. Wizard!IsPrefix(h, h) /\ \A p \in Seq(WizardEntry) : Wizard!IsPrefix(p, base[m]) => Wizard!IsPrefix(p, h)
            <4>1. base[m] \in Seq(WizardEntry) /\ Wizard!Turn(m) \in Seq(WizardEntry)
                BY <1>0, <1>1 DEF WizardCallOK, WizardAlternating, Wizard!Turn, WizardEntry
            <4>2. \A p \in Seq(WizardEntry) : Wizard!IsPrefix(p, base[m]) => Wizard!IsPrefix(p, h)
                BY <4>1, WizardLonger DEF h
            <4>3. Wizard!IsPrefix(h, h)
                BY <1>3, <4>1, WizardLonger
            <4>. QED BY <4>2, <4>3
        <3>9. ASSUME NEW k \in Wizard!Sent, session'[k] = S, turn'[k] = "answer"
              PROVE  Wizard!IsPrefix(base'[k] \o Wizard!Turn(k), h)
            <4>1. CASE k = m
                BY <1>2, <3>8, <4>1 DEF h
            <4>2. CASE k # m
                <5>1. t # 0 /\ session[k] = t /\ turn[k] = "answer"
                    BY <1>4, <3>5, <3>9, <4>2
                <5>2. Wizard!IsPrefix(base[k] \o Wizard!Turn(k), base[m])
                    BY <3>1, <3>3, <5>1 DEF WizardInTurn
                <5>3. base[k] \o Wizard!Turn(k) \in Seq(WizardEntry)
                    <6>1. WizardCallOK(k) /\ k \in Nat
                        BY <1>0 DEF WizardInv
                    <6>. QED BY <6>1, WizardTurnAdded DEF WizardCallOK
                <5>. QED BY <1>2, <3>8, <5>2, <5>3
            <4>. QED BY <4>1, <4>2
        <3>10. S = sessionId' => Wizard!IsPrefix(chat', h)
            <4>1. SUFFICES ASSUME S = sessionId PROVE Wizard!IsPrefix(chat, h)
                BY <1>2 DEF Wizard!wizard
            <4>2. t # 0 /\ t = sessionId
                BY <1>0, <1>1, <1>12, <4>1 DEF WizardTyped
            <4>. QED BY <1>0, <3>1, <3>3, <3>8, <4>2 DEF WizardInTurn, WizardTyped
        <3>11. \A k : Wizard!Turn(k)' = Wizard!Turn(k)
            BY DEF Wizard!Turn
        <3>. QED BY <1>4, <1>11, <3>6, <3>7, <3>9, <3>10, <3>11 DEF WizardInTurn, WizardOf
    <2>. QED BY <2>1, <2>3, <2>4 DEF WizardSessionOK
<1>. QED BY <1>4, <1>10, <1>16, <1>17, <1>18, <1>19, <1>20 DEF WizardInv

\* Every step of the wizard keeps its invariant.
LEMMA WizardNext == WizardInv /\ [Wizard!Next]_(Wizard!vars) => WizardInv'
<1>. SUFFICES ASSUME WizardInv, [Wizard!Next]_(Wizard!vars) PROVE WizardInv'
    OBVIOUS
<1>1. CASE Wizard!Send
    BY <1>1, WizardSendStep
<1>2. CASE Wizard!Leave \/ Wizard!GiveUp
    BY <1>2, WizardShownStep
<1>3. ASSUME NEW m \in Wizard!Sent, Wizard!Call(m) PROVE WizardInv'
    BY <1>3, WizardReadStep, WizardUnstoredStep, WizardWriteStep, WizardAnswerStep DEF Wizard!Call
<1>4. CASE UNCHANGED Wizard!vars
    <2>1. WizardCallsTyped' /\ WizardTyped' /\ Wizard!Sent' = Wizard!Sent
        BY <1>4 DEF WizardInv, WizardCallsTyped, WizardTyped, Wizard!Sent, Wizard!vars, Wizard!calls, Wizard!wizard
    <2>2. \A h : WizardAlternating(h)' <=> WizardAlternating(h)
        BY <2>1 DEF WizardAlternating
    <2>3. ASSUME NEW m \in Wizard!Sent PROVE WizardCallOK(m)'
        BY <1>4, <2>2, <2>3 DEF WizardInv, WizardCallOK, Wizard!vars, Wizard!calls
    <2>4. ASSUME NEW s \in DOMAIN sessions PROVE WizardSessionOK(s)'
        <3>1. WizardSessionOK(s) /\ WizardStored(s)' = WizardStored(s) /\ Wizard!Running(s)' = Wizard!Running(s)
            BY <1>4, <2>1 DEF WizardInv, WizardStored, Wizard!Running, Wizard!vars, Wizard!calls
        <3>2. WizardInTurn(s) => WizardInTurn(s)'
            <4>1. WizardInTurn(s) => (s = sessionId' => Wizard!IsPrefix(chat', sessions[s].messages))
                BY <1>4 DEF WizardInTurn, Wizard!vars, Wizard!wizard
            <4>. QED BY <1>4, <2>1, <3>1, <4>1, WizardTurnsKept DEF Wizard!vars, Wizard!calls
        <3>. QED BY <1>4, <2>2, <3>1, <3>2 DEF WizardSessionOK, Wizard!vars, Wizard!calls
    <2>. QED BY <1>4, <2>1, <2>3, <2>4 DEF WizardInv, Wizard!vars
<1>. QED BY <1>1, <1>2, <1>3, <1>4 DEF Wizard!Next

LEMMA WizardShows == WizardInv => Wizard!TypeOK /\ Wizard!TurnsSurvive
<1>. SUFFICES ASSUME WizardInv PROVE Wizard!TypeOK /\ Wizard!TurnsSurvive
    OBVIOUS
<1>0. WizardCallsTyped /\ WizardTyped /\ Wizard!Sent = 1 .. Len(turn) /\ Wizard!Sent \subseteq 1 .. MaxPrompts
    BY WizardSentIs DEF WizardInv
<1>1. Wizard!TypeOK
    <2>1. ASSUME NEW s \in DOMAIN sessions
          PROVE  /\ sessions[s].draft \in Wizard!Drafts
                 /\ \A i \in DOMAIN sessions[s].messages : sessions[s].messages[i].of \in Wizard!Sent
        <3>1. sessions[s] \in WizardRow /\ WizardOf(sessions[s].messages) \subseteq Wizard!Sent
            BY <1>0, WizardSessionsAre DEF WizardInv, WizardSessionOK, WizardAlternating
        <3>. QED BY <3>1 DEF WizardOf, WizardRow
    <2>2. session \in [Wizard!Sent -> 0 .. Len(sessions)]
        <3>1. session \in Seq(Nat) /\ Len(session) = Len(turn)
            BY <1>0 DEF WizardCallsTyped
        <3>2. session \in [Wizard!Sent -> Nat] /\ Len(sessions) \in Nat
            BY <1>0, <3>1, WizardSessionsAre
        <3>3. \A m \in Wizard!Sent : session[m] <= Len(sessions)
            BY DEF WizardInv, WizardCallOK
        <3>. QED BY <3>2, <3>3
    <2>3. turn \in Seq({"read", "extract", "write", "answer", "done", "lost"})
        BY <1>0 DEF WizardCallsTyped, WizardSteps
    <2>4. /\ sessionId \in 0 .. Len(sessions) /\ extracted \in Wizard!Drafts /\ manual \in BOOLEAN
          /\ sending \in 0 .. Len(turn) /\ clashed \subseteq DOMAIN sessions
        BY <1>0 DEF WizardTyped
    <2>. QED BY <2>1, <2>2, <2>3, <2>4 DEF Wizard!TypeOK
<1>2. ASSUME NEW s \in DOMAIN sessions
      PROVE  LET history == sessions[s].messages IN
             /\ \A i \in DOMAIN history : history[i].role = IF i % 2 = 1 THEN "user" ELSE "assistant"
             /\ sessions[s].tokensUsed = [m \in 1 .. MaxPrompts |-> IF m \in WizardStored(s) THEN tokens[m] ELSE 0]
             /\ s \notin clashed =>
                   /\ WizardStored(s) = {history[i].of : i \in DOMAIN history}
                   /\ s = sessionId => Wizard!IsPrefix(chat, history)
    <2>1. WizardSessionOK(s) /\ sessions[s].tokensUsed \in [1 .. MaxPrompts -> Nat]
        BY <1>0, WizardSessionsAre DEF WizardInv, WizardRow
    <2>2. sessions[s].tokensUsed = [m \in 1 .. MaxPrompts |-> IF m \in WizardStored(s) THEN tokens[m] ELSE 0]
        BY <2>1 DEF WizardSessionOK
    <2>. QED BY <2>1, <2>2 DEF WizardSessionOK, WizardInTurn, WizardAlternating, WizardOf
<1>3. Wizard!TurnsSurvive
    BY <1>2 DEF Wizard!TurnsSurvive, WizardStored
<1>. QED BY <1>1, <1>3

LEMMA WizardDraftHolds == Wizard!Spec => [](Wizard!TypeOK /\ Wizard!TurnsSurvive)
<1>1. Wizard!Spec => []WizardInv
    BY WizardInitInv, WizardNext, PTL DEF Wizard!Spec
<1>. QED BY <1>1, WizardShows, PTL

-----------------------------------------------------------------------------
(* The market and the text messages *)

DealProofs == INSTANCE OffersProofs WITH Handlers <- {"call"}, pc <- handler

\* OffersProofs speaks of the same specification under another name.
LEMMA DealAssumed == DealProofs!OffersAssumption
<1>1. \A S : DealProofs!IsFiniteSet(S) <=> IsFiniteSet(S)
  BY DEF IsFiniteSet, DealProofs!IsFiniteSet
<1> QED
  BY <1>1, ExchangeAssumption DEF DealProofs!OffersAssumption

LEMMA DealIsDeal == Deal!Spec => DealProofs!Spec
<1>1. Deal!Init => DealProofs!Init
  BY DEF Deal!Init, DealProofs!Init
<1>2. [Deal!Next]_(Deal!vars) => [DealProofs!Next]_(DealProofs!vars)
  BY DEF
     Deal!vars, Deal!tables, Deal!Locked, Deal!Continue, Deal!Answer, Deal!WaitsFor,
     Deal!PublishCheck, Deal!PublishWrite, Deal!SubmitCheckRequest, Deal!SubmitReadExisting,
     Deal!SubmitCreate, Deal!SubmitAgain, Deal!WithdrawCheck, Deal!WithdrawWrite,
     Deal!SelectCheck, Deal!SelectLock, Deal!RejectOther, Deal!SelectCommit,
     Deal!SelectDuplicate, Deal!DeadlockVictim, Deal!Fail, Deal!Proceed, Deal!Next,
     DealProofs!vars, DealProofs!tables, DealProofs!Locked, DealProofs!Continue,
     DealProofs!Answer, DealProofs!WaitsFor, DealProofs!PublishCheck,
     DealProofs!PublishWrite, DealProofs!SubmitCheckRequest,
     DealProofs!SubmitReadExisting, DealProofs!SubmitCreate, DealProofs!SubmitAgain,
     DealProofs!WithdrawCheck, DealProofs!WithdrawWrite, DealProofs!SelectCheck,
     DealProofs!SelectLock, DealProofs!RejectOther, DealProofs!SelectCommit,
     DealProofs!SelectDuplicate, DealProofs!DeadlockVictim, DealProofs!Fail,
     DealProofs!Proceed, DealProofs!Next
<1> QED
  BY <1>1, <1>2, PTL DEF Deal!Spec, DealProofs!Spec

LEMMA DealTyped == Deal!Spec => []Deal!TypeOK
<1>1. DealProofs!Spec => []DealProofs!TypeOK
  BY DealAssumed, DealProofs!TypeCorrect
<1>2. DealProofs!TypeOK => Deal!TypeOK
  BY DEF Deal!TypeOK, DealProofs!TypeOK, Deal!OfferStatus, DealProofs!OfferStatus
<1> QED
  BY <1>1, <1>2, DealIsDeal, PTL

LEMMA MarketIsMarket == DealProofs!MarketSpec!Spec => Deal!MarketSpec!Spec
<1>1. DealProofs!MarketSpec!Init => Deal!MarketSpec!Init
  BY DEF DealProofs!MarketSpec!Init, Deal!MarketSpec!Init
<1>2. [DealProofs!MarketSpec!Next]_<<reqStatus, offer, conv>>
        => [Deal!MarketSpec!Next]_<<reqStatus, offer, conv>>
  BY DEF DealProofs!MarketSpec!Next, DealProofs!MarketSpec!Publish, DealProofs!MarketSpec!Submit,
     DealProofs!MarketSpec!Withdraw, DealProofs!MarketSpec!Select,
     Deal!MarketSpec!Next, Deal!MarketSpec!Publish, Deal!MarketSpec!Submit,
     Deal!MarketSpec!Withdraw, Deal!MarketSpec!Select
<1> QED
  BY <1>1, <1>2, PTL DEF DealProofs!MarketSpec!Spec, Deal!MarketSpec!Spec

LEMMA DealIsMarket == Deal!Spec => Deal!ImplementsMarket
<1>1. DealProofs!OneCall
  BY DEF DealProofs!OneCall
<1>2. DealProofs!Spec => DealProofs!ImplementsMarket
  BY <1>1, DealAssumed, DealProofs!MarketImplemented
<1>3. DealProofs!ImplementsMarket => Deal!ImplementsMarket
  BY MarketIsMarket DEF DealProofs!ImplementsMarket, Deal!ImplementsMarket
<1> QED
  BY <1>2, <1>3, DealIsDeal, PTL

LEMMA SmsTyped == Sms!Spec => []Sms!TypeOK
<1>1. Sms!Init => Sms!TypeOK
  BY DEF Sms!Init, Sms!TypeOK
<1>2. Sms!TypeOK /\ [Sms!Next]_(Sms!vars) => Sms!TypeOK'
  BY DEF Sms!TypeOK, Sms!Next, Sms!vars, Sms!Enqueue, Sms!Work, Sms!Process, Sms!SendOk,
     Sms!SendFails, Sms!Complete, Sms!Stall, Sms!Move
<1> QED
  BY <1>1, <1>2, PTL DEF Sms!Spec

-----------------------------------------------------------------------------
(* The exchange *)

\* A step of the whole is a step of each component, or none of its own.
LEMMA StepOfEach ==
  ASSUME [ExchangeNext]_exchangeVars
  PROVE  /\ [Next]_vars
         /\ [Deal!Next]_(Deal!vars)
         /\ [Chat!Next]_(Chat!vars)
         /\ [Board!Next]_(Board!vars)
         /\ [Wizard!Next]_(Wizard!vars)
         /\ [Form!Next]_(Form!vars)
         /\ [Script!Next]_(Script!vars)
         /\ [Sms!Next]_(Sms!vars)
         /\ [Rows!Next]_(Rows!vars)
<1>1. /\ UNCHANGED dealVars => UNCHANGED Deal!vars
      /\ UNCHANGED chatVars => UNCHANGED Chat!vars
      /\ UNCHANGED boardVars => UNCHANGED Board!vars
      /\ UNCHANGED wizardVars => UNCHANGED Wizard!vars
      /\ UNCHANGED formVars => UNCHANGED Form!vars
      /\ UNCHANGED scriptVars => UNCHANGED Script!vars
      /\ UNCHANGED smsVars => UNCHANGED Sms!vars
      /\ UNCHANGED seedVars => UNCHANGED Rows!vars
  <2>1. UNCHANGED dealVars => UNCHANGED Deal!vars
    BY DEF dealVars, Deal!vars
  <2>2. UNCHANGED chatVars => UNCHANGED Chat!vars
    BY DEF chatVars, Chat!vars, Chat!server, Chat!net, Chat!view, Chat!request
  <2>3. UNCHANGED boardVars => UNCHANGED Board!vars
    BY DEF boardVars, Board!vars, Board!ranks, Board!bar, Board!list, Board!flags
  <2>4. UNCHANGED wizardVars => UNCHANGED Wizard!vars
    BY DEF wizardVars, Wizard!vars, Wizard!calls, Wizard!wizard
  <2>5. UNCHANGED formVars => UNCHANGED Form!vars
    BY DEF formVars, Form!vars, Form!server, Form!component
  <2>6. UNCHANGED scriptVars => UNCHANGED Script!vars
    BY DEF scriptVars, Script!vars, Script!db
  <2>7. UNCHANGED smsVars => UNCHANGED Sms!vars
    BY DEF smsVars, Sms!vars
  <2>8. UNCHANGED seedVars => UNCHANGED Rows!vars
    BY DEF seedVars, Rows!vars
  <2> QED
    BY <2>1, <2>2, <2>3, <2>4, <2>5, <2>6, <2>7, <2>8
<1> QED
  BY <1>1 DEF ExchangeNext, ReviewsStep, DealStep, ChatStep, BoardStep, WizardStep, FormStep,
     ScriptStep, SmsStep, SeedStep, exchangeVars

\* A behaviour of the whole is a behaviour of each component.
LEMMA PartsOfExchange ==
  ExchangeSpec => /\ Spec /\ Deal!Spec /\ Chat!Spec /\ Board!Spec /\ Wizard!Spec /\ Form!Spec
                  /\ Script!Spec /\ Sms!Spec /\ Rows!Spec
<1>1. ExchangeInit => /\ Init /\ Deal!Init /\ Chat!Init /\ Board!Init /\ Wizard!Init /\ Form!Init
                      /\ Script!Init /\ Sms!Init /\ Rows!Init
  BY DEF ExchangeInit
<1> QED
  BY <1>1, StepOfEach, PTL
     DEF ExchangeSpec, Spec, Deal!Spec, Chat!Spec, Board!Spec, Wizard!Spec, Form!Spec,
         Script!Spec, Sms!Spec, Rows!Spec

\* One review for a conversation and a reviewer, for any number of tabs, attempts
\* and lost answers of ReviewsService.submit.
THEOREM ReviewsAreSingle == ExchangeSpec => []OneReviewEach
  BY ReviewedOnce, PartsOfExchange, PTL

\* The cached rating counts only reviews there are, and misses only those whose
\* transactions overlapped.
THEOREM RatingsAreClose == ExchangeSpec => []RatingMissesOnlyOverlaps
  BY RatingIsClose, PartsOfExchange, PTL

\* A submit of a review that overlaps no other leaves the rating exact, whatever was
\* lost before it.
THEOREM LoneSubmitsRepair == ExchangeSpec => LoneSubmitRepairs
  BY LoneSubmitIsExact, PartsOfExchange, PTL

\* A seed run that ends has every row of the plan there, with all that the seed sets
\* as seeded but for what was edited while it ran, whichever earlier runs were killed
\* half way.  (It does not set isActive.)
THEOREM SeedConverges == ExchangeSpec => []RunsConverge
<1>1. Rows!TypeOK /\ Rows!RunsConverge => RunsConverge
  BY DEF RunsConverge
<1> QED
  BY <1>1, RowsConverges, PartsOfExchange, PTL

\* A clean-up during which nobody inserts a row is never refused by a foreign key,
\* for any number of accounts and rows that refer to one another.
THEOREM QuietCleanupsSucceed == ExchangeSpec => []QuietRunSucceeds
<1>1. Script!TypeOK /\ Script!QuietRunSucceeds => QuietRunSucceeds
  BY DEF QuietRunSucceeds
<1> QED
  BY <1>1, ScriptQuietSucceeds, PartsOfExchange, PTL

\* A message is shown once, however the page, the socket and the reply to a post
\* race, for any number of messages and any page size; but for late ones.
THEOREM MessagesAreShownOnce == ExchangeSpec => []RenderedOnce
<1>1. Chat!TypeOK /\ Chat!RenderedOnce => RenderedOnce
  BY DEF RenderedOnce
<1> QED
  BY <1>1, ChatRendersOnce, PartsOfExchange, PTL

\* Scrolling the list shows every request that did not move once, for any page size
\* and any number of fetches that overtake each other.
THEOREM ScrollingIsComplete == ExchangeSpec => []NoneSkippedOrRepeated
<1>1. Board!TypeOK /\ Board!NoneSkippedOrRepeated /\ Board!ShownFits => NoneSkippedOrRepeated
  BY DEF NoneSkippedOrRepeated
<1> QED
  BY <1>1, BoardHolds, PartsOfExchange, PTL

\* What is shown, once nothing is loading or waiting, fits what the filter bar says.
THEOREM ListFitsTheBar == ExchangeSpec => []ShownFits
<1>1. Board!TypeOK /\ Board!NoneSkippedOrRepeated /\ Board!ShownFits => ShownFits
  BY DEF ShownFits
<1> QED
  BY <1>1, BoardHolds, PartsOfExchange, PTL

\* A turn that was stored stays in its session, and its cost is counted, for any
\* number of messages, retries and crashes; only overlapping calls lose turns.
THEOREM StoredTurnsSurvive == ExchangeSpec => []TurnsSurvive
<1>1. Wizard!TypeOK /\ Wizard!TurnsSurvive => TurnsSurvive
  BY DEF TurnsSurvive
<1> QED
  BY <1>1, WizardDraftHolds, PartsOfExchange, PTL

\* The preview of RequestForm shows what its row holds, and what publish makes
\* public is what was previewed.
THEOREM PreviewsAreTrue == ExchangeSpec => []PreviewIsTheRow
<1>1. Form!PreviewIsTheRow => PreviewIsTheRow
  BY DEF PreviewIsTheRow
<1> QED
  BY <1>1, FormPreviewIsTrue, PartsOfExchange, PTL

\* A category that CategoriesService.update has deactivated has only requests
\* whose insert the count could not see.
THEOREM InactiveCategoriesAreEmpty == ExchangeSpec => []InactiveOnlyOvertaken
<1>1. Form!InactiveOnlyOvertaken => InactiveOnlyOvertaken
  BY DEF InactiveOnlyOvertaken
<1> QED
  BY <1>1, FormInactiveIsEmpty, PartsOfExchange, PTL

\* While no two calls overlap, publish, submit, withdraw and select are what Market
\* promises: every offer is decided in one step.
THEOREM LoneCallsAreTheMarket == ExchangeSpec => ImplementsMarket
<1>1. Deal!ImplementsMarket => ImplementsMarket
  BY DEF ImplementsMarket
<1> QED
  BY <1>1, DealIsMarket, PartsOfExchange, PTL

\* Every component's state stays of its type.
THEOREM ExchangeTypeCorrect == ExchangeSpec => []ExchangeTypeOK
<1>1. /\ TypeOK /\ Deal!TypeOK
      /\ Chat!TypeOK /\ Chat!RenderedOnce
      /\ Board!TypeOK /\ Board!NoneSkippedOrRepeated /\ Board!ShownFits
      /\ Wizard!TypeOK /\ Wizard!TurnsSurvive
      /\ Form!TypeOK
      /\ Script!TypeOK /\ Script!QuietRunSucceeds
      /\ Sms!TypeOK
      /\ Rows!TypeOK /\ Rows!RunsConverge
      => ExchangeTypeOK
  BY DEF ExchangeTypeOK
<1> QED
  BY <1>1, TypeCorrect, DealTyped, ChatRendersOnce, BoardHolds, WizardDraftHolds,
     FormTypeCorrect, ScriptQuietSucceeds, SmsTyped, RowsConverges, PartsOfExchange, PTL
=============================================================================
