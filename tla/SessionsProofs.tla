---------------------------- MODULE SessionsProofs ----------------------------
(***************************************************************************)
(* Theorems about Sessions for any rows, families, browsers and calls.     *)
(*                                                                         *)
(* The argument: a row under construction belongs to one call and is named *)
(* by nobody else until it is signed (Working), so tokens and the audit    *)
(* trail only ever name signed rows; a family that was never rotated twice *)
(* at once has a single seat, held by its usable row or by the one call    *)
(* that is replacing it (OneSeat).                                         *)
(***************************************************************************)
EXTENDS Sessions, TLAPS

\* What a call may hold at each of its statements.
Working ==
    \A c \in Calls :
        /\ pc[c] = "idle" => old[c] = NoSession
        /\ pc[c] \in {"read", "revokeFamily", "revokeOne", "revokeAll", "clear"} =>
                old[c] # NoSession
        /\ pc[c] \notin {"sign", "answer"} => new[c] = NoSession
        /\ pc[c] \in {"sign", "answer"} => new[c] \in Rows
        /\ pc[c] = "sign" => new[c] \notin signed
        /\ pc[c] \in {"sign", "answer"} /\ old[c] # NoSession =>
                family[new[c]] = family[old[c]]

\* A row under construction is the work of one call.
OwnRow ==
    \A c, d \in Calls : new[c] # NoSession /\ new[c] = new[d] => c = d

\* The part of TrailIsSound that an induction step needs.
Trail ==
    /\ \A s \in Sessions : replacedBy[s] # NoSession =>
            /\ s \in revoked /\ s \in signed
            /\ replacedBy[s] \in signed
            /\ family[replacedBy[s]] = family[s]
    /\ \A s, t \in Sessions : replacedBy[s] # NoSession /\ replacedBy[s] = replacedBy[t] => s = t

IInv == TypeOK /\ TokensAreSigned /\ Working /\ OwnRow /\ Trail
-------------------------------------------------------------------------------
\* No row, no cookie and no open call at first.
LEMMA InitIInv == Init => IInv
  BY SessionsAssumption
  DEF Init, IInv, TypeOK, TokensAreSigned, Working, OwnRow, Trail, Rows

\* The end of a call takes nothing away from what the others hold.
LEMMA EndStep ==
  ASSUME IInv, NEW c \in Calls, End(c), UNCHANGED <<family, signed, replacedBy>>,
         revoked \subseteq revoked', revoked' \subseteq Rows,
         overtaken' \subseteq Families, reused' \subseteq Families,
         cookie' \in [Browsers -> Sessions \cup {NoSession}],
         \A b \in Browsers : cookie'[b] \in signed \cup {NoSession}
  PROVE  IInv'
<1>1. TypeOK'
  BY DEF IInv, TypeOK, End, Rows
<1>2. TokensAreSigned'
  BY DEF IInv, TypeOK, TokensAreSigned, End
<1>3. Working'
  BY DEF IInv, TypeOK, Working, End, Rows
<1>4. OwnRow'
  BY DEF IInv, TypeOK, OwnRow, End
<1>5. Trail'
  BY DEF IInv, TypeOK, Trail
<1> QED
  BY <1>1, <1>2, <1>3, <1>4, <1>5 DEF IInv

\* A call that only goes on, or only revokes rows, keeps what it holds.
LEMMA GotoStep ==
  ASSUME IInv, NEW c \in Calls, NEW to, Goto(c, pc[c], to),
         \/ pc[c] = "idle" /\ to = "create"
         \/ pc[c] = "read" /\ to \in {"create", "revokeFamily"}
         \/ pc[c] \in {"revokeOne", "revokeAll"} /\ to = "clear",
         UNCHANGED <<family, signed, replacedBy, cookie, old, new>>,
         revoked \subseteq revoked', revoked' \subseteq Rows,
         overtaken' \subseteq Families, reused' \subseteq Families
  PROVE  IInv'
<1>1. TypeOK'
  BY DEF IInv, TypeOK, Goto, Rows
<1>2. TokensAreSigned'
  BY DEF IInv, TypeOK, TokensAreSigned, Goto
<1>3. Working'
  BY DEF IInv, TypeOK, Working, Goto, Rows
<1>4. OwnRow'
  BY DEF IInv, OwnRow
<1>5. Trail'
  BY DEF IInv, TypeOK, Trail
<1> QED
  BY <1>1, <1>2, <1>3, <1>4, <1>5 DEF IInv

\* A call arrives with the cookie of its browser.
LEMMA ArriveStep ==
  ASSUME IInv, NEW c \in Calls, NEW step \in {"read", "revokeOne", "revokeAll"},
         Arrive(c, step)
  PROVE  IInv'
<1>0. by[c] \in Browsers
  BY SessionsAssumption
<1>1. TypeOK'
  BY <1>0 DEF IInv, TypeOK, Arrive, rows, history, Rows
<1>2. TokensAreSigned'
  BY <1>0 DEF IInv, TypeOK, TokensAreSigned, Arrive, rows
<1>3. Working'
  BY <1>0 DEF IInv, TypeOK, Working, Arrive, rows, Rows
<1>4. OwnRow'
  BY DEF IInv, OwnRow, Arrive
<1>5. Trail'
  BY DEF IInv, Trail, Arrive, rows
<1> QED
  BY <1>1, <1>2, <1>3, <1>4, <1>5 DEF IInv

\* session.create makes a row that nobody has named before.
LEMMA CreateStep ==
  ASSUME IInv, NEW c \in Calls, CreateRow(c)
  PROVE  IInv'
<1>1. PICK s \in Sessions \ Rows, f \in Families :
          /\ IF old[c] = NoSession THEN RowsOf(f) = {} ELSE f = family[old[c]]
          /\ family' = [family EXCEPT ![s] = f]
          /\ new'    = [new EXCEPT ![c] = s]
  BY DEF CreateRow
<1>2. s # NoSession /\ f # NoFamily /\ Rows' = Rows \cup {s}
  BY <1>1, SessionsAssumption DEF IInv, TypeOK, Rows
<1>3. \A d \in Calls : new[d] # s
  BY <1>1, <1>2 DEF IInv, Working
<1>4. s \notin signed /\ s \notin revoked /\ \A d \in Calls : old[d] # s
  BY <1>1, <1>2 DEF IInv, TypeOK, TokensAreSigned
<1>5. TypeOK'
  BY <1>1, <1>2 DEF IInv, TypeOK, CreateRow, Goto, history
<1>6. TokensAreSigned'
  BY <1>1, <1>4 DEF IInv, TypeOK, TokensAreSigned, CreateRow, Goto
<1>7. Working'
  <2> SUFFICES ASSUME NEW d \in Calls
               PROVE  Working!(d)'
    BY DEF Working
  <2>1. CASE d = c
    BY <2>1, <1>1, <1>2, <1>4 DEF IInv, TypeOK, Working, CreateRow, Goto
  <2>2. CASE d # c
    BY <2>2, <1>1, <1>2, <1>3, <1>4 DEF IInv, TypeOK, Working, CreateRow, Goto
  <2> QED
    BY <2>1, <2>2
<1>8. OwnRow'
  BY <1>1, <1>3 DEF IInv, TypeOK, OwnRow
<1>9. Trail'
  BY <1>1, <1>4 DEF IInv, TypeOK, Trail, CreateRow, Rows
<1> QED
  BY <1>5, <1>6, <1>7, <1>8, <1>9 DEF IInv

\* The transaction of issueNewSessionRow makes the new row the one successor.
LEMMA SignStep ==
  ASSUME IInv, NEW c \in Calls, SignRow(c)
  PROVE  IInv'
<1>1. /\ pc[c] = "sign" /\ new[c] \in Rows /\ new[c] \notin signed
      /\ pc' = [pc EXCEPT ![c] = "answer"]
  BY DEF IInv, Working, SignRow, Goto
<1>2. TypeOK'
  BY <1>1 DEF IInv, TypeOK, TokensAreSigned, SignRow, Rows, history
<1>3. TokensAreSigned'
  BY <1>1 DEF IInv, TypeOK, TokensAreSigned, SignRow
<1>4. Working'
  <2> SUFFICES ASSUME NEW d \in Calls
               PROVE  Working!(d)'
    BY DEF Working
  <2>1. CASE d = c
    BY <2>1, <1>1 DEF IInv, TypeOK, Working, SignRow, Rows
  <2>2. CASE d # c
    <3>1. pc[d] = "sign" => new[d] # new[c]
      BY <2>2, <1>1, SessionsAssumption DEF IInv, OwnRow, Working, Rows
    <3> QED
      BY <3>1, <2>2, <1>1 DEF IInv, TypeOK, Working, SignRow, Rows
  <2> QED
    BY <2>1, <2>2
<1>5. OwnRow'
  BY DEF IInv, OwnRow, SignRow
<1>6. Trail'
  <2>1. CASE old[c] = NoSession
    BY <2>1 DEF IInv, TypeOK, Trail, SignRow
  <2>2. CASE old[c] # NoSession
    <3>1. /\ old[c] \in signed /\ old[c] \in Sessions
          /\ family[new[c]] = family[old[c]]
      BY <2>2, <1>1 DEF IInv, TypeOK, TokensAreSigned, Working
    <3>2. /\ signed' = signed \cup {new[c]} /\ revoked' = revoked \cup {old[c]}
          /\ replacedBy' = [replacedBy EXCEPT ![old[c]] = new[c]]
          /\ family' = family
      BY <2>2 DEF SignRow
    <3>3. \A s \in Sessions : replacedBy[s] # NoSession => replacedBy[s] # new[c]
      BY <1>1 DEF IInv, Trail
    <3> QED
      BY <3>1, <3>2, <3>3 DEF IInv, TypeOK, Trail
  <2> QED
    BY <2>1, <2>2
<1> QED
  BY <1>2, <1>3, <1>4, <1>5, <1>6 DEF IInv

\* Every step keeps the inductive invariant.
LEMMA NextIInv == IInv /\ [Next]_vars => IInv'
<1> SUFFICES ASSUME IInv, [Next]_vars
             PROVE  IInv'
  OBVIOUS
<1>1. CASE UNCHANGED vars
  BY <1>1 DEF IInv, TypeOK, TokensAreSigned, Working, OwnRow, Trail, Rows, vars, rows, history
<1>2. ASSUME NEW c \in Calls, Login(c)
      PROVE  IInv'
  BY <1>2, GotoStep DEF Login, Goto, rows, history, IInv, TypeOK
<1>3. ASSUME NEW c \in Calls, Refresh(c) \/ Logout(c) \/ LogoutAll(c)
      PROVE  IInv'
  BY <1>3, ArriveStep DEF Refresh, Logout, LogoutAll
<1>4. ASSUME NEW c \in Calls, ReadRevoked(c)
      PROVE  IInv'
  BY <1>4, GotoStep DEF ReadRevoked, Goto, rows, history, IInv, TypeOK
<1>5. ASSUME NEW c \in Calls, RevokeFamily(c)
      PROVE  IInv'
  <2>1. old[c] \in Rows
    BY <1>5 DEF RevokeFamily, IInv, TypeOK, TokensAreSigned, Working
  <2>2. RowsOf(family[old[c]]) \subseteq Rows /\ family[old[c]] \in Families
    BY <2>1 DEF Rows, RowsOf, IInv, TypeOK
  <2> QED
    BY <1>5, <2>2, EndStep DEF RevokeFamily, IInv, TypeOK, TokensAreSigned
<1>6. ASSUME NEW c \in Calls, ReadValid(c)
      PROVE  IInv'
  <2>1. family[old[c]] \in Families
    BY <1>6 DEF ReadValid, Usable, Rows, IInv, TypeOK
  <2> QED
    BY <1>6, <2>1, GotoStep DEF ReadValid, Goto, rows, IInv, TypeOK
<1>7. ASSUME NEW c \in Calls, CreateRow(c)
      PROVE  IInv'
  BY <1>7, CreateStep
<1>8. ASSUME NEW c \in Calls, SignRow(c)
      PROVE  IInv'
  BY <1>8, SignStep
<1>9. ASSUME NEW c \in Calls, Answer(c)
      PROVE  IInv'
  BY <1>9, EndStep, SessionsAssumption
  DEF Answer, rows, history, IInv, TypeOK, TokensAreSigned, Rows
<1>10. ASSUME NEW c \in Calls, RevokeOne(c) \/ RevokeAll(c)
       PROVE  IInv'
  <2>1. old[c] \in Rows
    BY <1>10 DEF RevokeOne, RevokeAll, Goto, IInv, TypeOK, TokensAreSigned, Working
  <2> QED
    BY <1>10, <2>1, GotoStep DEF RevokeOne, RevokeAll, Goto, history, IInv, TypeOK
<1>11. ASSUME NEW c \in Calls, Clear(c)
       PROVE  IInv'
  BY <1>11, EndStep, SessionsAssumption
  DEF Clear, rows, history, IInv, TypeOK, TokensAreSigned, Rows
<1>12. ASSUME NEW c \in Calls, Fail(c)
       PROVE  IInv'
  BY <1>12, EndStep DEF Fail, rows, history, IInv, TypeOK, TokensAreSigned
<1> QED
  BY <1>1, <1>2, <1>3, <1>4, <1>5, <1>6, <1>7, <1>8, <1>9, <1>10, <1>11, <1>12 DEF Next

LEMMA Invariant == Spec => []IInv
  BY InitIInv, NextIInv, PTL DEF Spec

\* The types of Sessions hold in every reachable state.
THEOREM TypeCorrect == Spec => []TypeOK
  BY Invariant, PTL DEF IInv

\* No token is in use whose hash is not on record (TokensAreSigned): rotateSession's
\* hash comparison never refuses a token that was issued.
THEOREM IssuedTokensMatch == Spec => []TokensAreSigned
  BY Invariant, PTL DEF IInv
-------------------------------------------------------------------------------
\* A set of replaced rows that the trail never leaves.
Circular(S) ==
    /\ S # {} /\ S \subseteq {s \in Sessions : replacedBy[s] # NoSession}
    /\ \A s \in S : replacedBy[s] \in S

NoCircle == \A S \in SUBSET Sessions : ~Circular(S)

\* A rotation points the trail at a row that was not replaced: no circle can close.
LEMMA CircleStep == IInv /\ NoCircle /\ [Next]_vars => NoCircle'
<1> SUFFICES ASSUME IInv, NoCircle, [Next]_vars, NEW S \in SUBSET Sessions, Circular(S)'
             PROVE  FALSE
  BY DEF NoCircle
<1>1. ASSUME UNCHANGED replacedBy
      PROVE  FALSE
  BY <1>1 DEF NoCircle, Circular
<1>2. ASSUME NEW c \in Calls, SignRow(c), old[c] # NoSession
      PROVE  FALSE
  <2>1. new[c] \in Sessions /\ old[c] \in Sessions /\ new[c] # old[c]
        /\ replacedBy[new[c]] = NoSession
    BY <1>2 DEF IInv, TypeOK, TokensAreSigned, Working, Trail, SignRow, Goto, Rows
  <2>2. replacedBy' = [replacedBy EXCEPT ![old[c]] = new[c]]
    BY <1>2 DEF SignRow
  <2>3. new[c] \notin S
    BY <2>1, <2>2 DEF Circular, IInv, TypeOK
  <2>4. old[c] \notin S
    BY <2>1, <2>2, <2>3 DEF Circular, IInv, TypeOK
  <2>5. Circular(S)
    BY <2>1, <2>2, <2>4 DEF Circular, IInv, TypeOK
  <2> QED
    BY <2>5 DEF NoCircle
<1>3. \/ UNCHANGED replacedBy
      \/ \E c \in Calls : SignRow(c) /\ old[c] # NoSession
  BY DEF Next, vars, rows, Login, Refresh, Logout, LogoutAll, Arrive, ReadRevoked, RevokeFamily,
         ReadValid, CreateRow, SignRow, Answer, RevokeOne, RevokeAll, Clear, Fail
<1> QED
  BY <1>1, <1>2, <1>3

\* The audit trail of the rotations is sound (TrailIsSound): it stays in the family,
\* leads from revoked rows to issued ones, never merges and never goes in a circle.
THEOREM TrailCanBeFollowed == Spec => []TrailIsSound
<1>1. Init => NoCircle
  BY DEF Init, NoCircle, Circular
<1>2. IInv /\ NoCircle => TrailIsSound
  BY DEF IInv, Trail, TrailIsSound, NoCircle, Circular
<1> QED
  BY <1>1, <1>2, CircleStep, Invariant, PTL DEF Spec
-------------------------------------------------------------------------------
\* The row of a login is alone in its family until it is signed.
LoneLogin ==
    \A c \in Calls : pc[c] = "sign" /\ old[c] = NoSession =>
        RowsOf(family[new[c]]) = {new[c]}

\* The seat of a family that was never rotated twice at once: its one usable row,
\* or the one call that is replacing it.
OneSeat ==
    /\ OneUsable
    /\ \A c, d \in Calls : Rotating(c) /\ Rotating(d) /\ family[old[c]] = family[old[d]]
            /\ family[old[c]] \notin overtaken => c = d
    /\ \A c \in Calls, s \in Usable : Rotating(c) /\ family[s] = family[old[c]]
            /\ family[s] \notin overtaken => s = old[c]

SeatInv == LoneLogin /\ OneSeat

\* The end of a call, a revocation, or a step to a statement outside a rotation
\* empties seats and fills none.
LEMMA SeatKept ==
  ASSUME IInv, SeatInv, IInv', UNCHANGED <<family, signed, overtaken>>,
         revoked \subseteq revoked',
         \A c \in Calls : pc'[c] = "sign" => pc[c] = "sign" /\ old'[c] = old[c] /\ new'[c] = new[c],
         \A c \in Calls : Rotating(c)' => Rotating(c) /\ old'[c] = old[c]
  PROVE  SeatInv'
<1>1. LoneLogin'
  BY DEF SeatInv, LoneLogin, RowsOf
<1>2. Usable' \subseteq Usable
  BY DEF Usable
<1>3. OneSeat'
  BY <1>2 DEF SeatInv, OneSeat, OneUsable, RowsOf
<1> QED
  BY <1>1, <1>3 DEF SeatInv

\* rotateSession's check lets a second rotation of the same row only overtake the first.
LEMMA SeatRead ==
  ASSUME IInv, SeatInv, NEW c \in Calls, ReadValid(c)
  PROVE  SeatInv'
<1>1. /\ pc' = [pc EXCEPT ![c] = "create"] /\ pc[c] = "read" /\ old[c] \in Usable
      /\ UNCHANGED <<family, signed, revoked, old, new>>
      /\ overtaken \subseteq overtaken'
  BY DEF ReadValid, Goto, rows
<1>2. LoneLogin'
  BY <1>1 DEF SeatInv, LoneLogin, RowsOf, IInv, TypeOK
<1>3. \A d \in Calls : Rotating(d)' <=> d = c \/ Rotating(d)
  BY <1>1 DEF Rotating, IInv, TypeOK, Working
<1>4. Usable' = Usable
  BY <1>1 DEF Usable
<1>5. ASSUME NEW d \in Calls, Rotating(d), family[old[d]] = family[old[c]],
             family[old[c]] \notin overtaken'
      PROVE  FALSE
  <2>1. old[c] = old[d]
    BY <1>1, <1>5 DEF SeatInv, OneSeat
  <2>2. family[old[c]] \in overtaken'
    BY <2>1, <1>5 DEF ReadValid
  <2> QED
    BY <2>2, <1>5
<1>6. OneUsable'
  BY <1>1, <1>4 DEF SeatInv, OneSeat, OneUsable, RowsOf
<1>7. \A s \in Usable : family[s] = family[old[c]] /\ family[s] \notin overtaken' => s = old[c]
  BY <1>1 DEF SeatInv, OneSeat, OneUsable, RowsOf, Usable, IInv, TypeOK, Rows
<1>8. OneSeat'
  BY <1>1, <1>3, <1>4, <1>5, <1>6, <1>7 DEF SeatInv, OneSeat
<1> QED
  BY <1>2, <1>8 DEF SeatInv

\* A row that is created does not count before it is signed.
LEMMA SeatCreate ==
  ASSUME IInv, SeatInv, NEW c \in Calls, CreateRow(c)
  PROVE  SeatInv'
<1>1. PICK s \in Sessions \ Rows, f \in Families :
          /\ IF old[c] = NoSession THEN RowsOf(f) = {} ELSE f = family[old[c]]
          /\ family' = [family EXCEPT ![s] = f]
          /\ new'    = [new EXCEPT ![c] = s]
  BY DEF CreateRow
<1>2. /\ pc' = [pc EXCEPT ![c] = "sign"] /\ pc[c] = "create"
      /\ UNCHANGED <<signed, revoked, old, overtaken>>
  BY DEF CreateRow, Goto, history
<1>3. s \notin signed /\ \A d \in Calls : old[d] # s /\ (pc[d] = "sign" => new[d] # s)
  BY <1>1, SessionsAssumption DEF IInv, TypeOK, TokensAreSigned, Working
<1>4. /\ \A t \in signed : t \in Sessions /\ family'[t] = family[t]
      /\ \A d \in Calls : old[d] # NoSession => old[d] \in signed
  BY <1>1, <1>3 DEF IInv, TypeOK, TokensAreSigned, Rows
<1>5. Usable' = Usable /\ \A d \in Calls : Rotating(d)' <=> Rotating(d)
  BY <1>2 DEF Usable, Rotating, IInv, TypeOK
<1>6. LoneLogin'
  <2> SUFFICES ASSUME NEW d \in Calls, pc'[d] = "sign", old[d] = NoSession
               PROVE  RowsOf(family[new[d]])' = {new'[d]}
    BY <1>2 DEF LoneLogin
  <2>1. CASE d = c
    BY <2>1, <1>1 DEF RowsOf, IInv, TypeOK
  <2>2. CASE d # c
    <3>1. pc[d] = "sign" /\ new'[d] = new[d] /\ new[d] \in Rows /\ new[d] \notin signed
          /\ RowsOf(family[new[d]]) = {new[d]}
      BY <2>2, <1>1, <1>2 DEF SeatInv, LoneLogin, IInv, TypeOK, Working
    <3>2. f # family[new[d]]
      <4>1. CASE old[c] = NoSession
        BY <4>1, <3>1, <1>1
      <4>2. CASE old[c] # NoSession
        BY <4>2, <3>1, <1>1, <1>4 DEF RowsOf, IInv, TypeOK
      <4> QED
        BY <4>1, <4>2
    <3>3. family'[new[d]] = family[new[d]]
      BY <3>1, <1>1
    <3> QED
      BY <3>1, <3>2, <3>3, <1>1 DEF RowsOf, IInv, TypeOK
  <2> QED
    BY <2>1, <2>2
<1>7. OneUsable'
  BY <1>2, <1>4, <1>5 DEF SeatInv, OneSeat, OneUsable, RowsOf, Usable
<1>8. OneSeat'
  BY <1>2, <1>4, <1>5, <1>7 DEF SeatInv, OneSeat, Rotating, Usable
<1> QED
  BY <1>6, <1>8 DEF SeatInv

\* The commit of a rotation moves the seat to the new row; that of a login takes it.
LEMMA SeatSign ==
  ASSUME IInv, SeatInv, NEW c \in Calls, SignRow(c)
  PROVE  SeatInv'
<1>1. /\ pc' = [pc EXCEPT ![c] = "answer"] /\ pc[c] = "sign"
      /\ signed' = signed \cup {new[c]} /\ revoked \subseteq revoked'
      /\ old[c] # NoSession => old[c] \in revoked'
      /\ UNCHANGED <<family, old, new, overtaken>>
  BY DEF SignRow, Goto, history
<1>2. Usable' \subseteq Usable \cup {new[c]} /\ new[c] \in Rows
  BY <1>1 DEF Usable, IInv, Working
<1>3. old[c] # NoSession => old[c] \notin Usable' /\ family[new[c]] = family[old[c]]
  BY <1>1 DEF Usable, IInv, Working
<1>4. \A d \in Calls : Rotating(d)' <=> Rotating(d) /\ d # c
  BY <1>1 DEF Rotating, IInv, TypeOK
<1>5. LoneLogin'
  BY <1>1 DEF SeatInv, LoneLogin, RowsOf, IInv, TypeOK
<1>6. ASSUME NEW t \in Usable', family[t] = family[new[c]], family[t] \notin overtaken
      PROVE  t = new[c]
  <2>1. CASE old[c] = NoSession
    <3>1. RowsOf(family[new[c]]) = {new[c]}
      BY <2>1, <1>1 DEF SeatInv, LoneLogin
    <3> QED
      BY <3>1, <1>6, <1>2 DEF RowsOf, Usable, IInv, TypeOK, Rows
  <2>2. CASE old[c] # NoSession
    <3>1. ASSUME t # new[c]
          PROVE  FALSE
      <4>1. t \in Usable /\ Rotating(c) /\ family[t] = family[old[c]]
        BY <3>1, <2>2, <1>1, <1>2, <1>3, <1>6 DEF Rotating
      <4>2. t = old[c]
        BY <4>1, <1>6 DEF SeatInv, OneSeat
      <4> QED
        BY <4>2, <2>2, <1>3
    <3> QED
      BY <3>1
  <2> QED
    BY <2>1, <2>2
<1>7. OneUsable'
  BY <1>1, <1>2, <1>6 DEF SeatInv, OneSeat, OneUsable, RowsOf, Usable
<1>8. ASSUME NEW d \in Calls, Rotating(d), d # c, family[new[c]] = family[old[d]],
             family[new[c]] \notin overtaken
      PROVE  FALSE
  <2>1. old[d] \in signed /\ old[d] \in Sessions
    BY <1>8 DEF Rotating, IInv, TypeOK, TokensAreSigned
  <2>2. CASE old[c] = NoSession
    <3>1. RowsOf(family[new[c]]) = {new[c]} /\ new[c] \notin signed
      BY <2>2, <1>1 DEF SeatInv, LoneLogin, IInv, Working
    <3> QED
      BY <3>1, <2>1, <1>8 DEF RowsOf
  <2>3. CASE old[c] # NoSession
    BY <2>3, <1>1, <1>3, <1>8 DEF SeatInv, OneSeat, Rotating
  <2> QED
    BY <2>2, <2>3
<1>9. OneSeat'
  BY <1>1, <1>2, <1>4, <1>7, <1>8 DEF SeatInv, OneSeat
<1> QED
  BY <1>5, <1>9 DEF SeatInv

LEMMA NextSeat == IInv /\ IInv' /\ SeatInv /\ [Next]_vars => SeatInv'
<1> SUFFICES ASSUME IInv, IInv', SeatInv, [Next]_vars
             PROVE  SeatInv'
  OBVIOUS
<1>1. CASE UNCHANGED vars
  BY <1>1, SeatKept DEF vars, rows, history, Rotating
<1>2. ASSUME NEW c \in Calls, Login(c)
      PROVE  SeatInv'
  <2>1. \A d \in Calls : Rotating(d)' => Rotating(d)
    BY <1>2 DEF Login, Goto, Rotating, IInv, TypeOK, Working
  <2> QED
    BY <1>2, <2>1, SeatKept DEF Login, Goto, rows, history, IInv, TypeOK
<1>3. ASSUME NEW c \in Calls, Refresh(c) \/ Logout(c) \/ LogoutAll(c)
      PROVE  SeatInv'
  <2>1. PICK step \in {"read", "revokeOne", "revokeAll"} : Arrive(c, step)
    BY <1>3 DEF Refresh, Logout, LogoutAll
  <2>2. \A d \in Calls : Rotating(d)' => Rotating(d) /\ old'[d] = old[d]
    BY <2>1 DEF Arrive, Rotating, IInv, TypeOK
  <2>3. \A d \in Calls : pc'[d] = "sign" => pc[d] = "sign" /\ old'[d] = old[d] /\ new'[d] = new[d]
    BY <2>1 DEF Arrive, IInv, TypeOK
  <2> QED
    BY <2>1, <2>2, <2>3, SeatKept DEF Arrive, rows, history
<1>4. ASSUME NEW c \in Calls, ReadRevoked(c) \/ RevokeOne(c) \/ RevokeAll(c)
      PROVE  SeatInv'
  <2>1. PICK to \in {"revokeFamily", "clear"} : pc' = [pc EXCEPT ![c] = to]
    BY <1>4 DEF ReadRevoked, RevokeOne, RevokeAll, Goto
  <2>2. revoked \subseteq revoked' /\ UNCHANGED <<family, signed, old, new, overtaken>>
    BY <1>4 DEF ReadRevoked, RevokeOne, RevokeAll, rows, history
  <2> QED
    BY <2>1, <2>2, SeatKept DEF Rotating, IInv, TypeOK
<1>5. ASSUME NEW c \in Calls, RevokeFamily(c) \/ Answer(c) \/ Clear(c) \/ Fail(c)
      PROVE  SeatInv'
  <2>1. revoked \subseteq revoked' /\ UNCHANGED <<family, signed, overtaken>> /\ End(c)
    BY <1>5 DEF RevokeFamily, Answer, Clear, Fail, rows, history
  <2> QED
    BY <2>1, SeatKept DEF End, Rotating, IInv, TypeOK
<1>6. ASSUME NEW c \in Calls, ReadValid(c)
      PROVE  SeatInv'
  BY <1>6, SeatRead
<1>7. ASSUME NEW c \in Calls, CreateRow(c)
      PROVE  SeatInv'
  BY <1>7, SeatCreate
<1>8. ASSUME NEW c \in Calls, SignRow(c)
      PROVE  SeatInv'
  BY <1>8, SeatSign
<1> QED
  BY <1>1, <1>2, <1>3, <1>4, <1>5, <1>6, <1>7, <1>8 DEF Next

\* A family has one usable token unless one of its rows was being rotated by two
\* calls at once (OneUsable), for any number of tabs, lost answers and logouts.
THEOREM OneTokenPerFamily == Spec => []OneUsable
<1>1. Init => SeatInv
  BY DEF Init, SeatInv, LoneLogin, OneSeat, OneUsable, Usable, Rotating
<1>2. SeatInv => OneUsable
  BY DEF SeatInv, OneSeat
<1> QED
  BY <1>1, <1>2, NextSeat, Invariant, PTL DEF Spec
-------------------------------------------------------------------------------
\* A call that ends is idle; the others go on with what they hold.
LEMMA EndEffect ==
  ASSUME TypeOK, NEW c \in Calls, End(c), NEW d \in Calls
  PROVE  IF d = c THEN pc'[d] = "idle"
         ELSE pc'[d] = pc[d] /\ old'[d] = old[d] /\ new'[d] = new[d]
  BY DEF End, TypeOK

\* If every usable token a browser or a call has after a step of the family was
\* there before it, a family that had ended has still ended.
LEMMA EndedKept ==
  ASSUME IInv, NEW f \in Families, Ended(f), UNCHANGED <<family, signed>>,
         revoked \subseteq revoked',
         \A b \in Browsers : cookie'[b] \in {cookie[b], NoSession},
         \A c \in Calls :
            \/ pc'[c] \notin {"read", "create", "sign", "answer"}
            \/ pc'[c] = pc[c] /\ old'[c] = old[c] /\ new'[c] = new[c]
            \/ pc'[c] = "create" /\ old'[c] = NoSession
            \/ pc'[c] = "create" /\ pc[c] = "read" /\ old'[c] = old[c] /\ old[c] \in Usable
            \/ pc'[c] = "read" /\ old'[c] = cookie[by[c]]
  PROVE  Ended(f)'
<1>1. RowsOf(f)' = RowsOf(f) /\ Usable' \subseteq Usable /\ NoSession \notin RowsOf(f)
  BY SessionsAssumption DEF RowsOf, Usable
<1>2. ASSUME NEW b \in Browsers, cookie'[b] \in Usable' \cap RowsOf(f)
      PROVE  FALSE
  BY <1>1, <1>2 DEF Ended, Alive
<1>3. ASSUME NEW c \in Calls,
             \/ pc'[c] = "read" /\ old'[c] \in Usable' \cap RowsOf(f)
             \/ Rotating(c)' /\ old'[c] \in RowsOf(f)
             \/ pc'[c] = "sign" /\ new'[c] \in RowsOf(f)
             \/ pc'[c] = "answer" /\ new'[c] \in Usable' \cap RowsOf(f)
      PROVE  FALSE
  <2>1. by[c] \in Browsers
    BY SessionsAssumption
  <2> QED
    BY <2>1, <1>1, <1>3 DEF Ended, Alive, Rotating
<1> QED
  BY <1>1, <1>2, <1>3 DEF Ended, Alive

\* A family that has ended never comes back (EndedStaysEnded): no kept token, late
\* call or abandoned row of it is ever usable in somebody's hands again.
THEOREM NoReturn == Spec => EndedStaysEnded
<1>1. ASSUME IInv, [Next]_vars, NEW f \in Families, Ended(f)
      PROVE  Ended(f)'
  <2>1. CASE UNCHANGED vars
    BY <2>1, <1>1, EndedKept DEF vars, rows, history
  <2>2. ASSUME NEW c \in Calls, Login(c)
        PROVE  Ended(f)'
    BY <2>2, <1>1, EndedKept DEF Login, Goto, rows, history, IInv, TypeOK, Working
  <2>3. ASSUME NEW c \in Calls, Refresh(c) \/ Logout(c) \/ LogoutAll(c)
        PROVE  Ended(f)'
    <3>1. PICK step \in {"read", "revokeOne", "revokeAll"} : Arrive(c, step)
      BY <2>3 DEF Refresh, Logout, LogoutAll
    <3>2. /\ pc' = [pc EXCEPT ![c] = step] /\ old' = [old EXCEPT ![c] = cookie[by[c]]]
          /\ UNCHANGED <<family, signed, revoked, cookie, new>>
      BY <3>1 DEF Arrive, rows, history
    <3>3. \A d \in Calls : d # c => pc'[d] = pc[d] /\ old'[d] = old[d] /\ new'[d] = new[d]
      BY <3>2, <1>1 DEF IInv, TypeOK
    <3>4. pc'[c] = step /\ old'[c] = cookie[by[c]]
      BY <3>2, <1>1 DEF IInv, TypeOK
    <3> QED
      BY <3>2, <3>3, <3>4, <1>1, EndedKept
  <2>4. ASSUME NEW c \in Calls, ReadRevoked(c) \/ RevokeOne(c) \/ RevokeAll(c)
        PROVE  Ended(f)'
    <3>1. PICK to \in {"revokeFamily", "clear"} : pc' = [pc EXCEPT ![c] = to]
      BY <2>4 DEF ReadRevoked, RevokeOne, RevokeAll, Goto
    <3>2. revoked \subseteq revoked' /\ UNCHANGED <<family, signed, cookie, old, new>>
      BY <2>4 DEF ReadRevoked, RevokeOne, RevokeAll, rows, history
    <3>3. \A d \in Calls : pc'[d] \notin {"read", "create", "sign", "answer"}
              \/ (pc'[d] = pc[d] /\ old'[d] = old[d] /\ new'[d] = new[d])
      BY <3>1, <3>2, <1>1 DEF IInv, TypeOK
    <3> QED
      BY <3>2, <3>3, <1>1, EndedKept
  <2>5. ASSUME NEW c \in Calls, RevokeFamily(c) \/ Clear(c) \/ Fail(c)
        PROVE  Ended(f)'
    <3>1. revoked \subseteq revoked' /\ UNCHANGED <<family, signed>> /\ End(c)
      BY <2>5 DEF RevokeFamily, Clear, Fail, rows, history
    <3>2. \A b \in Browsers : cookie'[b] \in {cookie[b], NoSession}
      BY <2>5, <1>1 DEF RevokeFamily, Clear, Fail, rows, IInv, TypeOK
    <3>3. \A d \in Calls : pc'[d] \notin {"read", "create", "sign", "answer"}
              \/ (pc'[d] = pc[d] /\ old'[d] = old[d] /\ new'[d] = new[d])
      BY <3>1, <1>1, EndEffect DEF IInv
    <3> QED
      BY <3>1, <3>2, <3>3, <1>1, EndedKept
  <2>6. ASSUME NEW c \in Calls, ReadValid(c)
        PROVE  Ended(f)'
    <3>1. /\ pc' = [pc EXCEPT ![c] = "create"] /\ pc[c] = "read" /\ old[c] \in Usable
          /\ UNCHANGED <<family, signed, revoked, cookie, old, new>>
      BY <2>6 DEF ReadValid, Goto, rows
    <3> QED
      BY <3>1, <1>1, EndedKept DEF IInv, TypeOK
  <2>7. ASSUME NEW c \in Calls, CreateRow(c)
        PROVE  Ended(f)'
    <3>1. PICK s \in Sessions \ Rows, g \in Families :
              /\ IF old[c] = NoSession THEN RowsOf(g) = {} ELSE g = family[old[c]]
              /\ family' = [family EXCEPT ![s] = g]
              /\ new'    = [new EXCEPT ![c] = s]
      BY <2>7 DEF CreateRow
    <3>2. /\ pc' = [pc EXCEPT ![c] = "sign"] /\ pc[c] = "create"
          /\ UNCHANGED <<signed, revoked, cookie, old>>
      BY <2>7 DEF CreateRow, Goto
    <3>3. s \notin signed /\ Usable' = Usable /\ Usable \subseteq signed /\ signed \subseteq Rows
      BY <3>1, <3>2, <1>1 DEF Usable, IInv, TypeOK
    <3>4. f # g
      <4>1. CASE old[c] = NoSession
        BY <4>1, <3>1, <1>1 DEF Ended
      <4>2. CASE old[c] # NoSession
        <5>1. Rotating(c) /\ old[c] \in Sessions
          BY <4>2, <3>2, <1>1 DEF Rotating, IInv, TypeOK
        <5> QED
          BY <5>1, <4>2, <3>1, <1>1 DEF Ended, Alive, RowsOf
      <4> QED
        BY <4>1, <4>2
    <3>5. RowsOf(f)' = RowsOf(f)
      BY <3>1, <3>4, <1>1, SessionsAssumption DEF RowsOf, Rows, IInv, TypeOK
    <3>6. s \notin RowsOf(f) /\ \A d \in Calls : Rotating(d)' <=> Rotating(d)
      BY <3>1, <3>2, <1>1, SessionsAssumption DEF RowsOf, Rows, Rotating, IInv, TypeOK
    <3>7. \A d \in Calls : d # c => pc'[d] = pc[d] /\ new'[d] = new[d]
      BY <3>1, <3>2, <1>1 DEF IInv, TypeOK
    <3>8. pc'[c] = "sign" /\ new'[c] = s
      BY <3>1, <3>2, <1>1 DEF IInv, TypeOK
    <3> QED
      BY <3>2, <3>3, <3>5, <3>6, <3>7, <3>8, <1>1 DEF Ended, Alive
  <2>8. ASSUME NEW c \in Calls, SignRow(c)
        PROVE  Ended(f)'
    <3>1. /\ pc' = [pc EXCEPT ![c] = "answer"] /\ pc[c] = "sign"
          /\ signed' = signed \cup {new[c]} /\ revoked \subseteq revoked'
          /\ UNCHANGED <<family, cookie, old, new>>
      BY <2>8 DEF SignRow, Goto
    <3>2. new[c] \notin RowsOf(f)
      BY <3>1, <1>1 DEF Ended, Alive
    <3>3. RowsOf(f)' = RowsOf(f) /\ Usable' \cap RowsOf(f) \subseteq Usable
      BY <3>1, <3>2 DEF RowsOf, Usable
    <3>4. \A d \in Calls : d # c => pc'[d] = pc[d]
      BY <3>1, <1>1 DEF IInv, TypeOK
    <3>5. pc'[c] = "answer"
      BY <3>1, <1>1 DEF IInv, TypeOK
    <3> QED
      BY <3>1, <3>2, <3>3, <3>4, <3>5, <1>1 DEF Ended, Alive, Rotating
  <2>9. ASSUME NEW c \in Calls, Answer(c)
        PROVE  Ended(f)'
    <3>1. /\ pc[c] = "answer" /\ cookie' = [cookie EXCEPT ![by[c]] = new[c]]
          /\ UNCHANGED <<family, signed, revoked>> /\ End(c)
      BY <2>9 DEF Answer, rows
    <3>2. RowsOf(f)' = RowsOf(f) /\ Usable' = Usable
      BY <3>1 DEF RowsOf, Usable
    <3>3. \A b \in Browsers : cookie'[b] \notin Usable \cap RowsOf(f)
      BY <3>1, <1>1 DEF Ended, Alive, IInv, TypeOK
    <3>4. \A d \in Calls : pc'[d] = "idle"
              \/ (pc'[d] = pc[d] /\ old'[d] = old[d] /\ new'[d] = new[d])
      BY <3>1, <1>1, EndEffect DEF IInv
    <3> QED
      BY <3>2, <3>3, <3>4, <1>1 DEF Ended, Alive, Rotating
  <2> QED
    BY <1>1, <2>1, <2>2, <2>3, <2>4, <2>5, <2>6, <2>7, <2>8, <2>9 DEF Next
<1>2. IInv /\ [Next]_vars => [\A f \in Families : Ended(f) => Ended(f)']_vars
  BY <1>1
<1> QED
  BY <1>2, Invariant, PTL DEF Spec, EndedStaysEnded
-------------------------------------------------------------------------------
\* Browser b, or a call it has made, names a row of family f.
Names(b, f) ==
    \/ cookie[b] \in RowsOf(f)
    \/ \E c \in Calls : by[c] = b /\ (old[c] \in RowsOf(f) \/ new[c] \in RowsOf(f))

\* The tokens of a family never leave the browser of its login.
OneBrowser ==
    \A f \in Families, a, b \in Browsers : Names(a, f) /\ Names(b, f) => a = b

\* A step by which nobody comes to name a family, or by which one browser names a new one.
LEMMA NextOneBrowser == IInv /\ OneBrowser /\ [Next]_vars => OneBrowser'
<1> SUFFICES ASSUME IInv, OneBrowser, [Next]_vars
             PROVE  OneBrowser'
  OBVIOUS
<1>1. ASSUME \A f \in Families, b \in Browsers : Names(b, f)' => Names(b, f)
      PROVE  OneBrowser'
  BY <1>1 DEF OneBrowser
<1>2. CASE UNCHANGED vars
  BY <1>1, <1>2 DEF Names, RowsOf, vars, rows
<1>3. ASSUME NEW c \in Calls, Refresh(c) \/ Logout(c) \/ LogoutAll(c)
      PROVE  OneBrowser'
  <2>1. /\ old' = [old EXCEPT ![c] = cookie[by[c]]]
        /\ UNCHANGED <<family, cookie, new>>
    BY <1>3 DEF Refresh, Logout, LogoutAll, Arrive, rows
  <2> QED
    BY <2>1, <1>1 DEF Names, RowsOf, IInv, TypeOK
<1>4. ASSUME NEW c \in Calls,
             Login(c) \/ ReadRevoked(c) \/ ReadValid(c) \/ SignRow(c) \/ RevokeOne(c) \/ RevokeAll(c)
      PROVE  OneBrowser'
  <2>1. UNCHANGED <<family, cookie, old, new>>
    BY <1>4 DEF Login, ReadRevoked, ReadValid, SignRow, RevokeOne, RevokeAll, rows
  <2> QED
    BY <2>1, <1>1 DEF Names, RowsOf
<1>5. ASSUME NEW c \in Calls, RevokeFamily(c) \/ Clear(c) \/ Answer(c) \/ Fail(c)
      PROVE  OneBrowser'
  <2>1. /\ family' = family
        /\ \A b \in Browsers : cookie'[b] # cookie[b] /\ cookie'[b] # NoSession =>
                by[c] = b /\ cookie'[b] = new[c]
    BY <1>5 DEF RevokeFamily, Clear, Answer, Fail, rows, IInv, TypeOK
  <2>2. \A d \in Calls : old'[d] \in {old[d], NoSession} /\ new'[d] \in {new[d], NoSession}
    BY <1>5 DEF RevokeFamily, Clear, Answer, Fail, End, IInv, TypeOK
  <2>3. \A f \in Families : RowsOf(f)' = RowsOf(f) /\ NoSession \notin RowsOf(f)
    BY <2>1, SessionsAssumption DEF RowsOf
  <2> QED
    BY <2>1, <2>2, <2>3, <1>1 DEF Names
<1>6. ASSUME NEW c \in Calls, CreateRow(c)
      PROVE  OneBrowser'
  <2>1. PICK s \in Sessions \ Rows, g \in Families :
            /\ IF old[c] = NoSession THEN RowsOf(g) = {} ELSE g = family[old[c]]
            /\ family' = [family EXCEPT ![s] = g]
            /\ new'    = [new EXCEPT ![c] = s]
    BY <1>6 DEF CreateRow
  <2>2. UNCHANGED <<cookie, old>>
    BY <1>6 DEF CreateRow
  <2>3. \A b \in Browsers : cookie[b] # s
    BY <2>1, SessionsAssumption DEF IInv, TypeOK, TokensAreSigned
  <2>4. \A d \in Calls : old[d] # s /\ new[d] # s
    BY <2>1, SessionsAssumption DEF IInv, TypeOK, TokensAreSigned, Working
  <2>5. \A f \in Families : RowsOf(f)' = IF f = g THEN RowsOf(f) \cup {s} ELSE RowsOf(f)
    BY <2>1, SessionsAssumption DEF RowsOf, Rows, IInv, TypeOK
  <2>6. \A d \in Calls : d # c => new'[d] = new[d]
    BY <2>1 DEF IInv, TypeOK
  <2>7. \A f \in Families, b \in Browsers :
            Names(b, f)' => Names(b, f) \/ (b = by[c] /\ f = g)
    <3> SUFFICES ASSUME NEW f \in Families, NEW b \in Browsers, Names(b, f)',
                        ~(b = by[c] /\ f = g)
                 PROVE  Names(b, f)
      OBVIOUS
    <3>1. CASE cookie'[b] \in RowsOf(f)'
      BY <3>1, <2>2, <2>3, <2>5 DEF Names
    <3>2. ASSUME NEW d \in Calls, by[d] = b, old'[d] \in RowsOf(f)' \/ new'[d] \in RowsOf(f)'
          PROVE  Names(b, f)
      <4>1. CASE d # c
        BY <4>1, <3>2, <2>2, <2>4, <2>5, <2>6 DEF Names
      <4>2. CASE d = c
        <5>1. f # g /\ RowsOf(f)' = RowsOf(f)
          BY <4>2, <3>2, <2>5
        <5>2. new'[c] = s /\ s \notin RowsOf(f)
          BY <2>1, SessionsAssumption DEF RowsOf, Rows, IInv, TypeOK
        <5> QED
          BY <5>1, <5>2, <4>2, <3>2, <2>2 DEF Names
      <4> QED
        BY <4>1, <4>2
    <3> QED
      BY <3>1, <3>2 DEF Names
  <2>8. (\E b \in Browsers : Names(b, g)) => Names(by[c], g)
    <3>1. CASE old[c] = NoSession
      BY <3>1, <2>1 DEF Names
    <3>2. CASE old[c] # NoSession
      BY <3>2, <2>1 DEF Names, RowsOf, IInv, TypeOK
    <3> QED
      BY <3>1, <3>2
  <2>9. by[c] \in Browsers
    BY SessionsAssumption
  <2> QED
    BY <2>7, <2>8, <2>9 DEF OneBrowser
<1> QED
  BY <1>2, <1>3, <1>4, <1>5, <1>6 DEF Next

\* Only the two revocations of a logout lead to the clearing of cookies.
LEMMA ToClear ==
  ASSUME IInv, Next, NEW c \in Calls, pc'[c] = "clear", pc[c] # "clear"
  PROVE  RevokeOne(c) \/ RevokeAll(c)
<1>1. PICK d \in Calls :
        \/ Login(d) \/ Refresh(d) \/ Logout(d) \/ LogoutAll(d)
        \/ ReadRevoked(d) \/ RevokeFamily(d) \/ ReadValid(d)
        \/ CreateRow(d) \/ SignRow(d) \/ Answer(d)
        \/ RevokeOne(d) \/ RevokeAll(d) \/ Clear(d) \/ Fail(d)
  BY DEF Next
<1>2. CASE RevokeOne(d) \/ RevokeAll(d)
  <2>1. pc' = [pc EXCEPT ![d] = "clear"]
    BY <1>2 DEF RevokeOne, RevokeAll, Goto
  <2> QED
    BY <2>1, <1>2 DEF IInv, TypeOK
<1>3. CASE ~(RevokeOne(d) \/ RevokeAll(d))
  <2>1. PICK to \in {"create", "read", "revokeOne", "revokeAll", "revokeFamily", "sign",
                     "answer", "idle"} : pc' = [pc EXCEPT ![d] = to]
    BY <1>1, <1>3 DEF Login, Refresh, Logout, LogoutAll, Arrive, ReadRevoked, RevokeFamily,
       ReadValid, CreateRow, SignRow, Answer, Clear, Fail, Goto, End
  <2> QED
    BY <2>1 DEF IInv, TypeOK
<1> QED
  BY <1>2, <1>3

\* Logging out is final (LogoutEnds): with nothing else under way, its revocation
\* alone, before the cookie is cleared, ends the family; logout-all ends them all.
THEOREM LogoutIsFinal == Spec => LogoutEnds
<1>1. Init => OneBrowser
  BY SessionsAssumption DEF Init, OneBrowser, Names, RowsOf
<1> DEFINE Others(c) == \A d \in Calls \ {c} : pc[d] = "idle"
<1>2. ASSUME IInv, OneBrowser, Next, NEW c \in Calls, pc'[c] = "clear", Others(c),
             pc[c] = "revokeAll"
      PROVE  \A f \in Families : ~Alive(f)'
  <2>1. RevokeAll(c)
    BY <1>2, ToClear DEF RevokeOne, Goto
  <2>2. Usable' = {}
    BY <2>1, <1>2 DEF RevokeAll, Usable, IInv, TypeOK
  <2>3. \A d \in Calls : pc'[d] \in {"idle", "clear"}
    BY <2>1, <1>2 DEF RevokeAll, Goto, IInv, TypeOK
  <2> QED
    BY <2>2, <2>3 DEF Alive, Rotating
<1>3. ASSUME IInv, OneBrowser, Next, NEW c \in Calls, pc'[c] = "clear", Others(c),
             pc[c] = "revokeOne", cookie[by[c]] = old[c]
      PROVE  Ended(family[old[c]])'
  <2>1. RevokeOne(c)
    BY <1>3, ToClear DEF RevokeAll, Goto
  <2> DEFINE f == family[old[c]]
  <2>2. f \in Families /\ old[c] \in RowsOf(f) /\ by[c] \in Browsers
    BY <1>3, SessionsAssumption DEF IInv, TypeOK, Working, TokensAreSigned, Rows, RowsOf
  <2>3. \A b \in Browsers : cookie[b] \in RowsOf(f) => b = by[c]
    BY <2>2, <1>3 DEF OneBrowser, Names
  <2>4. revoked' = revoked \cup {old[c]} /\ UNCHANGED <<family, signed, cookie, old, new>>
    BY <2>1 DEF RevokeOne
  <2>5. \A d \in Calls : pc'[d] \in {"idle", "clear"}
    BY <2>1, <1>3 DEF RevokeOne, Goto, IInv, TypeOK
  <2>6. old[c] \notin Usable' /\ RowsOf(f)' = RowsOf(f)
    BY <2>4 DEF Usable, RowsOf
  <2>7. \A b \in Browsers : cookie[b] \notin Usable' \cap RowsOf(f)
    BY <2>3, <2>6, <1>3
  <2>8. f' = f
    BY <2>4
  <2> HIDE DEF f
  <2>9. Ended(f)'
    BY <2>2, <2>4, <2>5, <2>6, <2>7, <2>8 DEF Ended, Alive, Rotating
  <2> QED
    BY <2>9 DEF f
<1>4. IInv /\ OneBrowser /\ [Next]_vars =>
        [\A c \in Calls :
            pc'[c] = "clear" /\ (\A d \in Calls \ {c} : pc[d] = "idle") =>
                /\ pc[c] = "revokeAll" => \A f \in Families : ~Alive(f)'
                /\ pc[c] = "revokeOne" /\ cookie[by[c]] = old[c] => Ended(family[old[c]])']_vars
  BY <1>2, <1>3
<1> QED
  BY <1>1, <1>4, NextOneBrowser, Invariant, PTL DEF Spec, LogoutEnds
===============================================================================
