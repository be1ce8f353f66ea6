---------------------------- MODULE SignInProofs ----------------------------
(***************************************************************************)
(* Theorems about SignIn for any number of open calls, sign-ins and        *)
(* refreshes.                                                              *)
(*                                                                         *)
(* The argument: the one refresh under way is for the token in the jar,    *)
(* and its answer is a live token or says that the jar's is not            *)
(* (Refreshes).  So as long as nothing is lost and nothing crosses, the    *)
(* session of the tab stays Alive until a logout is done, a user is shown  *)
(* only while it is, and a guest only while it is not or somebody is still *)
(* asking who is signed in (Shown).                                        *)
(***************************************************************************)
EXTENDS SignIn, Integers, TLAPS

Waiting(c) == call[c].at = "waiting"
Refreshing(c) == refresh[c].at # "none"
LoggingOut(c) == call[c].kind = "logout" /\ call[c].at \in {"sent", "ok", "denied"}
Asking(c) == Open(c) /\ call[c].kind \in Refetches

\* One refresh, for the calls that wait for it; the call that started it is one.
OneRefresh ==
    /\ \A c, d \in Calls : Refreshing(c) /\ Refreshing(d) => c = d
    /\ \A c \in Calls : Refreshing(c) => Waiting(c)
    /\ \A c \in Calls : Waiting(c) => \E d \in Calls : Refreshing(d)

\* What a call can be at; only the form's are refused, and a call that is retried has
\* a token, which is enough to be let in.
Places ==
    \A c \in Calls :
        /\ ~Open(c) <=> call[c].kind = "none"
        /\ call[c].at \in {"denied", "waiting"} => call[c].kind \in Guarded /\ call[c].token = NoToken
        /\ call[c].at = "failed" => call[c].kind \in {"code", "verify"}
        /\ call[c].again => /\ call[c].kind \in Guarded
                            /\ call[c].at \in {"sent", "ok"}
                            /\ call[c].at = "sent" => call[c].token # NoToken

\* Tokens are of sign-ins there have been, and a rotation brings one.
Known ==
    /\ jar[1] <= signIns
    /\ \A t \in live : t[1] <= signIns
    /\ \A c \in Calls : call[c].token[1] <= signIns /\ refresh[c].token[1] <= signIns
    /\ \A c \in Calls : refresh[c].at = "ok" => refresh[c].token # NoToken

\* The answer to a verification brings a live token that nobody else has one of the
\* family of.
Unclaimed ==
    \A c \in Calls : call[c].kind = "verify" /\ call[c].at = "ok" =>
        LET family == call[c].token[1] IN
        /\ call[c].token \in live
        /\ family # 0 /\ family # jar[1]
        /\ \A d \in Calls : refresh[d].token[1] # family
        /\ \A d \in Calls \ {c} : call[d].token[1] # family

\* The session of the tab is accepted, or has just been exchanged.
Alive == jar \in live \/ \E c \in Calls : refresh[c].at = "ok"

LoggedOut == \E c \in Calls : call[c].kind = "logout" /\ call[c].at = "ok"

Refreshes ==
    \A c \in Calls :
        /\ refresh[c].at = "sent" => refresh[c].token = jar
        /\ refresh[c].at = "ok" => refresh[c].token \in live
        /\ refresh[c].at = "refused" => jar \notin live

Apart == \A c \in Calls : LoggingOut(c) => \A d \in Calls : ~Refreshing(d) /\ ~Asking(d)

Shown ==
    /\ user => Alive \/ LoggedOut
    /\ fresh => Alive \/ LoggedOut
    /\ Alive /\ ~user => \E c \in Calls : Asking(c)
    /\ \A c \in Calls :
        Asking(c) /\ (call[c].at = "ok" \/ (call[c].at = "sent" /\ call[c].token # NoToken)) => Alive

Untangled == ~tangled => Apart /\ Refreshes /\ Shown

IInv == TypeOK /\ OneRefresh /\ Places /\ Known /\ Unclaimed /\ Untangled

-----------------------------------------------------------------------------
Record == [kind : {"none"} \union Guarded \union OfForm,
           at : {"idle", "sent", "ok", "failed", "denied", "waiting"},
           token : Tokens, again : BOOLEAN, here : BOOLEAN]
Exchange == [at : {"none", "sent", "ok", "refused"}, token : Tokens]

Kinds == {"none", "me", "refetch", "member", "public", "logout", "code", "verify"}

\* What a token, a call and a refresh are made of.
LEMMA TokenFacts ==
  ASSUME SignInAssumption
  PROVE  /\ NoToken \in Tokens
         /\ \A t \in Tokens : t[1] \in Nat /\ t[2] \in Nat /\ t = <<t[1], t[2]>>
         /\ \A t \in Tokens : t # NoToken => t[1] \in 1 .. MaxSignIns /\ t[2] \in 0 .. MaxRotations
         /\ \A s \in 1 .. MaxSignIns, r \in 0 .. MaxRotations : <<s, r>> \in Tokens \ {NoToken}
         /\ NoToken[1] = 0 /\ \A t \in Tokens \ {NoToken} : t[1] # 0
  BY DEF SignInAssumption, Tokens, NoToken

LEMMA Records ==
  ASSUME SignInAssumption, TypeOK
  PROVE  /\ call \in [Calls -> Record] /\ refresh \in [Calls -> Exchange]
         /\ Nothing \in Record /\ NoRefresh \in Exchange
         /\ Access \in Tokens
         /\ \A k \in Kinds \ {"none"}, t \in Tokens, b \in BOOLEAN : Sent(k, t, b) \in Record
  BY TokenFacts DEF TypeOK, Record, Exchange, Nothing, NoRefresh, Access, Sent, Kinds, Guarded, OfForm

LEMMA Entangled ==
  ASSUME NEW b \in BOOLEAN, tangled \in BOOLEAN, Entangle(b)
  PROVE  /\ tangled' \in BOOLEAN
         /\ ~tangled' => ~tangled /\ ~b /\ Apart'
<1>1. Crossing' \in BOOLEAN /\ (~Crossing' => Apart')
  BY DEF Crossing, Apart, LoggingOut, Asking, InFlight, Refreshing
<1>2. tangled' = (tangled \/ b \/ Crossing')
  BY DEF Entangle
<1> QED
  BY <1>1, <1>2

\* The calls of a tab that has just been loaded.
LEMMA OneCall ==
  ASSUME SignInAssumption
  PROVE  \E m \in Calls : Mounted = [c \in Calls |-> IF c = m THEN Sent("me", Access, FALSE) ELSE Nothing]
<1> DEFINE m == CHOOSE c \in Calls : TRUE
<1>1. m \in Calls
  BY DEF SignInAssumption
<1>2. Mounted = [c \in Calls |-> IF c = m THEN Sent("me", Access, FALSE) ELSE Nothing]
  BY <1>1 DEF Mounted
<1> QED
  BY <1>1, <1>2

\* The guard's, the server's or the form's answer to a call.
LEMMA Replied ==
  ASSUME SignInAssumption, TypeOK, NEW c \in Calls,
         NEW at \in {"ok", "failed", "denied", "waiting"}, NEW token \in Tokens,
         call' = [call EXCEPT ![c].at = at, ![c].token = token]
  PROVE  /\ call' \in [Calls -> Record]
         /\ call'[c].kind = call[c].kind /\ call'[c].at = at /\ call'[c].token = token
         /\ call'[c].again = call[c].again
         /\ \A d \in Calls \ {c} : call'[d] = call[d]
<1> DEFINE r == [call[c] EXCEPT !.at = at, !.token = token]
<1>1. call[c] \in Record /\ call \in [Calls -> Record]
  BY Records
<1>2. /\ r \in Record /\ r.kind = call[c].kind /\ r.at = at /\ r.token = token
      /\ r.again = call[c].again
  BY <1>1 DEF Record
<1>3. call' = [call EXCEPT ![c] = r]
  BY <1>1
<1> HIDE DEF r
<1> QED
  BY <1>1, <1>2, <1>3

LEMMA SameRefresh ==
  ASSUME OneRefresh,
         \A d \in Calls : (Waiting(d)' <=> Waiting(d)) /\ (Refreshing(d)' <=> Refreshing(d))
  PROVE  OneRefresh'
  BY DEF OneRefresh

LEMMA InitIInv == ASSUME SignInAssumption, Init PROVE IInv
<1> USE DEF Init
<1>1. PICK m \in Calls :
        call = [c \in Calls |-> IF c = m THEN Sent("me", Access, FALSE) ELSE Nothing]
  BY OneCall
<1>2. /\ signIns \in 0 .. MaxSignIns /\ jar \in Tokens /\ live \subseteq Tokens \ {NoToken}
      /\ jar[1] <= signIns /\ \A t \in live : t[1] <= signIns
      /\ signIns \in Nat
  BY TokenFacts DEF SignInAssumption, NoToken
<1>3. Access \in Tokens /\ Access[1] <= signIns
  BY <1>2, TokenFacts DEF Access
<1>4. TypeOK
  <2>1. Sent("me", Access, FALSE) \in Record /\ Nothing \in Record
    BY <1>3, TokenFacts DEF Record, Sent, Nothing, Guarded, OfForm
  <2>2. call \in [Calls -> Record]
    BY <1>1, <2>1
  <2>3. refresh \in [Calls -> Exchange]
    BY TokenFacts DEF Exchange, NoRefresh
  <2> QED
    BY <1>2, <2>2, <2>3 DEF TypeOK, Record, Exchange
<1>5. /\ \A c \in Calls : refresh[c].at = "none" /\ refresh[c].token = NoToken
      /\ call[m].at = "sent" /\ call[m].kind = "me" /\ call[m].again = FALSE /\ call[m].token = Access
      /\ \A c \in Calls \ {m} : call[c] = Nothing
  BY <1>1 DEF Sent, NoRefresh
<1>6. OneRefresh /\ Places
  BY <1>5 DEF OneRefresh, Refreshing, Waiting, Places, Open, Nothing, Guarded
<1>7. Known /\ Unclaimed
  BY <1>2, <1>3, <1>5, TokenFacts DEF Known, Unclaimed, Nothing
<1>8. Untangled
  <2>1. Apart /\ Refreshes
    BY <1>5 DEF Apart, LoggingOut, Refreshes, Nothing
  <2>2. fresh => Alive
    BY <1>2 DEF Alive, NoToken
  <2>3. Shown
    BY <1>5, <2>2 DEF Shown, Asking, Open, Refetches, Access, Nothing
  <2> QED
    BY <2>1, <2>3 DEF Untangled
<1> QED
  BY <1>4, <1>6, <1>7, <1>8 DEF IInv

\* Untangled, step by step: what a step has to show of a history that stays so.
LEMMA StaysUntangled ==
  ASSUME IInv, NEW b \in BOOLEAN, Entangle(b),
         ASSUME ~tangled', ~tangled, ~b, Apart, Apart', Refreshes, Shown
         PROVE  Refreshes' /\ Shown'
  PROVE  Untangled'
<1>1. CASE tangled'
  BY <1>1 DEF Untangled
<1>2. CASE ~tangled'
  <2>1. ~tangled /\ ~b /\ Apart'
    BY <1>2, Entangled DEF IInv, TypeOK
  <2>2. Apart /\ Refreshes /\ Shown
    BY <2>1 DEF IInv, Untangled
  <2> QED
    BY <1>2, <2>1, <2>2 DEF Untangled
<1> QED
  BY <1>1, <1>2

\* Tokens are copied from the jar or forgotten, nothing else.
LEMMA TokensKept ==
  ASSUME SignInAssumption, TypeOK, Known, Unclaimed,
         UNCHANGED <<signIns, live>>, jar' \in {jar, NoToken},
         \A d \in Calls : /\ call'[d].token \in {call[d].token, jar, NoToken}
                          /\ refresh'[d].token \in {refresh[d].token, jar, NoToken}
                          /\ refresh'[d].at = "ok" => refresh'[d] = refresh[d]
                          /\ call'[d].kind = "verify" /\ call'[d].at = "ok" =>
                               call[d].kind = "verify" /\ call[d].at = "ok" /\ call'[d].token = call[d].token
  PROVE  Known' /\ Unclaimed'
<1>1. /\ NoToken[1] = 0 /\ signIns \in Nat /\ jar[1] <= signIns
      /\ \A d \in Calls : call[d].token[1] <= signIns /\ refresh[d].token[1] <= signIns
  BY TokenFacts DEF Known, TypeOK
<1>2. /\ jar'[1] <= signIns
      /\ \A d \in Calls : call'[d].token[1] <= signIns /\ refresh'[d].token[1] <= signIns
  BY <1>1
<1>3. Known'
  BY <1>2 DEF Known
<1>4. Unclaimed'
  <2> SUFFICES ASSUME NEW c \in Calls, call'[c].kind = "verify", call'[c].at = "ok"
               PROVE  LET family == call'[c].token[1] IN
                      /\ call'[c].token \in live
                      /\ family # 0 /\ family # jar'[1]
                      /\ \A d \in Calls : refresh'[d].token[1] # family
                      /\ \A d \in Calls \ {c} : call'[d].token[1] # family
    BY DEF Unclaimed
  <2>1. call[c].kind = "verify" /\ call[c].at = "ok" /\ call'[c].token = call[c].token
    OBVIOUS
  <2> QED
    BY <1>1, <2>1 DEF Unclaimed
<1> QED
  BY <1>3, <1>4

\* The user does something.
LEMMA StartStep ==
  ASSUME SignInAssumption, IInv, NEW c \in Calls,
         NEW kind \in {"code", "verify", "logout", "public", "member"}, Start(c, kind)
  PROVE  IInv'
<1> USE DEF IInv
<1>0. /\ ~Open(c) /\ call' = [call EXCEPT ![c] = Sent(kind, Access, FALSE)]
      /\ UNCHANGED <<signIns, live, jar, fresh, user, loading, page, step, refresh>>
      /\ Entangle(FALSE)
  BY DEF Start, server, tab
<1>1. /\ call'[c].kind = kind /\ call'[c].at = "sent" /\ call'[c].token = Access
      /\ call'[c].again = FALSE
      /\ \A d \in Calls \ {c} : call'[d] = call[d]
      /\ call[c].at = "idle"
  BY <1>0, Records DEF Sent, Open
<1>2. Access = jar \/ Access = NoToken
  BY DEF Access
<1>3. TypeOK'
  <2>1. call' \in [Calls -> Record]
    BY <1>0, Records DEF Kinds
  <2>2. tangled' \in BOOLEAN
    BY <1>0, Entangled DEF TypeOK
  <2> QED
    BY <1>0, <2>1, <2>2 DEF TypeOK, Record
<1>4. OneRefresh' /\ Places'
  <2>1. OneRefresh'
    BY <1>0, <1>1, SameRefresh DEF Waiting, Refreshing
  <2>2. Places'
    BY <1>1 DEF Places, Open
  <2> QED
    BY <2>1, <2>2
<1>5. Known' /\ Unclaimed'
  BY <1>0, <1>1, <1>2, TokensKept
<1>6. Untangled'
  <2> SUFFICES ASSUME Refreshes, Shown PROVE Refreshes' /\ Shown'
    BY <1>0, StaysUntangled
  <2>1. Refreshes'
    BY <1>0 DEF Refreshes
  <2>2. /\ Alive' <=> Alive
        /\ \A d \in Calls : Asking(d)' <=> Asking(d)
        /\ LoggedOut' <=> LoggedOut
    BY <1>0, <1>1 DEF Alive, Asking, Open, Refetches, LoggedOut, Places
  <2>3. \A d \in Calls : Asking(d) => call'[d] = call[d]
    BY <1>0, <1>1 DEF Asking
  <2>4. Shown'
    BY <1>0, <2>2, <2>3 DEF Shown
  <2> QED
    BY <2>1, <2>4
<1> QED
  BY <1>3, <1>4, <1>5, <1>6

\* A step that changes no call and no token but may let the access token expire.
LEMMA QuietStep ==
  ASSUME SignInAssumption, IInv, ChangePhone \/ Expire
  PROVE  IInv'
<1> USE DEF IInv
<1>0. /\ UNCHANGED <<signIns, live, jar, user, loading, page, call, refresh>>
      /\ fresh' \in BOOLEAN /\ (fresh' => fresh) /\ step' \in {"phone", "code"}
      /\ Entangle(FALSE)
  <2>1. CASE ChangePhone
    BY <2>1 DEF ChangePhone, server, TypeOK
  <2>2. CASE Expire
    BY <2>2 DEF Expire, server, tab, TypeOK
  <2> QED
    BY <2>1, <2>2
<1>1. TypeOK'
  BY <1>0, Entangled DEF TypeOK
<1>2. OneRefresh' /\ Places' /\ Known' /\ Unclaimed'
  BY <1>0 DEF OneRefresh, Refreshing, Waiting, Places, Open, Known, Unclaimed
<1>3. Untangled'
  <2> SUFFICES ASSUME Refreshes, Shown PROVE Refreshes' /\ Shown'
    BY <1>0, StaysUntangled
  <2> QED
    BY <1>0 DEF Refreshes, Shown, Alive, Asking, Open, LoggedOut
<1> QED
  BY <1>1, <1>2, <1>3

\* The form is left: no call but that for a code is forgotten.
LEMMA GoStep ==
  ASSUME SignInAssumption, IInv, Visit \/ Bounce
  PROVE  IInv'
<1> USE DEF IInv
<1>0. /\ \E p \in {"public", "member", "login"} : Go(p)
      /\ UNCHANGED <<signIns, live, jar, fresh, user, loading, refresh>>
      /\ Entangle(FALSE)
  BY DEF Visit, Bounce, server
<1>1. /\ call' = [c \in Calls |-> IF call[c].kind = "code" THEN Nothing
                                  ELSE [call[c] EXCEPT !.here = FALSE]]
      /\ page' \in {"public", "member", "login"} /\ step' \in {"phone", "code"}
  BY <1>0 DEF Go
<1>2. \A c \in Calls :
        /\ call[c].kind = "code" => call'[c] = Nothing
        /\ call[c].kind # "code" =>
             /\ call'[c].kind = call[c].kind /\ call'[c].at = call[c].at
             /\ call'[c].token = call[c].token /\ call'[c].again = call[c].again
  BY <1>1, Records DEF Record
<1>3. TypeOK'
  <2>1. call' \in [Calls -> Record]
    BY <1>1, Records DEF Record
  <2>2. tangled' \in BOOLEAN
    BY <1>0, Entangled DEF TypeOK
  <2> QED
    BY <1>0, <1>1, <2>1, <2>2 DEF TypeOK, Record
<1>4. OneRefresh' /\ Places'
  BY <1>0, <1>2 DEF OneRefresh, Refreshing, Waiting, Places, Open, Nothing, Guarded
<1>5. Known' /\ Unclaimed'
  BY <1>0, <1>2, TokensKept DEF Nothing
<1>6. Untangled'
  <2> SUFFICES ASSUME Refreshes, Shown PROVE Refreshes' /\ Shown'
    BY <1>0, StaysUntangled
  <2>1. Refreshes'
    BY <1>0 DEF Refreshes
  <2>2. /\ Alive' <=> Alive
        /\ \A d \in Calls : Asking(d)' <=> Asking(d)
        /\ LoggedOut' <=> LoggedOut
    BY <1>0, <1>2 DEF Alive, Asking, Open, Refetches, LoggedOut, Nothing
  <2>3. Shown'
    BY <1>0, <1>2, <2>2 DEF Shown, Asking, Refetches
  <2> QED
    BY <2>1, <2>3
<1> QED
  BY <1>3, <1>4, <1>5, <1>6

\* The tab is loaded anew, by the user or because the refresh was refused.
LEMMA LoadStep ==
  ASSUME SignInAssumption, IInv, NEW p \in {"public", "member", "login"}, NEW b \in BOOLEAN,
         Load(p, b), UNCHANGED <<signIns, live, jar, fresh>>,
         ~b /\ ~tangled => ~LoggedOut /\ \A c \in Calls : refresh[c].at \in {"none", "refused"}
  PROVE  IInv'
<1> USE DEF IInv
<1>0. /\ user' = FALSE /\ loading' = TRUE /\ page' = p /\ step' = "phone"
      /\ call' = Mounted /\ refresh' = [c \in Calls |-> NoRefresh] /\ Entangle(b)
  BY DEF Load
<1>1. PICK m \in Calls :
        call' = [c \in Calls |-> IF c = m THEN Sent("me", Access, FALSE) ELSE Nothing]
  BY <1>0, OneCall
<1>2. (Access = jar /\ fresh) \/ Access = NoToken
  BY DEF Access
<1>3. TypeOK'
  <2>1. call' \in [Calls -> Record]
    BY <1>1, Records DEF Kinds
  <2>2. refresh' \in [Calls -> Exchange]
    BY <1>0, Records
  <2> QED
    BY <1>0, <2>1, <2>2, Entangled DEF TypeOK, Record, Exchange
<1>4. /\ \A c \in Calls : refresh'[c].at = "none" /\ refresh'[c].token = NoToken
      /\ call'[m].at = "sent" /\ call'[m].kind = "me" /\ call'[m].again = FALSE
      /\ call'[m].token = Access
      /\ \A c \in Calls \ {m} : call'[c] = Nothing
  BY <1>0, <1>1 DEF Sent, NoRefresh
<1>5. OneRefresh' /\ Places'
  BY <1>4 DEF OneRefresh, Refreshing, Waiting, Places, Open, Nothing, Guarded
<1>6. Known' /\ Unclaimed'
  BY <1>2, <1>4, TokensKept DEF Nothing
<1>7. Untangled'
  <2> SUFFICES ASSUME ~b, ~tangled, Refreshes, Shown PROVE Refreshes' /\ Shown'
    BY <1>0, StaysUntangled
  <2>1. Refreshes'
    BY <1>4 DEF Refreshes
  <2>2. fresh => jar \in live
    BY DEF Shown, Alive
  <2>3. fresh' => Alive'
    BY <2>2 DEF Alive
  <2>4. Shown'
    BY <1>0, <1>2, <1>4, <2>3 DEF Shown, Asking, Open, Refetches, Nothing
  <2> QED
    BY <2>1, <2>4
<1> QED
  BY <1>3, <1>5, <1>6, <1>7

\* The guard lets a call in or turns it down, and a logout ends a session.
LEMMA AuthorizeStep ==
  ASSUME SignInAssumption, IInv, NEW c \in Calls, Authorize(c)
  PROVE  IInv'
<1> USE DEF IInv
<1> DEFINE token == call[c].token
           at == IF token = NoToken THEN "denied" ELSE "ok"
<1>0. /\ call[c].at = "sent" /\ call[c].kind \in Guarded
      /\ call' = [call EXCEPT ![c].at = at, ![c].token = NoToken]
      /\ live' = IF call[c].kind = "logout" THEN live \ {token} ELSE live
      /\ UNCHANGED <<signIns, jar, fresh, user, loading, page, step, refresh>>
      /\ Entangle(FALSE)
  BY DEF Authorize, Reply, tab
<1>A. at \in {"ok", "failed", "denied", "waiting"}
  OBVIOUS
<1>1. /\ call' \in [Calls -> Record]
      /\ call'[c].kind = call[c].kind /\ call'[c].at = at /\ call'[c].token = NoToken
      /\ call'[c].again = call[c].again
      /\ \A d \in Calls \ {c} : call'[d] = call[d]
  <2> HIDE DEF at
  <2> QED
    BY <1>0, <1>A, TokenFacts, Replied
<1>2. TypeOK'
  <2>2. live' \subseteq Tokens \ {NoToken}
    BY <1>0 DEF TypeOK
  <2> QED
    BY <1>0, <1>1, <2>2, Entangled DEF TypeOK, Record
<1>3. OneRefresh' /\ Places'
  <2>1. OneRefresh'
    BY <1>0, <1>1, SameRefresh DEF Waiting, Refreshing
  <2>2. Places'
    BY <1>0, <1>1 DEF Places, Open
  <2> QED
    BY <2>1, <2>2
<1>4. Known'
  BY <1>0, <1>1, TokenFacts DEF Known, TypeOK
<1>5. Unclaimed'
  <2> SUFFICES ASSUME NEW v \in Calls, call'[v].kind = "verify", call'[v].at = "ok"
               PROVE  LET family == call'[v].token[1] IN
                      /\ call'[v].token \in live'
                      /\ family # 0 /\ family # jar[1]
                      /\ \A d \in Calls : refresh[d].token[1] # family
                      /\ \A d \in Calls \ {v} : call'[d].token[1] # family
    BY <1>0 DEF Unclaimed
  <2>1. v # c /\ call'[v] = call[v]
    BY <1>0, <1>1 DEF Guarded
  <2>2. token[1] # call[v].token[1]
    BY <2>1 DEF Unclaimed
  <2> QED
    BY <1>0, <1>1, <2>1, <2>2, TokenFacts DEF Unclaimed
<1>6. Untangled'
  <2> SUFFICES ASSUME Apart', Apart, Refreshes, Shown PROVE Refreshes' /\ Shown'
    BY <1>0, StaysUntangled
  <2>1. CASE call[c].kind = "logout"
    <3>1. \A d \in Calls : ~Refreshing(d) /\ ~Asking(d)
      BY <1>0, <2>1 DEF Apart, LoggingOut
    <3>2. \A d \in Calls : refresh[d].at = "none" /\ refresh'[d].at = "none"
      BY <1>0, <3>1 DEF Refreshing
    <3>3. \A d \in Calls : ~Asking(d)'
      BY <1>0, <1>1, <2>1, <3>1 DEF Asking, Open, Refetches
    <3>4. (jar \in live => Alive' \/ LoggedOut') /\ (LoggedOut => LoggedOut')
      <4>1. CASE token = NoToken
        BY <1>0, <1>1, <2>1, <4>1 DEF Alive, LoggedOut, TypeOK
      <4>2. CASE token # NoToken
        BY <1>1, <2>1, <4>2 DEF LoggedOut
      <4> QED
        BY <4>1, <4>2
    <3>5. (Alive => Alive' \/ LoggedOut') /\ (Alive' => Alive)
      BY <1>0, <3>2, <3>4 DEF Alive
    <3> QED
      BY <1>0, <3>2, <3>1, <3>3, <3>4, <3>5 DEF Refreshes, Shown
  <2>2. CASE call[c].kind # "logout"
    <3>1. /\ Alive' <=> Alive
          /\ \A d \in Calls : Asking(d)' <=> Asking(d)
          /\ LoggedOut' <=> LoggedOut
      BY <1>0, <1>1, <2>2 DEF Alive, Asking, Open, LoggedOut
    <3>2. Refreshes'
      BY <1>0, <2>2 DEF Refreshes
    <3>3. Shown'
      BY <1>0, <1>1, <3>1 DEF Shown
    <3> QED
      BY <3>2, <3>3
  <2> QED
    BY <2>1, <2>2
<1> QED
  BY <1>2, <1>3, <1>4, <1>5, <1>6

\* A verification succeeds: a session of a new family.
LEMMA SignUpStep ==
  ASSUME SignInAssumption, IInv, NEW c \in Calls, SignUp(c)
  PROVE  IInv'
<1> USE DEF IInv
<1> DEFINE new == <<signIns + 1, 0>>
<1>0. /\ call[c].at = "sent" /\ call[c].kind = "verify" /\ signIns < MaxSignIns
      /\ signIns' = signIns + 1
      /\ live' = live \union {new}
      /\ call' = [call EXCEPT ![c].at = "ok", ![c].token = new]
      /\ UNCHANGED <<jar, fresh, user, loading, page, step, refresh>>
      /\ Entangle(FALSE)
  BY DEF SignUp, Reply, tab
<1>2. /\ signIns \in Nat /\ signIns' \in 0 .. MaxSignIns /\ new \in Tokens \ {NoToken}
      /\ new[1] = signIns + 1
  BY <1>0, TokenFacts DEF TypeOK, SignInAssumption
<1>1. /\ call' \in [Calls -> Record]
      /\ call'[c].kind = "verify" /\ call'[c].at = "ok" /\ call'[c].token = new
      /\ call'[c].again = call[c].again
      /\ \A d \in Calls \ {c} : call'[d] = call[d]
  <2> HIDE DEF new
  <2> QED
    BY <1>0, <1>2, Replied
<1>3. TypeOK'
  BY <1>0, <1>1, <1>2, Entangled DEF TypeOK, Record
<1>4. OneRefresh' /\ Places'
  <2>1. OneRefresh'
    BY <1>0, <1>1, SameRefresh DEF Waiting, Refreshing
  <2>2. Places'
    BY <1>0, <1>1 DEF Places, Open, Guarded
  <2> QED
    BY <2>1, <2>2
<1>5. /\ jar[1] \in Nat /\ jar[1] <= signIns
      /\ \A t \in live : t[1] \in Nat /\ t[1] <= signIns
      /\ \A d \in Calls : /\ call[d].token[1] \in Nat /\ call[d].token[1] <= signIns
                          /\ refresh[d].token[1] \in Nat /\ refresh[d].token[1] <= signIns
  BY TokenFacts DEF Known, TypeOK
<1>6. Known' /\ Unclaimed'
  <2>1. Known'
    BY <1>0, <1>1, <1>2, <1>5 DEF Known
  <2>2. Unclaimed'
    BY <1>0, <1>1, <1>2, <1>5 DEF Unclaimed
  <2> QED
    BY <2>1, <2>2
<1>7. Untangled'
  <2> SUFFICES ASSUME Refreshes, Shown PROVE Refreshes' /\ Shown'
    BY <1>0, StaysUntangled
  <2>1. jar # new
    BY <1>2, <1>5
  <2>2. Refreshes'
    BY <1>0, <2>1 DEF Refreshes
  <2>3. /\ Alive' <=> Alive
        /\ \A d \in Calls : Asking(d)' <=> Asking(d)
        /\ LoggedOut' <=> LoggedOut
    BY <1>0, <1>1, <2>1 DEF Alive, Asking, Open, LoggedOut, Refetches
  <2>4. \A d \in Calls : Asking(d) => call'[d] = call[d]
    BY <1>0, <1>1 DEF Asking, Refetches
  <2>5. Shown'
    BY <1>0, <2>3, <2>4 DEF Shown
  <2> QED
    BY <2>2, <2>5
<1> QED
  BY <1>3, <1>4, <1>6, <1>7

\* A code is sent, or the form's input refused.
LEMMA AnswerFormStep ==
  ASSUME SignInAssumption, IInv, NEW c \in Calls, AnswerForm(c)
  PROVE  IInv'
<1> USE DEF IInv
<1>0. PICK at \in {"ok", "failed"} :
      /\ call[c].at = "sent" /\ call[c].kind \in {"code", "verify"}
      /\ call[c].kind = "verify" => at = "failed"
      /\ call' = [call EXCEPT ![c].at = at, ![c].token = NoToken]
      /\ UNCHANGED <<signIns, live, jar, fresh, user, loading, page, step, refresh>>
      /\ Entangle(FALSE)
  BY DEF AnswerForm, Reply, tab, server
<1>A. at \in {"ok", "failed", "denied", "waiting"}
  OBVIOUS
<1>1. /\ call' \in [Calls -> Record]
      /\ call'[c].kind = call[c].kind /\ call'[c].at = at /\ call'[c].token = NoToken
      /\ call'[c].again = call[c].again
      /\ \A d \in Calls \ {c} : call'[d] = call[d]
  BY <1>0, <1>A, TokenFacts, Replied
<1>2. TypeOK'
  BY <1>0, <1>1, Entangled DEF TypeOK, Record
<1>3. OneRefresh' /\ Places'
  <2>1. OneRefresh'
    BY <1>0, <1>1, SameRefresh DEF Waiting, Refreshing
  <2>2. Places'
    BY <1>0, <1>1 DEF Places, Open, Guarded
  <2> QED
    BY <2>1, <2>2
<1>4. Known' /\ Unclaimed'
  BY <1>0, <1>1, TokensKept
<1>5. Untangled'
  <2> SUFFICES ASSUME Refreshes, Shown PROVE Refreshes' /\ Shown'
    BY <1>0, StaysUntangled
  <2>1. Refreshes'
    BY <1>0 DEF Refreshes
  <2>2. /\ Alive' <=> Alive
        /\ \A d \in Calls : Asking(d)' <=> Asking(d)
        /\ LoggedOut' <=> LoggedOut
    BY <1>0, <1>1 DEF Alive, Asking, Open, LoggedOut, Refetches
  <2>3. \A d \in Calls : Asking(d) => call'[d] = call[d]
    BY <1>0, <1>1 DEF Asking, Refetches
  <2>4. Shown'
    BY <1>0, <2>2, <2>3 DEF Shown
  <2> QED
    BY <2>1, <2>4
<1> QED
  BY <1>2, <1>3, <1>4, <1>5

\* The server exchanges the token or refuses to.
LEMMA RotateStep ==
  ASSUME SignInAssumption, IInv, NEW c \in Calls, Rotate(c)
  PROVE  IInv'
<1> USE DEF IInv
<1> DEFINE token == refresh[c].token
           next == <<token[1], token[2] + 1>>
<1>0. /\ refresh[c].at = "sent"
      /\ UNCHANGED <<signIns, jar, fresh, user, loading, page, step, call>>
      /\ Entangle(FALSE)
  BY DEF Rotate, tab
<1>1. PICK e \in Exchange :
        /\ refresh' = [refresh EXCEPT ![c] = e]
        /\ \/ /\ token \in live /\ e = [at |-> "ok", token |-> next]
              /\ next \in Tokens \ {NoToken} /\ next # token /\ next[1] = token[1]
              /\ live' = (live \ {token}) \union {next}
           \/ /\ token \notin live /\ e = [at |-> "refused", token |-> NoToken]
              /\ live' = {t \in live : t[1] # token[1]}
  <2>1. CASE token \in live
    <3>1. token[2] < MaxRotations /\ token \in Tokens \ {NoToken}
      BY <2>1 DEF Rotate, TypeOK
    <3>2. token[1] \in 1 .. MaxSignIns /\ token[2] + 1 \in 0 .. MaxRotations /\ token[2] \in Nat
      BY <3>1, TokenFacts DEF SignInAssumption
    <3>3. next \in Tokens \ {NoToken} /\ next # token /\ next[1] = token[1]
      BY <3>2, TokenFacts
    <3> QED
      BY <2>1, <3>3 DEF Rotate, Exchange
  <2>2. CASE token \notin live
    BY <2>2, TokenFacts DEF Rotate, Exchange
  <2> QED
    BY <2>1, <2>2
<1>2. /\ refresh'[c] = e /\ e.at \in {"ok", "refused"}
      /\ \A d \in Calls \ {c} : refresh'[d] = refresh[d]
      /\ refresh' \in [Calls -> Exchange]
  BY <1>1, Records
<1> HIDE DEF token, next
<1>3. TypeOK'
  <2>1. live' \subseteq Tokens \ {NoToken}
    BY <1>1 DEF TypeOK
  <2> QED
    BY <1>0, <1>2, <2>1, Entangled DEF TypeOK, Exchange
<1>4. OneRefresh' /\ Places'
  <2>1. OneRefresh'
    BY <1>0, <1>2, SameRefresh DEF Waiting, Refreshing
  <2>2. Places'
    BY <1>0 DEF Places, Open
  <2> QED
    BY <2>1, <2>2
<1>5. Known' /\ Unclaimed'
  <2>1. token[1] <= signIns /\ NoToken[1] = 0 /\ signIns \in Nat
    BY TokenFacts DEF Known, TypeOK, token
  <2>2. e.token[1] <= signIns /\ (e.at = "ok" => e.token # NoToken)
    BY <1>1, <2>1
  <2>3. \A t \in live' : t[1] <= signIns
    BY <1>1, <2>1 DEF Known
  <2>4. Known'
    BY <1>0, <1>2, <2>2, <2>3 DEF Known
  <2>5. Unclaimed'
    <3> SUFFICES ASSUME NEW v \in Calls, call[v].kind = "verify", call[v].at = "ok"
                 PROVE  LET family == call[v].token[1] IN
                        /\ call[v].token \in live'
                        /\ family # 0 /\ family # jar[1]
                        /\ \A d \in Calls : refresh'[d].token[1] # family
                        /\ \A d \in Calls \ {v} : call[d].token[1] # family
      BY <1>0 DEF Unclaimed
    <3>1. call[v].token[1] # token[1] /\ call[v].token[1] # 0 /\ call[v].token \in live
      BY DEF Unclaimed, token
    <3>2. call[v].token \in live'
      BY <1>1, <3>1
    <3>3. e.token[1] # call[v].token[1]
      BY <1>1, <2>1, <3>1
    <3> QED
      BY <1>2, <3>1, <3>2, <3>3 DEF Unclaimed
  <2> QED
    BY <2>4, <2>5
<1>6. Untangled'
  <2> SUFFICES ASSUME Refreshes, Shown PROVE Refreshes' /\ Shown'
    BY <1>0, StaysUntangled
  <2>1. /\ token = jar
        /\ \A d \in Calls \ {c} : refresh[d].at = "none" /\ refresh'[d].at = "none"
    BY <1>0, <1>2 DEF Refreshes, OneRefresh, Refreshing, token
  <2>2. Refreshes'
    BY <1>0, <1>1, <1>2, <2>1 DEF Refreshes
  <2>3. Alive' <=> Alive
    BY <1>0, <1>1, <1>2, <2>1 DEF Alive
  <2>4. Shown'
    BY <1>0, <2>3 DEF Shown, Asking, Open, LoggedOut
  <2> QED
    BY <2>2, <2>4
<1> QED
  BY <1>3, <1>4, <1>5, <1>6

\* A 401: the call waits for the refresh, and starts it if there is none.
LEMMA UnauthorizedStep ==
  ASSUME SignInAssumption, IInv, NEW c \in Calls, Unauthorized(c)
  PROVE  IInv'
<1> USE DEF IInv
<1>0. /\ call[c].at = "denied" /\ ~call[c].again
      /\ call' = [call EXCEPT ![c].at = "waiting"]
      /\ TryRefresh(c)
      /\ UNCHANGED <<signIns, live, jar, fresh, user, loading, page, step>>
      /\ Entangle(FALSE)
  BY DEF Unauthorized, server, tab
<1>1. call[c].kind \in Guarded /\ call[c].token = NoToken
  BY <1>0 DEF Places
<1>2. /\ call' \in [Calls -> Record]
      /\ call'[c].kind = call[c].kind /\ call'[c].at = "waiting" /\ call'[c].token = NoToken
      /\ call'[c].again = call[c].again
      /\ \A d \in Calls \ {c} : call'[d] = call[d]
  BY <1>0, <1>1, Records DEF Record
<1>3. \/ /\ \A d \in Calls : ~Refreshing(d)
         /\ refresh' = [refresh EXCEPT ![c] = [at |-> "sent", token |-> jar]]
      \/ /\ \E d \in Calls : Refreshing(d)
         /\ refresh' = refresh
  BY <1>0 DEF TryRefresh, InFlight, Refreshing
<1>4. /\ refresh' \in [Calls -> Exchange]
      /\ \A d \in Calls : \/ refresh'[d] = refresh[d]
                          \/ /\ refresh[d].at = "none"
                             /\ refresh'[d].at = "sent" /\ refresh'[d].token = jar
  BY <1>3, Records DEF Exchange, TypeOK, Refreshing
<1>5. TypeOK'
  BY <1>0, <1>2, <1>4, Entangled DEF TypeOK, Record, Exchange
<1>6. OneRefresh'
  <2>1. CASE \A d \in Calls : ~Refreshing(d)
    <3>1. refresh'[c].at = "sent" /\ \A d \in Calls \ {c} : refresh'[d].at = "none"
      BY <1>3, <2>1, Records DEF Refreshing
    <3>2. \A d \in Calls : ~Waiting(d)
      BY <2>1 DEF OneRefresh
    <3> QED
      BY <1>2, <3>1, <3>2 DEF OneRefresh, Refreshing, Waiting
  <2>2. CASE \E d \in Calls : Refreshing(d)
    BY <1>2, <1>3, <2>2 DEF OneRefresh, Refreshing, Waiting
  <2> QED
    BY <2>1, <2>2
<1>7. Places'
  BY <1>0, <1>1, <1>2 DEF Places, Open
<1>8. Known' /\ Unclaimed'
  BY <1>0, <1>1, <1>2, <1>4, TokensKept
<1>9. Untangled'
  <2> SUFFICES ASSUME Refreshes, Shown PROVE Refreshes' /\ Shown'
    BY <1>0, StaysUntangled
  <2>1. Refreshes'
    BY <1>0, <1>4 DEF Refreshes
  <2>2. /\ Alive' <=> Alive
        /\ \A d \in Calls : Asking(d)' <=> Asking(d)
        /\ LoggedOut' <=> LoggedOut
    BY <1>0, <1>2, <1>4 DEF Alive, Asking, Open, LoggedOut
  <2>3. Shown'
    BY <1>0, <1>2, <2>2 DEF Shown
  <2> QED
    BY <2>1, <2>3
<1> QED
  BY <1>5, <1>6, <1>7, <1>8, <1>9

\* The answer to the refresh: who waited is sent again with the new token.
LEMMA RefreshedStep ==
  ASSUME SignInAssumption, IInv, NEW c \in Calls, Refreshed(c)
  PROVE  IInv'
<1> USE DEF IInv
<1>0. /\ refresh[c].at = "ok"
      /\ jar' = refresh[c].token /\ fresh' = TRUE
      /\ refresh' = [refresh EXCEPT ![c] = NoRefresh]
      /\ call' = [d \in Calls |->
                    IF call[d].at = "waiting"
                    THEN [call[d] EXCEPT !.at = "sent", !.token = jar', !.again = TRUE]
                    ELSE call[d]]
      /\ UNCHANGED <<signIns, live, user, loading, page, step>>
      /\ Entangle(FALSE)
  BY DEF Refreshed, server, tab
<1>1. /\ jar' \in Tokens \ {NoToken} /\ jar'[1] <= signIns
      /\ refresh' \in [Calls -> Exchange]
      /\ \A d \in Calls : /\ refresh'[d].at = "none"
                          /\ refresh'[d].token \in {refresh[d].token, NoToken}
                          /\ d # c => refresh[d].at = "none"
  <2>1. \A d \in Calls \ {c} : refresh[d].at = "none"
    BY <1>0 DEF OneRefresh, Refreshing
  <2>2. jar' \in Tokens \ {NoToken} /\ jar'[1] <= signIns
    BY <1>0, Records DEF Known, Exchange
  <2>3. \A d \in Calls : refresh'[d] = IF d = c THEN NoRefresh ELSE refresh[d]
    BY <1>0, Records
  <2> QED
    BY <1>0, <2>1, <2>2, <2>3, Records DEF NoRefresh
<1>2. /\ call' \in [Calls -> Record]
      /\ \A d \in Calls :
          /\ Waiting(d) => /\ call'[d].at = "sent" /\ call'[d].token = jar' /\ call'[d].again = TRUE
                           /\ call'[d].kind = call[d].kind
          /\ ~Waiting(d) => call'[d] = call[d]
  <2>1. \A d \in Calls : /\ call'[d] \in Record
                         /\ Waiting(d) => /\ call'[d].at = "sent" /\ call'[d].token = jar'
                                          /\ call'[d].again = TRUE /\ call'[d].kind = call[d].kind
                         /\ ~Waiting(d) => call'[d] = call[d]
    <3> TAKE d \in Calls
    <3> DEFINE r == [call[d] EXCEPT !.at = "sent", !.token = jar', !.again = TRUE]
    <3>1. call[d] \in Record
      BY Records
    <3>2. /\ r \in Record /\ r.at = "sent" /\ r.token = jar' /\ r.again = TRUE
          /\ r.kind = call[d].kind
      BY <1>1, <3>1 DEF Record
    <3>3. call'[d] = IF Waiting(d) THEN r ELSE call[d]
      BY <1>0 DEF Waiting
    <3> HIDE DEF r
    <3> QED
      BY <3>1, <3>2, <3>3
  <2> QED
    BY <1>0, <2>1
<1>3. TypeOK'
  BY <1>0, <1>1, <1>2, Entangled DEF TypeOK, Record, Exchange
<1>4. OneRefresh' /\ Places'
  <2>1. \A d \in Calls : ~Waiting(d)' /\ ~Refreshing(d)'
    BY <1>1, <1>2 DEF Waiting, Refreshing
  <2>2. OneRefresh'
    BY <2>1 DEF OneRefresh
  <2>3. Places'
    <3> SUFFICES ASSUME NEW d \in Calls
                 PROVE  /\ ~(call'[d].at # "idle") <=> call'[d].kind = "none"
                        /\ call'[d].at \in {"denied", "waiting"} =>
                             call'[d].kind \in Guarded /\ call'[d].token = NoToken
                        /\ call'[d].at = "failed" => call'[d].kind \in {"code", "verify"}
                        /\ call'[d].again => /\ call'[d].kind \in Guarded
                                             /\ call'[d].at \in {"sent", "ok"}
                                             /\ call'[d].at = "sent" => call'[d].token # NoToken
      BY DEF Places, Open
    <3>1. CASE Waiting(d)
      BY <1>1, <1>2, <3>1 DEF Places, Open, Waiting, Guarded
    <3>2. CASE ~Waiting(d)
      BY <1>2, <3>2 DEF Places, Open
    <3> QED
      BY <3>1, <3>2
  <2> QED
    BY <2>2, <2>3
<1>5. Known' /\ Unclaimed'
  <2>1. NoToken[1] = 0 /\ signIns \in Nat
    BY TokenFacts DEF TypeOK
  <2>2. \A d \in Calls : call'[d].token[1] <= signIns /\ refresh'[d].token[1] <= signIns
    BY <1>1, <1>2, <2>1 DEF Known
  <2>3. Known'
    BY <1>0, <1>1, <2>2 DEF Known
  <2>4. Unclaimed'
    <3> SUFFICES ASSUME NEW v \in Calls, call'[v].kind = "verify", call'[v].at = "ok"
                 PROVE  LET family == call'[v].token[1] IN
                        /\ call'[v].token \in live
                        /\ family # 0 /\ family # jar'[1]
                        /\ \A d \in Calls : refresh'[d].token[1] # family
                        /\ \A d \in Calls \ {v} : call'[d].token[1] # family
      BY <1>0 DEF Unclaimed
    <3>1. ~Waiting(v) /\ call'[v] = call[v]
      BY <1>2
    <3>2. /\ call[v].token \in live /\ call[v].token[1] # 0 /\ call[v].token[1] # jar'[1]
          /\ \A d \in Calls : refresh[d].token[1] # call[v].token[1]
          /\ \A d \in Calls \ {v} : call[d].token[1] # call[v].token[1]
      BY <1>0, <3>1 DEF Unclaimed
    <3>3. \A d \in Calls : refresh'[d].token[1] # call[v].token[1]
      BY <1>1, <2>1, <3>2
    <3>4. \A d \in Calls \ {v} : call'[d].token[1] # call[v].token[1]
      BY <1>2, <3>2
    <3> QED
      BY <3>1, <3>2, <3>3, <3>4
  <2> QED
    BY <2>3, <2>4
<1>6. Untangled'
  <2> SUFFICES ASSUME Refreshes, Shown PROVE Refreshes' /\ Shown'
    BY <1>0, StaysUntangled
  <2>1. Refreshes'
    BY <1>1 DEF Refreshes
  <2>2. Alive /\ Alive'
    BY <1>0 DEF Alive, Refreshes
  <2>3. \A d \in Calls : Asking(d) => Asking(d)'
    BY <1>2 DEF Asking, Open, Waiting
  <2>4. Shown'
    BY <1>0, <2>2, <2>3 DEF Shown
  <2> QED
    BY <2>1, <2>4
<1> QED
  BY <1>3, <1>4, <1>5, <1>6

\* No refresh: whoever waited for it gives up.
LEMMA NotRefreshedStep ==
  ASSUME SignInAssumption, IInv, NEW c \in Calls, NotRefreshed(c)
  PROVE  IInv'
<1> USE DEF IInv
<1> DEFINE kinds == {call[d].kind : d \in {e \in Calls : call[e].at = "waiting"}}
           lost == refresh[c].at # "refused"
<1>0. /\ refresh[c].at # "none"
      /\ UNCHANGED <<signIns, live, jar, fresh>>
  BY DEF NotRefreshed, server
<1>1. \A d \in Calls \ {c} : refresh[d].at = "none"
  BY <1>0 DEF OneRefresh, Refreshing
<1>2. ~tangled => ~LoggedOut
  BY <1>0 DEF Untangled, Apart, LoggingOut, LoggedOut, Refreshing
<1>3. CASE "member" \in kinds
  <2>1. Load("login", lost)
    BY <1>3 DEF NotRefreshed
  <2> QED
    BY <1>0, <1>1, <1>2, <2>1, LoadStep
<1>4. CASE "member" \notin kinds
  <2>0. /\ user' = (user /\ kinds \intersect (Refetches \union {"logout"}) = {})
        /\ loading' = (loading /\ kinds \intersect Refetches = {})
        /\ call' = [d \in Calls |-> IF d \in {e \in Calls : call[e].at = "waiting"} THEN Nothing ELSE call[d]]
        /\ page' \in {page, "public"} /\ step' \in {step, "phone"}
        /\ refresh' = [refresh EXCEPT ![c] = NoRefresh]
        /\ Entangle(lost)
    BY <1>4 DEF NotRefreshed, Caught
  <2>1. /\ user' \in BOOLEAN /\ (user' => user) /\ loading' \in BOOLEAN
    BY <2>0 DEF TypeOK
  <2> HIDE DEF kinds
  <2>2. /\ call' \in [Calls -> Record]
        /\ \A d \in Calls : /\ Waiting(d) => call'[d] = Nothing
                            /\ ~Waiting(d) => call'[d] = call[d]
    BY <2>0, Records DEF Waiting
  <2>3. /\ refresh' \in [Calls -> Exchange]
        /\ \A d \in Calls : /\ refresh'[d].at = "none"
                            /\ refresh'[d].token \in {refresh[d].token, NoToken}
    <3>1. \A d \in Calls : refresh'[d] = IF d = c THEN NoRefresh ELSE refresh[d]
      BY <2>0, Records
    <3> QED
      BY <1>1, <2>0, <3>1, Records DEF NoRefresh
  <2>4. TypeOK'
    BY <1>0, <2>0, <2>1, <2>2, <2>3, Entangled DEF TypeOK, Record, Exchange
  <2>5. OneRefresh' /\ Places'
    <3>1. \A d \in Calls : ~Waiting(d)' /\ ~Refreshing(d)'
      BY <2>2, <2>3 DEF Waiting, Refreshing, Nothing
    <3>2. OneRefresh'
      BY <3>1 DEF OneRefresh
    <3>3. Places'
      BY <2>2 DEF Places, Open, Nothing
    <3> QED
      BY <3>2, <3>3
  <2>6. Known' /\ Unclaimed'
    BY <1>0, <2>2, <2>3, TokensKept DEF Nothing
  <2>7. Untangled'
    <3> SUFFICES ASSUME ~tangled, ~lost, Refreshes, Shown PROVE Refreshes' /\ Shown'
      BY <2>0, StaysUntangled
    <3>1. Refreshes'
      BY <2>3 DEF Refreshes
    <3>2. ~Alive /\ ~Alive'
      BY <1>0, <1>1, <2>3 DEF Alive, Refreshes
    <3>3. ~user' /\ ~fresh'
      BY <1>0, <1>2, <2>1, <3>2 DEF Shown
    <3>4. \A d \in Calls : Asking(d)' /\ (call'[d].at = "ok" \/ (call'[d].at = "sent" /\ call'[d].token # NoToken))
            => Asking(d) /\ call'[d] = call[d]
      BY <2>2 DEF Asking, Open, Nothing
    <3>5. Shown'
      BY <3>2, <3>3, <3>4 DEF Shown
    <3> QED
      BY <3>1, <3>5
  <2> QED
    BY <2>4, <2>5, <2>6, <2>7
<1> QED
  BY <1>3, <1>4

\* A call that is over: the form's page may change, which forgets the call for a code.
LEMMA Closed ==
  ASSUME SignInAssumption, IInv, NEW c \in Calls, ~Waiting(c), Close(c),
         UNCHANGED <<signIns, live, refresh>>, jar' \in {jar, NoToken}
  PROVE  /\ call' \in [Calls -> Record]
         /\ page' \in {page, "public"} /\ step' \in {step, "phone"}
         /\ call'[c] = Nothing
         /\ \A d \in Calls \ {c} :
              \/ call[d].kind = "code" /\ call'[d] = Nothing
              \/ /\ call'[d].kind = call[d].kind /\ call'[d].at = call[d].at
                 /\ call'[d].token = call[d].token /\ call'[d].again = call[d].again
         /\ OneRefresh' /\ Places' /\ Known' /\ Unclaimed'
<1> USE DEF IInv
<1>1. \/ /\ page' = page /\ step' = step
         /\ call' = [d \in Calls |-> IF d = c THEN Nothing ELSE call[d]]
      \/ /\ page' = "public" /\ step' = "phone"
         /\ call' = [d \in Calls |-> IF d = c \/ call[d].kind = "code" THEN Nothing
                                     ELSE [call[d] EXCEPT !.here = FALSE]]
  <2>1. CASE call[c].kind = "refetch"
    BY <2>1 DEF Close
  <2>2. CASE call[c].kind # "refetch"
    BY <2>2, Records DEF Close
  <2> QED
    BY <2>1, <2>2
<1>2. \A d \in Calls : /\ call'[d] \in Record
                       /\ d = c => call'[d] = Nothing
                       /\ d # c => \/ call[d].kind = "code" /\ call'[d] = Nothing
                                   \/ /\ call'[d].kind = call[d].kind /\ call'[d].at = call[d].at
                                      /\ call'[d].token = call[d].token
                                      /\ call'[d].again = call[d].again
  <2> TAKE d \in Calls
  <2>1. call[d] \in Record /\ [call[d] EXCEPT !.here = FALSE] \in Record /\ Nothing \in Record
    BY Records DEF Record
  <2>2. CASE call'[d] = Nothing /\ (d = c \/ call[d].kind = "code")
    BY <2>1, <2>2
  <2>3. CASE d # c /\ call'[d] = call[d]
    BY <2>1, <2>3
  <2>4. CASE d # c /\ call'[d] = [call[d] EXCEPT !.here = FALSE]
    <3>1. PICK r \in Record : r = call[d]
      BY <2>1
    <3>2. call'[d].kind = r.kind /\ call'[d].at = r.at /\ call'[d].token = r.token
          /\ call'[d].again = r.again
      BY <2>4, <3>1 DEF Record
    <3> QED
      BY <2>1, <2>4, <3>1, <3>2
  <2> QED
    BY <1>1, <2>2, <2>3, <2>4
<1>3. call' \in [Calls -> Record]
  BY <1>1, <1>2
<1>4. OneRefresh'
  <2>1. \A d \in Calls : Waiting(d)' <=> Waiting(d)
    BY <1>2 DEF Waiting, Nothing, Places, Guarded
  <2> QED
    BY <2>1, SameRefresh DEF Refreshing
<1>5. Places'
  BY <1>2 DEF Places, Open, Nothing
<1>6. Known' /\ Unclaimed'
  BY <1>2, TokensKept DEF Nothing
<1> QED
  BY <1>1, <1>2, <1>3, <1>4, <1>5, <1>6

\* The call fails for good.
LEMMA FailStep ==
  ASSUME SignInAssumption, IInv, NEW c \in Calls, Fail(c)
  PROVE  IInv'
<1> USE DEF IInv
<1> DEFINE lost == call[c].at \in {"sent", "ok"} /\ call[c].kind \in Refetches \union {"logout"}
<1>0. /\ call[c].at \in {"sent", "ok", "failed"}
      /\ user' = (user /\ {call[c].kind} \intersect (Refetches \union {"logout"}) = {})
      /\ loading' = (loading /\ {call[c].kind} \intersect Refetches = {})
      /\ Close(c) /\ ~Waiting(c)
      /\ UNCHANGED <<signIns, live, jar, fresh, refresh>>
      /\ Entangle(lost)
  <2>1. ~(call[c].at = "denied" /\ call[c].again)
    BY DEF Places
  <2> QED
    BY <2>1 DEF Fail, Caught, server, Waiting
<1>1. /\ call' \in [Calls -> Record]
      /\ page' \in {page, "public"} /\ step' \in {step, "phone"}
      /\ call'[c] = Nothing
      /\ \A d \in Calls \ {c} :
           \/ call[d].kind = "code" /\ call'[d] = Nothing
           \/ /\ call'[d].kind = call[d].kind /\ call'[d].at = call[d].at
              /\ call'[d].token = call[d].token /\ call'[d].again = call[d].again
      /\ OneRefresh' /\ Places' /\ Known' /\ Unclaimed'
  BY <1>0, Closed
<1>2. TypeOK'
  BY <1>0, <1>1, Entangled DEF TypeOK, Record
<1>3. Untangled'
  <2> SUFFICES ASSUME ~lost, Refreshes, Shown PROVE Refreshes' /\ Shown'
    BY <1>0, StaysUntangled
  <2>1. call[c].kind \notin Refetches \union {"logout"}
    BY <1>0 DEF Places, Refetches
  <2>2. user' = user
    BY <1>0, <2>1 DEF TypeOK
  <2>3. Refreshes'
    BY <1>0 DEF Refreshes
  <2>4. /\ Alive' <=> Alive
        /\ \A d \in Calls : Asking(d)' <=> Asking(d)
        /\ LoggedOut' <=> LoggedOut
    BY <1>0, <1>1, <2>1 DEF Alive, Asking, Open, LoggedOut, Nothing, Refetches
  <2>5. Shown'
    BY <1>0, <1>1, <2>1, <2>2, <2>4 DEF Shown, Asking, Refetches
  <2> QED
    BY <2>3, <2>5
<1> QED
  BY <1>1, <1>2, <1>3

\* The code is right: the tab has the cookies of a new sign-in and asks who it is.
LEMMA VerifiedStep ==
  ASSUME SignInAssumption, IInv, NEW c \in Calls,
         call[c].kind = "verify", call[c].at = "ok",
         jar' = call[c].token, fresh' = TRUE,
         call' = [call EXCEPT ![c] = [Sent("refetch", jar', FALSE) EXCEPT !.here = call[c].here]],
         UNCHANGED <<signIns, live, user, loading, page, step, refresh>>,
         Entangle(InFlight # {})
  PROVE  IInv'
<1> USE DEF IInv
<1> DEFINE r == [Sent("refetch", jar', FALSE) EXCEPT !.here = call[c].here]
<1>1. /\ call[c].token \in live /\ call[c].token[1] # 0
      /\ \A d \in Calls : refresh[d].token[1] # call[c].token[1]
      /\ \A d \in Calls \ {c} : call[d].token[1] # call[c].token[1]
  BY DEF Unclaimed
<1>2. jar' \in Tokens /\ jar' \in live /\ jar'[1] <= signIns
  BY <1>1 DEF TypeOK, Known
<1>3. /\ r \in Record /\ r.kind = "refetch" /\ r.at = "sent" /\ r.token = jar' /\ r.again = FALSE
  <2> DEFINE s == Sent("refetch", jar', FALSE)
  <2>1. call[c].here \in BOOLEAN
    BY Records DEF Record
  <2>2. s \in Record
    BY <1>2, Records DEF Kinds
  <2>3. s.kind = "refetch" /\ s.at = "sent" /\ s.token = jar' /\ s.again = FALSE
    BY DEF Sent
  <2> HIDE DEF s
  <2>4. r = [s EXCEPT !.here = call[c].here]
    BY DEF s
  <2> HIDE DEF r
  <2> QED
    BY <2>1, <2>2, <2>3, <2>4 DEF Record
<1>4. /\ call' \in [Calls -> Record] /\ call'[c] = r
      /\ \A d \in Calls \ {c} : call'[d] = call[d]
  <2> HIDE DEF r
  <2>1. call' = [call EXCEPT ![c] = r]
    BY DEF r
  <2> QED
    BY <1>3, <2>1, Records
<1> HIDE DEF r
<1>5. TypeOK'
  BY <1>2, <1>4, Entangled DEF TypeOK, Record
<1>6. OneRefresh' /\ Places'
  <2>1. OneRefresh'
    BY <1>3, <1>4, SameRefresh DEF Waiting, Refreshing
  <2>2. Places'
    BY <1>3, <1>4 DEF Places, Open
  <2> QED
    BY <2>1, <2>2
<1>7. Known'
  BY <1>2, <1>3, <1>4 DEF Known
<1>8. Unclaimed'
  <2> SUFFICES ASSUME NEW v \in Calls, call'[v].kind = "verify", call'[v].at = "ok"
               PROVE  LET family == call'[v].token[1] IN
                      /\ call'[v].token \in live
                      /\ family # 0 /\ family # jar'[1]
                      /\ \A d \in Calls : refresh[d].token[1] # family
                      /\ \A d \in Calls \ {v} : call'[d].token[1] # family
    BY DEF Unclaimed
  <2>1. v # c /\ call'[v] = call[v]
    BY <1>3, <1>4
  <2>2. /\ call[v].token \in live /\ call[v].token[1] # 0
        /\ \A d \in Calls : refresh[d].token[1] # call[v].token[1]
        /\ \A d \in Calls \ {v} : call[d].token[1] # call[v].token[1]
    BY <2>1 DEF Unclaimed
  <2>3. call[c].token[1] # call[v].token[1]
    BY <2>1, <2>2
  <2>4. \A d \in Calls \ {v} : call'[d].token[1] # call[v].token[1]
    <3> TAKE d \in Calls \ {v}
    <3>1. CASE d = c
      <4>1. call'[d].token = jar' /\ jar' = call[c].token
        BY <1>1, <1>3, <1>4, <3>1
      <4> QED
        BY <2>3, <4>1
    <3>2. CASE d # c
      BY <1>4, <2>2, <3>2
    <3> QED
      BY <3>1, <3>2
  <2> QED
    BY <2>1, <2>2, <2>3, <2>4
<1>9. Untangled'
  <2> SUFFICES ASSUME ~(InFlight # {}), Refreshes, Shown PROVE Refreshes' /\ Shown'
    BY StaysUntangled
  <2>1. Refreshes'
    BY DEF InFlight, Refreshes
  <2>2. Alive'
    BY <1>2 DEF Alive
  <2>3. Asking(c)'
    BY <1>3, <1>4 DEF Asking, Open, Refetches
  <2>4. Shown'
    BY <2>2, <2>3 DEF Shown
  <2> QED
    BY <2>1, <2>4
<1> QED
  BY <1>5, <1>6, <1>7, <1>8, <1>9

\* An answer is taken.
LEMMA SucceedStep ==
  ASSUME SignInAssumption, IInv, NEW c \in Calls, Succeed(c)
  PROVE  IInv'
<1> USE DEF IInv
<1> DEFINE kind == call[c].kind
<1>0. /\ call[c].at = "ok" /\ ~Waiting(c)
      /\ UNCHANGED <<signIns, live, refresh>>
      /\ Entangle(kind = "verify" /\ InFlight # {})
  BY DEF Succeed, server, Waiting
<1>1. CASE kind = "verify"
  <2>1. /\ jar' = call[c].token /\ fresh' = TRUE
        /\ call' = [call EXCEPT ![c] = [Sent("refetch", jar', FALSE) EXCEPT !.here = call[c].here]]
        /\ UNCHANGED <<user, loading, page, step>>
    BY <1>1 DEF Succeed, tab, Refetches
  <2> QED
    BY <1>0, <1>1, <2>1, VerifiedStep
<1>2. CASE kind = "code"
  <2>1. /\ step' = "code" /\ call' = [call EXCEPT ![c] = Nothing]
        /\ UNCHANGED <<jar, fresh, user, loading, page>>
    BY <1>2 DEF Succeed, Refetches
  <2>2. /\ call' \in [Calls -> Record] /\ call'[c] = Nothing
        /\ \A d \in Calls \ {c} : call'[d] = call[d]
    BY <2>1, Records
  <2>3. TypeOK'
    BY <1>0, <2>1, <2>2, Entangled DEF TypeOK, Record
  <2>4. OneRefresh'
    BY <1>0, <2>2, SameRefresh DEF Waiting, Refreshing, Nothing
  <2>5. Places'
    BY <2>2 DEF Places, Open, Nothing
  <2>6. Known' /\ Unclaimed'
    BY <1>0, <2>1, <2>2, TokensKept DEF Nothing
  <2>7. Untangled'
    <3> SUFFICES ASSUME Refreshes, Shown PROVE Refreshes' /\ Shown'
      BY <1>0, <1>2, StaysUntangled
    <3>1. Refreshes'
      BY <1>0, <2>1 DEF Refreshes
    <3>2. /\ Alive' <=> Alive
          /\ \A d \in Calls : Asking(d)' <=> Asking(d)
          /\ LoggedOut' <=> LoggedOut
      BY <1>0, <1>2, <2>1, <2>2 DEF Alive, Asking, Open, LoggedOut, Nothing, Refetches
    <3>3. Shown'
      BY <1>0, <1>2, <2>1, <2>2, <3>2 DEF Shown, Asking, Refetches
    <3> QED
      BY <3>1, <3>3
  <2> QED
    BY <2>3, <2>4, <2>5, <2>6, <2>7
<1>3. CASE kind \notin {"verify", "code"}
  <2>1. /\ Close(c)
        /\ \/ kind \in Refetches /\ user' = TRUE /\ loading' = FALSE /\ UNCHANGED <<jar, fresh>>
           \/ /\ kind = "logout" /\ jar' = NoToken /\ fresh' = FALSE /\ user' = FALSE
              /\ UNCHANGED loading
           \/ kind \in {"member", "public"} /\ UNCHANGED <<jar, fresh, user, loading>>
    BY <1>3 DEF Succeed
  <2>2. /\ call' \in [Calls -> Record]
        /\ page' \in {page, "public"} /\ step' \in {step, "phone"}
        /\ call'[c] = Nothing
        /\ \A d \in Calls \ {c} :
             \/ call[d].kind = "code" /\ call'[d] = Nothing
             \/ /\ call'[d].kind = call[d].kind /\ call'[d].at = call[d].at
                /\ call'[d].token = call[d].token /\ call'[d].again = call[d].again
        /\ OneRefresh' /\ Places' /\ Known' /\ Unclaimed'
    <3>1. jar' \in {jar, NoToken}
      BY <2>1
    <3> QED
      BY <1>0, <2>1, <3>1, Closed
  <2>3. TypeOK'
    BY <1>0, <2>1, <2>2, TokenFacts, Entangled DEF TypeOK, Record
  <2>4. Untangled'
    <3> SUFFICES ASSUME Apart, Refreshes, Shown PROVE Refreshes' /\ Shown'
      BY <1>0, <1>3, StaysUntangled
    <3>1. CASE kind \in Refetches
      <4>1. Alive
        BY <1>0, <3>1 DEF Shown, Asking, Open
      <4>2. Alive' /\ user' = TRUE
        BY <1>0, <2>1, <3>1, <4>1 DEF Alive, Refetches
      <4>3. Refreshes'
        BY <1>0, <2>1, <3>1 DEF Refreshes, Refetches
      <4> QED
        BY <4>2, <4>3 DEF Shown
    <3>2. CASE kind = "logout"
      <4>1. \A d \in Calls : refresh[d].at = "none" /\ ~Asking(d)
        BY <1>0, <3>2 DEF Apart, LoggingOut, Refreshing
      <4>2. \A d \in Calls : ~Asking(d)'
        BY <2>2, <4>1 DEF Asking, Open, Nothing
      <4>3. ~Alive' /\ ~user' /\ ~fresh'
        BY <1>0, <2>1, <3>2, <4>1 DEF Alive, Refetches, TypeOK
      <4>4. Refreshes'
        BY <1>0, <4>1 DEF Refreshes
      <4> QED
        BY <4>2, <4>3, <4>4 DEF Shown
    <3>3. CASE kind \in {"member", "public"}
      <4>1. UNCHANGED <<jar, fresh, user>>
        BY <2>1, <3>3 DEF Refetches
      <4>2. Refreshes'
        BY <1>0, <4>1 DEF Refreshes
      <4>3. /\ Alive' <=> Alive
            /\ \A d \in Calls : Asking(d)' <=> Asking(d)
            /\ LoggedOut' <=> LoggedOut
        BY <1>0, <2>2, <3>3, <4>1 DEF Alive, Asking, Open, LoggedOut, Nothing, Refetches
      <4>4. Shown'
        BY <2>2, <3>3, <4>1, <4>3 DEF Shown, Asking, Refetches
      <4> QED
        BY <4>2, <4>4
    <3> QED
      BY <2>1, <3>1, <3>2, <3>3
  <2> QED
    BY <2>2, <2>3, <2>4
<1> QED
  BY <1>1, <1>2, <1>3

LEMMA NextKeepsIInv ==
  ASSUME SignInAssumption, IInv, [Next]_vars
  PROVE  IInv'
<1>1. CASE UNCHANGED vars
  BY <1>1 DEF vars, server, tab, IInv, TypeOK, OneRefresh, Places, Known, Unclaimed, Untangled,
              Apart, Refreshes, Shown, Alive, LoggedOut, LoggingOut, Asking, Open, Waiting, Refreshing
<1>2. CASE Visit \/ Bounce
  BY <1>2, GoStep
<1>3. CASE Reload
  <2>1. Load(page, InFlight # {} \/ \E c \in Calls : call[c].kind = "logout")
    BY <1>3 DEF Reload
  <2> QED
    BY <1>3, <2>1, LoadStep DEF Reload, server, InFlight, LoggedOut, IInv, TypeOK
<1>4. CASE ChangePhone \/ Expire
  BY <1>4, QuietStep
<1>5. CASE \E c \in Calls : \/ HandleRequestCode(c) \/ HandleVerify(c) \/ Logout(c)
                            \/ FetchCategories(c) \/ FetchMembers(c)
  BY <1>5, StartStep DEF HandleRequestCode, HandleVerify, Logout, FetchCategories, FetchMembers
<1>6. CASE \E c \in Calls : Authorize(c) \/ SignUp(c) \/ AnswerForm(c) \/ Rotate(c)
  BY <1>6, AuthorizeStep, SignUpStep, AnswerFormStep, RotateStep
<1>7. CASE \E c \in Calls : \/ Unauthorized(c) \/ Succeed(c) \/ Fail(c)
                            \/ Refreshed(c) \/ NotRefreshed(c)
  BY <1>7, UnauthorizedStep, SucceedStep, FailStep, RefreshedStep, NotRefreshedStep
<1> QED
  BY <1>1, <1>2, <1>3, <1>4, <1>5, <1>6, <1>7 DEF Next

\* Nobody is asking and no refresh is under way once no call is open.
LEMMA IInvShows ==
  ASSUME IInv
  PROVE  ShownIsTrue
<1> SUFFICES ASSUME ~tangled, \A c \in Calls : ~Open(c)
             PROVE  user <=> jar \in live
  BY DEF ShownIsTrue
<1>1. Shown /\ \A c \in Calls : ~Asking(c) /\ ~Waiting(c) /\ call[c].at = "idle"
  BY DEF IInv, Untangled, Asking, Waiting, Open
<1>2. \A c \in Calls : refresh[c].at = "none"
  BY <1>1 DEF IInv, OneRefresh, Refreshing
<1>3. ~LoggedOut /\ (Alive <=> jar \in live)
  BY <1>1, <1>2 DEF LoggedOut, Alive
<1> QED
  BY <1>1, <1>3 DEF Shown, IInv, TypeOK

LEMMA SpecKeepsIInv == ASSUME SignInAssumption PROVE Spec => []IInv
  BY InitIInv, NextKeepsIInv, PTL DEF Spec

\* Every variable of the tab and the server keeps its type.
THEOREM TypeCorrect == ASSUME SignInAssumption PROVE Spec => []TypeOK
<1>1. IInv => TypeOK
  BY DEF IInv
<1> QED
  BY <1>1, SpecKeepsIInv, PTL

\* The tab of lib/auth-context.tsx and lib/api-client.ts: once no call is open it shows
\* a user exactly when the browser holds a token the server accepts, for any number
\* of calls at once, sign-ins and refreshes.
THEOREM ShownIsTrueAlways == ASSUME SignInAssumption PROVE Spec => []ShownIsTrue
  BY SpecKeepsIInv, IInvShows, PTL
=============================================================================
