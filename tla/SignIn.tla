-------------------------------- MODULE SignIn --------------------------------
(***************************************************************************)
(* What one browser tab knows of its login (lib/auth-context.tsx), the     *)
(* client that keeps it logged in (lib/api-client.ts: a 401 is answered by *)
(* one refresh that all open calls share, and one retry), the form that    *)
(* logs it in (otp-form.tsx) and the pages that need a login.  Sessions    *)
(* models the server's side of tokens, several tabs and browsers; here a   *)
(* rotation is one step, since a tab has one refresh under way at a time.  *)
(***************************************************************************)
EXTENDS Naturals

CONSTANTS
    Calls,          \* apiFetch calls that can be open at once
    MaxSignIns,     \* bound on the times a code is verified
    MaxRotations    \* bound on the refreshes of one sign-in

SignInAssumption == Calls # {} /\ MaxSignIns \in Nat /\ MaxRotations \in Nat

VARIABLES
    signIns,    \* sign-ins so far: the families of sessions
    live,       \* refresh tokens the server accepts
    jar,        \* refresh_token in the browser
    fresh,      \* access_token is in the browser and has not expired
    user,       \* AuthProvider: a user is shown
    loading,    \* AuthProvider: the first /auth/me is not answered
    page,       \* the page in the tab
    step,       \* OtpForm: step
    call,       \* the calls of apiFetch
    refresh,    \* refreshes by the call that started them
    tangled     \* history: an answer that changes the login was lost, or two met

server == <<signIns, live>>
tab == <<user, loading, page, step>>
vars == <<server, jar, fresh, tab, call, refresh, tangled>>

\* A refresh token: the sign-in and the number of rotations since.  Both cookies
\* name the same session, so the token stands for the access token's sid too.
NoToken == <<0, 0>>
Tokens == {NoToken} \union ((1 .. MaxSignIns) \X (0 .. MaxRotations))

Refetches == {"me", "refetch"}      \* GET /auth/me: on mount, after a verification
OfForm == {"code", "verify", "refetch"}
Guarded == {"me", "refetch", "member", "public", "logout"}    \* routes that are not @Public

Nothing == [kind |-> "none", at |-> "idle", token |-> NoToken, again |-> FALSE, here |-> FALSE]
NoRefresh == [at |-> "none", token |-> NoToken]

\* A request leaves with the cookies of the moment.
Sent(kind, token, again) ==
    [kind |-> kind, at |-> "sent", token |-> token, again |-> again, here |-> kind \in OfForm]
Access == IF fresh THEN jar ELSE NoToken

Open(c) == call[c].at # "idle"
InFlight == {c \in Calls : refresh[c].at # "none"}      \* refreshInFlight
Pending == \E c \in Calls : call[c].here                \* OtpForm: pending

\* A logout on its way while another answer may set the user or the cookies.
Crossing ==
    \E c \in Calls :
        /\ call[c].kind = "logout" /\ call[c].at \in {"sent", "ok", "denied"}
        /\ InFlight # {} \/ \E d \in Calls : Open(d) /\ call[d].kind \in Refetches

Entangle(b) == tangled' = (tangled \/ b \/ Crossing')

\* AuthProvider's effect on mount; which of the calls it is is of no consequence.
Mounted ==
    [[c \in Calls |-> Nothing] EXCEPT ![CHOOSE c \in Calls : TRUE] = Sent("me", Access, FALSE)]

\* The site is opened, with or without a session from before.
Init ==
    /\ signIns \in 0 .. MaxSignIns /\ signIns <= 1
    /\ jar = IF signIns = 0 THEN NoToken ELSE <<1, 0>>
    /\ live = {jar} \ {NoToken}
    /\ fresh \in BOOLEAN /\ (fresh => signIns = 1)
    /\ user = FALSE /\ loading = TRUE
    /\ page \in {"public", "member", "login"} /\ step = "phone"
    /\ call = Mounted
    /\ refresh = [c \in Calls |-> NoRefresh]
    /\ tangled = FALSE
-------------------------------------------------------------------------------
(* The user and the pages. *)

Start(c, kind) ==
    /\ ~Open(c)
    /\ call' = [call EXCEPT ![c] = Sent(kind, Access, FALSE)]
    /\ UNCHANGED <<server, jar, fresh, tab, refresh>>
    /\ Entangle(FALSE)

HandleRequestCode(c) == page = "login" /\ step = "phone" /\ ~Pending /\ Start(c, "code")
HandleVerify(c) == page = "login" /\ step = "code" /\ ~Pending /\ Start(c, "verify")
Logout(c) == ~loading /\ user /\ Start(c, "logout")

\* The public list asks for the categories and never redirects.
FetchCategories(c) == page = "public" /\ Start(c, "public")

\* A member's page makes its calls once a user is shown, and redirects.
FetchMembers(c) == page = "member" /\ ~loading /\ user /\ Start(c, "member")

ChangePhone ==
    /\ page = "login" /\ step = "code" /\ ~Pending
    /\ step' = "phone"
    /\ UNCHANGED <<server, jar, fresh, user, loading, page, call, refresh>>
    /\ Entangle(FALSE)

\* A link.  The form's calls go on without it: that a code was sent is then of no
\* consequence, a verification goes on to refetch the user and push /requests.
Go(p) ==
    /\ page' = p /\ step' = "phone"
    /\ call' = [c \in Calls |-> IF call[c].kind = "code" THEN Nothing
                                ELSE [call[c] EXCEPT !.here = FALSE]]

Visit ==
    /\ \E p \in {"public", "member", "login"} \ {page} : Go(p)
    /\ UNCHANGED <<server, jar, fresh, user, loading, refresh>>
    /\ Entangle(FALSE)

\* A member's page sends whoever is not signed in to /login.
Bounce ==
    /\ page = "member" /\ ~loading /\ ~user
    /\ Go("login")
    /\ UNCHANGED <<server, jar, fresh, user, loading, refresh>>
    /\ Entangle(FALSE)

\* The tab is loaded anew; calls of the old page are aborted.
Load(p, b) ==
    /\ user' = FALSE /\ loading' = TRUE /\ page' = p /\ step' = "phone"
    /\ call' = Mounted
    /\ refresh' = [c \in Calls |-> NoRefresh]
    /\ Entangle(b)

Reload ==
    /\ Load(page, InFlight # {} \/ \E c \in Calls : call[c].kind = "logout")
    /\ UNCHANGED <<server, jar, fresh>>

\* Fifteen minutes without a refresh.
Expire ==
    /\ fresh /\ fresh' = FALSE
    /\ UNCHANGED <<server, jar, tab, call, refresh>>
    /\ Entangle(FALSE)
-------------------------------------------------------------------------------
(* The server. *)

Reply(c, at, token) ==
    /\ call' = [call EXCEPT ![c].at = at, ![c].token = token]
    /\ UNCHANGED <<jar, fresh, tab, refresh>>
    /\ Entangle(FALSE)

\* JwtAuthGuard looks at the access token alone; logout revokes the session it names.
Authorize(c) ==
    LET token == call[c].token IN
    /\ call[c].at = "sent" /\ call[c].kind \in Guarded
    /\ Reply(c, IF token = NoToken THEN "denied" ELSE "ok", NoToken)
    /\ live' = IF call[c].kind = "logout" THEN live \ {token} ELSE live
    /\ UNCHANGED signIns

SignUp(c) ==
    /\ call[c].at = "sent" /\ call[c].kind = "verify" /\ signIns < MaxSignIns
    /\ signIns' = signIns + 1
    /\ live' = live \union {<<signIns', 0>>}
    /\ Reply(c, "ok", <<signIns', 0>>)

\* A code is sent, or the form's input is refused (400 or 429, never 401).
AnswerForm(c) ==
    /\ call[c].at = "sent"
    /\ \/ call[c].kind = "code" /\ Reply(c, "ok", NoToken)
       \/ call[c].kind \in {"code", "verify"} /\ Reply(c, "failed", NoToken)
    /\ UNCHANGED server

\* A live token is exchanged for the next one; any other ends its family.
Rotate(c) ==
    LET token == refresh[c].token
        next == <<token[1], token[2] + 1>> IN
    /\ refresh[c].at = "sent"
    /\ IF token \in live
       THEN /\ token[2] < MaxRotations
            /\ live' = (live \ {token}) \union {next}
            /\ refresh' = [refresh EXCEPT ![c] = [at |-> "ok", token |-> next]]
       ELSE /\ live' = {t \in live : t[1] # token[1]}
            /\ refresh' = [refresh EXCEPT ![c] = [at |-> "refused", token |-> NoToken]]
    /\ UNCHANGED <<signIns, jar, fresh, tab, call>>
    /\ Entangle(FALSE)
-------------------------------------------------------------------------------
(* Answers. *)

\* The catch and finally of whoever made the call.
Caught(kinds) ==
    /\ user' = (user /\ kinds \intersect (Refetches \union {"logout"}) = {})
    /\ loading' = (loading /\ kinds \intersect Refetches = {})

\* After a verification: router.push, whatever /auth/me said.
Close(c) ==
    IF call[c].kind = "refetch"
    THEN /\ page' = "public" /\ step' = "phone"
         /\ call' = [[d \in Calls |-> IF call[d].kind = "code" THEN Nothing
                                      ELSE [call[d] EXCEPT !.here = FALSE]] EXCEPT ![c] = Nothing]
    ELSE call' = [call EXCEPT ![c] = Nothing] /\ UNCHANGED <<page, step>>

\* refreshInFlight ??= rawRequest('/auth/refresh')
\* Mistake: every call that meets a 401 starts a refresh of its own.
MutantOwnRefresh(c) ==
    /\ refresh' = [refresh EXCEPT ![c] = [at |-> "sent", token |-> jar]]

TryRefresh(c) ==
    IF InFlight = {} THEN refresh' = [refresh EXCEPT ![c] = [at |-> "sent", token |-> jar]]
                     ELSE UNCHANGED refresh

Unauthorized(c) ==
    /\ call[c].at = "denied" /\ ~call[c].again
    /\ call' = [call EXCEPT ![c].at = "waiting"]
    /\ TryRefresh(c)
    /\ UNCHANGED <<server, jar, fresh, tab>>
    /\ Entangle(FALSE)

Succeed(c) ==
    LET kind == call[c].kind IN
    /\ call[c].at = "ok"
    /\ \/ /\ kind \in Refetches
          /\ user' = TRUE /\ loading' = FALSE
          /\ Close(c) /\ UNCHANGED <<jar, fresh>>
       \/ /\ kind = "verify"
          /\ jar' = call[c].token /\ fresh' = TRUE
          /\ call' = [call EXCEPT ![c] = [Sent("refetch", jar', FALSE) EXCEPT !.here = call[c].here]]
          /\ UNCHANGED tab
       \/ /\ kind = "code"
          /\ step' = "code" /\ call' = [call EXCEPT ![c] = Nothing]
          /\ UNCHANGED <<jar, fresh, user, loading, page>>
       \/ /\ kind = "logout"
          /\ jar' = NoToken /\ fresh' = FALSE /\ user' = FALSE
          /\ Close(c) /\ UNCHANGED loading
       \/ /\ kind \in {"member", "public"}
          /\ Close(c) /\ UNCHANGED <<jar, fresh, user, loading>>
    /\ UNCHANGED <<server, refresh>>
    /\ Entangle(kind = "verify" /\ InFlight # {})

\* Refused, denied a second time, or lost on either way.
Fail(c) ==
    /\ \/ call[c].at \in {"sent", "ok", "failed"}
       \/ call[c].at = "denied" /\ call[c].again
    /\ Caught({call[c].kind}) /\ Close(c)
    /\ UNCHANGED <<server, jar, fresh, refresh>>
    /\ Entangle(call[c].at \in {"sent", "ok"} /\ call[c].kind \in Refetches \union {"logout"})

\* The refresh is answered, and every call that waits for it is retried once.
Refreshed(c) ==
    /\ refresh[c].at = "ok"
    /\ jar' = refresh[c].token /\ fresh' = TRUE
    /\ refresh' = [refresh EXCEPT ![c] = NoRefresh]
    /\ call' = [d \in Calls |->
                    IF call[d].at = "waiting"
                    THEN [call[d] EXCEPT !.at = "sent", !.token = jar', !.again = TRUE]
                    ELSE call[d]]
    /\ UNCHANGED <<server, tab>>
    /\ Entangle(FALSE)

\* The refresh is refused, or lost: the waiting calls fail with SESSION_EXPIRED, and
\* a member's page goes to /login by loading it.
NotRefreshed(c) ==
    LET waiting == {d \in Calls : call[d].at = "waiting"}
        kinds == {call[d].kind : d \in waiting}
        lost == refresh[c].at # "refused" IN
    /\ refresh[c].at # "none"
    /\ IF "member" \in kinds
       THEN Load("login", lost)
       ELSE /\ Caught(kinds)
            /\ call' = [d \in Calls |-> IF d \in waiting THEN Nothing ELSE call[d]]
            /\ IF "refetch" \in kinds THEN page' = "public" /\ step' = "phone"
                                      ELSE UNCHANGED <<page, step>>
            /\ refresh' = [refresh EXCEPT ![c] = NoRefresh]
            /\ Entangle(lost)
    /\ UNCHANGED <<server, jar, fresh>>
-------------------------------------------------------------------------------
Next ==
    \/ Visit \/ Bounce \/ Reload \/ ChangePhone \/ Expire
    \/ \E c \in Calls :
        \/ HandleRequestCode(c) \/ HandleVerify(c) \/ Logout(c)
        \/ FetchCategories(c) \/ FetchMembers(c)
        \/ Authorize(c) \/ SignUp(c) \/ AnswerForm(c) \/ Rotate(c)
        \/ Unauthorized(c) \/ Succeed(c) \/ Fail(c) \/ Refreshed(c) \/ NotRefreshed(c)

Spec == Init /\ [][Next]_vars
-------------------------------------------------------------------------------
TypeOK ==
    /\ signIns \in 0 .. MaxSignIns
    /\ live \subseteq Tokens \ {NoToken}
    /\ jar \in Tokens /\ fresh \in BOOLEAN
    /\ user \in BOOLEAN /\ loading \in BOOLEAN /\ tangled \in BOOLEAN
    /\ page \in {"public", "member", "login"} /\ step \in {"phone", "code"}
    /\ call \in [Calls -> [kind : {"none"} \union Guarded \union OfForm,
                           at : {"idle", "sent", "ok", "failed", "denied", "waiting"},
                           token : Tokens, again : BOOLEAN, here : BOOLEAN]]
    /\ refresh \in [Calls -> [at : {"none", "sent", "ok", "refused"}, token : Tokens]]

\* Once no call is open, the tab shows a user exactly when the browser holds a token
\* the server accepts: refreshes, retries, redirects and reloads never show a guest
\* who is signed in or a user who is not, and no refresh of the tab is taken for
\* reuse.  The exceptions are an answer to a logout, refresh or /auth/me that was
\* lost, a logout that crossed a refresh or an /auth/me, and a verification answered
\* while a refresh was under way.
ShownIsTrue ==
    ~tangled /\ (\A c \in Calls : ~Open(c)) => (user <=> jar \in live)
===============================================================================
