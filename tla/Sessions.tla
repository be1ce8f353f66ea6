------------------------------- MODULE Sessions -------------------------------
(***************************************************************************)
(* The login sessions of one user: rows of the table sessions, grouped in  *)
(* families, the cookie of each of the user's browsers and the calls that  *)
(* are open on the server (auth.controller.ts, auth.service.ts,            *)
(* session.service.ts).                                                    *)
(*                                                                         *)
(* A token is named by its row (its sid): the access and the refresh       *)
(* cookie are always set and cleared together.  A tab never has two        *)
(* refreshes under way (api-client.ts), so simultaneous refreshes of a     *)
(* browser come from different tabs, which share its cookies.              *)
(***************************************************************************)
EXTENDS Naturals, FiniteSets

CONSTANTS
    Sessions,   \* ids of rows
    Families,   \* ids of families
    Browsers,   \* the user's cookie jars
    Calls,      \* requests that can be open at once, each of
    by,         \* one browser
    NoSession,  \* no row, no token
    NoFamily    \* familyId of a row that does not exist

ASSUME SessionsAssumption ==
    NoSession \notin Sessions /\ NoFamily \notin Families /\ by \in [Calls -> Browsers]

VARIABLES
    family,      \* familyId of each row; NoFamily before session.create
    signed,      \* rows that hold the hash of their refresh token
    revoked,     \* rows whose revokedAt is set
    replacedBy,  \* replacedById of each row
    cookie,      \* the token each browser holds
    pc,          \* next statement of each call
    old,         \* the token the call came with
    new,         \* the row the call has created
    overtaken,   \* history: families of which one row was being rotated twice at once
    reused       \* history: families that reuse detection has revoked

rows    == <<family, signed, revoked, replacedBy>>
history == <<overtaken, reused>>
vars    == <<rows, cookie, pc, old, new, history>>
-------------------------------------------------------------------------------
Rows      == {s \in Sessions : family[s] # NoFamily}
RowsOf(f) == {s \in Sessions : family[s] = f}

\* A row that a refresh would accept: not revoked, its token exists.
Usable == signed \ revoked

\* Calls between the check of rotateSession and the commit of issueNewSessionRow.
Rotating(c) == pc[c] \in {"create", "sign"} /\ old[c] # NoSession

\* A call is answered, or ends without an answer.
End(c) ==
    /\ pc'  = [pc EXCEPT ![c] = "idle"]
    /\ old' = [old EXCEPT ![c] = NoSession]
    /\ new' = [new EXCEPT ![c] = NoSession]

\* Mistake: a call without a cookie is not refused.
MutantNoCookieCheck(c, step) ==
    /\ pc[c] = "idle"
    /\ pc'  = [pc EXCEPT ![c] = step]
    /\ old' = [old EXCEPT ![c] = cookie[by[c]]]
    /\ UNCHANGED <<rows, cookie, new, history>>

\* A call that came with the cookie of its browser goes to statement `step`.
Arrive(c, step) ==
    /\ pc[c] = "idle"
    /\ cookie[by[c]] # NoSession
    /\ pc'  = [pc EXCEPT ![c] = step]
    /\ old' = [old EXCEPT ![c] = cookie[by[c]]]
    /\ UNCHANGED <<rows, cookie, new, history>>

Goto(c, from, to) == pc[c] = from /\ pc' = [pc EXCEPT ![c] = to]
-------------------------------------------------------------------------------
Init ==
    /\ family     = [s \in Sessions |-> NoFamily]
    /\ signed     = {}
    /\ revoked    = {}
    /\ replacedBy = [s \in Sessions |-> NoSession]
    /\ cookie     = [b \in Browsers |-> NoSession]
    /\ pc         = [c \in Calls |-> "idle"]
    /\ old        = [c \in Calls |-> NoSession]
    /\ new        = [c \in Calls |-> NoSession]
    /\ overtaken  = {}
    /\ reused     = {}

\* verifyOtp accepted the code and calls createSession.
Login(c) ==
    /\ Goto(c, "idle", "create")
    /\ UNCHANGED <<rows, cookie, old, new, history>>

Refresh(c)   == Arrive(c, "read")
Logout(c)    == Arrive(c, "revokeOne")
LogoutAll(c) == Arrive(c, "revokeAll")

\* rotateSession finds the row revoked: reuse.
ReadRevoked(c) ==
    /\ Goto(c, "read", "revokeFamily")
    /\ old[c] \in revoked
    /\ UNCHANGED <<rows, cookie, old, new, history>>

\* revokeFamily, the audit entry and SESSION_REUSE_DETECTED; cookies stay.
RevokeFamily(c) ==
    /\ pc[c] = "revokeFamily"
    /\ revoked' = revoked \cup RowsOf(family[old[c]])
    /\ reused'  = reused \cup {family[old[c]]}
    /\ End(c)
    /\ UNCHANGED <<family, signed, replacedBy, cookie, overtaken>>

\* Mistake: the row is not looked at for revokedAt.
MutantNoReuseCheck(c) ==
    /\ Goto(c, "read", "create")
    /\ UNCHANGED <<rows, cookie, old, new, history>>

\* rotateSession accepts: not revoked, and the hash is that of the token.
ReadValid(c) ==
    /\ Goto(c, "read", "create")
    /\ old[c] \in Usable
    /\ overtaken' = IF \E d \in Calls : Rotating(d) /\ old[d] = old[c]
                    THEN overtaken \cup {family[old[c]]} ELSE overtaken
    /\ UNCHANGED <<rows, cookie, old, new, reused>>

\* session.create, with a random hash; a login starts a family of its own.
CreateRow(c) ==
    /\ Goto(c, "create", "sign")
    /\ \E s \in Sessions \ Rows, f \in Families :
        /\ IF old[c] = NoSession THEN RowsOf(f) = {} ELSE f = family[old[c]]
        /\ family' = [family EXCEPT ![s] = f]
        /\ new'    = [new EXCEPT ![c] = s]
    /\ UNCHANGED <<signed, revoked, replacedBy, cookie, old, history>>

\* Mistake: the two ids are swapped where the trail is written.
MutantSwappedTrail(c) ==
    /\ Goto(c, "sign", "answer")
    /\ signed' = signed \cup {new[c]}
    /\ IF old[c] = NoSession
       THEN UNCHANGED <<revoked, replacedBy>>
       ELSE /\ revoked'    = revoked \cup {old[c]}
            /\ replacedBy' = [replacedBy EXCEPT ![new[c]] = old[c]]
    /\ UNCHANGED <<family, cookie, old, new, history>>

\* Mistake: the superseded row gets replacedById and no revokedAt.
MutantKeepsOld(c) ==
    /\ Goto(c, "sign", "answer")
    /\ signed' = signed \cup {new[c]}
    /\ IF old[c] = NoSession
       THEN UNCHANGED replacedBy
       ELSE replacedBy' = [replacedBy EXCEPT ![old[c]] = new[c]]
    /\ UNCHANGED <<family, revoked, cookie, old, new, history>>

\* The transaction of issueNewSessionRow: the hash, and the superseded row by id.
SignRow(c) ==
    /\ Goto(c, "sign", "answer")
    /\ signed' = signed \cup {new[c]}
    /\ IF old[c] = NoSession
       THEN UNCHANGED <<revoked, replacedBy>>
       ELSE /\ revoked'    = revoked \cup {old[c]}
            /\ replacedBy' = [replacedBy EXCEPT ![old[c]] = new[c]]
    /\ UNCHANGED <<family, cookie, old, new, history>>

\* setAuthCookies reaches the browser.
Answer(c) ==
    /\ pc[c] = "answer"
    /\ cookie' = [cookie EXCEPT ![by[c]] = new[c]]
    /\ End(c)
    /\ UNCHANGED <<rows, history>>

\* revokeSession: only a row that is not revoked yet, so revokedAt keeps its value.
RevokeOne(c) ==
    /\ Goto(c, "revokeOne", "clear")
    /\ revoked' = revoked \cup {old[c]}
    /\ UNCHANGED <<family, signed, replacedBy, cookie, old, new, history>>

\* Mistake: logout-all by family instead of by user.
MutantOwnFamily(c) ==
    /\ Goto(c, "revokeAll", "clear")
    /\ revoked' = revoked \cup RowsOf(family[old[c]])
    /\ UNCHANGED <<family, signed, replacedBy, cookie, old, new, history>>

\* revokeAllSessionsForUser.
RevokeAll(c) ==
    /\ Goto(c, "revokeAll", "clear")
    /\ revoked' = revoked \cup Rows
    /\ UNCHANGED <<family, signed, replacedBy, cookie, old, new, history>>

\* clearAuthCookies reaches the browser.
Clear(c) ==
    /\ pc[c] = "clear"
    /\ cookie' = [cookie EXCEPT ![by[c]] = NoSession]
    /\ End(c)
    /\ UNCHANGED <<rows, history>>

\* The process dies, a statement throws, or the answer is lost on the way.
Fail(c) ==
    /\ pc[c] # "idle"
    /\ End(c)
    /\ UNCHANGED <<rows, cookie, history>>

Next == \E c \in Calls :
    \/ Login(c) \/ Refresh(c) \/ Logout(c) \/ LogoutAll(c)
    \/ ReadRevoked(c) \/ RevokeFamily(c) \/ ReadValid(c)
    \/ CreateRow(c) \/ SignRow(c) \/ Answer(c)
    \/ RevokeOne(c) \/ RevokeAll(c) \/ Clear(c)
    \/ Fail(c)

Spec == Init /\ [][Next]_vars
-------------------------------------------------------------------------------
\* Types of the state (models Session, cookies, open calls).
TypeOK ==
    /\ family \in [Sessions -> Families \cup {NoFamily}]
    /\ signed \subseteq Rows /\ revoked \subseteq Rows
    /\ replacedBy \in [Sessions -> Sessions \cup {NoSession}]
    /\ cookie \in [Browsers -> Sessions \cup {NoSession}]
    /\ pc \in [Calls -> {"idle", "read", "revokeFamily", "create", "sign", "answer",
                         "revokeOne", "revokeAll", "clear"}]
    /\ old \in [Calls -> Sessions \cup {NoSession}]
    /\ new \in [Calls -> Sessions \cup {NoSession}]
    /\ overtaken \subseteq Families /\ reused \subseteq Families

\* A token that anybody holds has its hash in its row, although row and hash are
\* written by different statements: the "token hash mismatch" of rotateSession is
\* never the answer to a token that was issued.
TokensAreSigned ==
    /\ \A b \in Browsers : cookie[b] \in signed \cup {NoSession}
    /\ \A c \in Calls : old[c] \in signed \cup {NoSession}
    /\ \A c \in Calls : pc[c] = "answer" => new[c] \in signed

\* replacedById is the audit trail of the rotations: it leads from a revoked row to
\* a row of the same family whose token was issued, no row succeeds two others, and
\* following it always comes to an end.
TrailIsSound ==
    LET Replaced == {s \in Sessions : replacedBy[s] # NoSession} IN
    /\ \A s \in Replaced : /\ s \in revoked
                           /\ replacedBy[s] \in signed
                           /\ family[replacedBy[s]] = family[s]
    /\ \A s, t \in Replaced : replacedBy[s] = replacedBy[t] => s = t
    /\ \A S \in SUBSET Replaced : S # {} => \E s \in S : replacedBy[s] \notin S

\* A family has one usable token, except where one row was being rotated by two
\* calls at once (rotateSession reads the row and issueNewSessionRow writes it by id).
OneUsable ==
    \A f \in Families \ overtaken :
        \A s, t \in Usable \cap RowsOf(f) : s = t
-------------------------------------------------------------------------------
\* Somebody holds a usable token of family f, or a call may still hand one out.
Alive(f) ==
    \/ \E b \in Browsers : cookie[b] \in Usable \cap RowsOf(f)
    \/ \E c \in Calls :
        \/ pc[c] = "read" /\ old[c] \in Usable \cap RowsOf(f)
        \/ Rotating(c) /\ old[c] \in RowsOf(f)
        \/ pc[c] = "sign" /\ new[c] \in RowsOf(f)
        \/ pc[c] = "answer" /\ new[c] \in Usable \cap RowsOf(f)

Ended(f) == RowsOf(f) # {} /\ ~Alive(f)

\* A family that has ended, whether by logout, by logout-all, by reuse detection or
\* by an answer that was lost, never comes back: not with a token kept in a tab, not
\* with a row that a failed call left behind.
EndedStaysEnded == [][\A f \in Families : Ended(f) => Ended(f)']_vars

\* With no other call under way, the revocation of a logout ends the family even if
\* the answer that clears the cookie is lost, and that of logout-all ends every
\* family of the user, those of the other browsers too.
LogoutEnds ==
    [][\A c \in Calls :
        pc'[c] = "clear" /\ (\A d \in Calls \ {c} : pc[d] = "idle") =>
            /\ pc[c] = "revokeAll" => \A f \in Families : ~Alive(f)'
            /\ pc[c] = "revokeOne" /\ cookie[by[c]] = old[c] => Ended(family[old[c]])']_vars

\* session.service.ts:50-53: on reuse "the entire family is revoked".
ReuseEndsFamily == \A f \in reused : Usable \cap RowsOf(f) = {}
===============================================================================
