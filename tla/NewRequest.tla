----------------------------- MODULE NewRequest -----------------------------
(***************************************************************************)
(* Writing a request: components/domain/request-form.tsx (the form, the    *)
(* preview, publishing), RequestsService.create and publish, and the       *)
(* category the requests are for, which an administrator may deactivate    *)
(* (CategoriesService.update).                                             *)
(*                                                                         *)
(* The browser waits for one call at a time; one it has given up may still *)
(* run.  A step is one statement.  MaxRequests bounds the rows and         *)
(* MaxCalls the calls.                                                     *)
(*                                                                         *)
(* Abstracted: what is typed (Contents; createRequestSchema, which browser *)
(* and server share, accepts those in Valid), error messages, the rank of  *)
(* a published request (module Listing), its later life (module Market).   *)
(***************************************************************************)
EXTENDS Integers, Sequences

CONSTANTS Contents, Valid, MaxRequests, MaxCalls

NewRequestAssumption ==
    /\ Valid \subseteq Contents
    /\ {MaxRequests, MaxCalls} \subseteq Nat

VARIABLES
    rows,       \* requests: [content, status]
    isActive,   \* of the category
    admin,      \* the administrator's update: "idle", "count" or "write"
    calls,      \* [step, content, id]: what to create or was previewed, the row
    form,       \* values of the form
    draft,      \* <<>>, or the preview: [id, content]
    pending,    \* the call the component waits for, or 0
    overtaken   \* rows inserted after the check of a deactivation, or after it

server == <<rows, isActive, admin, overtaken>>
component == <<form, draft, pending>>
vars == <<server, calls, component>>

-----------------------------------------------------------------------------
Init ==
    /\ rows = <<>>
    /\ isActive = TRUE
    /\ admin = "idle"
    /\ calls = <<>>
    /\ form \in Contents
    /\ draft = <<>>
    /\ pending = 0
    /\ overtaken = {}

-----------------------------------------------------------------------------
(* The component *)

\* The fields are not disabled while a call is pending.
Type ==
    /\ draft = <<>>
    /\ form' \in Contents
    /\ UNCHANGED <<server, calls, draft, pending>>

Await(step, content, id) ==
    /\ pending = 0
    /\ Len(calls) < MaxCalls
    /\ calls' = Append(calls, [step |-> step, content |-> content, id |-> id])
    /\ pending' = Len(calls) + 1
    /\ UNCHANGED <<server, form, draft>>

\* Values that createRequestSchema refuses are not sent.
HandleCreate ==
    /\ draft = <<>>
    /\ form \in Valid
    /\ Await("check", form, 0)

HandlePublish ==
    /\ draft # <<>>
    /\ Await("read", draft[1].content, draft[1].id)

\* "Edit" goes back to the form; the row stays, and the next submit makes another.
Edit ==
    /\ draft # <<>>
    /\ pending = 0
    /\ draft' = <<>>
    /\ UNCHANGED <<server, calls, form, pending>>

\* The call fails for the browser, which shows an error; the server may go on.
GiveUp ==
    /\ pending # 0
    /\ pending' = 0
    /\ UNCHANGED <<server, calls, form, draft>>

Proceed(c, from, to) ==
    /\ calls[c].step = from
    /\ calls' = [calls EXCEPT ![c].step = to]

\* Mutant of Created: the preview takes the values the form has by now.
MutantFormAsItIs(c) ==
    /\ Proceed(c, "created", "done")
    /\ IF pending = c
       THEN /\ draft' = <<[id |-> calls[c].id, content |-> form]>>
            /\ pending' = 0
       ELSE UNCHANGED <<draft, pending>>
    /\ UNCHANGED <<server, form>>

Created(c) ==
    /\ Proceed(c, "created", "done")
    /\ IF pending = c
       THEN /\ draft' = <<[id |-> calls[c].id, content |-> calls[c].content]>>
            /\ pending' = 0
       ELSE UNCHANGED <<draft, pending>>
    /\ UNCHANGED <<server, form>>

\* A publish, or a refusal, whose answer leaves the component as it was.
Answered(c) ==
    /\ calls[c].step \in {"published", "refused"}
    /\ calls' = [calls EXCEPT ![c].step = "done"]
    /\ pending' = IF pending = c THEN 0 ELSE pending
    /\ UNCHANGED <<server, form, draft>>

\* router.push after a publish, or the user, leaves the page; who comes back finds
\* another form.
Leave ==
    /\ form' \in Contents
    /\ draft' = <<>>
    /\ pending' = 0
    /\ UNCHANGED <<server, calls>>

-----------------------------------------------------------------------------
(* RequestsService *)

CreateCheck(c) ==
    /\ Proceed(c, "check", IF isActive THEN "insert" ELSE "refused")
    /\ UNCHANGED <<server, component>>

CreateInsert(c) ==
    LET id == Len(rows) + 1 IN
    /\ id <= MaxRequests
    /\ calls[c].step = "insert"
    /\ calls' = [calls EXCEPT ![c].step = "created", ![c].id = id]
    /\ rows' = Append(rows, [content |-> calls[c].content, status |-> "DRAFT"])
    /\ overtaken' = IF admin = "write" \/ ~isActive THEN overtaken \cup {id} ELSE overtaken
    /\ UNCHANGED <<isActive, admin, component>>

PublishCheck(c) ==
    /\ Proceed(c, "read", IF rows[calls[c].id].status = "DRAFT" THEN "update" ELSE "refused")
    /\ UNCHANGED <<server, component>>

PublishWrite(c) ==
    /\ Proceed(c, "update", "published")
    /\ rows' = [rows EXCEPT ![calls[c].id].status = "PUBLISHED"]
    /\ UNCHANGED <<isActive, admin, overtaken, component>>

-----------------------------------------------------------------------------
(* CategoriesService.update *)

Update ==
    /\ admin = "idle"
    /\ \/ isActive' = TRUE /\ UNCHANGED admin
       \/ admin' = "count" /\ UNCHANGED isActive
    /\ UNCHANGED <<rows, overtaken, calls, component>>

\* Mutant of AssertNoActiveRequests: drafts are not counted.
MutantPublishedOnly ==
    /\ admin = "count"
    /\ admin' = IF \E r \in DOMAIN rows : rows[r].status = "PUBLISHED" THEN "idle" ELSE "write"
    /\ UNCHANGED <<rows, isActive, overtaken, calls, component>>

\* A request never leaves the statuses that count: DRAFT, PUBLISHED, OFFER_SELECTED.
AssertNoActiveRequests ==
    /\ admin = "count"
    /\ admin' = IF rows # <<>> THEN "idle" ELSE "write"
    /\ UNCHANGED <<rows, isActive, overtaken, calls, component>>

Deactivate ==
    /\ admin = "write"
    /\ admin' = "idle"
    /\ isActive' = FALSE
    /\ UNCHANGED <<rows, overtaken, calls, component>>

-----------------------------------------------------------------------------
Call(c) ==
    \/ CreateCheck(c) \/ CreateInsert(c) \/ PublishCheck(c) \/ PublishWrite(c)
    \/ Created(c) \/ Answered(c)

Next ==
    \/ Type \/ HandleCreate \/ HandlePublish \/ Edit \/ GiveUp \/ Leave
    \/ \E c \in DOMAIN calls : Call(c)
    \/ Update \/ AssertNoActiveRequests \/ Deactivate

Spec == Init /\ [][Next]_vars

-----------------------------------------------------------------------------
Steps == {"check", "insert", "created", "read", "update", "published", "refused", "done"}

RowType == [content : Valid, status : {"DRAFT", "PUBLISHED"}]
CallType == [step : Steps, content : Valid, id : Nat]
PreviewType == [id : Nat, content : Valid]

TypeOK ==
    /\ rows \in Seq(RowType)
    /\ isActive \in BOOLEAN
    /\ admin \in {"idle", "count", "write"}
    /\ calls \in Seq(CallType)
    /\ form \in Contents
    /\ draft \in Seq(PreviewType)
    /\ pending \in Nat
    /\ overtaken \subseteq Nat

\* What the user looks at before publishing is what the row holds, and what gets
\* published is what was looked at: typing goes on while the row is being created,
\* and earlier calls and rows of the same form are still about.
PreviewIsTheRow ==
    /\ draft # <<>> =>
           draft[1].id \in DOMAIN rows /\ rows[draft[1].id].content = draft[1].content
    /\ \A c \in DOMAIN calls : calls[c].step \in {"read", "update", "published"} =>
           calls[c].id \in DOMAIN rows /\ rows[calls[c].id].content = calls[c].content

\* categories.service.ts:85-94, CATEGORY_HAS_ACTIVE_REQUESTS: an inactive category
\* has no requests but those whose insert overtook its deactivation (create's
\* check and insert are two statements, and so are the count and the update).
InactiveOnlyOvertaken ==
    ~isActive => DOMAIN rows \subseteq overtaken
=============================================================================
