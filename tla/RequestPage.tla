----------------------------- MODULE RequestPage -----------------------------
(***************************************************************************)
(* The page of one request in the browsers of its owner and of providers:  *)
(* app/requests/[id]/request-detail-client.tsx, domain/offers-panel.tsx    *)
(* and domain/offer-submit-form.tsx, over RequestsService.getById and      *)
(* OffersService.                                                          *)
(*                                                                         *)
(* While the detail loads a skeleton stands in for the whole page: the     *)
(* panel is unmounted, its state and the answers to its own loads are      *)
(* lost, and the next panel begins anew.  A call the browser has given up  *)
(* may still reach the server.                                             *)
(*                                                                         *)
(* The server's calls are one step each, but for getById, which reads the  *)
(* request before the viewer's offer (module Offers has the races of the   *)
(* others).  MaxActs bounds the calls of one page, MaxElsewhere what the   *)
(* providers without a page do.                                            *)
(*                                                                         *)
(* Abstracted: what offers and requests say, messages, incomplete profiles *)
(* (nothing is offered to them), upgrades (module Payments), logging out.  *)
(***************************************************************************)
EXTENDS Integers, FiniteSets

CONSTANTS
    Owner, Providers,
    Pages,          \* who of them looks at the page
    MaxActs, MaxElsewhere

RequestPageAssumption ==
    /\ Owner \notin Providers
    /\ Pages \subseteq Providers \cup {Owner}
    /\ {MaxActs, MaxElsewhere} \subseteq Nat

VARIABLES
    status,     \* of the request
    offer,      \* of each provider: "none" or its status
    elsewhere,  \* what was done without a page
    view,       \* "loading", "error" or "detail", of each page
    load,       \* the getById under way: what it does next, or "none"
    detail,     \* what it has read: [status, mine]
    list,       \* the owner's offers: "none", "loading", "answered", "shown"
                \* or, when the load failed and none are shown, "failed"
    offers,     \* what the list was read as
    acts,       \* calls: [n, kind, of, step, awaited, mounted]
    made,       \* how many
    busy,       \* whose offer's button is disabled, or Owner
    excused     \* the market was changed under the page, or may have been

market == <<status, offer, elsewhere>>
page == <<view, load, detail, list, offers, busy>>
vars == <<market, page, acts, made, excused>>

-----------------------------------------------------------------------------
NoOffers == [p \in Providers |-> "none"]
NoDetail == [status |-> "none", mine |-> "none"]

Init ==
    /\ status = "PUBLISHED"
    /\ offer = NoOffers
    /\ elsewhere = 0
    /\ view = [a \in Pages |-> "loading"]
    /\ load = [a \in Pages |-> "status"]
    /\ detail = [a \in Pages |-> NoDetail]
    /\ list = [a \in Pages |-> "none"]
    /\ offers = [a \in Pages |-> NoOffers]
    /\ acts = [a \in Pages |-> {}]
    /\ made = [a \in Pages |-> 0]
    /\ busy = [a \in Pages |-> Owner]
    /\ excused = [a \in Pages |-> FALSE]

-----------------------------------------------------------------------------
(* The server *)

CanSubmit(p) == status = "PUBLISHED" /\ offer[p] \in {"none", "WITHDRAWN"}
CanWithdraw(p) == offer[p] = "PENDING"
CanSelect(p) == status = "PUBLISHED" /\ offer[p] = "PENDING"

Accepted(kind, p) ==
    CASE kind = "submit" -> CanSubmit(p)
      [] kind = "withdraw" -> CanWithdraw(p)
      [] kind = "select" -> CanSelect(p)

Effect(kind, p) ==
    CASE kind = "submit" ->
            /\ offer' = [offer EXCEPT ![p] = "PENDING"]
            /\ UNCHANGED status
      [] kind = "withdraw" ->
            /\ offer' = [offer EXCEPT ![p] = "WITHDRAWN"]
            /\ UNCHANGED status
      [] kind = "select" ->
            /\ offer' = [q \in Providers |->
                    IF q = p THEN "SELECTED"
                    ELSE IF offer[q] = "PENDING" THEN "REJECTED" ELSE offer[q]]
            /\ status' = "OFFER_SELECTED"

\* A provider who does not look at the page, but has its link.
Elsewhere ==
    /\ elsewhere < MaxElsewhere
    /\ \E p \in Providers \ Pages, kind \in {"submit", "withdraw"} :
        Accepted(kind, p) /\ Effect(kind, p)
    /\ elsewhere' = elsewhere + 1
    /\ excused' = [a \in Pages |-> TRUE]
    /\ UNCHANGED <<page, acts, made>>

Apply(a) ==
    \E c \in acts[a] :
        /\ c.step = "sent"
        /\ \/ /\ Accepted(c.kind, c.of)
              /\ Effect(c.kind, c.of)
              /\ acts' = [acts EXCEPT ![a] = (@ \ {c}) \cup {[c EXCEPT !.step = "ok"]}]
              /\ excused' = [b \in Pages |-> excused[b] \/ b # a \/ ~c.awaited]
           \/ /\ ~Accepted(c.kind, c.of)
              /\ acts' = [acts EXCEPT ![a] = (@ \ {c}) \cup {[c EXCEPT !.step = "refused"]}]
              /\ UNCHANGED <<status, offer, excused>>
        /\ UNCHANGED <<elsewhere, page, made>>

-----------------------------------------------------------------------------
(* Loading *)

\* Mutant of Load: the detail is loaded behind the panel, which stays.
MutantNoSkeleton(a) ==
    /\ load' = [load EXCEPT ![a] = "status"]
    /\ excused' = [excused EXCEPT ![a] = FALSE]
    /\ UNCHANGED <<market, view, detail, list, offers, busy, made>>

\* load() shows the skeleton, which unmounts the panel.
Load(a) ==
    /\ view' = [view EXCEPT ![a] = "loading"]
    /\ load' = [load EXCEPT ![a] = "status"]
    /\ list' = [list EXCEPT ![a] = "none"]
    /\ busy' = [busy EXCEPT ![a] = Owner]
    /\ excused' = [excused EXCEPT ![a] = FALSE]
    /\ UNCHANGED <<market, detail, offers, made>>

\* The browser reloads the page, and forgets the calls of the one before.
Open(a) ==
    /\ Load(a)
    /\ acts' = [acts EXCEPT ![a] = {[c EXCEPT !.awaited = FALSE, !.mounted = FALSE] :
                                        c \in {d \in @ : d.step = "sent"}}]

ReadStatus(a) ==
    /\ load[a] = "status"
    /\ load' = [load EXCEPT ![a] = "mine"]
    /\ detail' = [detail EXCEPT ![a].status = status]
    /\ UNCHANGED <<market, view, list, offers, busy, acts, made, excused>>

ReadMine(a) ==
    /\ load[a] = "mine"
    /\ load' = [load EXCEPT ![a] = "answered"]
    /\ detail' = [detail EXCEPT ![a].mine = IF a = Owner THEN "none" ELSE offer[a]]
    /\ UNCHANGED <<market, view, list, offers, busy, acts, made, excused>>

\* The panel is mounted; the owner's begins with its list.
Loaded(a) ==
    /\ load[a] = "answered"
    /\ load' = [load EXCEPT ![a] = "none"]
    /\ view' = [view EXCEPT ![a] = "detail"]
    /\ list' = [list EXCEPT ![a] = IF a = Owner THEN "loading" ELSE "none"]
    /\ UNCHANGED <<market, detail, offers, busy, acts, made, excused>>

LoadFails(a) ==
    /\ load[a] # "none"
    /\ load' = [load EXCEPT ![a] = "none"]
    /\ view' = [view EXCEPT ![a] = "error"]
    /\ UNCHANGED <<market, detail, list, offers, busy, acts, made, excused>>

ListForRequest(a) ==
    /\ list[a] = "loading"
    /\ list' = [list EXCEPT ![a] = "answered"]
    /\ offers' = [offers EXCEPT ![a] = offer]
    /\ UNCHANGED <<market, view, load, detail, busy, acts, made, excused>>

ListArrives(a) ==
    /\ list[a] = "answered"
    /\ list' = [list EXCEPT ![a] = "shown"]
    /\ UNCHANGED <<market, view, load, detail, offers, busy, acts, made, excused>>

ListFails(a) ==
    /\ list[a] \in {"loading", "answered"}
    /\ list' = [list EXCEPT ![a] = "failed"]
    /\ UNCHANGED <<market, view, load, detail, offers, busy, acts, made, excused>>

-----------------------------------------------------------------------------
(* The panel *)

Act(a, kind, of) ==
    /\ view[a] = "detail"
    /\ busy[a] # of
    /\ made[a] < MaxActs
    /\ acts' = [acts EXCEPT ![a] = @ \cup
            {[n |-> made[a] + 1, kind |-> kind, of |-> of, step |-> "sent",
              awaited |-> TRUE, mounted |-> TRUE]}]
    /\ made' = [made EXCEPT ![a] = @ + 1]
    /\ busy' = [busy EXCEPT ![a] = of]
    /\ UNCHANGED <<market, view, load, detail, list, offers, excused>>

\* The owner sees a button at each pending offer; that of the call begun last
\* is the only one disabled.
HandleSelect(a) ==
    /\ a = Owner
    /\ list[a] = "shown"
    /\ \E p \in Providers : offers[a][p] = "PENDING" /\ Act(a, "select", p)

HandleWithdraw(a) ==
    /\ a # Owner
    /\ detail[a].mine = "PENDING"
    /\ Act(a, "withdraw", a)

\* The form, for a first offer or in place of one withdrawn.
HandleSubmit(a) ==
    /\ a # Owner
    /\ detail[a].status = "PUBLISHED"
    /\ detail[a].mine \in {"none", "WITHDRAWN"}
    /\ Act(a, "submit", a)

\* onChanged forgotten: the owner's panel reloads its list and no more.
MutantNoReload(a, kind) ==
    /\ list' = [list EXCEPT ![a] = IF a = Owner THEN "loading" ELSE @]
    /\ busy' = [busy EXCEPT ![a] = Owner]
    /\ UNCHANGED <<market, view, load, detail, offers, made, excused>>

\* onChanged reloads the detail; the list that the unmounted panel of the
\* owner then loads is dropped.
Succeeded(a, kind) == Load(a)

Answered(a) ==
    \E c \in acts[a] :
        /\ c.awaited
        /\ c.step = "ok"
        /\ Succeeded(a, c.kind)
        /\ acts' = [acts EXCEPT ![a] = {[d EXCEPT !.mounted = FALSE] : d \in @ \ {c}}]

\* The message is shown and the button enabled, where the panel is still the
\* one that called; nothing is reloaded.
NotDone(a, c) ==
    /\ busy' = [busy EXCEPT ![a] = IF c.mounted THEN Owner ELSE @]
    /\ UNCHANGED <<market, view, load, detail, list, offers, made>>

RefusedAnswer(a) ==
    \E c \in acts[a] :
        /\ c.awaited
        /\ c.step = "refused"
        /\ NotDone(a, c)
        /\ acts' = [acts EXCEPT ![a] = @ \ {c}]
        /\ UNCHANGED excused

\* No answer: the call was done, or may yet be.
GiveUp(a) ==
    \E c \in acts[a] :
        /\ c.awaited
        /\ NotDone(a, c)
        /\ acts' = [acts EXCEPT ![a] = (@ \ {c}) \cup
                (IF c.step = "sent" THEN {[c EXCEPT !.awaited = FALSE, !.mounted = FALSE]}
                 ELSE {})]
        /\ excused' = [excused EXCEPT ![a] = @ \/ c.step = "ok"]

Browser(a) ==
    \/ Open(a) \/ ReadStatus(a) \/ ReadMine(a) \/ Loaded(a) \/ LoadFails(a)
    \/ ListForRequest(a) \/ ListArrives(a) \/ ListFails(a)
    \/ HandleSelect(a) \/ HandleWithdraw(a) \/ HandleSubmit(a)
    \/ Apply(a) \/ Answered(a) \/ RefusedAnswer(a) \/ GiveUp(a)

Next == Elsewhere \/ \E a \in Pages : Browser(a)

Spec == Init /\ [][Next]_vars

-----------------------------------------------------------------------------
Statuses == {"none", "PENDING", "WITHDRAWN", "SELECTED", "REJECTED"}

Awaited(a) == {c \in acts[a] : c.awaited}

\* The last part says that two loads of a page never overlap, which is why
\* one is all that "load" holds.
TypeOK ==
    /\ status \in {"PUBLISHED", "OFFER_SELECTED"}
    /\ offer \in [Providers -> Statuses]
    /\ elsewhere \in 0 .. MaxElsewhere
    /\ \A a \in Pages :
        /\ view[a] \in {"loading", "error", "detail"}
        /\ load[a] \in {"none", "status", "mine", "answered"}
        /\ detail[a].status \in {"none", "PUBLISHED", "OFFER_SELECTED"}
        /\ detail[a].mine \in Statuses
        /\ list[a] \in {"none", "loading", "answered", "shown", "failed"}
        /\ offers[a] \in [Providers -> Statuses]
        /\ \A c \in acts[a] :
            /\ c.n \in 1 .. made[a]
            /\ c.step \in {"sent", "ok", "refused"}
        /\ made[a] \in 0 .. MaxActs
        /\ busy[a] \in Providers \cup {Owner}
        /\ excused[a] \in BOOLEAN
        /\ load[a] # "none" => \A c \in Awaited(a) : c.step # "ok"

\* Every part has been loaded and no answer is awaited.
Settled(a) ==
    /\ view[a] = "detail"
    /\ Awaited(a) = {}
    /\ a = Owner => list[a] = "shown"

Current(a) ==
    /\ detail[a].status = status
    /\ IF a = Owner THEN offers[a] = offer ELSE detail[a].mine = offer[a]

\* A page that has settled shows the request and the offers as they are,
\* unless since its last load began another user changed them or a call of
\* its own went unanswered: whatever a user did and was told is done, in
\* whatever order answers came and panels were mounted, shows on the page.
StaleOnlyByOthers ==
    \A a \in Pages : Settled(a) => excused[a] \/ Current(a)
=============================================================================
