------------------------------ MODULE Listing ------------------------------
(***************************************************************************)
(* The public list of requests: RequestsService.list (a keyset page over   *)
(* listTier DESC, listRankAt DESC, id DESC), what publish, select and the  *)
(* paid upgrades do to a request's rank meanwhile, and the page that shows *)
(* the list with its filter bar (app/requests/page.tsx and                 *)
(* components/domain/requests-filter-bar.tsx).                             *)
(*                                                                         *)
(* A request is its id.  A filter is a set of criteria, and which requests *)
(* meet one never changes.  MaxClock (events that move a request), MaxTier *)
(* and MaxLoads (first pages fetched) bound the model.                     *)
(*                                                                         *)
(* Abstracted: what a request looks like, the order on the screen, the     *)
(* encoding of the cursor, the category list of the filter bar, the lookup *)
(* of a single id.  Every event of the page is rendered before the next.   *)
(***************************************************************************)
EXTENDS Integers, Sequences, FiniteSets

CONSTANTS
    Requests,        \* a set of numbers
    TextCriteria,    \* search, city: typed
    PickedCriteria,  \* category, mode: picked from a list
    Meets,           \* the requests that meet a criterion
    Limit,           \* page size
    MaxTier, MaxClock, MaxLoads

Criteria == TextCriteria \cup PickedCriteria

ListingAssumption ==
    /\ Requests \subseteq Nat
    /\ IsFiniteSet(Requests)
    /\ TextCriteria \cap PickedCriteria = {}
    /\ Meets \in [Criteria -> SUBSET Requests]
    /\ {Limit, MaxClock, MaxLoads} \subseteq Nat \ {0}
    /\ MaxTier \in Nat

VARIABLES
    status,       \* of a request: "draft", "published" or "selected"
    listTier, listRankAt,
    clock,        \* of such events
    filters, draft, timers,            \* the filter bar: applied, typed, debouncing
    generation, calls,                 \* requestGeneration, and the fetches under way
    items, cursor, hasMore,            \* what the page has: how often each request
    loading, loadingMore, error,
    moved         \* requests that changed their place since the first page was read

ranks == <<status, listTier, listRankAt, clock>>
bar == <<filters, draft, timers>>
list == <<items, cursor, hasMore>>
flags == <<loading, loadingMore, error>>
vars == <<ranks, bar, generation, calls, list, flags, moved>>

-----------------------------------------------------------------------------
(* RequestsService.list *)

Key(r) == [tier |-> listTier[r], at |-> listRankAt[r], id |-> r]

\* Mutant of Below: the cursor condition without the tie-break by id.
MutantNoTieBreak(k, c) ==
    \/ k.tier < c.tier
    \/ k.tier = c.tier /\ k.at < c.at

\* The condition of the cursor.
Below(k, c) ==
    \/ k.tier < c.tier
    \/ k.tier = c.tier /\ k.at < c.at
    \/ k.tier = c.tier /\ k.at = c.at /\ k.id < c.id

Fits(r, f) == \A x \in f : r \in Meets[x]

\* orderBy
Before(a, b) ==
    \/ listTier[a] > listTier[b]
    \/ listTier[a] = listTier[b] /\ listRankAt[a] > listRankAt[b]
    \/ listTier[a] = listTier[b] /\ listRankAt[a] = listRankAt[b] /\ a > b

First(rows) == {r \in rows : Cardinality({s \in rows : Before(s, r)}) < Limit}

Bottom(rows) == CHOOSE r \in rows : \A s \in rows : s = r \/ Before(s, r)

Listed(r, f) == status[r] = "published" /\ Fits(r, f)

\* The next Limit of the published requests that fit f.  A cursor is <<>>, or the
\* key of the last item of the page before.
Page(f, c) ==
    LET rows == {r \in Requests : Listed(r, f) /\ (c # <<>> => Below(Key(r), c[1]))}
        page == First(rows)
    IN [items |-> page, more |-> page # rows,
        cursor |-> IF page = rows THEN <<>> ELSE <<Key(Bottom(page))>>]

-----------------------------------------------------------------------------
Init ==
    /\ status \in [Requests -> {"draft", "published"}]
    /\ listTier = [r \in Requests |-> 0]
    /\ listRankAt \in [Requests -> {0, 1}]
    /\ clock = 1
    /\ filters = {}
    /\ draft = {}
    /\ timers = {}
    /\ generation = 1
    /\ calls = {[more |-> FALSE, gen |-> 1, filters |-> {}, cursor |-> <<>>, page |-> <<>>]}
    /\ items = [r \in Requests |-> 0]
    /\ cursor = <<>>
    /\ hasMore = FALSE
    /\ loading = TRUE
    /\ loadingMore = FALSE
    /\ error = FALSE
    /\ moved = {}

-----------------------------------------------------------------------------
(* What happens to requests *)

Rerank(r, state, tier, at) ==
    /\ clock < MaxClock
    /\ clock' = clock + 1
    /\ status' = [status EXCEPT ![r] = state]
    /\ listTier' = [listTier EXCEPT ![r] = tier]
    /\ listRankAt' = [listRankAt EXCEPT ![r] = at]
    /\ moved' = moved \cup {r}
    /\ UNCHANGED <<bar, generation, calls, list, flags>>

Publish(r) == status[r] = "draft" /\ Rerank(r, "published", 0, clock + 1)

\* URGENT_BADGE and FEATURE raise the tier; BUMP makes the rank that of today.
\* Neither asks for the status.
Upgrade(r) ==
    \E tier \in 1 .. MaxTier :
        tier > listTier[r] /\ Rerank(r, status[r], tier, listRankAt[r])

Bump(r) == Rerank(r, status[r], listTier[r], clock + 1)

Select(r) == status[r] = "published" /\ Rerank(r, "selected", listTier[r], listRankAt[r])

-----------------------------------------------------------------------------
(* The filter bar *)

\* setFilters of the page: a change makes it load the first page again.
SetFilters(f) ==
    /\ filters' = f
    /\ IF f = filters
       THEN UNCHANGED <<generation, calls, flags>>
       ELSE /\ generation < MaxLoads
            /\ generation' = generation + 1
            /\ calls' = calls \cup {[more |-> FALSE, gen |-> generation', filters |-> f,
                                     cursor |-> <<>>, page |-> <<>>]}
            /\ loading' = TRUE
            /\ error' = FALSE
            /\ UNCHANGED loadingMore
    /\ UNCHANGED <<ranks, list, moved>>

\* A keystroke starts the field's timer again.
Type(x) ==
    /\ draft' \in {draft \cup {x}, draft \ {x}}
    /\ timers' = timers \cup {x}
    /\ UNCHANGED <<ranks, filters, generation, calls, list, flags, moved>>

\* The timer applies the draft to the filters as they are by then.
Debounced(x) ==
    /\ x \in timers
    /\ timers' = timers \ {x}
    /\ SetFilters(IF x \in draft THEN filters \cup {x} ELSE filters \ {x})
    /\ UNCHANGED draft

Pick(x) ==
    /\ \/ SetFilters(filters \cup {x})
       \/ SetFilters(filters \ {x})
    /\ UNCHANGED <<draft, timers>>

\* handleClear empties the drafts too, which starts the timers of those that
\* were not empty.
Clear ==
    /\ filters # {}
    /\ SetFilters({})
    /\ draft' = {}
    /\ timers' = timers \cup draft

-----------------------------------------------------------------------------
(* The page *)

Read(c) ==
    /\ c.page = <<>>
    /\ calls' = (calls \ {c}) \cup {[c EXCEPT !.page = <<Page(c.filters, c.cursor)>>]}
    /\ moved' = IF c.more \/ c.gen # generation THEN moved ELSE {}
    /\ UNCHANGED <<ranks, bar, generation, list, flags>>

LoadMore ==
    /\ ~loading /\ ~error
    /\ hasMore
    /\ ~loadingMore
    /\ loadingMore' = TRUE
    /\ calls' = calls \cup {[more |-> TRUE, gen |-> generation, filters |-> filters,
                             cursor |-> cursor, page |-> <<>>]}
    /\ UNCHANGED <<ranks, bar, generation, list, loading, error, moved>>

\* Mutant of Current: handleLoadMore has no guard against filters that changed.
MutantOnlyFirst(c) == c.more \/ c.gen = generation

\* generation === requestGeneration.current
Current(c) == c.gen = generation

\* The end of a fetch, with a page or without: one that is not current any more
\* changes nothing, the flags of its own included.
Arrive(c, failed) ==
    /\ failed \/ c.page # <<>>
    /\ calls' = calls \ {c}
    /\ IF Current(c)
       THEN /\ IF failed THEN UNCHANGED list
               ELSE /\ items' = [r \in Requests |-> (IF c.more THEN items[r] ELSE 0)
                                               + (IF r \in c.page[1].items THEN 1 ELSE 0)]
                    /\ cursor' = c.page[1].cursor
                    /\ hasMore' = c.page[1].more
            /\ loading' = (loading /\ c.more)
            /\ loadingMore' = (loadingMore /\ ~c.more)
            /\ error' = (error \/ (failed /\ ~c.more))
       ELSE UNCHANGED <<list, flags>>
    /\ UNCHANGED <<ranks, bar, generation, moved>>

-----------------------------------------------------------------------------
Next ==
    \/ \E r \in Requests : Publish(r) \/ Upgrade(r) \/ Bump(r) \/ Select(r)
    \/ \E x \in TextCriteria : Type(x) \/ Debounced(x)
    \/ \E x \in PickedCriteria : Pick(x)
    \/ Clear
    \/ LoadMore
    \/ \E c \in calls : Read(c) \/ \E failed \in BOOLEAN : Arrive(c, failed)

Spec == Init /\ [][Next]_vars

-----------------------------------------------------------------------------
TypeOK ==
    /\ status \in [Requests -> {"draft", "published", "selected"}]
    /\ listTier \in [Requests -> 0 .. MaxTier]
    /\ listRankAt \in [Requests -> 0 .. MaxClock]
    /\ clock \in 0 .. MaxClock
    /\ {filters, draft, timers} \subseteq SUBSET Criteria
    /\ generation \in 1 .. MaxLoads
    /\ items \in [Requests -> Nat]
    /\ {hasMore, loading, loadingMore, error} \subseteq BOOLEAN
    /\ moved \subseteq Requests

\* requests.service.ts:157-160, "or rows get skipped or repeated across pages":
\* only a request whose own place changed after the first page was read can be.
\* Every other one that fits is shown once, or below the cursor of the next page.
NoneSkippedOrRepeated ==
    ~loading /\ ~error =>
        \A r \in Requests \ moved :
            items[r] = IF Listed(r, filters) /\ ~(hasMore /\ Below(Key(r), cursor[1])) THEN 1 ELSE 0

\* The bar and the list come to agree: with no timer running, what is typed is
\* what is applied, and what is shown fits it, however the fetches overtook.
ShownFits ==
    /\ timers = {} => draft = filters \cap TextCriteria
    /\ ~loading /\ ~error => \A r \in Requests : items[r] > 0 => Fits(r, filters)
=============================================================================
