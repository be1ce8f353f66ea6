-------------------------------- MODULE Seed --------------------------------
(***************************************************************************)
(* The script that fills a development database: packages/db/src/seed.ts,  *)
(* against the foreign and unique keys of schema.prisma.  Module SeedRows  *)
(* has its rows, this one what main() does with them.                      *)
(*                                                                         *)
(* The script upserts its rows one by one in the order of Plan, a          *)
(* statement each and no transaction around them.  A run may be killed     *)
(* after any of them, and be started again; between and during runs an     *)
(* administrator changes seeded categories and skills, switches them off   *)
(* and on, or creates one of his own with a slug the seed uses.  Nobody    *)
(* else touches a seeded row: its users' phones are not in the form a      *)
(* login looks up.                                                         *)
(*                                                                         *)
(* The seed names the columns it sets, the same for a new row and for one  *)
(* it finds.  isActive is not among them: the schema's default makes a new *)
(* row active, and a row that was switched off stays so through any run.   *)
(*                                                                         *)
(* MaxEdits bounds what the administrator does.                            *)
(*                                                                         *)
(* Abstracted: the columns but for keys and isActive; two runs at one      *)
(* time.                                                                   *)
(***************************************************************************)
EXTENDS Integers, Sequences, SequencesExt

CONSTANTS
    Plan,       \* the script's upserts in order: [row, refs, unique]
    Editable,   \* rows an administrator cares about
    ActiveRows, \* requests seeded as DRAFT, PUBLISHED or OFFER_SELECTED
    MaxEdits

\* A row needs earlier rows only, and none has the id or the unique key of another;
\* what an administrator cares about has its slug for an id.
SeedAssumption ==
    /\ Plan \in Seq([row : {l.row : l \in Range(Plan)},
                     refs : SUBSET {l.row : l \in Range(Plan)},
                     unique : {l.unique : l \in Range(Plan)}])
    /\ \A i \in DOMAIN Plan :
        /\ Plan[i].refs \subseteq {Plan[j].row : j \in 1 .. i - 1}
        /\ \A j \in DOMAIN Plan :
            Plan[i].row = Plan[j].row \/ Plan[i].unique = Plan[j].unique => i = j
        /\ Editable \cap {Plan[i].row, Plan[i].unique} # {} => Plan[i].unique = Plan[i].row
    /\ ActiveRows \subseteq {l.row : l \in Range(Plan)}
    /\ MaxEdits \in Nat

VARIABLES
    written,    \* seeded rows
    changed,    \* those of them with a column that the seed sets and is not as seeded
    inactive,   \* those of them that an administrator has switched off
    taken,      \* unique keys that rows of the administrator hold
    late,       \* rows changed after the last run had passed them
    next,       \* position in Plan of the run under way, or 0
    outcome,    \* how the last run ended: "killed", "done" or "failed"; or "none"
    edits

vars == <<written, changed, inactive, taken, late, next, outcome, edits>>

-----------------------------------------------------------------------------
Init ==
    /\ written = {}
    /\ changed = {}
    /\ inactive = {}
    /\ taken = {}
    /\ late = {}
    /\ next = 0
    /\ outcome = "none"
    /\ edits = 0

-----------------------------------------------------------------------------
(* A run *)

Start ==
    /\ next = 0
    /\ next' = 1
    /\ late' = {}
    /\ outcome' = "none"
    /\ UNCHANGED <<written, changed, inactive, taken, edits>>

\* A row that is there is found by its id and updated; one that is not is
\* created, unless it needs a row that is not there or another holds its
\* unique key.
Refused(l) ==
    /\ l.row \notin written
    /\ \/ ~ l.refs \subseteq written
       \/ l.unique \in taken

\* An upsert that leaves a row it finds as it is.
MutantCreateOnly(l) == changed

\* What differs from the seed in a column it sets, after the upsert of a line.
Overwritten(l) == changed \ {l.row}

Upsert ==
    /\ next \in DOMAIN Plan
    /\ ~ Refused(Plan[next])
    /\ written' = written \cup {Plan[next].row}
    /\ changed' = Overwritten(Plan[next])
    /\ next' = next + 1
    /\ UNCHANGED <<inactive, taken, late, outcome, edits>>

Complete ==
    /\ next = Len(Plan) + 1
    /\ next' = 0
    /\ outcome' = "done"
    /\ UNCHANGED <<written, changed, inactive, taken, late, edits>>

\* An error ends the process, and leaves what the run has written.
RunFails ==
    /\ next \in DOMAIN Plan
    /\ Refused(Plan[next])
    /\ next' = 0
    /\ outcome' = "failed"
    /\ UNCHANGED <<written, changed, inactive, taken, late, edits>>

Killed ==
    /\ next # 0
    /\ next' = 0
    /\ outcome' = "killed"
    /\ UNCHANGED <<written, changed, inactive, taken, late, edits>>

-----------------------------------------------------------------------------
(* An administrator *)

Passed == {Plan[i].row : i \in 1 .. next - 1}

\* The name, the order, a skill's category; the slug stays.  (An update that sets
\* isActive as well is this and a Switch.)
Update ==
    /\ edits < MaxEdits
    /\ \E r \in Editable \cap written :
        /\ changed' = changed \cup {r}
        /\ late' = IF r \in Passed THEN late \cup {r} ELSE late
    /\ edits' = edits + 1
    /\ outcome' = "none"
    /\ UNCHANGED <<written, inactive, taken, next>>

\* isActive.  A category is not switched off under a request that is active; a
\* skill may be.
InUse(r) ==
    \E i \in DOMAIN Plan : Plan[i].row \in written \cap ActiveRows /\ r \in Plan[i].refs

Switch ==
    /\ edits < MaxEdits
    /\ \E r \in Editable \cap written :
        \/ r \in inactive /\ inactive' = inactive \ {r}
        \/ r \notin inactive /\ ~ InUse(r) /\ inactive' = inactive \cup {r}
    /\ edits' = edits + 1
    /\ UNCHANGED <<written, changed, taken, late, next, outcome>>

\* A row of his own, under a slug that is free.
Create ==
    /\ edits < MaxEdits
    /\ \E r \in Editable \ (written \cup taken) : taken' = taken \cup {r}
    /\ edits' = edits + 1
    /\ UNCHANGED <<written, changed, inactive, late, next, outcome>>

Next == Start \/ Upsert \/ Complete \/ RunFails \/ Killed \/ Update \/ Switch \/ Create

Spec == Init /\ [][Next]_vars

-----------------------------------------------------------------------------
TypeOK ==
    /\ written \subseteq {l.row : l \in Range(Plan)}
    /\ changed \subseteq written
    /\ inactive \subseteq written \cap Editable
    /\ taken \subseteq Editable
    /\ late \subseteq changed \cap Editable
    /\ next \in 0 .. Len(Plan) + 1
    /\ outcome \in {"none", "killed", "done", "failed"}
    /\ edits \in 0 .. MaxEdits

\* However often runs were killed or refused before and whatever an
\* administrator changed, the rows a run has passed are there, with every column
\* that the seed sets as seeded, but for what was changed after it had passed.
\* It ends with every row so, or is refused, and then only because an
\* administrator's row holds the slug of one not yet seeded.  isActive is not
\* part of this: rows are switched off as before, whatever runs there were.
\* (seed.ts promises that "any number of times converges on the same state
\* instead of erroring or duplicating rows": it converges in what it sets.)
RunsConverge ==
    /\ Passed \subseteq written
    /\ Passed \cap changed \subseteq late
    /\ outcome = "done" => written = {l.row : l \in Range(Plan)} /\ changed \subseteq late
    /\ outcome = "failed" => \E r \in taken : r \notin written
=============================================================================
