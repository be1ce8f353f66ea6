------------------------------- MODULE Cleanup -------------------------------
(***************************************************************************)
(* The script that removes what manual testing has left in a development   *)
(* database: apps/api/src/scripts/cleanup-qa-data.ts, against the foreign  *)
(* keys of packages/db/prisma/schema.prisma, while the application runs.   *)
(*                                                                         *)
(* The script finds the test users that are old enough, reads what is      *)
(* theirs in three queries, and deletes it in one transaction of ordered   *)
(* deleteManys, each of which the database refuses if a row that stays     *)
(* needs one that goes.  The transaction is one step here.                 *)
(*                                                                         *)
(* A row is <<table, number>>, PerTable rows of a table at most; "session" *)
(* stands for the tables whose rows need a user and nothing else.          *)
(*                                                                         *)
(* Abstracted: the columns that refer to nothing, the codes and Redis keys *)
(* of a phone number (no row refers to them), tables that cascade          *)
(* (RequestSkill, UserSkill), the refusal of anything but a local database.*)
(***************************************************************************)
EXTENDS Integers, Sequences, FiniteSets, SequencesExt

CONSTANTS
    Users,
    TestUsers,  \* whose phone has the test prefix
    OldUsers,   \* created before the cutoff
    PerTable

Tables ==
    {"session", "request", "offer", "order", "subscription", "entitlement", "conversation",
     "message", "review"}

CleanupAssumption ==
    /\ TestUsers \cup OldUsers \subseteq Users
    /\ PerTable \in Nat
    /\ Users \cap (Tables \X (1 .. PerTable)) = {}

VARIABLES
    users,      \* rows of users
    needs,      \* rows of the other tables: what each refers to, and must
    links,      \* and what it refers to in a nullable column
    step,       \* the script's next step
    candidates, planned,    \* users and rows it has read
    quiet       \* nobody inserted a row while it ran

db == <<users, needs, links>>
vars == <<db, step, candidates, planned, quiet>>

-----------------------------------------------------------------------------
Rows == DOMAIN needs
In(table) == {r \in Rows : r[1] = table}
Refs(r) == needs[r] \cup links[r]

Init ==
    /\ users = Users
    /\ needs = <<>>
    /\ links = <<>>
    /\ step = "candidates"
    /\ candidates = {}
    /\ planned = {}
    /\ quiet = TRUE

-----------------------------------------------------------------------------
(* The application *)

Insert(table, must, may) ==
    LET n == Cardinality(In(table)) + 1
        r == CHOOSE x \in {table} \X (1 .. PerTable) : x \notin Rows
    IN /\ n <= PerTable
       /\ needs' = [x \in Rows \cup {r} |-> IF x = r THEN must ELSE needs[x]]
       /\ links' = [x \in Rows \cup {r} |-> IF x = r THEN may ELSE links[x]]
       /\ quiet' = (quiet /\ step \in {"candidates", "done", "failed"})
       /\ UNCHANGED <<users, step, candidates, planned>>

OwnersOf(r) == needs[r] \cap users

\* One case a table: what RequestsService, OffersService and the others insert.
Application ==
    \/ \E u \in users :
        \/ Insert("session", {u}, {})
        \/ Insert("request", {u}, {})
        \/ \E r \in In("request") : u \notin needs[r] /\ Insert("offer", {r, u}, {})
        \/ Insert("order", {u}, {})
        \/ \E r \in In("request") : u \in needs[r] /\ Insert("order", {u}, {r})
        \/ \E o \in In("order") : u \in needs[o] /\ Insert("subscription", {o, u}, {})
        \/ \E o \in In("order") : u \in needs[o] /\ Insert("entitlement", {u}, {o} \cup links[o])
        \/ \E c \in In("conversation") : u \in needs[c] /\ Insert("message", {c}, {u})
        \/ \E c \in In("conversation") :
               u \in needs[c] /\ Insert("review", {c} \cup OwnersOf(c), {})
    \/ \E o \in In("offer") : \E r \in needs[o] \cap In("request") :
           /\ \A c \in In("conversation") : o \notin needs[c]
           /\ Insert("conversation", {r, o} \cup OwnersOf(r) \cup OwnersOf(o), {})

-----------------------------------------------------------------------------
(* The script *)

Then(from, to) ==
    /\ step = from
    /\ step' = to

FindCandidates ==
    /\ Then("candidates", "requests")
    /\ candidates' = users \cap TestUsers \cap OldUsers
    /\ UNCHANGED <<db, planned, quiet>>

\* The rows of a table that refer to a candidate or to something planned already.
Plan(from, table, to) ==
    /\ Then(from, to)
    /\ planned' = planned \cup {r \in In(table) : Refs(r) \cap (candidates \cup planned) # {}}
    /\ UNCHANGED <<db, candidates, quiet>>

BuildPlan ==
    \/ Plan("requests", "request", "conversations")
    \/ Plan("conversations", "conversation", "orders")
    \/ Plan("orders", "order", "execute")

\* Mutant of Order: the rows of the earlier tables first, as they were created.
MutantParentsFirst ==
    <<"order", "subscription", "entitlement", "message", "review", "conversation",
      "offer", "request", "session">>

Order ==
    <<"subscription", "entitlement", "order", "message", "review", "conversation",
      "offer", "request", "session">>

\* The planned rows of the three tables that were read; of the others, those that
\* refer to a candidate or to a planned row.
Doomed(table) ==
    {r \in In(table) : \/ r \in planned
                       \/ /\ table \notin {"request", "conversation", "order"}
                          /\ Refs(r) \cap (candidates \cup planned) # {}}

\* A row that stays when its turn has passed, or has not come, needs none that go.
Refused ==
    \/ \E i \in DOMAIN Order : \E r \in Doomed(Order[i]) : \E x \in Rows :
           /\ r \in needs[x]
           /\ \A j \in 1 .. i : x \notin Doomed(Order[j])
    \/ \E x \in Rows : needs[x] \cap candidates # {} /\ x \notin Doomed(x[1])

\* A nullable column that refers to a row that goes is set to null.
ExecuteCleanupPlan ==
    LET gone == UNION {Doomed(Order[i]) : i \in DOMAIN Order} IN
    /\ ~Refused
    /\ Then("execute", "done")
    /\ users' = users \ candidates
    /\ needs' = [x \in Rows \ gone |-> needs[x]]
    /\ links' = [x \in Rows \ gone |-> links[x] \ (gone \cup candidates)]
    /\ UNCHANGED <<candidates, planned, quiet>>

\* The transaction is rolled back, and the script ends with the error.
CleanupFails ==
    /\ Refused
    /\ Then("execute", "failed")
    /\ UNCHANGED <<db, candidates, planned, quiet>>

\* Another run, later.
Again ==
    /\ step \in {"done", "failed"}
    /\ step' = "candidates"
    /\ candidates' = {}
    /\ planned' = {}
    /\ quiet' = TRUE
    /\ UNCHANGED db

-----------------------------------------------------------------------------
Next ==
    \/ Application
    \/ FindCandidates \/ BuildPlan \/ ExecuteCleanupPlan \/ CleanupFails \/ Again

Spec == Init /\ [][Next]_vars

-----------------------------------------------------------------------------
TypeOK ==
    /\ users \subseteq Users
    /\ DOMAIN links = Rows
    /\ \A r \in Rows : Refs(r) \subseteq users \cup Rows
    /\ step \in {"candidates", "requests", "conversations", "orders", "execute", "done", "failed"}
    /\ candidates \subseteq Users
    /\ quiet \in BOOLEAN

\* "Deletion order matters" (cleanup-qa-data.ts:169-173): whatever the test users
\* have done, a run nothing was inserted under is not refused by the database.
QuietRunSucceeds == step = "failed" => ~quiet
=============================================================================
