----------------------------- MODULE OrderLedger -----------------------------
(***************************************************************************)
(* What the payments component promises about its order rows, without      *)
(* callbacks, locks, transactions or a reconciliation job: an order is     *)
(* opened once, may be rejected and settled later, is settled at most      *)
(* once, and what was bought is granted in the very step that settles it.  *)
(***************************************************************************)
EXTENDS Naturals

CONSTANT Orders

VARIABLES status,  \* the status column of the orders table ("none": no row)
          ents     \* how many entitlement rows carry the order's id

Init ==
    /\ status = [o \in Orders |-> "none"]
    /\ ents = [o \in Orders |-> 0]

Open(o) ==
    /\ status[o] = "none"
    /\ status' = [status EXCEPT ![o] = "PENDING"]
    /\ UNCHANGED ents

Reject(o) ==
    /\ status[o] \in {"PENDING", "FAILED"}
    /\ status' = [status EXCEPT ![o] = "FAILED"]
    /\ UNCHANGED ents

Settle(o) ==
    /\ status[o] \in {"PENDING", "FAILED"}
    /\ status' = [status EXCEPT ![o] = "PAID"]
    /\ ents' = [ents EXCEPT ![o] = @ + 1]

Next == \E o \in Orders : Open(o) \/ Reject(o) \/ Settle(o)

Spec == Init /\ [][Next]_<<status, ents>>
===============================================================================
