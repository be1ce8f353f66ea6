----------------------------- MODULE MCPayments -----------------------------
(* Instances of Payments for TLC. *)
EXTENDS Payments, TLC

\* Orders and callback executions are interchangeable.
Symmetry == Permutations(Orders) \cup Permutations(Callbacks)

\* TARGETED_NOTIFY only writes the entitlement, like any product bought without
\* a request, so the other four codes stand for the catalogue.
Catalogue == ProductCode \ {"TARGETED_NOTIFY"}

\* The two products that compete for listTier.
TierProducts == {"URGENT_BADGE", "FEATURE"}
===============================================================================
