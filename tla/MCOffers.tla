------------------------------ MODULE MCOffers ------------------------------
(* Instances of Offers for TLC. *)
EXTENDS Offers, TLC

\* Providers and calls are interchangeable (not used where liveness is checked).
Symmetry == Permutations(Providers) \cup Permutations(Handlers)
===============================================================================
