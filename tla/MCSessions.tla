------------------------------ MODULE MCSessions ------------------------------
(* Instances of Sessions for TLC: two calls of one browser, one of another. *)
EXTENDS Sessions, TLC

CONSTANTS b1, b2, c1, c2, c3

MCBy == (c1 :> b1) @@ (c2 :> b1) @@ (c3 :> b2)

\* Rows, families and the calls of one browser are interchangeable.
Symmetry == Permutations(Sessions) \cup Permutations(Families) \cup Permutations({c1, c2})
===============================================================================
