------------------------------- MODULE MCLogin -------------------------------
(* A login with at most as many worker processes as there are Workers.     *)
EXTENDS Login, TLC

(* A greeter's services are all alike.                                     *)
Symmetry == Permutations(Services)
=============================================================================
