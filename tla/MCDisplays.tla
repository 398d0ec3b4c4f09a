------------------------------ MODULE MCDisplays ------------------------------
(* Instances of Displays for TLC.                                          *)
EXTENDS Displays, TLC

(* Display objects are interchangeable: a new one takes any free slot.  So *)
(* are the seats, which logind lists in any order.                         *)
Symmetry == Permutations(Displays) \cup Permutations(OtherSeats)
===============================================================================
