------------------------------- MODULE MCXdmcp -------------------------------
(* The XDMCP factory with few display objects, which are interchangeable.  *)
EXTENDS Xdmcp, TLC

Symmetry == Permutations(Objects)

(* Without HonorIndirect num_sessions is written but never read.           *)
DirectView == <<display, serial, purge, up>>
=============================================================================
