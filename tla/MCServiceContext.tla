-------------------------- MODULE MCServiceContext ---------------------------
(* Instances of ServiceContext for TLC. *)
EXTENDS ServiceContext, TLC

CONSTANTS o1, o2, o3, Orders, Parent

Symmetry == Permutations(Objects)
==============================================================================
