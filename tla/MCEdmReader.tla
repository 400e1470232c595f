---------------------------- MODULE MCEdmReader ------------------------------
(* Instances of EdmReader for TLC. *)
EXTENDS EdmReader, TLC

CONSTANTS n1, n2

Symmetry == Permutations({n1, n2})
==============================================================================
