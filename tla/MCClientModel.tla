--------------------------- MODULE MCClientModel ---------------------------
(* Instances of ClientModel for TLC. *)
EXTENDS ClientModel, TLC

CONSTANTS c1, c2, c3, o1, o2, s1, s2

\* Two clients of one service and one of another.
TwoServices == (c1 :> s1) @@ (c2 :> s1) @@ (c3 :> s2)
============================================================================
