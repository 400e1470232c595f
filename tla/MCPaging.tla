------------------------------ MODULE MCPaging -------------------------------
(* Instances of Paging for TLC. *)
EXTENDS Paging

CONSTANTS r1, r2, a, b

\* Pages with no value, with one and with two different ones.
MCPages == {<<>>, <<a>>, <<a, b>>}
==============================================================================
