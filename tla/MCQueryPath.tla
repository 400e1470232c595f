----------------------------- MODULE MCQueryPath -----------------------------
\* Options of two types, one of which has two options to ask for.
EXTENDS QueryReading, TLC

MCOptions == [Old |-> 1, Young |-> 1, First |-> 2]

MCSymmetry == Permutations(Roots) \cup Permutations(Branches)
==============================================================================
