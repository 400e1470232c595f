\* A builder and three paths to expand from it and from one another.  Builders
\* are deleted, and programs end.
SPECIFICATION QuerySpec
CONSTANTS
    None = None
    Roots = {r1}
    Branches = {i1, i2, i3}
    Options <- MCOptions
    MaxDetails = 2
    MaxExpands = 3
INVARIANTS TreeIsSafe ExpressionSaysWhatWasAsked
SYMMETRY MCSymmetry
CHECK_DEADLOCK FALSE
