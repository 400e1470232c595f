\* Every document of up to six elements, complete or broken off.
SPECIFICATION Spec
CONSTANTS
    n1 = n1
    n2 = n2
    Names = {n1, n2}
    NoName = NoName
    MaxElements = 6
SYMMETRY Symmetry
INVARIANTS FiledWhole NothingDropped PointersAreSet
