SPECIFICATION Spec
CONSTANTS
    Models <- MCModels
    Stores <- MCStores
    Reserved <- MCReserved
    Tasks = {t1, t2, t3}
    Values = {2}
    MaxChanges = 1
    MaxEdits = 1
    Null = Null
    MaxNesting = 1
SYMMETRY Symmetry
INVARIANTS
    ClassesGenerated
    
    ReadsKeepTheType
    LoadsAreCurrent
PROPERTY
    OnlyEditsAreWritten
CHECK_DEADLOCK FALSE
