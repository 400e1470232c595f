\* Two clients whose updates can overtake one another.  The updates run out,
\* and clients end.
SPECIFICATION WireSpec
CONSTANTS
    None = None
    Clients = {c1, c2}
    Properties <- MCProperties
    Entity = "Person"
    Documents <- MCFewDocuments
    Texts <- MCTexts
    Settings <- MCSettings
    Operations = {}
    MaxEdits = 1
    MaxUpdates = 2
PROPERTIES UneditedStays
CHECK_DEADLOCK FALSE
