\* One client, every document, and operations that take what it holds.
SPECIFICATION WireSpec
CONSTANTS
    None = None
    Clients = {c1}
    Properties <- MCProperties
    Entity = "Person"
    Documents <- MCDocuments
    Texts <- MCTexts
    Settings <- MCSettings
    Operations <- MCOperations
    MaxEdits = 1
    MaxUpdates = 1
INVARIANTS ArgumentsArrive ReadCanBeWritten
PROPERTIES WrittenReadsBack
CHECK_DEADLOCK FALSE
