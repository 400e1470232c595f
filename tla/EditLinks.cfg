\* Every request the store can answer, every choice of expansions and metadata.
SPECIFICATION Spec
CONSTANTS
    None = None
    Types <- MCTypes
    Base <- MCBase
    Declared <- MCDeclared
    Navs <- MCNavs
    Sets <- MCSets
    Singletons <- MCSingletons
    Keys <- MCKeys
    Store <- MCStore
    MaxDepth = 3
    MaxExpand = 4
INVARIANTS LinksLeadHome ReadIsWhatWasSent ReadIsEditable OnlyUnboundContextsCrash
