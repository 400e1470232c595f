\* One expanded property is enough to see the key behind a singleton.
SPECIFICATION Spec
CONSTANTS
    None = None
    Types <- MCTypes
    Base <- MCBase
    Declared <- MCDeclared
    Navs <- MCNavs
    Sets <- MCSets
    Singletons <- MCSingletons
    Keys <- MCKeys
    Store <- MCStore
    MaxDepth = 1
    MaxExpand = 1
INVARIANTS SingletonsKeepTheirLink
