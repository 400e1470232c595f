SPECIFICATION Spec
CONSTANTS
    o1 = o1
    o2 = o2
    o3 = o3
    Orders = Orders
    Parent = Parent
    Objects = {o1, o2}
    EntitySets = {Orders}
    Navs = {Orders}
    Singles = {Parent}
    MaxKey = 2
    MaxDepth = 4
SYMMETRY Symmetry
INVARIANTS LinksAreOwn WritesHitOwn AddedIsEditable
