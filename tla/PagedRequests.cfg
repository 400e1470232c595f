\* Two pages, three calls which may overlap, and another request.
SPECIFICATION PagedSpec
CONSTANTS
    x1 = x1
    x2 = x2
    x3 = x3
    w = w
    plain = plain
    chosen = chosen
    Pages = 2
    Calls = {x1, x2, x3}
    Requests = {x1, x2, x3, w}
    Settings = {plain, chosen}
    Default = plain
    Credential = TRUE
SYMMETRY Symmetry
CONSTRAINT ChangesWhenAwaited
INVARIANTS NoPageSkipped EachPageOnce PagesAreAuthenticated ChoicesHold OneClientWhenAwaited
