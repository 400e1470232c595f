\* Two clients of one service and one of another, two calls that may overlap.
SPECIFICATION FairSpec
CONSTANTS
    c1 = c1
    c2 = c2
    c3 = c3
    o1 = o1
    o2 = o2
    s1 = s1
    s2 = s2
    NoModel = NoModel
    NoClient = NoClient
    Clients = {c1, c2, c3}
    Ops = {o1, o2}
    Services = {s1, s2}
    ServiceOf <- TwoServices
    Kinds = {"get_model", "operation", "send"}
INVARIANTS OwnService RequestHasModel FetchesOnce OneModelPerService ValuesKeepTheirModel AwaitedCallsAreDefined
PROPERTIES ImplementsServiceModels CallsComplete ParsedReachesCache
