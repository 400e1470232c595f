\* One get_data_from_server and one get_entities of up to three pages, on the
\* smallest pool that cannot be exhausted: 2 * (3 - 1) + 1 threads.
SPECIFICATION FairSpec
CONSTANTS
    r1 = r1
    r2 = r2
    a = a
    b = b
    Unknown = Unknown
    Failed = Failed
    Reads = {r1, r2}
    Typed = {r2}
    PageSet <- MCPages
    MaxPages = 3
    Threads = 5
INVARIANTS NothingLost
PROPERTIES ImplementsPagedRead ReadsComplete
