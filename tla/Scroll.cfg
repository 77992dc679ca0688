SPECIFICATION FairSpec
CONSTANTS
    hardcover = hardcover
    paperback = paperback
    novel = novel
    scan1 = scan1
    scan2 = scan2
    w1 = w1
    w2 = w2
    untitled = untitled
    NoTitle = untitled
    Editions <- MCEditions
    Lists = {"books", "genres"}
    ReadsCursor = {TRUE, FALSE}
    Echoing = {TRUE, FALSE}
    Work <- MCWork
    Libraries <- MCLibraries
    Limits = {0, 1, 3}
    maxCatalogLimit = 2
    DefaultTarget = 3
    UpstreamPage = 1
    Counting = {TRUE, FALSE}
    maxFanout = 2
    MaxBooks = 4
    MaxFaults = 1
CHECK_DEADLOCK FALSE
INVARIANTS
    OneCardPerWork
    NothingSkipped
    NoBlankPage
PROPERTIES
    CursorsGoOn
    ScrollEnds
