SPECIFICATION FairSpec
CONSTANTS
    hardcover = hardcover
    paperback = paperback
    novel = novel
    scan1 = scan1
    scan2 = scan2
    w1 = w1
    w2 = w2
    untitled = untitled
    NoTitle = untitled
    Editions <- MCEditions
    Lists = {"genres"}
    ReadsCursor = {TRUE}
    Echoing = {FALSE}
    Work <- MCWork
    Libraries <- MCLibraries
    Limits = {0, 1, 3}
    maxCatalogLimit = 2
    DefaultTarget = 3
    UpstreamPage = 1
    Counting = {TRUE}
    maxFanout = 2
    MaxBooks = 3
    MaxFaults = 0
CHECK_DEADLOCK FALSE
PROPERTIES
    GenreScrollEnds
