SPECIFICATION FairSpec
CONSTANTS
    b1 = b1
    b2 = b2
    s1 = s1
    s2 = s2
    None = None
    Book = b1
    Secrets = {s1, s2}
    OldLinks <- MCOldLinks
    Routes <- MCRoutes
    Lengths <- MCLengths
    Declares = {TRUE, FALSE}
    Window = 2
    MaxFaults = 4
CHECK_DEADLOCK FALSE
INVARIANTS
    MediaTypeOK
    OneVersion
    CompleteIsWhole
PROPERTIES
    ProgressKept
    DownloadEnds
