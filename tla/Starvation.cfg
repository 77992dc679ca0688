SPECIFICATION FairSpec
CONSTANTS
    Rows <- MCRows
    Backlog = {2, 3}
    Orphans = {1, 4, 5}
    Limit = 3
    TickTimeout = 20
    Latencies = {1, 10}
    Outcomes = {TRUE, FALSE}
    MaxFaults = 1
CHECK_DEADLOCK FALSE
PROPERTIES
    NoRowStarves
