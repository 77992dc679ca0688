SPECIFICATION FairSpec
CONSTANTS
    None = None
    Ours = Ours
    Theirs = Theirs
    mine = mine
    fallback = fallback
    theirs = theirs
    e1 = e1
    h1 = h1
    t1 = t1
    t2 = t2
    PluginID = Ours
    PluginIds <- MCPluginIds
    Payload <- MCPayload
    AutoMonitor <- MCAutoMonitor
    Handlers = {h1}
    Ticks = {t1, t2}
    ExtIds = {e1}
    Requests = {mine}
    UpStatuses = {"queued", "imported", "failed"}
    FaultKinds = {"db", "poll", "reply", "publish", "budget", "crash"}
    MaxFaults = 1
    MaxDups = 1
    MaxGen = 2
CHECK_DEADLOCK FALSE
INVARIANTS
    AckedIsTrackable
    AutoMonitorKept
PROPERTIES
    EventuallySettled
    KeepsPromiseInTime
