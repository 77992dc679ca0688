SPECIFICATION Spec
CONSTANTS
    None = None
    Ours = Ours
    Theirs = Theirs
    mine = mine
    fallback = fallback
    theirs = theirs
    e1 = e1
    e2 = e2
    h1 = h1
    t1 = t1
    t2 = t2
    PluginID = Ours
    PluginIds <- MCPluginIds
    Payload <- MCPayload
    AutoMonitor <- MCAutoMonitor
    Handlers = {h1}
    Ticks = {t1, t2}
    ExtIds = {e1, e2}
    Requests = {mine}
    UpStatuses = {"queued", "imported", "failed"}
    FaultKinds = {}
    MaxFaults = 0
    MaxDups = 0
    MaxGen = 2
SYMMETRY Symmetry
CHECK_DEADLOCK FALSE
INVARIANTS
    TicksNeverOverlap
