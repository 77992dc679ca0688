SPECIFICATION Spec
CONSTANTS
    None = None
    Ours = Ours
    Theirs = Theirs
    mine = mine
    fallback = fallback
    theirs = theirs
    e1 = e1
    e2 = e2
    h1 = h1
    t1 = t1
    PluginID = Ours
    PluginIds <- MCPluginIds
    Payload <- MCPayload
    AutoMonitor <- MCAutoMonitor
    Handlers = {h1}
    Ticks = {t1}
    ExtIds = {e1, e2}
    Requests = {mine}
    UpStatuses = {"queued", "imported", "failed"}
    FaultKinds = {}
    MaxFaults = 0
    MaxDups = 1
    MaxGen = 1
SYMMETRY Symmetry
CHECK_DEADLOCK FALSE
INVARIANTS
    OutcomesNeverContradict
