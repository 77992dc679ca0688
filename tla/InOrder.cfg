SPECIFICATION FairSpec
CONSTANTS
    None = None
    Ours = Ours
    Theirs = Theirs
    mine = mine
    fallback = fallback
    theirs = theirs
    e1 = e1
    e2 = e2
    h1 = h1
    t1 = t1
    PluginID = Ours
    PluginIds <- MCPluginIds
    Payload <- MCPayload
    AutoMonitor <- MCAutoMonitor
    Handlers = {h1}
    Ticks = {t1}
    ExtIds = {e1, e2}
    Requests = {mine, fallback}
    UpStatuses = {"queued", "paused", "imported", "error"}
    FaultKinds = {"poll", "reply", "budget"}
    MaxFaults = 2
    MaxDups = 0
    MaxGen = 1
CHECK_DEADLOCK FALSE
INVARIANTS
    TypeOK
    ExtIdOfOwnRequest
    FulfilledIsTrue
    ImportedHasNoError
    OutcomesNeverContradict
PROPERTIES
    StatusNeverRestarts
    OutcomeAnnounced
    ErrorsRecover
