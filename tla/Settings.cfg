SPECIFICATION Spec
CONSTANTS
    None = None
    Torn = Torn
    default = default
    lan = lan
    k1 = k1
    k2 = k2
    s1 = s1
    p1 = p1
    p2 = p2
    Patches = {p1, p2}
    Bases <- MCBases
    DefaultBase = default
    Keys <- MCKeys
    Secrets <- MCSecrets
    HostConfigs <- MCLegacyHost
    Bodies <- MCBodies
    FaultKinds = {"db", "lost", "crash"}
    MaxFaults = 1
    MaxGen = 2
SYMMETRY Symmetry
INVARIANTS
    ConfigTypeOK
    SavedTogether
    PairsKept
    SettingsInForce
PROPERTIES
    RowWins
    BlankKeepsKey
    KeepsGenerations
