SPECIFICATION Spec
CONSTANTS
    None = None
    Torn = Torn
    default = default
    lan = lan
    k1 = k1
    k2 = k2
    s1 = s1
    p1 = p1
    Patches = {p1}
    Bases <- MCBases
    DefaultBase = default
    Keys <- MCKeys
    Secrets <- MCSecrets
    HostConfigs <- MCSecretHost
    Bodies <- MCBodies
    FaultKinds = {"crash"}
    MaxFaults = 1
    MaxGen = 1
INVARIANTS
    HostSecretInForce
