SPECIFICATION Spec
CONSTANTS
    NSegments = 2
    Payloads = {p1, p2}
    NoState = NoState
    GenMod = 3
    MaxFaults = 1
PROPERTIES
    SavePreservesRecoverableBank
