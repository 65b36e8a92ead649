SPECIFICATION Spec
CONSTANTS
    Handlers = {h1, h2}
    Versions = {v1}
    Bodies = {b1, b2}
    Keys = {k1, k2}
    MaxRecords = 2
    MaxRequests = 3
    MaxCrashes = 2
    None = None
    Torn = Torn
SYMMETRY RegistrySymmetry
CHECK_DEADLOCK FALSE
INVARIANTS ReplayReturnsOriginal
