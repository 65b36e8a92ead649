SPECIFICATION ServiceSpec
CONSTANTS
    Handlers = {t1, t2}
    Versions = {s1, s2}
    Bodies = {x1, x2}
    Keys = {n1, n2}
    MaxRecords = 1
    MaxRequests = 3
    MaxCrashes = 2
    None = None
    Torn = Torn
    d1 = d1
    Sessions = {s1, s2}
    Domains = {d1, d2}
    DomainOf <- OneDomain
    Names = {n1, n2}
    Values = {x1, x2}
    Threads = {t1, t2}
    MaxSlots = 1
    MaxGeneration = 2
    Unset = Unset
SYMMETRY RegistrySymmetry
INVARIANTS RecordsMatchArtifacts AckedPublishDurable ReplaysTruthful
           ClosedIsEmpty ReferenceFaithful
PROPERTIES AppendOnly NoCredentialAfterClose
CHECK_DEADLOCK FALSE
