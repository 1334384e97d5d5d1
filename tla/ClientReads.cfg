SPECIFICATION Spec
CONSTANTS
    NoChain = NoChain
    Tasks = {t1, t2}
    PageSize = 1
    MaxSkip = 1
    Retries = 2
    MaxChains = 1
    MaxSeals = 3
    MaxMessages = 2
    Outcomes = {"absent", "broken", "good"}
    CanEdit = FALSE
INVARIANTS TypeOK PlaintextKept
PROPERTIES FailuresAreExplained
SYMMETRY TaskSymmetry
CHECK_DEADLOCK FALSE
