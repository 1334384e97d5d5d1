SPECIFICATION Spec
CONSTANTS
    NoChain = NoChain
    Tasks = {t1, t2}
    PageSize = 1
    MaxSkip = 1
    Retries = 1
    MaxChains = 2
    MaxSeals = 1
    MaxMessages = 1
    Outcomes = {"broken", "good"}
    CanEdit = TRUE
PROPERTIES NoKeyResolves
CHECK_DEADLOCK FALSE
