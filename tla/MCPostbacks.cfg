CONSTANTS
    meta = meta
    mediago = mediago
    loop = loop
    sweep = sweep
    sweep2 = sweep2
    MaxConversions = 1
    Configured = {1}
    Networks = {meta, mediago}
    Handles <- AllNetworks
    MaxAttempts = 2
    Batch = 2
    Tasks = {loop, sweep}
    Roles <- TheRoles
    MaxRetries = 1
    MaxFaults = 1
SPECIFICATION FairSpec
INVARIANTS SentMeansAccepted AttemptsAreBounded
PROPERTIES TakesUpOnlyUnfinished RetriesEnd
CHECK_DEADLOCK FALSE
