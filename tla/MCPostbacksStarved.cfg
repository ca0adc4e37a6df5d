CONSTANTS
    meta = meta
    mediago = mediago
    loop = loop
    sweep = sweep
    sweep2 = sweep2
    MaxConversions = 2
    Configured = {2}
    Networks = {meta}
    Handles <- AllNetworks
    MaxAttempts = 2
    Batch = 1
    Tasks = {loop, sweep}
    Roles <- TheRoles
    MaxRetries = 0
    MaxFaults = 0
SPECIFICATION FairSpec
PROPERTIES RetriesEnd
CHECK_DEADLOCK FALSE
