CONSTANTS
    meta = meta
    mediago = mediago
    loop = loop
    sweep = sweep
    sweep2 = sweep2
    MaxConversions = 1
    Configured = {1}
    Networks = {meta}
    Handles <- AllNetworks
    MaxAttempts = 2
    Batch = 2
    Tasks = {loop, sweep, sweep2}
    Roles <- TheRoles
    MaxRetries = 0
    MaxFaults = 0
SPECIFICATION Spec
INVARIANTS OneRunAtATime
CHECK_DEADLOCK FALSE
