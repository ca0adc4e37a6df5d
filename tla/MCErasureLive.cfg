CONSTANTS
    v1 = v1
    v2 = v2
    e1 = e1
    e2 = e2
    form = form
    form2 = form2
    ask = ask
    hourly = hourly
    rebuild = rebuild
    nightly = nightly
    send = send
    Visits = {v1}
    Events = {e1}
    Person <- OnePerson
    Browser <- TwoBrowsers
    Landing <- Everything
    Payloads <- BothPayloads
    Old = {}
    Tasks = {form, ask, hourly}
    Roles <- AllRoles
    Fragile = {ask, hourly}
    MaxFaults = 1
SPECIFICATION FairSpec
INVARIANTS TypeOK MarkMeansClean QuietErasureIsClean
PROPERTIES ErasureIsFinished KeepsTheRegister
