CONSTANTS
    v1 = v1
    v2 = v2
    e1 = e1
    e2 = e2
    form = form
    form2 = form2
    ask = ask
    hourly = hourly
    rebuild = rebuild
    nightly = nightly
    send = send
    Visits = {v1}
    Events = {e1}
    Person <- OnePerson
    Browser <- TwoBrowsers
    Landing <- Everything
    Payloads <- FullPayload
    Old = {v1}
    Tasks = {form, ask, nightly}
    Roles <- AllRoles
    Fragile = {}
    MaxFaults = 0
SPECIFICATION Spec
INVARIANTS TombstoneIsBlank
