CONSTANTS
    ad = ad
    partner = partner
    a = a
    b = b
    hourly = hourly
    AdVisits = {ad}
    PartnerVisits = {partner}
    Events = {"lead", "callback_request", "lead_sold"}
    ContactEvents = {"lead", "callback_request"}
    Outcomes = {"lead_sold"}
    Payloads <- AllPayloads
    Cap = 1
    MaxRequests = 2
    Tasks = {a, b, hourly}
    Roles <- TheRoles
    Fragile = {a}
    MaxFaults = 1
SPECIFICATION FairSpec
INVARIANTS NothingIsLost RealLeadsAreVisible
PROPERTIES CapHolds FirstContactStays ReplayChangesNothing StoredContactsBecomeLeads ProofSettles
CHECK_DEADLOCK FALSE
