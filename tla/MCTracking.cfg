CONSTANTS
    CachedValues = {"off", "on"}
    DefaultValue = "off"
    CacheTtl = 2
    Latency = 1
    Readers = {r1, r2}
    Writers = {w1, w2}
    MaxCacheFaults = 1
    Clicks = {1, 2}
    Campaigns = {"c1", "c2"}
    Cookies = {"k"}
    Ips = {"1.1.1.1", "10.0.0.1"}
    Public = {"1.1.1.1"}
    Agents = {"ua"}
    BaseSignals <- MCBaseSignals
    IpSignals <- MCIpSignals
    Limits = {0, 1}
    Variants = {1, 2}
    AutoRuns = {"cron", "hand"}
    MinVisits = 1
    MinTotal = 3
    MinMargin = 20
    MinConversions = 1
    ZNum = 1
    ZDen = 1
    MaxTraffic = 4
    MaxEdits = 1
    Tabs = {1, 2}
    AdClicks = {"x", "y"}
    QueueLimit = 1
    MaxVisits = 2
    MaxLoads = 2
    Weights = {0, 1, 2}
    MaxItems = 3
    Urls <- MCUrls
    Events = {"lead", "quiz_q2", "lead_rejected"}
    Secrets = {"s1", "s2"}
    Beside <- MCBeside
SPECIFICATION Spec
INVARIANTS
    StaleIsYoung
    FloodIsScored
    NewMeansFirst
    RoutingIsFair
    ParamsAreClean
    PostbacksStayInBounds
    BilledClicksHaveVisits
    QueuesWaitForAVisit
    ErasedStayAway
    ErasureTakesOnePerson
    WhatIsReadIsRemoved
PROPERTIES
    PromotionIsEarned
    QuietPathKeepsServing
CHECK_DEADLOCK FALSE
