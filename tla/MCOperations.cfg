CONSTANTS
    Accounts = {"a1", "a2"}
    PlatformCampaigns = {1, 2, 3}
    OwnerOf <- MCOwnerOf
    TrackerCampaigns = {"t1", "t2"}
    NameMatch <- MCNameMatch
    SyncRuns = {s1, s2}
    FirstPage = 1
    MaxRotations = 2
    MaxSyncEvents = 3
    Landers = {"l1", "l2"}
    Shops = {"c1", "c2"}
    Slugs = {"s1", "s2"}
    AdminRequests = {"q1", "q2"}
    MaxAdminEvents = 3
    Pages = {"p1"}
    Sweeps = {"cron", "hand"}
    MaxAlerts = 2
    MaxAlertEvents = 4
    RulesAtHand <- MCRules
    Ads = {"a", "b", "c"}
    Hosts = {"h", "i"}
    NoHost = "no host"
    Groups = {"g"}
    Visits = {1, 2}
    Bots = {2}
    Happened = {1, 2}
    Guests = {1, 2}
    Steps = 2
    Tallies <- MCTallies
    MaxHour = 2
    MaxPerHour = 2
    MaxDrops = 1
    Refreshes = {f1, f2}
    Ranges = {"r1", "r2"}
    Picks = {"p1", "p2"}
    NoPick = "none"
    MaxConsoleEvents = 3
SYMMETRY Interchangeable
SPECIFICATION Spec
INVARIANTS
    SpendIsTheSum
    TokensAreKept
    LinksAreLive
    AlertsMatchHealth
    VisitsAreReportedOnce
    FiguresAgree
    HoursAreCounted
    ScreensShowWhatWasAsked
CHECK_DEADLOCK FALSE
