------------------------------ MODULE Console ------------------------------
(***************************************************************************)
(* The screens of the admin console.  A screen asks the server for what    *)
(* its inputs say, shows what is answered, and edits rows.  Answers come   *)
(* in any order: some screens cancel the load an input outdated, some hide *)
(* their inputs while they load, some do neither.  The overview shares its *)
(* KPIs and its error between three effects.  The test mode banner is on   *)
(* every screen and touches none; it is taken alone, on NoScreen.          *)
(***************************************************************************)
EXTENDS Integers

CONSTANTS
    Ranges, Picks,      \* what the inputs ask: a range or page, a campaign
    NoPick,
    MaxConsoleEvents    \* clicks of the administrator

ASSUME PicksAreNot == NoPick \notin Picks

VARIABLES
    screen,             \* the screen that is open
    asked,              \* its inputs
    shown,              \* what each part of it shows
    flight,             \* requests whose answer it still waits for
    loading, error,
    table,              \* [version: the server's rows, mine: the last edit known here]
    consoleEvents,
    banner, testMode,
    raced, failed,      \* history: parts two requests ran for; whose last load failed
    overtaken           \* history: the mode was changed from elsewhere

screenVars == <<screen, asked, shown, flight, loading, error, table, consoleEvents, raced, failed>>
bannerVars == <<banner, testMode, overtaken>>
consoleVars == <<screenVars, bannerVars>>

-----------------------------------------------------------------------------
(* The screens.  inputs: may ask for something else; guarded: cleans up    *)
(* the load that was outdated; hides: when a load hides inputs and buttons *)
(* ("once": only the first load counts as loading); edits: what follows a  *)
(* write; busy: no second write meanwhile.                                 *)
Screen(inputs, guarded, hides, edits, busy) ==
    [inputs |-> inputs, guarded |-> guarded, hides |-> hides, edits |-> edits, busy |-> busy,
     overview |-> FALSE]

ClicksPage      == Screen(TRUE,  TRUE,  "never",  "none",   FALSE)
TrafficPage     == Screen(FALSE, TRUE,  "always", "none",   FALSE)
RoutingPage     == Screen(FALSE, TRUE,  "once",   "none",   FALSE)
CampaignsPage   == Screen(FALSE, TRUE,  "always", "reload", FALSE)
CampaignPage    == Screen(FALSE, TRUE,  "once",   "answer", FALSE)
LanderPage      == Screen(FALSE, TRUE,  "once",   "answer", FALSE)
SettingsPage    == Screen(FALSE, FALSE, "once",   "answer", TRUE)
PathsPage       == Screen(FALSE, FALSE, "once",   "reload", FALSE)
LandersPage     == Screen(FALSE, FALSE, "once",   "reload", FALSE)
DomainsPage     == Screen(FALSE, FALSE, "once",   "reload", FALSE)
IntegrationsPage == Screen(FALSE, FALSE, "once",  "reload", FALSE)
ConversionsPage == Screen(FALSE, FALSE, "always", "reload", FALSE)
RulesPage       == Screen(FALSE, FALSE, "always", "reload", FALSE)
AlertsPage      == Screen(FALSE, FALSE, "always", "reload", FALSE)
EventTypesPage  == Screen(FALSE, FALSE, "first",  "reload", TRUE)
NetworksPage    == Screen(FALSE, FALSE, "never",  "reload", FALSE)
OffersPage      == Screen(TRUE,  FALSE, "never",  "reload", FALSE)
LeadsPage       == Screen(TRUE,  FALSE, "never",  "reload", FALSE)
IncomingPage    == Screen(TRUE,  FALSE, "never",  "none",   FALSE)
FunnelPage      == Screen(TRUE,  FALSE, "first",  "none",   FALSE)
PlacementsPage  == Screen(TRUE,  FALSE, "first",  "none",   FALSE)
InsightsPage    == Screen(TRUE,  FALSE, "first",  "none",   FALSE)
PerformancePage == Screen(TRUE,  FALSE, "always", "none",   FALSE)
OverviewPage    == [Screen(TRUE, TRUE,  "first",  "none",   FALSE) EXCEPT !.overview = TRUE]
NoScreen        == Screen(FALSE, FALSE, "never",  "none",   FALSE)

Screens ==
    {ClicksPage, TrafficPage, RoutingPage, CampaignsPage, CampaignPage, LanderPage, SettingsPage,
     PathsPage, LandersPage, DomainsPage, IntegrationsPage, ConversionsPage, RulesPage, AlertsPage,
     EventTypesPage, NetworksPage, OffersPage, LeadsPage, IncomingPage, FunnelPage, PlacementsPage,
     InsightsPage, PerformancePage, OverviewPage}

-----------------------------------------------------------------------------
Parts == {"table", "kpis", "drilldown"}
Nothing == [of |-> [range |-> NoPick, pick |-> NoPick], version |-> 0]

Usable ==
    \/ ~loading
    \/ screen.hides = "never"
    \/ screen.hides = "first" /\ shown["table"] # Nothing

(* A request: the effect or handler that sent it, the parts its answer     *)
(* sets, and the inputs it was sent with; version is 0 until it is served. *)
Request(effect, parts, inputs) ==
    [n |-> consoleEvents, effect |-> effect, parts |-> parts, of |-> inputs, version |-> 0]

(* Variant: the cleanup of an effect does not cancel its load.             *)
LetThemRun(effects) == flight

Cleanup(effects) ==
    IF screen.guarded THEN {r \in flight : r.effect \notin effects} ELSE flight

(* An effect never runs against itself if it cleans up; a handler may.     *)
Against(r, others) ==
    LET alone == screen.guarded /\ r.effect \in {"main", "pick", "drill"} IN
    {p \in r.parts : \E o \in others : p \in o.parts /\ ~(alone /\ o.effect = r.effect)}

Send(requests, others) ==
    /\ flight' = others \cup requests
    /\ raced' = (raced \ UNION {r.parts : r \in requests})
                    \cup UNION {Against(r, others) : r \in requests}

Click == consoleEvents < MaxConsoleEvents /\ consoleEvents' = consoleEvents + 1

(* A change of the range, the page, a filter.  The overview also drills    *)
(* into the campaign that was picked.                                      *)
ChangeRange(range) ==
    LET inputs == [asked EXCEPT !.range = range]
        drills == screen.overview /\ asked.pick # NoPick
    IN
    /\ Click /\ Usable
    /\ screen.inputs /\ range # asked.range
    /\ asked' = inputs
    /\ loading' = TRUE
    /\ Send({Request("main", {"table", "kpis"}, inputs)}
                \cup (IF drills THEN {Request("drill", {"drilldown"}, inputs)} ELSE {}),
            Cleanup({"main", "drill"}))
    /\ UNCHANGED <<screen, shown, error, table, failed>>

(* openReport, clearSelection: only the KPIs and the drilldown follow.     *)
PickCampaign(pick) ==
    LET inputs == [asked EXCEPT !.pick = pick] IN
    /\ Click /\ Usable
    /\ screen.overview /\ pick # asked.pick
    /\ asked' = inputs
    /\ Send({Request("pick", {"kpis"}, inputs)}
                \cup (IF pick # NoPick THEN {Request("drill", {"drilldown"}, inputs)} ELSE {}),
            Cleanup({"pick", "drill"}))
    /\ UNCHANGED <<screen, shown, loading, error, table, failed>>

(* The buttons of the overview: load reloads everything, and the           *)
(* toolbar's refreshReport the drilldown when one is open.                 *)
RefreshOverview(everything) ==
    LET drilldown == IF asked.pick = NoPick THEN {} ELSE {"drilldown"}
        parts == IF everything \/ drilldown = {} THEN {"table", "kpis"} \cup drilldown ELSE drilldown
    IN
    /\ Click /\ Usable
    /\ screen.overview
    /\ loading' = (loading \/ "table" \in parts)
    /\ Send({Request("refresh", parts, asked)}, flight)
    /\ UNCHANGED <<screen, asked, shown, error, table, failed>>

Edit ==
    /\ Click /\ Usable
    /\ screen.edits # "none"
    /\ screen.edits = "answer" => shown["table"] # Nothing
    /\ screen.busy => \A r \in flight : r.effect # "edit"
    /\ LET edit == Request("edit", {"table", "kpis"}, asked) IN
        /\ flight' = flight \cup {edit}
        /\ raced' = raced \cup Against(edit, flight)
    /\ UNCHANGED <<screen, asked, shown, loading, error, table, failed>>

(* The server serves a request: an edit makes a new version of the rows.   *)
Serve(r) ==
    LET version == IF r.effect = "edit" THEN table.version + 1 ELSE table.version IN
    /\ r.version = 0
    /\ table' = [table EXCEPT !.version = version]
    /\ flight' = (flight \ {r}) \cup {[r EXCEPT !.version = version]}
    /\ UNCHANGED <<screen, asked, shown, loading, error, consoleEvents, raced, failed>>

Show(r) == shown' = [p \in Parts |->
    IF p \in r.parts THEN [of |-> r.of, version |-> r.version] ELSE shown[p]]

(* pick neither clears the error nor ends the loading, drill only clears.  *)
LoadAnswered(r) ==
    /\ r.version > 0 /\ r.effect # "edit"
    /\ Show(r)
    /\ flight' = flight \ {r}
    /\ failed' = failed \ r.parts
    /\ error' = (error /\ r.effect = "pick")
    /\ loading' = (loading /\ "table" \notin r.parts)
    /\ UNCHANGED <<screen, asked, table, consoleEvents, raced>>

(* The handler that sent the edit goes on, with the inputs it was created  *)
(* with: it reloads, or shows the row that was answered.                   *)
EditAnswered(r) ==
    /\ r.version > 0 /\ r.effect = "edit"
    /\ table' = [table EXCEPT !.mine = IF @ > r.version THEN @ ELSE r.version]
    /\ IF screen.edits = "reload"
       THEN LET reload == [Request("reload", {"table", "kpis"}, r.of) EXCEPT !.n = r.n]
                others == flight \ {r}
            IN  /\ flight' = others \cup {reload}
                /\ raced' = raced \cup Against(reload, others)
                /\ loading' = (screen.hides # "once")
                /\ UNCHANGED <<shown, failed>>
       ELSE /\ Show(r)
            /\ flight' = flight \ {r}
            /\ failed' = failed \ r.parts
            /\ UNCHANGED <<raced, loading>>
    /\ UNCHANGED <<screen, asked, error, consoleEvents>>

(* A request fails, served or not; a failed edit is only told in a toast.  *)
RequestFails(r) ==
    /\ flight' = flight \ {r}
    /\ IF r.effect = "edit" THEN UNCHANGED <<error, failed, loading>>
       ELSE /\ error' = TRUE
            /\ failed' = failed \cup r.parts
            /\ loading' = (loading /\ ("table" \notin r.parts))
    /\ UNCHANGED <<screen, asked, shown, table, consoleEvents, raced>>

ScreenStep ==
    /\ \/ \E range \in Ranges : ChangeRange(range)
       \/ \E pick \in Picks \cup {NoPick} : PickCampaign(pick)
       \/ \E everything \in BOOLEAN : RefreshOverview(everything)
       \/ Edit
       \/ \E r \in flight : Serve(r) \/ LoadAnswered(r) \/ EditAnswered(r) \/ RequestFails(r)
    /\ UNCHANGED bannerVars

-----------------------------------------------------------------------------
(* TestModeBanner.                                                         *)

BannerRead ==
    /\ banner.pc \in {"loading", "rereading"}
    /\ banner' = [banner EXCEPT !.pc = "idle", !.loaded = TRUE, !.error = FALSE, !.enabled = testMode]
    /\ overtaken' = FALSE
    /\ UNCHANGED testMode

BannerReadFails ==
    /\ banner.pc \in {"loading", "rereading"}
    /\ banner' = [banner EXCEPT !.pc = "idle", !.loaded = TRUE, !.error = TRUE]
    /\ UNCHANGED <<testMode, overtaken>>

(* A banner that is loud, on or in error, only offers to switch off.       *)
Toggle ==
    LET next == ~(banner.enabled \/ banner.error) IN
    /\ banner.pc = "idle" /\ Click
    /\ banner' = [banner EXCEPT !.pc = "toggling", !.enabled = next, !.landed = FALSE]
    /\ UNCHANGED <<testMode, overtaken>>

ToggleLands ==
    /\ banner.pc = "toggling" /\ ~banner.landed
    /\ banner' = [banner EXCEPT !.landed = TRUE]
    /\ testMode' = banner.enabled
    /\ overtaken' = FALSE

ToggleAnswered ==
    /\ banner.pc = "toggling" /\ banner.landed
    /\ banner' = [banner EXCEPT !.pc = "idle", !.error = FALSE]
    /\ UNCHANGED <<testMode, overtaken>>

ToggleFails ==
    /\ banner.pc = "toggling"
    /\ banner' = [banner EXCEPT !.pc = "rereading", !.error = TRUE]
    /\ UNCHANGED <<testMode, overtaken>>

(* Another tab, or a call this one gave up on, changes the mode.           *)
ChangedElsewhere ==
    /\ Click
    /\ testMode' = ~testMode /\ overtaken' = TRUE
    /\ UNCHANGED banner

BannerStep ==
    /\ screen = NoScreen
    /\ \/ (BannerRead \/ BannerReadFails \/ ToggleLands \/ ToggleAnswered \/ ToggleFails)
          /\ UNCHANGED consoleEvents
       \/ Toggle \/ ChangedElsewhere
    /\ UNCHANGED <<screen, asked, shown, flight, loading, error, table, raced, failed>>

-----------------------------------------------------------------------------
AskedFirst == [range |-> CHOOSE r \in Ranges : TRUE, pick |-> NoPick]

Mount(s) ==
    /\ screen = s
    /\ asked = AskedFirst
    /\ shown = [p \in Parts |-> Nothing]
    /\ loading = (s # NoScreen)
    /\ flight = IF s = NoScreen THEN {} ELSE
                   {[n |-> 0, effect |-> "main", parts |-> {"table", "kpis"}, of |-> AskedFirst, version |-> 0]}
    /\ error = FALSE
    /\ table = [version |-> 1, mine |-> 1]
    /\ consoleEvents = 0
    /\ banner = [pc |-> IF s = NoScreen THEN "loading" ELSE "idle", loaded |-> FALSE,
                 enabled |-> FALSE, error |-> FALSE, landed |-> FALSE]
    /\ raced = {} /\ failed = {} /\ overtaken = FALSE

ConsoleInit ==
    \/ \E s \in Screens : Mount(s) /\ testMode = FALSE
    \/ Mount(NoScreen) /\ testMode \in BOOLEAN

RestingConsole == Mount(NoScreen) /\ testMode = FALSE
ConsoleNext == ScreenStep \/ BannerStep

-----------------------------------------------------------------------------
Inputs == [range: Ranges, pick: Picks \cup {NoPick}]
Versions == 0..(MaxConsoleEvents + 1)

ConsoleTypeOK ==
    /\ screen \in Screens \cup {NoScreen}
    /\ asked \in Inputs
    /\ \A p \in Parts : shown[p] = Nothing \/ shown[p] \in [of: Inputs, version: Versions]
    /\ \A r \in flight :
        r \in [n: 0..MaxConsoleEvents, of: Inputs, version: Versions, parts: SUBSET Parts,
               effect: {"main", "pick", "drill", "refresh", "edit", "reload"}]
    /\ table \in [version: Versions, mine: Versions]
    /\ banner \in [pc: {"loading", "idle", "toggling", "rereading"}, loaded: BOOLEAN,
                   enabled: BOOLEAN, error: BOOLEAN, landed: BOOLEAN]
    /\ {loading, error, testMode, overtaken} \subseteq BOOLEAN
    /\ consoleEvents \in 0..MaxConsoleEvents
    /\ raced \subseteq Parts /\ failed \subseteq Parts

(* Once nothing is asked any more, a part of a screen shows what the       *)
(* inputs ask, with the edits made on it, unless its load failed or two    *)
(* requests that do not cancel each other ran for it (the KPIs of the      *)
(* overview when a campaign is picked while the range loads, a list's page *)
(* turned while an edit is on its way).  Where one effect loads the        *)
(* screen, a failure is never hidden.  The banner shows the mode, unless   *)
(* it reports an error or the mode was changed elsewhere.                  *)
ScreensShowWhatWasAsked ==
    /\ \A p \in Parts :
        LET settled == \A r \in flight : p \notin r.parts
            shownFor == IF p = "table" THEN shown[p].of.range = asked.range
                                       ELSE shown[p].of = asked
        IN  /\ screen # NoScreen
            /\ settled /\ p \notin raced \cup failed
            /\ p = "drilldown" => asked.pick # NoPick
            => shownFor /\ shown[p].version >= table.mine
    /\ ~screen.overview /\ failed # {} => error
    /\ banner.pc = "idle" /\ banner.loaded /\ ~banner.error /\ ~overtaken
           => banner.enabled = testMode
=============================================================================
