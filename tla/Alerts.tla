------------------------------- MODULE Alerts -------------------------------
(***************************************************************************)
(* The alerts: the sweep that fetches every landing page and alerts when   *)
(* one turns bad, and the hourly evaluation of the operator's rules.  Both *)
(* look for an open alert and then create one.  A sweep started by hand    *)
(* runs beside the hourly one.                                             *)
(***************************************************************************)
EXTENDS Integers, Sequences, FiniteSets

CONSTANTS
    Pages,           \* landers whose files are ready
    Sweeps,          \* the hourly sweep and those asked for
    RulesAtHand,     \* [metric, scope, operator]
    MaxAlerts,       \* bound on the alerts created
    MaxAlertEvents   \* bound on sweeps, evaluations, edits and outages

\* An alert points at a lander or at a rule, in columns of their own.
ASSUME RuleIsNoPage == {"rule", "deleted rule"} \cap Pages = {}

Healths == {"unknown", "healthy", "unreachable", "tracker_missing"}
Bad == {"unreachable", "tracker_missing"}
Metrics == {"spendNoEvents", "botPct", "roi", "cpa", "budgetPace"}
Scopes == {"campaign", "site", "publisher"}
Operators == {"lt", "lte", "gt", "gte"}
Threshold == 1

VARIABLES
    page,      \* external: what fetching the page finds; "gone" without its row
    health,    \* Lander.healthStatus
    alert,     \* AlertEvent: a sequence of [about, status]
    sweep,     \* [Sweeps -> [pc, read, on]]
    rule,      \* [metric, scope, operator, state]
    figures,   \* the row the rule looks at: [value, counts]
    engine,    \* the evaluation: "idle", "look" or "create"
    alertEvents,
    answered,  \* history: pages an alert about which was resolved since they turned
    silenced,  \* history: pages whose turn nobody was left to tell of
    doubled    \* history: pages two sweeps were raising an alert about at once

alertsVars == <<page, health, alert, sweep, rule, figures, engine, alertEvents,
                answered, silenced, doubled>>
rulesVars == <<rule, figures, engine>>
sweepVars == <<page, health, sweep, answered, silenced, doubled>>

NoPage == "no page"
NoSweep == [pc |-> "idle", on |-> NoPage, found |-> "unknown", read |-> [p \in {} |-> "unknown"]]

FirstPageOf == CHOOSE p \in Pages : TRUE

(* Nothing was swept yet, or a page has long been bad, and its alert is    *)
(* resolved.                                                               *)
AlertsInit ==
    /\ \/ /\ page = [p \in Pages |-> "healthy"]
          /\ health = [p \in Pages |-> "unknown"]
          /\ alert = <<>> /\ answered = {}
       \/ /\ page = [p \in Pages |-> "unreachable"]
          /\ health = page
          /\ alert = <<[about |-> FirstPageOf, status |-> "resolved"]>>
          /\ answered = Pages
    /\ sweep = [w \in Sweeps |-> NoSweep]
    /\ \E r \in RulesAtHand :
        rule = [metric |-> r.metric, scope |-> r.scope, operator |-> r.operator, state |-> "enabled"]
    /\ figures = [value |-> 0, counts |-> TRUE]
    /\ engine = "idle"
    /\ alertEvents = 0
    /\ silenced = {} /\ doubled = {}

RestingAlerts ==
    /\ AlertsInit /\ alert = <<>>
    /\ \A r \in RulesAtHand : r.metric = "roi" => r.operator = rule.operator
    /\ rule.metric = "roi"

Happen == alertEvents < MaxAlertEvents /\ alertEvents' = alertEvents + 1
Still == UNCHANGED alertEvents
Pending(a) == a.status \in {"open", "ack"}
About(x) == {i \in DOMAIN alert : alert[i].about = x}
Told(x) == \E i \in About(x) : Pending(alert[i])
Raise(x) ==
    IF Len(alert) < MaxAlerts THEN Append(alert, [about |-> x, status |-> "open"]) ELSE alert

-----------------------------------------------------------------------------
(* The sweep.  It reads the landers once, with the health they then had.   *)

StartSweep(w) ==
    /\ sweep[w].pc = "idle" /\ Happen
    /\ sweep' = [sweep EXCEPT ![w] = [NoSweep EXCEPT !.pc = "probe",
                   !.read = [p \in {o \in Pages : page[o] # "gone"} |-> health[p]]]]
    /\ UNCHANGED <<page, health, alert, answered, silenced, doubled>> /\ UNCHANGED rulesVars

NextPage(w) == [sweep[w] EXCEPT !.pc = "probe", !.on = NoPage, !.found = "unknown",
                  !.read = [p \in DOMAIN sweep[w].read \ {sweep[w].on} |-> sweep[w].read[p]]]

(* probe; a page that was deleted no longer answers either.                *)
Probe(w) ==
    /\ sweep[w].pc = "probe" /\ Still
    /\ IF DOMAIN sweep[w].read = {} THEN sweep' = [sweep EXCEPT ![w] = NoSweep]
       ELSE \E p \in DOMAIN sweep[w].read :
            sweep' = [sweep EXCEPT ![w].pc = "update", ![w].on = p,
                        ![w].found = IF page[p] = "gone" THEN "unreachable" ELSE page[p]]
    /\ UNCHANGED <<page, health, alert, answered, silenced, doubled>> /\ UNCHANGED rulesVars

(* Variant: only a page that was healthy can turn bad.                     *)
WasHealthy(read, found) == found \in Bad /\ read = "healthy"

Turned(read, found) == found \in Bad /\ read # found

(* The health is stored first; without the row the sweep ends here.        *)
UpdateHealth(w) ==
    LET p == sweep[w].on
        read == sweep[w].read[p]
        found == sweep[w].found
    IN
    /\ sweep[w].pc = "update" /\ Still
    /\ IF page[p] = "gone"
       THEN sweep' = [sweep EXCEPT ![w] = NoSweep] /\ UNCHANGED <<health, answered, silenced>>
       ELSE /\ health' = [health EXCEPT ![p] = found]
            /\ answered' = IF found # health[p] THEN answered \ {p} ELSE answered
            /\ silenced' = IF found \notin Bad THEN silenced \ {p}
                           ELSE IF read = found /\ health[p] # found THEN silenced \cup {p}
                           ELSE silenced
            /\ sweep' = [sweep EXCEPT ![w] = IF Turned(read, found)
                                             THEN [@ EXCEPT !.pc = "look"] ELSE NextPage(w)]
    /\ UNCHANGED <<page, alert, doubled>> /\ UNCHANGED rulesVars

LookForOpen(w) ==
    /\ sweep[w].pc = "look" /\ Still
    /\ sweep' = [sweep EXCEPT ![w] = IF Told(sweep[w].on) THEN NextPage(w)
                                     ELSE [@ EXCEPT !.pc = "create"]]
    /\ doubled' = IF ~Told(sweep[w].on)
                     /\ \E o \in Sweeps \ {w} : sweep[o].pc = "create" /\ sweep[o].on = sweep[w].on
                  THEN doubled \cup {sweep[w].on} ELSE doubled
    /\ UNCHANGED <<page, health, alert, answered, silenced>> /\ UNCHANGED rulesVars

CreateAlert(w) ==
    /\ sweep[w].pc = "create" /\ Still
    /\ alert' = Raise(sweep[w].on)
    /\ sweep' = [sweep EXCEPT ![w] = NextPage(w)]
    /\ silenced' = IF Len(alert) < MaxAlerts THEN silenced \ {sweep[w].on}
                   ELSE silenced \cup {sweep[w].on}
    /\ UNCHANGED <<page, health, answered, doubled>> /\ UNCHANGED rulesVars

(* A statement fails, or the server stops: the turn was stored already.    *)
SweepFails(w) ==
    /\ sweep[w].pc # "idle" /\ Happen
    /\ sweep' = [sweep EXCEPT ![w] = NoSweep]
    /\ silenced' = IF sweep[w].pc \in {"look", "create"} THEN silenced \cup {sweep[w].on}
                   ELSE silenced
    /\ UNCHANGED <<page, health, alert, answered, doubled>> /\ UNCHANGED rulesVars

PageChanges(p) ==
    /\ page[p] # "gone" /\ Happen
    /\ page' \in [Pages -> (Healths \ {"unknown"}) \cup {"gone"}]
    /\ page'[p] # page[p] /\ \A o \in Pages \ {p} : page'[o] = page[o]
    /\ UNCHANGED <<health, alert, sweep, answered, silenced, doubled>> /\ UNCHANGED rulesVars

-----------------------------------------------------------------------------
(* The rules.                                                              *)

Compare(value, operator) ==
    CASE operator = "lt" -> value < Threshold
      [] operator = "lte" -> value <= Threshold
      [] operator = "gt" -> value > Threshold
      [] operator = "gte" -> value >= Threshold

(* Two metrics compare as they like, whatever operator the rule names; a   *)
(* rule whose scope its metric does not know is never evaluated.           *)
RuleFires ==
    LET value == figures.value
    IN  CASE rule.metric = "spendNoEvents" ->
               rule.scope = "site" /\ value >= Threshold /\ figures.counts
          [] rule.metric = "botPct" -> value >= Threshold
          [] rule.metric \in {"roi", "cpa"} ->
               rule.scope = "campaign" /\ Compare(value, rule.operator) /\ figures.counts
          [] rule.metric = "budgetPace" -> rule.scope = "campaign" /\ value > Threshold

StartEngine ==
    /\ engine = "idle" /\ rule.state = "enabled" /\ Happen
    /\ engine' = IF RuleFires THEN "look" ELSE "idle"
    /\ UNCHANGED <<alert, rule, figures>> /\ UNCHANGED sweepVars

(* createAlertIfNew; a rule deleted since fails the foreign key.           *)
EngineLooks ==
    /\ engine = "look" /\ Still
    /\ engine' = IF Told("rule") THEN "idle" ELSE "create"
    /\ UNCHANGED <<alert, rule, figures>> /\ UNCHANGED sweepVars

EngineCreates ==
    /\ engine = "create" /\ Still
    /\ alert' = IF rule.state = "gone" THEN alert ELSE Raise("rule")
    /\ engine' = "idle"
    /\ UNCHANGED <<rule, figures>> /\ UNCHANGED sweepVars

EditRule ==
    /\ rule.state # "gone" /\ Happen
    /\ rule' \in {[rule EXCEPT !.state = s] : s \in {"enabled", "disabled", "gone"} \ {rule.state}}
    /\ alert' = IF rule'.state # "gone" THEN alert
                ELSE [i \in DOMAIN alert |-> IF alert[i].about = "rule"
                                             THEN [alert[i] EXCEPT !.about = "deleted rule"]
                                             ELSE alert[i]]
    /\ UNCHANGED <<figures, engine>> /\ UNCHANGED sweepVars

FiguresChange ==
    /\ Happen
    /\ figures' \in [value: 0 .. 2, counts: BOOLEAN] \ {figures}
    /\ UNCHANGED <<alert, rule, engine>> /\ UNCHANGED sweepVars

-----------------------------------------------------------------------------
(* The operator acknowledges or resolves an alert by its id, in whatever   *)
(* state it is: one that was resolved can be acknowledged.                 *)
Acknowledge(i) ==
    /\ alert[i].status # "ack" /\ Happen
    /\ alert' = [alert EXCEPT ![i].status = "ack"]
    /\ UNCHANGED sweepVars /\ UNCHANGED rulesVars

Resolve(i) ==
    /\ Pending(alert[i]) /\ Happen
    /\ alert' = [alert EXCEPT ![i].status = "resolved"]
    /\ answered' = IF alert[i].about \in Pages THEN answered \cup {alert[i].about} ELSE answered
    /\ UNCHANGED <<page, health, sweep, silenced, doubled>> /\ UNCHANGED rulesVars

AlertsNext ==
    \/ \E w \in Sweeps :
        \/ StartSweep(w) \/ Probe(w) \/ UpdateHealth(w) \/ LookForOpen(w) \/ CreateAlert(w)
        \/ SweepFails(w)
    \/ \E p \in Pages : PageChanges(p)
    \/ StartEngine \/ EngineLooks \/ EngineCreates \/ EditRule \/ FiguresChange
    \/ \E i \in DOMAIN alert : Acknowledge(i) \/ Resolve(i)

-----------------------------------------------------------------------------
AlertsTypeOK ==
    /\ health \in [Pages -> Healths]
    /\ Len(alert) <= MaxAlerts
    /\ \A i \in DOMAIN alert :
        /\ alert[i].about \in Pages \cup {"rule", "deleted rule"}
        /\ alert[i].status \in {"open", "ack", "resolved"}
    /\ rule \in [metric: Metrics, scope: Scopes, operator: Operators,
                 state: {"enabled", "disabled", "gone"}]
    /\ engine \in {"idle", "look", "create"}
    /\ \A w \in Sweeps : sweep[w].pc \in {"idle", "probe", "update", "look", "create"}
    /\ alertEvents \in 0 .. MaxAlertEvents

BeingRaised(p) == \E w \in Sweeps : sweep[w].pc \in {"look", "create"} /\ sweep[w].on = p

(* A page known to be bad has an alert the operator has not resolved since *)
(* it turned, although only the turn is told of (lander-health.service.ts  *)
(* "Only alert on the transition").  The turn is told of by nobody when a  *)
(* sweep stops between storing it and the alert, or when a sweep that read *)
(* the health before another one stored a recovery finds the page bad      *)
(* again.  And a page has one open alert, unless two sweeps were at it     *)
(* together; a rule always has one (createAlertIfNew).                     *)
AlertsMatchHealth ==
    /\ \A p \in Pages :
        /\ health[p] \in Bad =>
             BeingRaised(p) \/ Told(p) \/ p \in answered \/ p \in silenced
        /\ p \in doubled \/ Cardinality({i \in About(p) : alert[i].status = "open"}) <= 1
    /\ Cardinality({i \in About("rule") : alert[i].status = "open"}) <= 1
=============================================================================
