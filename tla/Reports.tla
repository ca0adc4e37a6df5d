------------------------------ MODULE Reports ------------------------------
(***************************************************************************)
(* The reports.  Each counts the same clicks, conversions and spend with a *)
(* query of its own, and the screens show them side by side: the campaign  *)
(* table, its drilldown, the rollup, the chart, the overview, breakdowns,  *)
(* placements and the funnel.  A report changes nothing, so the state is   *)
(* the rows asked about: whose report a visit is in (attribution), what    *)
(* the reports make of the visits of one campaign and of those they move   *)
(* from or to a sibling (totals), how a page's                             *)
(* questions are counted (quiz), what is advised on creatives (creatives). *)
(***************************************************************************)
EXTENDS Integers, FiniteSets, Functions

CONSTANTS
    Ads,        \* campaigns
    Hosts,      \* hosts of their destinations; NoHost if it does not parse
    NoHost,
    Groups,     \* identifiers of a dimension: ads, offers, placements...
    Visits,     \* of one campaign, or of its sibling and moved to it
    Bots,       \* those a bot made
    Happened,   \* conversions, each called by the revenue it brings
    Guests,     \* visits of a page with questions
    Steps,      \* how many questions
    Tallies     \* what an image may have brought with a headline

VARIABLE inquiry

NoId == "no id"
ASSUME ReportsAssumption ==
    /\ Ads # {} /\ IsFiniteSet(Ads)
    /\ {NoId, "name:", "content:", "unassigned", "(unknown)"} \cap Groups = {}
    /\ IsFiniteSet(Groups)
    /\ IsFiniteSet(Visits) /\ Bots \subseteq Visits
    /\ IsFiniteSet(Happened) /\ Happened \subseteq Nat /\ 1 \in Happened
    /\ IsFiniteSet(Guests) /\ Steps \in Nat
    /\ Tallies \subseteq [visits: Nat, converting: Nat, bots: Nat]
    /\ \A tally \in Tallies : tally.converting <= tally.visits

-----------------------------------------------------------------------------
(* Attribution: attributedCampaignClickWhere.  A landing page is shared by *)
(* campaigns and reports its visits under one of them; those that came     *)
(* from Facebook are moved to the Facebook campaign of the same host, when *)
(* there is exactly one.                                                   *)

(* facebookUtmOrClickIdWhere as SQL has it: a missing utm_source makes it  *)
(* neither true nor false.                                                 *)
LooksFacebook(visit) ==
    IF visit.fbclid \/ visit.utm = "facebook" THEN "true"
    ELSE IF visit.utm = "none" THEN "null" ELSE "false"

Siblings(c, listed) ==
    {d \in listed : inquiry.ads[c].host = NoHost \/ inquiry.ads[d].host = inquiry.ads[c].host}

IsFacebook(c) == inquiry.ads[c].facebook

(* Variant: whoever is a Facebook campaign takes the host's visits.        *)
TakesFromEverySibling(c, listed, visit) ==
    LET donors == {d \in Siblings(c, listed) : ~IsFacebook(d)} IN
    \/ visit.ad = c /\ (IsFacebook(c) \/ donors = Siblings(c, listed)
                        \/ LooksFacebook(visit) = "false")
    \/ IsFacebook(c) /\ visit.ad \in donors /\ LooksFacebook(visit) = "true"

Claims(c, listed, visit) ==
    LET facebook == {d \in Siblings(c, listed) : IsFacebook(d)}
        donors == Siblings(c, listed) \ facebook
    IN  IF Cardinality(facebook) # 1 THEN visit.ad = c
        ELSE IF IsFacebook(c)
             THEN visit.ad = c \/ (visit.ad \in donors /\ LooksFacebook(visit) = "true")
             ELSE visit.ad = c /\ LooksFacebook(visit) = "false"

(* clickBase: test rows and what is out of the range are in no report.     *)
ReportedBy(listed, visit) ==
    {c \in listed : ~visit.test /\ ~visit.early /\ Claims(c, listed, visit)}

(* findCampaign: where a page's visit is recorded.  A page names one       *)
(* campaign; what looks like Facebook's goes to the Facebook campaign of   *)
(* the same host, or of all hosts if there is none, when there is just one *)
(* (inferTrafficSourceFromQuery, pickCampaignForInferredSource).           *)
InferredFacebook(visit) == visit.fbclid \/ visit.utm = "facebook"

PickForFacebook(named) ==
    LET candidates == {d \in Ads : IsFacebook(d)}
        sameHost == candidates \cap Siblings(named, Ads)
        pool == IF sameHost = {} THEN candidates ELSE sameHost
    IN  IF Cardinality(pool) = 1 THEN CHOOSE d \in pool : TRUE ELSE named

FindCampaign(named, visit) ==
    IF InferredFacebook(visit) /\ ~IsFacebook(named) THEN PickForFacebook(named) ELSE named

(* The question with what is asked about.                                  *)
With(field, value) ==
    [f \in DOMAIN inquiry \cup {field} |-> IF f = field THEN value ELSE inquiry[f]]

(* A report about one visit of the first campaign.                         *)
Attributions ==
    {[kind |-> "attribution", ads |-> ads, listed |-> listed] :
        ads \in [Ads -> [facebook: BOOLEAN, host: Hosts \cup {NoHost}]],
        listed \in SUBSET Ads \ {{}}}

AskAttribution ==
    /\ inquiry.kind = "attribution" /\ "visit" \notin DOMAIN inquiry
    /\ \E utm \in {"facebook", "other", "none"}, fbclid, test, early \in BOOLEAN :
        inquiry' = With("visit", [ad |-> CHOOSE a \in Ads : TRUE, utm |-> utm,
                                  fbclid |-> fbclid, test |-> test, early |-> early])

-----------------------------------------------------------------------------
(* Totals: event k brings k, and event 1, a sale that was sent, costs 1.   *)
(* A visit has one event of a type at most, and those of a rehearsed visit *)
(* are rehearsals.                                                         *)

CostOf(k) == IF k = 1 THEN 1 ELSE 0

(* What a visit says of a dimension: an id and its name, a name without    *)
(* the id, or nothing.                                                     *)
Tags == [id : Groups, named : {TRUE}] \cup [id : {NoId}, named : BOOLEAN]

(* Where a visit is, after the attribution: recorded under the campaign    *)
(* and kept in its row; recorded under it and moved to its Facebook        *)
(* sibling's (without a utm_source, to no row); or recorded under the      *)
(* sibling and taken over, by a Facebook campaign.  One visit at most is   *)
(* moved or taken; the sibling has no other visits, and spends nothing.    *)
Places == {"kept", "moved", "taken"}
OneChanges(visits) == \A i, j \in Visits : i = j \/ "kept" \in {visits[i].place, visits[j].place}

Ledgers ==
    {[kind |-> "totals", visits |-> visits, spend |-> spend, configured |-> configured,
      excludeBots |-> bots] :
        visits \in {all \in [Visits -> {visit \in [tag: Tags, place: Places, test: BOOLEAN, early: BOOLEAN] :
                                            ~(visit.test /\ visit.early)}] : OneChanges(all)},
        spend \in {0, 5}, configured \in BOOLEAN, bots \in BOOLEAN}

AskTotals ==
    /\ inquiry.kind = "totals" /\ "events" \notin DOMAIN inquiry
    /\ \E events \in [Happened -> [of: Visits, type: {"sale", "step"}, test: BOOLEAN, sent: BOOLEAN]] :
        /\ events[1].sent /\ events[1].type = "sale"
        /\ \A k \in Happened : inquiry.visits[events[k].of].test => events[k].test
        /\ \A j, k \in Happened :
             j # k /\ events[j].of = events[k].of => events[j].type # events[k].type
        /\ inquiry' = With("events", events)

Bot(i) == i \in Bots
Real(i) == ~inquiry.visits[i].test /\ ~inquiry.visits[i].early
Reportable(i) == Real(i) /\ (inquiry.excludeBots => ~Bot(i))
PlaceOf(i) == inquiry.visits[i].place

(* Most reports filter on the campaign's id, the visit's and, the same,    *)
(* the conversion's.                                                       *)
Recorded(i) == PlaceOf(i) # "taken"
Ours == {i \in Visits : Recorded(i) /\ Real(i)}
Shown == {i \in Visits : Recorded(i) /\ Reportable(i)}
AllReal == {k \in Happened : ~inquiry.events[k].test}
RealEvents == {k \in AllReal : Recorded(inquiry.events[k].of)}
OfShown == {k \in RealEvents : inquiry.events[k].of \in Shown}

(* The table and the drilldown ask for the attributed visits, and for the  *)
(* conversions of these (reportClickWhere, reportConvWhere): the drilldown *)
(* knows all campaigns, the table those of the workspace it is about,      *)
(* where the sibling is listed or not.                                     *)
Attributed(listed, i) == IF listed THEN PlaceOf(i) # "moved" ELSE Recorded(i)
InRow(listed) == {i \in Visits : Attributed(listed, i) /\ Reportable(i)}
OfRow(listed) == {k \in AllReal : inquiry.events[k].of \in InRow(listed)}
Drilled == InRow(TRUE)
OfDrilled == OfRow(TRUE)

(* getConversionCountSlugs; with none configured nothing counts.           *)
CountSlugs == IF inquiry.configured THEN {"sale"} ELSE {}
Counting(events) == {k \in events : inquiry.events[k].type \in CountSlugs}
Sent(events) == {k \in events : inquiry.events[k].sent}
Revenue(events) == SumFunction([k \in events |-> k])
Cost(events) == SumFunction([k \in events |-> CostOf(k)])
Unique(visits) == Cardinality({"visitor" : i \in visits})   \* the visits are one visitor's

(* getCampaignReport: what the platforms say was spent replaces the costs  *)
(* of the conversions.                                                     *)
TableRow(listed) ==
    LET visits == InRow(listed)
        events == OfRow(listed)
    IN  [visits |-> Cardinality(visits), suspicious |-> Cardinality({i \in visits : Bot(i)}),
         unique |-> Unique(visits), errors |-> Cardinality(events \ Sent(events)),
         conversions |-> Cardinality(Counting(events)), revenue |-> Revenue(events),
         cost |-> IF inquiry.spend > 0 THEN inquiry.spend ELSE Cost(events)]

(* The row a visit is in: the drilldown's (clickGroupForDimension), the    *)
(* breakdown's, which asks for the id alone (resolveBreakdownKey), and the *)
(* image of the creative report (resolveImage: the asset, or else the      *)
(* content it is named by).                                                *)
TagKey(tag, byName, otherwise) ==
    IF tag.id # NoId THEN tag.id ELSE IF tag.named THEN byName ELSE otherwise

GroupOf(i) == TagKey(inquiry.visits[i].tag, "name:", "unassigned")
BreakdownKey(i) == TagKey(inquiry.visits[i].tag, "(unknown)", "(unknown)")
ImageOf(i) == TagKey(inquiry.visits[i].tag, "content:", "(unknown)")

By(KeyOf(_), key, visits) == {i \in visits : KeyOf(i) = key}

(* addClickVisit, addConversion.  With no slug configured every event      *)
(* counts.                                                                 *)
CountsInDrilldown(k) == CountSlugs = {} \/ inquiry.events[k].type \in CountSlugs

Bucket(visits, events) ==
    [visits |-> Cardinality(visits), unique |-> Unique(visits),
     suspicious |-> Cardinality({i \in visits : Bot(i)}),
     revenue |-> Revenue(events), cost |-> Cost(events),
     errors |-> Cardinality(events \ Sent(events)),
     conversions |-> Cardinality({k \in events : CountsInDrilldown(k)})]

EventsBy(KeyOf(_), key, events) == {k \in events : KeyOf(inquiry.events[k].of) = key}

DrilldownByGroup ==
    [g \in Groups \cup {"name:", "unassigned"} |->
        Bucket(By(GroupOf, g, Drilled), EventsBy(GroupOf, g, OfDrilled))]

(* The events are grouped by their own type, or by what several of a visit *)
(* may share, a transaction.                                               *)
EventKey(dimension, k) == IF dimension = "type" THEN inquiry.events[k].type ELSE "transaction"
OfKey(dimension, key) == {k \in OfDrilled : EventKey(dimension, k) = key}
EventKeys(dimension) == {EventKey(dimension, k) : k \in OfDrilled}

(* Variant: the visit is counted with each of its events.                  *)
DrilldownCountingTwice(dimension) ==
    [key \in EventKeys(dimension) |->
        [Bucket({inquiry.events[k].of : k \in OfKey(dimension, key)}, OfKey(dimension, key))
            EXCEPT !.visits = Cardinality(OfKey(dimension, key))]]

DrilldownByEvent(dimension) ==
    [key \in EventKeys(dimension) |->
        Bucket({inquiry.events[k].of : k \in OfKey(dimension, key)}, OfKey(dimension, key))]

(* getGlobalRollup, of all campaigns: the range is the event's; its visit  *)
(* is asked about only when bots are left out.                             *)
RollupEvents ==
    {k \in AllReal : inquiry.excludeBots => Reportable(inquiry.events[k].of)}
Rollup ==
    [visits |-> Cardinality({i \in Visits : Reportable(i)}), conversions |-> Cardinality(Counting(RollupEvents)),
     revenue |-> Revenue(RollupEvents),
     cost |-> IF inquiry.spend > 0 THEN inquiry.spend ELSE Cost(RollupEvents)]

(* getTimeseries: bots always in, only counted events, and both the costs  *)
(* of the conversions and the spend.                                       *)
Chart ==
    [visits |-> Cardinality(Ours),
     conversions |-> Cardinality(Counting(RealEvents)), revenue |-> Revenue(Counting(RealEvents)),
     cost |-> Cost(Counting(RealEvents)) + inquiry.spend]

(* getOverview, with or without the rehearsals.                            *)
Overview(includeTest) ==
    LET visits == {i \in Visits : /\ Recorded(i) /\ ~inquiry.visits[i].early
                                  /\ (includeTest \/ ~inquiry.visits[i].test)
                                  /\ (inquiry.excludeBots => ~Bot(i))}
        events == {k \in Happened : /\ Recorded(inquiry.events[k].of)
                                    /\ (includeTest \/ ~inquiry.events[k].test)
                                    /\ (inquiry.excludeBots => inquiry.events[k].of \in visits)}
    IN  [visits |-> Cardinality(visits), conversions |-> Cardinality(Counting(events))]

(* getBreakdown joins the events of real visits, rehearsed ones too.       *)
Breakdown ==
    [g \in Groups \cup {"(unknown)"} |->
        [visits |-> Cardinality(By(BreakdownKey, g, Ours)),
         conversions |-> Cardinality({k \in EventsBy(BreakdownKey, g, Counting(Sent(Happened))) :
                                        inquiry.events[k].of \in Ours})]]

(* getVisitSummary and getVisitBreakdown.                                  *)
VisitSummary == [visits |-> Cardinality(Shown), conversions |-> Cardinality(Counting(Sent(OfShown)))]

VisitBreakdown ==
    [g \in Groups \cup {"(unknown)"} |->
        [visits |-> Cardinality(By(BreakdownKey, g, Shown)),
         conversions |-> Cardinality(EventsBy(BreakdownKey, g, Counting(Sent(OfShown))))]]

(* The reports about one type of event, all of them or those sent.  The    *)
(* spend is shared out by visits (allocateSpend, here times all visits).   *)
AskedAbout(mode) ==
    {k \in OfShown : inquiry.events[k].type = "sale" /\ (mode = "sent" => inquiry.events[k].sent)}
Share(visits) == inquiry.spend * Cardinality(visits)

Performance(mode, visits) ==
    LET events == {k \in AskedAbout(mode) : inquiry.events[k].of \in visits} IN
    [visits |-> Cardinality(visits), unique |-> Unique(visits),
     bots |-> Cardinality({i \in visits : Bot(i)}),
     events |-> Cardinality(events), revenue |-> Revenue(events),
     converting |-> Cardinality({inquiry.events[k].of : k \in events}),
     share |-> Share(visits)]

\* A row comes with the first visit of its key.
Rows(KeyOf(_), mode) ==
    [key \in {KeyOf(i) : i \in Shown} |-> Performance(mode, By(KeyOf, key, Shown))]

Placements(mode) == Rows(BreakdownKey, mode)   \* getPlacements

(* getCreativeReport: the visits by image, by headline and by the two      *)
(* together, and all of them; and the part of the spend that bots took,    *)
(* for which they are counted although they are left out.                  *)
HeadlineOf(i) == IF i = 1 THEN "headline" ELSE "(unknown)"
PairOf(i) == <<ImageOf(i), HeadlineOf(i)>>
ByImage(mode) == Rows(ImageOf, mode)
ByHeadline(mode) == Rows(HeadlineOf, mode)
ByPair(mode) == Rows(PairOf, mode)
Benchmarks(mode) == Performance(mode, Shown)

(* getProfitability: the same by hour, weekday, country or device.         *)
HourOf(i) == IF i = 1 THEN "09" ELSE "17"
Profitability(mode) == Rows(HourOf, mode)

BotsInSpend ==
    LET bots == {i \in Ours : Bot(i)} IN
    [bots |-> Cardinality(bots),
     visits |-> Cardinality(Shown) + IF inquiry.excludeBots THEN Cardinality(bots) ELSE 0]

(* getFunnel.                                                              *)
FunnelStep == {k \in RealEvents : inquiry.events[k].type = "sale"}
Funnel ==
    [visits |-> Cardinality(Ours), events |-> Cardinality(FunnelStep),
     unique |-> Cardinality({inquiry.events[k].of : k \in FunnelStep})]

(* getVisitStats, of one visitor whose first visit is the first; getStats  *)
(* shows them without their bots left out, and all events of all time.     *)
VisitStats(visits) ==
    [visits |-> Cardinality(visits), newVisitors |-> Cardinality(visits \cap {1}),
     uniqueVisits |-> Unique(visits),
     returning |-> Cardinality(visits) - Cardinality(visits \cap {1})]

CampaignStats ==
    [stats |-> VisitStats(Ours),
     conversions |-> Cardinality(Counting(RealEvents)),
     sent |-> Cardinality(Sent(Counting(RealEvents)))]

-----------------------------------------------------------------------------
(* The funnel of the questions of a page.  record writes a step once per   *)
(* visit and key, as a rehearsal if test mode is on by then; the number is *)
(* the page's own (a page changed since numbers its questions anew).       *)

Questions == 1 .. Steps
Quizzes ==
    {[kind |-> "quiz", guests |-> guests] :
        guests \in [Guests -> [bot: BOOLEAN, rehearsed: BOOLEAN, renumbered: BOOLEAN,
                               reached: SUBSET Questions]]}

NumberOf(g, q) == IF inquiry.guests[g].renumbered THEN q + 1 ELSE q
Reached(q) == {g \in Guests : q \in inquiry.guests[g].reached /\ ~inquiry.guests[g].rehearsed}

(* getStepFunnel: the arrivals leave bots out, the steps do not; a row is  *)
(* a number and a key, and loses what the row before had more.             *)
Arrivals == Cardinality({g \in Guests : ~inquiry.guests[g].bot})

StepRows == {<<NumberOf(g, q), q>> : g \in Guests, q \in Questions}
AtStep(row) == {g \in Reached(row[2]) : NumberOf(g, row[2]) = row[1]}
ComesBefore(a, b) == a[1] < b[1] \/ (a[1] = b[1] /\ a[2] < b[2])

StepFunnel ==
    LET rows == {row \in StepRows : AtStep(row) # {}}
        earlier(row) == {other \in rows : ComesBefore(other, row)}
        last(row) == CHOOSE other \in earlier(row) :
                        \A third \in earlier(row) \ {other} : ComesBefore(third, other)
        before(row) == IF earlier(row) = {} THEN Arrivals ELSE Cardinality(AtStep(last(row)))
    IN  [row \in rows |->
            LET reached == Cardinality(AtStep(row)) IN
            [visits |-> reached, previousReached |-> before(row),
             leftHere |-> IF before(row) > reached THEN before(row) - reached ELSE 0]]

-----------------------------------------------------------------------------
(* The advice on the creatives (buildCreativeRecommendations): what each   *)
(* image brought with each headline, one event per visit that converted.   *)
(* An image without an id is not advised about.                            *)

MinSample == 15

\* A row is called by the names it is about, a pair by both of its own.
Images == {{"image"}, {"other"}}
Headlines == {{"headline"}, {"another"}}
Pairs == {image \cup headline : image \in Images, headline \in Headlines}

Contests ==
    {[kind |-> "creatives", pairs |-> pairs, known |-> known, spend |-> 20] :
        pairs \in [Pairs -> Tallies], known \in {Images, {{"image"}}}}

Together(pairs) ==
    LET all(field) == SumFunction([pair \in pairs |-> inquiry.pairs[pair][field]])
    IN  [visits |-> all("visits"), converting |-> all("converting"), bots |-> all("bots")]

Row(key) == Together({pair \in Pairs : key \subseteq pair})
Everything == Row({})

(* Rates are compared as fractions; botPct is read back from the tenths it *)
(* was shown with.                                                         *)
Reaches(row, percent) ==
    100 * row.converting * Everything.visits >= percent * Everything.converting * row.visits
Exceeds(row, percent) ==
    100 * row.converting * Everything.visits > percent * Everything.converting * row.visits
Better(a, b) == a.converting * b.visits > b.converting * a.visits
BotTenths(row) == (2000 * row.bots + row.visits) \div (2 * row.visits)

scoreCreativeQuality(row) ==
    IF row.visits < MinSample THEN "low_data"
    ELSE IF BotTenths(row) >= 400 THEN "risk"
    ELSE IF Reaches(row, 125) /\ BotTenths(row) < 250 THEN "excellent"
    ELSE IF Reaches(row, 100) /\ BotTenths(row) < 300 THEN "good"
    ELSE IF ~Reaches(row, 50) /\ row.visits >= 2 * MinSample THEN "poor"
    ELSE "average"

Eligible(keys) == {key \in keys : Row(key).visits >= MinSample}
Seasoned(keys) == {key \in keys : Row(key).visits >= 2 * MinSample}
Best(keys) == {key \in keys : \A other \in keys : ~Better(Row(other), Row(key))}
Worst(keys) == {key \in keys : \A other \in keys : ~Better(Row(key), Row(other))}
SpentOnRow(row) == inquiry.spend * row.visits   \* times all visits

(* Of several equally good or bad, the order of the rows names one.  The   *)
(* two images are fewer than the two and three the lists are cut at.       *)
Scale(keys) == {key \in Best(Eligible(keys)) : Exceeds(Row(key), 100)}
Pause(keys) == {key \in Worst(Seasoned(keys)) : ~Reaches(Row(key), 60)}
Waste(keys) ==
    {key \in Eligible(keys) : SpentOnRow(Row(key)) >= 5 * Everything.visits /\ Row(key).converting = 0}
Suspect(keys) == {key \in Eligible(keys) : BotTenths(Row(key)) >= 350}
Combo ==
    {pair \in Best(Eligible(Pairs)) :
        Reaches(Row(pair), 100) /\ Row(pair).converting > 0}
Wait == {image \in Images : Row(image).visits \in 1 .. MinSample - 1}

(* Without an event in the period that is all it says.                     *)
buildCreativeRecommendations ==
    IF Everything.converting = 0
    THEN [scale |-> {}, pause |-> {}, waste |-> {}, weak |-> {}, combo |-> {}, suspect |-> {}, wait |-> {}]
    ELSE [scale |-> Scale(inquiry.known), pause |-> Pause(inquiry.known),
          waste |-> Waste(inquiry.known), weak |-> Pause(Headlines),
          combo |-> Combo, suspect |-> Suspect(inquiry.known), wait |-> Wait]

(* scoreVerdict of a placement: roi is a percentage of what it cost.  An   *)
(* event brings revenue 2 here.                                            *)
PlacementVerdict(row) ==
    LET spend == SpentOnRow(row)
        unit == Everything.visits
        revenue == 2 * row.converting * unit
    IN  IF \/ spend >= 5 * unit /\ row.converting = 0
           \/ spend >= 10 * unit /\ 2 * revenue < spend
           \/ BotTenths(row) >= 450 /\ spend >= 3 * unit
        THEN "kill"
        ELSE IF Reaches(row, 120) /\ row.converting >= 2 /\ revenue > spend THEN "scale"
        ELSE "watch"

ReportsInit == inquiry \in Attributions \cup Ledgers \cup Quizzes \cup Contests
RestingReports == inquiry = [kind |-> "none"]
ReportsNext == AskAttribution \/ AskTotals

-----------------------------------------------------------------------------
Total(rows, field) == SumFunction([key \in DOMAIN rows |-> rows[key][field]])

(* Whatever the visits of a page were reported under, and whichever        *)
(* campaigns are listed, a visit of a listed campaign is in exactly one    *)
(* row of the report, and a rehearsal or one out of the range in none      *)
(* (attributedCampaignClickWhere "moving Facebook LP hits off a Mediago    *)
(* sibling").  With every campaign listed it is in the row of the campaign *)
(* the redirect recorded it under: the two rules, which look for siblings  *)
(* differently, never move it twice.  Not claimed of a visit without a     *)
(* utm_source, which SQL drops from the sibling's row, nor when a          *)
(* destination has no host.                                                *)
VisitsAreReportedOnce ==
    inquiry.kind = "attribution" /\ "visit" \in DOMAIN inquiry =>
        LET visit == inquiry.visit
            rows == ReportedBy(inquiry.listed, visit)
        IN  IF visit.test \/ visit.early \/ visit.ad \notin inquiry.listed THEN rows = {}
            ELSE LooksFacebook(visit) # "null" /\ (\A c \in Ads : inquiry.ads[c].host # NoHost)
                   => LET recorded == FindCampaign(visit.ad, visit) IN
                      /\ Cardinality(rows) = 1
                      /\ ReportedBy(Ads, [visit EXCEPT !.ad = recorded]) = {recorded}

Moved == {i \in Visits : Reportable(i) /\ PlaceOf(i) = "moved"}
Taken == {i \in Visits : Reportable(i) /\ PlaceOf(i) = "taken"}
Nameless(visits) == Cardinality(By(BreakdownKey, "(unknown)", visits))

(* The rows of a drilldown give the visits and the revenue of the table's  *)
(* row, whatever they are grouped by, an event-grouped row never more      *)
(* visits than the whole; not claimed when the table leaves the sibling    *)
(* out.  The drilldown and the breakdown of a dimension have the same row  *)
(* for an id but for the visits that were moved to the sibling or taken    *)
(* from it; those known by name only have rows of the first, and one row   *)
(* of the second.                                                          *)
DrilldownsAddUp ==
    LET table == TableRow(TRUE)
        groups == DrilldownByGroup
        breakdown == VisitBreakdown
        types == DrilldownByEvent("type")
        transactions == DrilldownByEvent("transaction")
    IN
    /\ Total(groups, "visits") = table.visits
    /\ Total(groups, "suspicious") = table.suspicious
    /\ Total(groups, "unique") >= table.unique
    /\ Total(groups, "errors") = table.errors
    /\ \A g \in Groups :
         groups[g].visits + Cardinality(By(GroupOf, g, Moved))
           = breakdown[g].visits + Cardinality(By(GroupOf, g, Taken))
    /\ breakdown["(unknown)"].visits + Nameless(Taken)
         = groups["name:"].visits + groups["unassigned"].visits + Nameless(Moved)
    /\ \A rows \in {types, transactions} : \A key \in DOMAIN rows :
         rows[key].visits <= table.visits
    /\ \A rows \in {groups, types, transactions} :
        /\ Total(rows, "revenue") = table.revenue
        /\ inquiry.spend = 0 => Total(rows, "cost") = table.cost
        /\ inquiry.configured => Total(rows, "conversions") = table.conversions

(* The screens that filter on the campaign show the same visits, and so    *)
(* does a table without the sibling.  A table with it differs from them by *)
(* the visits the attribution moves, and these are all it differs by: with *)
(* those moved away the row has what the rollup of both campaigns has, as  *)
(* have the others with those taken over.  The rollup has more conversions *)
(* than the row only by those of visits moved or not shown, more than the  *)
(* overview by those of the sibling's visits; the breakdown has more than  *)
(* the summary by rehearsed events of real visits.                         *)
ScreensAgree ==
    LET table == TableRow(TRUE)
        unattributed == TableRow(FALSE)
        missed == {k \in RollupEvents :
                     inquiry.events[k].of \in Moved \/ ~Reportable(inquiry.events[k].of)}
        others == {k \in RollupEvents : ~Recorded(inquiry.events[k].of)}
        rehearsed == {k \in Counting(Sent(Happened)) :
                        inquiry.events[k].test /\ inquiry.events[k].of \in Ours}
        summary == VisitSummary
        breakdown == VisitBreakdown
        rollup == Rollup
        overview == Overview(FALSE)
    IN
    /\ {summary.visits} = {unattributed.visits, overview.visits, Total(breakdown, "visits")}
    /\ rollup.visits = table.visits + Cardinality(Moved)
    /\ rollup.visits = summary.visits + Cardinality(Taken)
    /\ rollup.conversions = table.conversions + Cardinality(Counting(missed))
    /\ rollup.conversions = overview.conversions + Cardinality(Counting(others))
    /\ Total(breakdown, "conversions") = summary.conversions
    /\ summary.conversions <= unattributed.conversions
    /\ unattributed.conversions <= overview.conversions
    /\ BotsInSpend.bots <= BotsInSpend.visits /\ BotsInSpend.visits = Chart.visits
    /\ overview.visits <= Overview(TRUE).visits
    /\ LET stats == VisitStats(Shown) IN
        /\ stats.visits = summary.visits /\ stats.newVisitors <= stats.uniqueVisits
        /\ stats.newVisitors + stats.returning = stats.visits
    /\ ~inquiry.excludeBots =>
        /\ {summary.visits} = {Chart.visits, Total(Breakdown, "visits"), Funnel.visits}
        /\ Chart.conversions = overview.conversions
        /\ inquiry.configured => Funnel.events = overview.conversions
        /\ CampaignStats.stats.visits = summary.visits
        /\ CampaignStats.conversions = overview.conversions
        /\ Total(Breakdown, "conversions") = summary.conversions + Cardinality(rehearsed)

(* Whatever the visits are grouped by, the rows of a report about one type *)
(* of event give the whole, and shares of the spend add up to it.          *)
AddsUp(rows, whole) ==
    /\ \A field \in {"visits", "share", "events", "converting", "revenue"} :
         Total(rows, field) = whole[field]
    /\ \A key \in DOMAIN rows : rows[key].converting <= rows[key].visits

PerformanceAddsUp ==
    \A mode \in IF Sent(Happened) = Happened THEN {"sent"} ELSE {"recorded", "sent"} :
        LET whole == Benchmarks(mode) IN
        /\ whole.visits = VisitSummary.visits /\ whole.revenue <= TableRow(FALSE).revenue
        /\ AddsUp(ByImage(mode), whole) /\ AddsUp(ByHeadline(mode), whole)
        /\ AddsUp(ByPair(mode), whole) /\ AddsUp(Profitability(mode), whole)
        /\ AddsUp(Placements(mode), whole)

ReportsAgree ==
    inquiry.kind = "totals" /\ "events" \in DOMAIN inquiry =>
        DrilldownsAddUp /\ ScreensAgree /\ PerformanceAddsUp

(* The advice does not contradict itself or the rates it is drawn from.    *)
(* What is to be scaled is neither to be paused nor spending for nothing,  *)
(* and not poor; where one image beats another and both have visits enough *)
(* there is one to scale; a known poor image means that one is paused, a   *)
(* known risky one is called suspect; nothing is paused on too few visits  *)
(* ("Wait for at least ... visits per creative before pausing"); and the   *)
(* best combination is as good as the best image when no pair is left out. *)
(* A placement to be killed for spending with no event is an image called  *)
(* wasteful, and one to scale is never paused.                             *)
AdviceIsCoherent ==
    inquiry.kind = "creatives" /\ Everything.visits > 0 =>
    LET advice == buildCreativeRecommendations
        known == inquiry.known
        quality(image) == scoreCreativeQuality(Row(image))
        sampled == Eligible(Pairs) \cup {pair \in Pairs : Row(pair).visits = 0}
    IN
    /\ advice.scale \cap (advice.pause \cup advice.waste) = {}
    /\ \A image \in advice.scale : quality(image) # "poor"
    /\ Eligible(Images) = known /\ (\E a, b \in known : Better(Row(a), Row(b)))
         => advice.scale # {}
    /\ \A image \in known : Everything.converting > 0 =>
        /\ quality(image) = "poor" => advice.pause # {}
        /\ quality(image) = "risk" => image \in advice.suspect
        /\ quality(image) = "excellent" => advice.scale # {}
        /\ Row(image).visits >= MinSample /\ Row(image).converting = 0
           /\ PlacementVerdict(Row(image)) = "kill" /\ BotTenths(Row(image)) < 450
           => image \in advice.waste
    /\ (advice.pause \cup advice.waste) \cap advice.wait = {}
    /\ sampled = Pairs =>
        \A image \in advice.scale, pair \in advice.combo : ~Better(Row(image), Row(pair))
    /\ \A image \in advice.pause : PlacementVerdict(Row(image)) # "scale"

(* The funnel of the questions counts visits: the rows of a key hold each  *)
(* visit that reached it once, and no row more than arrived and the bots   *)
(* that went on; and where the visits are people who take the questions in *)
(* order, under the numbers they always had, what a row lost are those who *)
(* were on the question before and never reached this one                  *)
(* (funnel-steps.service.ts "People who were on the previous step and      *)
(* never reached this one").                                               *)
StepsCountVisits ==
    inquiry.kind = "quiz" =>
    LET guests == inquiry.guests
        rows == DOMAIN StepFunnel
        visits == [row \in rows |-> StepFunnel[row].visits]
    IN
    /\ \A q \in Questions :
         SumFunctionOnSet(visits, {row \in rows : row[2] = q}) = Cardinality(Reached(q))
    /\ \A row \in rows :
         visits[row] <= Arrivals + Cardinality({g \in Reached(row[2]) : guests[g].bot})
    /\ (\A g \in Guests :
            /\ \E n \in 0 .. Steps : guests[g].reached = 1 .. n
            /\ guests[g].reached # {} =>
                 ~guests[g].bot /\ ~guests[g].rehearsed /\ ~guests[g].renumbered)
         => \A row \in rows : StepFunnel[row].leftHere =
                IF row[2] = 1 THEN Arrivals - Cardinality(Reached(1))
                ELSE Cardinality(Reached(row[2] - 1) \ Reached(row[2]))
=============================================================================
