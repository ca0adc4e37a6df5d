------------------------------ MODULE Machine ------------------------------
(***************************************************************************)
(* What the media-buying machine is told (machine-api): what became of the *)
(* leads of an ad, what a lead was worth, and how many clicks each hour    *)
(* had.  The first two are reports on rows as they are; the hours are      *)
(* counted by a job that reads only the last two, beside the redirects     *)
(* that add clicks and the deletions that take a campaign's clicks away.   *)
(***************************************************************************)
EXTENDS Reports

CONSTANTS
    MaxHour,        \* hours that pass
    MaxPerHour,     \* clicks of an hour
    MaxDrops,       \* campaigns deleted
    Refreshes       \* statements of the job at work at once

ASSUME MachineAssumption == {MaxHour, MaxPerHour, MaxDrops} \subseteq Nat

VARIABLES
    hour,           \* the current UTC hour
    arrived,        \* clicks each hour ever had
    stored,         \* those still in the table of clicks
    counted,        \* click_hourly_counts; an hour without a row counts 0
    refresh,        \* each statement at work: its result, and the hour it read in
    refreshed,      \* hours in which a statement that succeeded was begun
    overwritten,    \* hours whose count, taken once they were over, a statement begun
                    \* while they lasted replaced
    drops

hoursVars == <<hour, arrived, stored, counted, refresh, refreshed, overwritten, drops>>

Hours == 0 .. MaxHour
NoRefresh == [rows |-> <<>>, at |-> -1]
None0 == [h \in Hours |-> 0]

HoursInit ==
    /\ hour = 0 /\ arrived = None0 /\ stored = None0 /\ counted = None0
    /\ refresh = [f \in Refreshes |-> NoRefresh]
    /\ refreshed = {} /\ overwritten = {} /\ drops = 0

(* A redirect stores its click in the hour it happens.                     *)
Arrive ==
    /\ arrived[hour] < MaxPerHour
    /\ arrived' = [arrived EXCEPT ![hour] = @ + 1]
    /\ stored' = [stored EXCEPT ![hour] = @ + 1]
    /\ UNCHANGED <<hour, counted, refresh, refreshed, overwritten, drops>>

HourPasses ==
    /\ hour < MaxHour
    /\ hour' = hour + 1
    /\ UNCHANGED <<arrived, stored, counted, refresh, refreshed, overwritten, drops>>

(* A campaign is deleted and its clicks with it, any share of each hour's. *)
DropCampaign ==
    /\ drops < MaxDrops
    /\ \E left \in [Hours -> 0 .. MaxPerHour] :
        /\ \A h \in Hours : left[h] <= stored[h]
        /\ left # stored
        /\ stored' = left
    /\ drops' = drops + 1
    /\ UNCHANGED <<hour, arrived, counted, refresh, refreshed, overwritten>>

(* refreshHourlyCounts, every five minutes: one statement counts the       *)
(* clicks of this hour and the last, as it finds them when it begins, and  *)
(* writes a row for each that has any.  It may fail, or the process stop;  *)
(* and nothing keeps the next one waiting for it, so that statements       *)
(* overlap and end in any order.                                           *)
Recounted(hours) == {h \in hours : h >= 0 /\ stored[h] > 0}
ReadsIn(f, hours) ==
    /\ refresh[f] = NoRefresh
    /\ refresh' = [refresh EXCEPT ![f] =
                     [rows |-> [h \in Recounted(hours) |-> stored[h]], at |-> hour]]
    /\ UNCHANGED <<hour, arrived, stored, counted, refreshed, overwritten, drops>>

(* Variant: only the current hour.                                         *)
BeginRefreshOfOneHour(f) == ReadsIn(f, {hour})
BeginRefresh(f) == ReadsIn(f, {hour - 1, hour})

StoreCounts(f) ==
    LET done == refresh[f] IN
    /\ done # NoRefresh
    /\ counted' = [h \in Hours |->
                     IF h \in DOMAIN done.rows THEN done.rows[h] ELSE counted[h]]
    /\ refreshed' = refreshed \cup {done.at}
    /\ overwritten' = (overwritten \ {done.at - 1})
                          \cup {h \in DOMAIN done.rows : h = done.at /\ h + 1 \in refreshed}
    /\ refresh' = [refresh EXCEPT ![f] = NoRefresh]
    /\ UNCHANGED <<hour, arrived, stored, drops>>

RefreshFails(f) ==
    /\ refresh[f] # NoRefresh
    /\ refresh' = [refresh EXCEPT ![f] = NoRefresh]
    /\ UNCHANGED <<hour, arrived, stored, counted, refreshed, overwritten, drops>>

-----------------------------------------------------------------------------
(* Outcomes.  Lead 1 varies in everything, lead 2 is an old real one; lead *)
(* i is sold for i.  Events are unique per visit and type; those of a      *)
(* rehearsed visit are rehearsals, those of a real one may be.  The ads    *)
(* and what was spent on each belong to one adset.                         *)

Leads == {1, 2}
Outcomes == {"sold", "rejected", "returned"}
EventsOfALead == Outcomes \cup {"lead"}
MeteredAds == {"a", "b"}
Currencies == {"EUR", "USD"}
NoCurrency == "none"

LeadOne ==
    [ad: {"a"}, within: BOOLEAN, test: {FALSE}, age: {"young", "settled", "past"},
     currency: {"EUR"}, events: SUBSET EventsOfALead,
     rehearsed: {{}, {"lead"}, EventsOfALead}]
    \cup [ad: {"a"}, within: {TRUE}, test: {TRUE}, age: {"settled"}, currency: {"EUR"},
          events: SUBSET EventsOfALead, rehearsed: {EventsOfALead}]
LeadTwo ==
    [ad: MeteredAds, within: {TRUE}, test: {FALSE}, age: {"settled"}, currency: Currencies,
     events: {{"lead"} \cup answers : answers \in SUBSET Outcomes}, rehearsed: {{}}]
SpendTables == {<<>>, [ad \in MeteredAds \cup {"c"} |-> IF ad = "c" THEN 0 ELSE 5]}

OutcomeLedgers ==
    {[kind |-> "outcomes", leads |-> <<one, two>>, spend |-> spend] :
        one \in LeadOne, two \in LeadTwo, spend \in SpendTables}

Of(i) == inquiry.leads[i]
Has(i, e) == e \in Of(i).events \ Of(i).rehearsed
Undecided(i) == \A e \in Outcomes : ~Has(i, e)
Kept(i) == Has(i, "sold") /\ ~Has(i, "returned")
Refused(i) == Has(i, "rejected") /\ ~Has(i, "sold")
How(leads, P(_)) == Cardinality({i \in leads : P(i)})

(* The bids kept, in what the buyers pay in.                               *)
BidsSum(leads) == SumFunction([i \in {j \in leads : Kept(j)} |-> i])
BidCurrencies(leads) == {Of(i).currency : i \in {j \in leads : Kept(j)}}
TheOne(set) == IF Cardinality(set) = 1 THEN CHOOSE x \in set : TRUE ELSE NoCurrency

(* factsForAds: the clicks of the span asked about, whenever the buyer     *)
(* answered, and what the ad and its adset spent.                          *)
ClicksOf(ads) == {i \in Leads : ~Of(i).test /\ Of(i).within /\ Of(i).ad \in ads}
SpendCurrencies(ads) == IF ads \cap DOMAIN inquiry.spend = {} THEN {} ELSE {"EUR"}
CurrencyOf(ads) ==
    LET bids == BidCurrencies(ClicksOf(ads))
    IN  TheOne(IF bids = {} THEN SpendCurrencies(ads) ELSE bids)

SpentOn(ad) == IF ad \in DOMAIN inquiry.spend THEN inquiry.spend[ad] ELSE 0
SpentOnAll == SumFunction(inquiry.spend)
FactsForAd(ad) ==
    LET clicks == ClicksOf({ad}) IN
    [clicks |-> Cardinality(clicks), leads |-> How(clicks, LAMBDA i : Has(i, "lead")),
     sold |-> How(clicks, Kept), returned |-> How(clicks, LAMBDA i : Has(i, "returned")),
     rejected |-> How(clicks, Refused),
     pending |-> How(clicks, LAMBDA i : Has(i, "lead") /\ Undecided(i)),
     bids |-> IF Cardinality(BidCurrencies(clicks)) > 1 THEN -1 ELSE BidsSum(clicks),
     currency |-> CurrencyOf({ad}), spend |-> SpentOn(ad),
     adsetSpend |-> IF ad \in DOMAIN inquiry.spend THEN SpentOnAll ELSE 0,
     activeAds |-> IF ad \in DOMAIN inquiry.spend
                   THEN How(DOMAIN inquiry.spend, LAMBDA d : SpentOn(d) > 0) ELSE 0]

(* realizedValue: the leads of an offer old enough to be answered, not     *)
(* older than asked about, of a click not much older.                      *)
Cohort == {i \in Leads : Has(i, "lead") /\ Of(i).age = "settled" /\ Of(i).within}
RealizedValue ==
    [settled |-> Cardinality(Cohort), kept |-> How(Cohort, Kept),
     returned |-> How(Cohort, LAMBDA i : Has(i, "returned")),
     rejected |-> How(Cohort, Refused), noOutcome |-> How(Cohort, Undecided),
     bids |-> IF Cardinality(BidCurrencies(Cohort)) > 1 THEN -1 ELSE BidsSum(Cohort)]

MachineInit == (inquiry = [kind |-> "none"] \/ inquiry \in OutcomeLedgers) /\ HoursInit
RestingMachine == HoursInit

MachineNext ==
    /\ UNCHANGED inquiry
    /\ inquiry.kind = "none"
    /\ \/ Arrive \/ HourPasses \/ DropCampaign
       \/ \E f \in Refreshes : BeginRefresh(f) \/ StoreCounts(f) \/ RefreshFails(f)

-----------------------------------------------------------------------------
(* An hour's count is of clicks it had, and of all that are left, if a     *)
(* statement begun in the hour after succeeded and none begun within the   *)
(* hour ended after the last such: whatever failed before, however the     *)
(* statements overlap, and though hours may pass while one runs.  "Older   *)
(* hours are final and never re-read" says more: without such a statement, *)
(* or when a slower one of the hour itself ends last, the last clicks of   *)
(* the hour are lost; and clicks deleted since stay counted                *)
(* (refreshHourlyCounts).                                                  *)
HoursAreCounted ==
    \A h \in Hours :
        /\ counted[h] <= arrived[h]
        /\ h + 1 \in refreshed /\ h \notin overwritten => stored[h] <= counted[h]

(* What became of the leads adds up: a lead is sold, returned, refused or  *)
(* pending and only one of these, but for one refused and then returned    *)
(* without a sale, which is in two; the ads' facts and the realized value, *)
(* which ask about different leads, agree where all leads are in both; no  *)
(* ad has a larger share of its adset's spend than all of it; and a sum of *)
(* bids is in one currency (machine-api.service.ts "excluding just the     *)
(* young unanswered ones would inflate acceptance").                       *)
OutcomesAddUp ==
    inquiry.kind = "outcomes" =>
    LET facts == [ad \in MeteredAds |-> FactsForAd(ad)]
        clicks == ClicksOf(MeteredAds)
        Twice(i) == Has(i, "rejected") /\ Has(i, "returned") /\ ~Has(i, "sold")
        value == RealizedValue
    IN
    /\ \A ad \in MeteredAds :
         LET f == facts[ad] IN
         /\ f.sold + f.returned + f.rejected + f.pending
                = How(ClicksOf({ad}), LAMBDA i : Has(i, "lead") \/ ~Undecided(i))
                  + How(ClicksOf({ad}), Twice)
         /\ f.spend <= f.adsetSpend /\ (f.spend > 0 => f.activeAds > 0)
         /\ f.bids > 0 => f.currency \in BidCurrencies(ClicksOf({ad}))
    /\ Total(facts, "spend") <= SpentOnAll
    /\ value.kept + value.returned + value.rejected + value.noOutcome
           = value.settled + How(Cohort, Twice)
    /\ clicks = Cohort =>
         /\ Total(facts, "leads") = value.settled
         /\ Total(facts, "sold") = value.kept
         /\ Total(facts, "returned") = value.returned
         /\ Total(facts, "rejected") = value.rejected
         /\ Total(facts, "pending") = value.noOutcome
         /\ value.bids >= 0 => Total(facts, "bids") = value.bids

(* The reports agree, the funnel of the questions among them, and so do    *)
(* the figures the machine is given.                                       *)
FiguresAgree == ReportsAgree /\ AdviceIsCoherent /\ StepsCountVisits /\ OutcomesAddUp
=============================================================================
