# TrackerApp: a TLA+ development

TrackerApp is a click tracker for native advertising. A visitor clicks on an ad, the
tracker stores the click and redirects (or a script on the landing page registers the
visit); the landing page, ad buyers and partner sites then send events for that click; each
event is stored as a conversion, those that carry a contact make a lead, and every
conversion is announced to the ad networks. Jobs retry, repair and clean: postbacks every
five minutes, spend every quarter of an hour, interrupted erasures, missing leads, landing
pages, rules and winners every hour, retention every night. A console shows reports and
administers all of it, and a media-buying machine reads what its ads brought.

The backend is one NestJS process over PostgreSQL. Within it nothing is locked: a handler
runs until its next `await`, a statement is atomic, and any other request or job may run
between two statements. Restarts happen between any two of them. This is the execution
model of every module here: a *task* is a running handler with what it remembers, an
action is one statement (or a group of reads that cannot be told apart), and `Next`
interleaves tasks. Where nothing interleaves, because the code is a pure function or a
single query, the module is a set of operators asked one question each, over bounded inputs.

## Components

| component (`src/backend/src` unless said) | state | operations | hard part | correct when |
|---|---|---|---|---|
| `leads`: erasure, retention | leads, clicks, conversions, postback_logs, erased_contacts, marks `erased_at`, `purged_at`, `scrubbed_at` | `deleteOne`, `eraseVisit`, `resumeInterruptedScrubs`, `purgePersonalData` | several statements over four tables, cut or overtaken at any point; who is the same person, and which value names one | an erased person never comes back, is forgotten everywhere in the end, nobody else is, and the answer covers all their visits |
| `leads`: intake and merge | leads, clicks | `intake`, `mergeLeadData`, `fillLead`, `reconcileRecentLeads` | events, duplicates, replays and the rebuild write one row | no contact lost, first contact kept, consent is the one shown with the contact |
| `conversions` | conversions | `create`, `retry`, incoming postbacks | check, count, insert, re-check, lead in separate statements; a visit found twice | one row per event type, cap, nothing of an erased person, an event only for the campaign whose secret came with it |
| `postbacks` | `status`, `postback_attempts`, `last_postback_at`, postback_logs | `processConversion`, `retryUnfinished`, `retryConversion`, first run by `setImmediate` | overlapping runs, restart, batches | status is true, nothing is left behind, one run at a time |
| `clicks`, `shared/tracking` | clicks | redirect, direct visit, enrichment | counts and lookups before the insert; the enrichment overwrites columns | floods of an address are scored, returns are returns, rotation is fair, no placeholder is stored |
| `settings`, `conversion-event-types` | two rows' caches | `getEffective`, `update`, boot | a fill races an update; an error is cached | an answer is never older than a lifetime and a query |
| `paths` | path_variants | CRUD, `evaluateAll`, `evaluateNow` | promotion on stale counts | winners are earned; a path keeps an active variant |
| `tracker-script` | the browser's cookie, storage and queue | loads, events, registrations | tabs share a cookie; answers come late | every billed click has a visit, events wait only for one |
| `platform-sync` | connections, mappings, spend snapshots, control log | sync, test, CRUD, Mediago controls | long calls between read and write; rotated tokens | the row is the sum, no token is lost |
| `campaigns`, `landers`, offers, networks, traffic sources, domains | one table each, files | CRUD, upload, build, boot | links no foreign key guards, several statements per request | links are live, built files are the campaign's own, parents in use stay |
| `landers` health, `rules` | health status, alerts | hourly sweeps, by hand; evaluation | check-then-create, write before alert | a bad page has its alert, one open alert per problem |
| `analytics`, `machine-api` reports | none | queries | each counts the same rows with filters of its own, some attribute visits across campaigns and some do not | the figures agree up to what the attribution moves, a visit is in one row |
| `machine-api` hours | click_hourly_counts | a job every five minutes | looks back one hour | an hour is whole once a statement of the next has counted it |
| console (`src/admin`) | what a screen shows | load, reload, edit | answers in any order | a quiet screen shows what its inputs ask |

How they interact. `leads.intake` makes the visit and calls `conversions.create`, which
writes the conversion, asks the leads whether the visit is erased, writes the lead, and
queues `postbacks.processConversion` with `setImmediate`. Erasure, retention and the
reconciliation meet `create` only through the tables. The redirect reads the settings'
cache, chooses along `paths` and is followed by the enrichment; the auto-winner meets it
through `path_variants`. The synchronisation, the reports and the machine meet through
snapshots. `PROJECT.json` lists every hazard of these interleavings at its line, with the
property that would catch it.

## Modules

| module | models | kind |
|---|---|---|
| `Erasure` | conversion intake, erasure, resume, reconciliation, retention, postback logs, seen from personal data | system |
| `LeadRegister` | what the leads table promises of one visit | abstract specification of `Erasure` |
| `Contacts`, `Persons`, `PersonRules` | what is read as a contact and what a cleaning leaves; forms of a number, suppression list, the visits of a person | functions and what they should answer |
| `Postbacks` | delivery of conversions to the networks | system |
| `Intake` | conversions, leads and consent, seen from what an event brings | system |
| `Caches` | settings and event types behind their caches | system |
| `Traffic` over `Routing` | redirect and direct visit, enrichment | system |
| `Rotation` | the variants of a path, operators, two runs of the auto-winner | system |
| `TrackerScript` | `tracker.js` in several tabs of a browser | system |
| `Params`, `Decisions` over `Routing` | parameters, click ids, event gate, incoming postbacks, rotation and routing | functions and what they should answer |
| `Tracking` | all the above but `Erasure`, `Postbacks`, `Intake` | composition |
| `PlatformSync` | overlapping synchronisations of several accounts | system |
| `Catalogue` | campaigns, landers and files, offers, networks, profiles, domains | system |
| `Alerts` | health sweeps, rules engine, alerts | system |
| `Reports`, `Machine` | the reports, attribution, the machine's figures; the job that counts hours | functions and a system |
| `Console` | every screen of the console and the test mode banner | system |
| `Operations` | `PlatformSync`, `Catalogue`, `Alerts`, `Machine`, `Console` | composition |
| `ErasureProofs` | of `Erasure`: types, the register and the refinement; then what the steps of a cleaning leave | proofs |
| `PostbacksProofs`, `IntakeProofs` | of `Postbacks`; of `Intake`: whom a handler works for, and the path it may take | proofs |
| `FoldProofs`, `DecisionProofs` | what a fold over a finite set returns; what the functions of `Routing`, `Params`, `Persons` and `Contacts` answer to any input | proofs |
| `TrackingProofs` | of `Caches`, `Traffic`, `Rotation`, `TrackerScript`, then of `Tracking`: the composition and its questions | proofs |
| `ReportProofs` | lemmas of `Reports` and `Machine`: sums, groups, and each half of `FiguresAgree` | proofs |
| `OperationsProofs` | of `Operations`: one invariant per desk, and the composition | proofs |
| `MC*` | instances for TLC, one `.cfg` per run | instances |

Changed forms of a definition stand next to it under the word `Variant`: each is what a
likely bug would make of the code, and with it in place a property of the run fails.
Variables commented "history" are not in the program; they record what a property compares.

### Erasure

State: a visit's personal data is a set of parts. `contact` is what SQL finds under a named
key or column, `text` is a contact inside a free value that only the JavaScript detector
finds, `rest` is zip code, state and quiz answers, which retention keeps and erasure does
not. `clickPii`, `convPii`, `leadPii`, `logPii` hold the parts still readable in each table;
`leadRow`, `erased`, `purged`, `leadScrubbed`, `clickScrubbed`, `convScrubbed` are the rows
and marks. `task` is what each handler remembers, including what it has read (`seen`, `snap`,
`gone`), which is where staleness lives.

| actions | code |
|---|---|
| `CreateBegin` .. `StoreLead` | `ConversionsService.create`, `erasureState`, `erasedSince`, `storeLead` |
| `EraseBegin` .. `EraseSeal` | `deleteOne`, `eraseVisit`, `personVisits`, `rememberErased`, `tombstoneVisits` |
| `Scrub*` | `scrubVisitPii`, shared by four jobs |
| `Resume*` | `resumeInterruptedScrubs`, with its in-process lock |
| `Reconcile*` | `reconcileRecentLeads` |
| `Purge*` | `purgePersonalData`, `purgeOldVisits` |
| `Deliver*` | what `processConversion` copies into `postback_logs` |
| `Crash`, `Swallow`, `TombFails` | restart; the errors each handler catches |

Which visits belong to a person is here a relation given as constants (`Person`, `Browser`).
The rules themselves are functions. `Persons` has the written forms of a number under a
national plan, the suppression list (`isErasedPerson`) and the ladder of matches and
contradictions that finds a person's visits (`visitsOfPerson`). `Contacts` has the reading of
a payload (`detecter`) and its cleanings (`caviarder`, `withoutContact`, `sanitizeUrlPii`) over
every sort of key, value and place. `PersonRules` asks them: two persons of a household and a
stranger share a browser, a number or details; a person returns with a number written another
way; a night's retention comes before an erasure; a payload is one value of any sort with some
of a few others (`Beside`) beside it.

### Postbacks

State: `status` and `attempts` per conversion, `rested` (idle for the backoff: the only thing
time is used for), `scheduled` (queued first runs, lost on restart), `logs`, and `accepted`,
what the networks really took. A call may fail although the network took it. `SweepBegin` reads
the oldest `Batch` unfinished rows and only then looks at the backoff; `SweepClaim` is the
conditional update; `ReadRow`, `Send`, `Log`, `Finish` are `processConversion`. An error while a
row is worked on costs the sweep that row, an error of the claim the rest of its list.

### Intake

State: `convs`, the conversions of each visit in order of arrival, and `lead`, which remembers
by request number who gave the contact and who gave the consent. Two fields are enough: every
other column of a lead follows the contact's rule (first value wins), consent alone has its
own. `CreateBegin` .. `StoreWrite` are `create` and `storeLead`, `Partner*` are `leads.intake`,
`Reconcile*` the hourly rebuild from what it read at the start. `Merged` folds `Merge` over the
stored contact events, as the code does. `heard`, `refused` and `repeated` are history only: a
contact is heard when the request that names it is received, whatever becomes of it, and refused
when its request is answered that it was not taken.

### Tracking

`Caches`: one module for both caches, which differ in when a writer empties the cache (settings
after the row, event types before it) and in what a failed read caches. A reader's query takes
its snapshot and stores it as two steps; `Tick` is time. `Traffic`: a click is `FindCampaign`,
settings, velocity count (by address alone, skipped for a private or a missing one), earlier
visits, insert, each its own query, and then an enrichment that may fail. The settings it reads
are any of the configured ones, since `Caches` shows that they may be old. `Rotation`:
`computeWinner` in integer arithmetic; a run lists, counts each variant by queries of its own,
then promotes. `TrackerScript`: a page is opened in a tab, asks for a visit if its link is
billed and new, holds events until it has one; requests and answers may be lost or late.
`Decisions` asks the pure functions of `Routing` and `Params`.

These parts and `PersonRules` meet in values only: each takes what another may tell it as any
value that could be told. An interleaving of two of them would therefore show nothing that one
alone does not, and `Tracking` starts in one of six initial kinds of state, `part`, in which
one part works and the others rest. The same holds of `Operations` and its `desk`.

### Operations

`PlatformSync`: a run (cron, all, or one connection) is `Find`, mapping, credentials, report,
one row per tracker campaign, `Finish`; what the adapters differ in (a report of one page, an
outage answered as an empty day, rotated tokens) is chosen per platform; a run goes by the
credentials it read when it found its connection, whatever is stored since. Edits, tests of a
connection, manual spend, control requests and restarts fall between any two steps. `Catalogue`:
requests of one to four statements, two at a time, each of which may be cut; of a lander's files
it keeps whether they are there, hold the entry page, and whose tag was put in. `Alerts`: two
sweeps over a page, the health they store and the alert they raise; one rule with its figure and
its one open alert. `Console`: a screen is described by what its inputs ask, whether an outdated
load is cancelled, when inputs are hidden and what follows an edit; the overview, which shares
its figures between three effects, and the banner are modelled apart.

`Reports` has as its only variable the rows asked about, `inquiry`: attribution (which report a
visit is in, and under which campaign the redirect records it); totals (campaign table,
drilldown, rollup, chart, overview, breakdown, placements, creatives, profitability, statistics
of a campaign, bots' spend), the funnel of a quiz, and the advice on the creatives
(`buildCreativeRecommendations`, the score of an image, the verdict on a placement) over what
each image brought with each headline, with its rates as fractions and its thresholds as in the
code. The visits of the totals are those of one campaign and of a sibling on the same host, and
each has the place the attribution gives it: kept in the campaign's row, moved to the sibling,
or taken over from it. The table and the drilldown count the attributed visits (`InRow`,
`OfRow`), the table only if the sibling is in its workspace; the rollup counts all campaigns;
every other report filters on the campaign a visit is recorded under (`Recorded`). A visit is
tagged with an id, a name only, or nothing; `Groups` are the ids. Visits, bots, events, guests,
questions and tallies are constants; an event is called by the number it brings in, and event 1
is the sale that was sent, with a cost. A visit has one event of a type at most (`Intake`'s
unique key), and those of a rehearsed visit are rehearsals. `Machine` adds outcomes: what the
machine is told of an ad and of the value of a lead; and, as a system, the job that counts
clicks per hour, whose statements may overlap, beside arriving clicks, failures and deleted
campaigns.

## Runs

Bounds are the constants of each `.cfg`. `CHECK_DEADLOCK FALSE` is set where bounded
requests, edits and traffic really come to an end: `postbacks*`, `intake`, `tracking`,
`operations`. In the Erasure runs a request can always arrive, and deadlock is checked.

| run | instance | question |
|---|---|---|
| `erasure_request` | Ann's two visits from two browsers; a form, an erasure, and a handler that reconciles or stores another form | `TombstoneIsBlank`, `AnswerCoversThePerson`: tombstones stay empty, the answer covers every visit that showed the contact |
| `erasure_live` | one visit, payloads with and without a contact; form, erasure, hourly job; one failure of the last two | `TypeOK`, `MarkMeansClean`, `QuietErasureIsClean`, `KeepsTheRegister` (implements `LeadRegister`), and `ErasureIsFinished` under fairness |
| `retention_live` | one old visit with two events; one handler for the forms and their postbacks, one for the nightly and the hourly job, with one failure of the latter at any statement | `RetentionIsFinished`: the visit names nobody in the end, also when a form is stored after it was purged and marked, and the log of a delivery goes with its conversion |
| `postbacks` | one conversion, two networks, two attempts; one handler for the first run and one for the sweep, each of which may also take the one retry by hand; one failure or restart | `SentMeansAccepted`, `AttemptsAreBounded`, `TakesUpOnlyUnfinished`, and `RetriesEnd` under fairness |
| `intake` | a visit from an ad and one of a partner, two requests of any kind on two handlers, cap 1, one failure, hourly job | `NothingIsLost`, `RealLeadsAreVisible`, `CapHolds`, `FirstContactStays`, `ReplayChangesNothing`, `ProofSettles`, and `StoredContactsBecomeLeads` under fairness |
| `tracking` | six parts, below | thirteen properties, below |
| `operations` | six desks, below | eight properties, below |
| `erasure_replay`, `retention_rewrites`, `intake_crash`, `postbacks_overlap`, `postbacks_starved` | | violations, see "What the code does not do" |

`tracking`, about 1.6 million distinct states:

| part | instance | properties |
|---|---|---|
| caches | two values, lifetime 2, latency 1, two readers, two writers, one failure; both kinds | `StaleIsYoung` |
| traffic | two clicks, two campaigns, one cookie or none, a public and a private address or none, one user agent or none, flood limits 0 and 1 | `FloodIsScored`, `NewMeansFirst` |
| rotation | two variants, the hourly run and one by hand, four visits or conversions, one edit; at least three visits together (`MinTotal`), one of the variant's own | `PromotionIsEarned`, `QuietPathKeepsServing` |
| script | two tabs, two ad clicks, two loads, two visits, a queue of one | `BilledClicksHaveVisits`, `QueuesWaitForAVisit` |
| decisions | up to three items of weight 0 to 2 and every draw; every query over the fields that stand in for each other; two visits with or without a shared id, one possibly late, three events, two secrets | `RoutingIsFair`, `ParamsAreClean`, `PostbacksStayInBounds` |
| rules | four national plans, two erasures, two declared contacts; a household of two with a stranger; one value under any of ten sorts of key, in every place, of every thing, with any of three others beside it | `ErasedStayAway`, `ErasureTakesOnePerson`, `WhatIsReadIsRemoved` |

`operations`, about 1.7 million distinct states:

| desk | instance | properties |
|---|---|---|
| sync | two accounts of one platform of five, three platform and two tracker campaigns, two interchangeable runs, three edits, faults or tests | `SpendIsTheSum`, `TokensAreKept` |
| catalogue | two landers, two campaigns, two slugs, two requests at a time, three requests or restarts | `LinksAreLive` |
| alerts | one page, two sweeps, one of six rules, four events; from a fresh start or from a page long bad whose alert is resolved | `AlertsMatchHealth` |
| reports | three campaigns on two hosts or none, and a visit; two visits, the second a bot's, with two events and spend, tagged with one id, a name or nothing, one of them perhaps moved to a sibling or taken from one; two guests of a quiz of two questions; two images and two headlines, each pair with one of five tallies around the thresholds | `VisitsAreReportedOnce`, `FiguresAgree` |
| machine | hours 0 to 2, two clicks an hour, two statements at once, one deleted campaign; two leads, two ads of one set, two currencies | `HoursAreCounted`, `FiguresAgree` |
| console | two ranges, two picks, three clicks of the administrator, every screen | `ScreensShowWhatWasAsked` |

The two synchronisation runs are the only symmetric values (`Interchangeable`): no action
names one, only invariants are checked in that run, and the assumption on `CHOOSE` holds since
none ranges over the runs. The other instances use strings and numbers and no symmetry.

Why these bounds. Every property of Erasure is about one visit, or a pair of visits of one
person, and about one handler overtaking another; two visits and three or four concurrent
handlers show every overlap of two jobs with a third already under way. A handler of
`erasure_request` that never takes another step is one that crashed, so that run needs no
failures of its own. A delivery is per conversion, so one conversion with two networks shows the
overlaps, and two with a batch of one (`postbacks_starved`) show the batches. Two requests are
enough for `Intake` because each rule compares two events: a contact and a consent, a test and a
real lead, an event and its duplicate; the rebuild runs as often as it likes. In `tracking` and
`operations` each property compares two actors (a reader and a writer, two clicks, two tabs, two
runs, two requests) and a third event that changes what they read; the counts are the smallest
with which each variant of the code is caught and each exception a property makes happens. In
`Alerts` a turn, a recovery and a second turn need more events than the bound allows from a
fresh start: the second initial state is there for it. A second failure would only repeat the
first at another step, and a run tries the first at every step.

### What the code does not do

Five runs end in a violation; each quotes, in `PROJECT.json`, the comment it contradicts.

| run | what TLC shows |
|---|---|
| `erasure_replay` | `tombstoneVisits` is cut after the requester's own row: the replay reads an empty lead, knows no contact, answers "deleted", and the other visit keeps the person (`leads.service.ts:582-583` says any interruption after this point repairs itself) |
| `retention_rewrites` | the nightly job writes back by row id the answers it read before an erasure emptied the row |
| `intake_crash` | `create` stops between its insert and `erasedSince`: the person stays on an erased visit whose lead is already marked, so no job looks again |
| `postbacks_overlap` | two sweeps claim one row, since the claim does not change the column it compares (`postbacks.service.ts:166-167` says they cannot) |
| `postbacks_starved` | rows of a campaign without configuration never count an attempt and fill the head of every batch |

Other places where a comment says more than the code does. They are modelled as the code has
them, and a property that would say otherwise names the exception.

| place | difference |
|---|---|
| `clicks.service.ts:302` | a flood limit of 0 does not switch the check off: it is read as the default, 20 |
| `leads.service.ts:1074`, `postbacks.service.ts:98` | a delivery under way when its conversion is cleaned logs afterwards what it had read, and no job looks at that log again |
| `conversions.service.ts:179`, `:205` | a request refused at the cap, or that loses the unique key to an equal one at the same time, has its contact stored nowhere |
| `ip-enrichment.service.ts:67` | the enrichment writes a verdict without the points of a flood |
| `auto-winner.ts:8` | only the leader's visits are held against the minimum, not each variant's |
| `test-mode.ts:8-11`, `analytics.service.ts:113-114` | a rehearsal sent for a real visit is counted in the breakdown, and only there |
| `campaign-report.service.ts:372-374` | the comment restates the rule so that chart and table agree; the chart still counts events by their own date and test flag, so it has more than the table by the events of visits the table does not show |
| `campaign-report.service.ts:221`, `:636`, `:390`; `analytics.service.ts:37`, `:168` | the table and the drilldown attribute visits across the campaigns of a host, the overview, the summaries, the chart and the funnel filter on the campaign: they differ by the visits moved or taken. A table of one workspace leaves out a sibling that the drilldown knows, and differs from it alike |
| `campaign-report.service.ts:767` | with no counting type configured the drilldown counts every event and the table none |
| `traffic-source-from-query.ts:108` | a visit without `utm_source` on a shared host is in no row: SQL's `NOT` over a missing value is neither |
| `funnel-analytics.service.ts` | steps count bots' answers, arrivals leave bots out; a question renumbered in the middle is two steps |
| `campaigns.service.ts`, statistics | seven days of visits beside conversions of all time |
| `machine-api.service.ts` | a lead refused and returned without a sale is in both counts; clicks of an hour are lost if no refresh succeeded in the next, or when a slow statement of the hour itself ends after those of the next (nothing keeps refreshes from overlapping): an older hour is not final then; clicks deleted since stay counted |
| `platform-sync.service.ts:564` | a connection disabled during its synchronisation is active again at its end |
| `platform-sync.service.ts:117` | an exception leaves the control log pending |
| `platform-sync.service.ts:483` | noting an error of a deleted connection fails, and the rest of the list is not synchronised |
| `bing.adapter.ts:178-179` | a test of the connection refreshes the token and drops the new one |
| tracker script, "Same click id ... keep the current visit" | not when another ad click came in between |
| traffic sources, boot | the seed overwrites what the operator changed in a system profile; the networks' seed does not |
| `TestModeBanner.tsx:15-17` | after an error the banner warns of test mode although it is off, or unknown |
| `param-mapping.ts:9-12`, `mediago-postback.ts:8` | mediago may be told a placeholder: its fallback reads the query as it came |
| `alerts.service.ts:22` | a resolved alert can be acknowledged again |
| `lead-fields.ts`, "(0)" | dropped for every calling code; in Italy the 0 belongs to the number. The inputs write it for France alone |
| `conversions.service.ts:163` | a duplicate whose `storeLead` fails is stored nowhere; `NothingIsLost` is stated without such a failure |

## Fairness

Weak fairness on the steps of a handler that is already running (`Continue`, `Work`): Node's
event loop resumes every handler whose statement has answered. Weak fairness on the start of the
frequent jobs (`ResumeBegin`, `ReconcileBegin` of `Intake`, `SweepBegin`) and of queued first
runs (`FirstBegin`): `@Cron` and `setImmediate`. Weak fairness on `Rest`: a backoff runs out.
None on requests, operators or networks: nothing promises that they come. `RetentionIsFinished`
needs the nightly job as well (`RetentionFairness`): `@Cron` starts its nights (`PurgeBegin`),
and a conversion only grows older, so nights on which every conversion without a mark is past
the cutoff keep coming (`SF` on `PurgeSweepOn` with all of them). Failures are bounded
(`MaxFaults`), which says that they stop long enough for the repair to run. `tracking` and
`operations` state no liveness and need no fairness.

## Proofs

All for arbitrary constants that satisfy the assumptions named in the modules
(`ErasureAssumption`, `PostbacksAssumption`, `IntakeAssumption`, `CachesAssumption`,
`TrafficAssumption`, `AbsenceAssumption`, `RotationAssumption`, `ScriptAssumption`,
`NoClickAssumption`, `SyncAssumption`, `CatalogueAssumption`, `RuleIsNoPage`, `PicksAreNot`,
`DecisionsAssumption`, `RulesAssumption`, `ReportsAssumption`, `MachineAssumption`): any number
of visits, events, networks, tasks, requests, readers, clicks, variants, tabs, accounts,
campaigns, landers, pages, sweeps, hours and failures, any thresholds and times. The assumptions
say that bounds are numbers, that sets the model counts or chooses from are finite or not empty,
and that the values standing for "none" are no members of the sets they are beside.
`ReportsAssumption` also says that event 1 is among those a question is about, and that of the
visits of a tally no more converted than there were. What is counted is finite because the
process is: `Tasks` are the handlers of one process, `PlatformCampaigns` the rows of one report,
`Ads` the campaigns of one table. `MaxAttempts` is at least 1, as the code's constant is.

| theorem | says | argument |
|---|---|---|
| `ErasureProofs!TypeCorrect` | `TypeOK` | inductive as it stands, one lemma per group of actions |
| `ErasureProofs!RegisterInvariant` | `RegisterInv` | the invariant of the leads table: a row shows a contact exactly while it is live. It needs a second half about the handlers: whoever is about to create a row holds a contact, and retention works on rows that exist |
| `ErasureProofs!ErasedStaysBlind` | `TombstoneHasNoContact` | from `RegisterInv`: an erased row is a purged row |
| `ErasureProofs!Refines` | `KeepsTheRegister` | each action maps to `Store`, `Forget`, `Retain` or a stutter; `RegisterInv` says which |
| `ErasureProofs!TombstoneKeepsAnswersOnly`, `BlankBeforeRetention` | an erased row holds answers of an old visit at most; `TombstoneIsBlank` where no visit is old | `CleanInv`: which step each running cleaning has reached, and what that step has already emptied (`JobRecord`, `TableRecord`) |
| `ErasureProofs!MarkNeverLies` | `MarkMeansClean`, for every visit that is not old | the same: a row gets its mark only from a cleaning whose earlier steps are kept by every other handler |
| `ErasureProofs!ErasureLeavesNothing` | `QuietErasureIsClean`, for every visit that is not old | `QuietInv`: without a failure, whatever an erased visit still shows is ahead of a handler that will reach it: one whose list holds the visit, whose rewrite has read the row, or the request that stored it and has not checked yet |
| `ErasureProofs!AnswersArePaid` | `AnswerCoversThePerson`, once the process is quiet | `OwedInv`: a visit owed is erased, or on the list of an erasure under way for that very visit |
| `PostbacksProofs!TypeCorrect` | `TypeOK` | inductive |
| `PostbacksProofs!Delivery` | `DeliveryInv` | inductive with the type invariant: what each run believes of the networks it tried (`RunInv`), and each sweep of the rows it has read (`SweepInv`), stays true under every other run |
| `PostbacksProofs!SentIsTrue` | `SentMeansAccepted` | a conjunct of it |
| `PostbacksProofs!ClaimProtects` | `TakesUpOnlyUnfinished` | from `SweepInv`: if the attempts are those read, the row is unfinished |
| `PostbacksProofs!BudgetHolds` | `AttemptsAreBounded` | `BudgetInv`: attempts spent plus the runs that may still spend one (the first run to come or under way, sweeps past their claim, retries) stay within the maximum, one per retry asked for and one per sweeper. Runs are counted as sets of tasks, so a step moves one task between two of them |
| `IntakeProofs!RealLeads` | `RealLeadsAreVisible` | `VisibleInv`: a handler past the check works on a visit that exists and is no test, and a visit that exists never becomes one |
| `IntakeProofs!PathInvariant` | `PathInv` | the inductive invariant of the next three: `VisibleInv`; `CountsInv`, types; `SoundInv`, where a handler may stand (a request past the cap never reaches the insert, a replay never gets past the check, what is about to be written has a contact); `HeardInv`, a contact heard and not refused is in the lead or in the hands of a handler as long as nothing failed; `RefusedInv`, who was refused came to a visit with a conversion or to a partner's test visit |
| `IntakeProofs!HeardContacts` | `NothingIsLost` | `HeardInv` and `RefusedInv`. Each early return of the path is one of the two: it leaves the contact to a lead that is there, or refuses it at a visit that has a conversion |
| `IntakeProofs!CapPerClick` | `CapHolds`, for any cap | `SoundInv` at `CreateInsert`; conversions of a visit only grow, so a visit that was full stays full |
| `IntakeProofs!Replay` | `ReplayChangesNothing` | `SoundInv`: a replay of a partner whose lead is stored stands before the check until it ends |
| `IntakeProofs!FirstContact` | `FirstContactStays` | every write of a lead is a `Merge` on its row |
| `TrackingProofs!PartsBehave` | `Spec => CachesSpec /\ TrafficSpec /\ RotationSpec /\ ScriptSpec` | a behaviour exercises one part; each of the others stutters in one of its initial states. What a part's specification implies, `Tracking` implies |
| `TrackingProofs!CachesStayTyped` | `CachesTypeOK` | inductive |
| `TrackingProofs!AnswersAreYoung` | `StaleIsYoung` | needs `ReadsAreRecent`: what a query holds and has not stored yet is the row, or was overtaken within one latency, since it decides what the cache may answer next |
| `TrackingProofs!NewVisitsAreFirst` | `NewMeansFirst` | `TrafficInv`: the verdict is taken a statement before the row is there, so it says what a request about to insert has found, that rows stay, and that an enrichment leaves visitor and verdict alone |
| `TrackingProofs!FloodScores` | `FloodIsScored` | `FloodInv`: the rows of an address only grow, so the count a request took is at least the one at its arrival and at most the one at its insert (`InHand`); the score follows it from the query to the row (`RowScored`), and an enrichment scores the signals anew |
| `TrackingProofs!WinnersEarnIt` | `PromotionIsEarned` | `EarnedInv`: tallies only grow, so what a run counted, of the winner, of a rival and of all together, is still there when it promotes |
| `TrackingProofs!PathsKeepServing` | `QuietPathKeepsServing` | `ServingInv`: an undisturbed run's variants are still those it listed, active |
| `TrackingProofs!BilledClicks` | `BilledClicksHaveVisits` | `ScriptInv`: what the storage and each page hold was registered, and a page that asks no more was answered for its own click |
| `TrackingProofs!Queues` | `QueuesWaitForAVisit` | the same, `PageOK` of each tab |
| `TrackingProofs!RoutingObeys` | `RoutingIsFair`, for lists of any length and any weights | `DrawsAreFair`: the total weight is a sum that may take the items in any order (`SumTakesAny`), so the draws that pick an item are an interval as long as its weight (`PicksByWeight`); `RoutesByRule` for any paths and visitors: a path of the visitor's pool is taken exactly when one of them has weight |
| `TrackingProofs!NoPlaceholders` | `ParamsAreClean` | `ResolvesByRule`: what is kept of any query under any mappings, for any priorities; `OneIsTriedFirst`: some mapping comes first, since ties are broken by place |
| `TrackingProofs!PostbacksAreBound` | `PostbacksStayInBounds`, for any secrets | `EventsKeepToTheirNetworks`, `StoredIsProved`: one visit at most is found by an id, and the event goes under its campaign |
| `TrackingProofs!ErasedAreRefused` | `ErasedStayAway` | each way of writing a number is brought to a form with or without its code (`WholeNumbers`); every erased form is one that the list holds, and nobody else's is |
| `TrackingProofs!OnePersonIsTaken` | `ErasureTakesOnePerson` | the ladder visit by visit: what the person's own row repeats, what contradicts it, and that a night's retention takes from a row only what the ladder does not need |
| `TrackingProofs!WhatIsReadGoes` | `WhatIsReadIsRemoved`, for payloads of any values | value by value: what a cleaning leaves of one is read no more (`ErasedIsUnread`, `PurgedIsUnread`), and cleaning it again changes nothing (`CleanedAgain`) |
| `OperationsProofs!OldHoursAreFinal` | `HoursAreCounted` | `HoursInv`: what each statement at work has read of the hour before its own is all there is of that hour, in whatever order they end |
| `OperationsProofs!RotatedTokensAreKept` | `TokensAreKept` | `TokensInv`: a run about to store a token holds the account's latest, except of accounts the history already names |
| `OperationsProofs!StoredSpendIsTheSum` | `SpendIsTheSum` | `SumsInv`: while an undisturbed run saves, each campaign's sum is either still in its hands or already the row, and nobody else has written it |
| `OperationsProofs!AlertsFollowHealth` | `AlertsMatchHealth` | `AlertsInv`: a bad page's alert is there, was answered, or is in the hands of the sweep that saw the turn; a sweep about to create one found none open and is the only one |
| `OperationsProofs!ScreensFollowInputs` | `ScreensShowWhatWasAsked` | `ScreenInv`: a part that did not race has one request that may still write it, and shows its inputs once none is under way; `BannerInv` for the test mode |
| `OperationsProofs!LinksAreKept` | `LinksAreLive` | `LinksInv`: while a request is between two statements, who answers for a campaign's link (a live lander, or the request that will write it), for a lander's files, and that a lander somebody is taking away is needed by no campaign (`ExposedAreNotNeeded`) |
| `OperationsProofs!VisitsAreAttributedOnce` | `VisitsAreReportedOnce` | `Asked` says what a question is; the rest is that the Facebook campaigns of a page's siblings are the same set seen from any of them |
| `OperationsProofs!FiguresDoAgree` | `FiguresAgree`, for any visits, bots, events, groups, guests, questions and tallies; the two leads and the two images and headlines are those of the model | each report gives the rows of a question to groups, and every row to one (`GroupsSum`): a total over groups is then the sum over rows, and a count is a sum of ones. What is left is which rows each report takes, and that those of the table are the recorded ones without the moved and with the taken: `DrilldownsDo`, `ScreensDo`, `PerformanceDo`, `OutcomesDo`. `StepsDo`: the rows of a key share out its visits; with nobody renumbered the row before is the question before. `AdviceDo`: the rates an advice compares, as products |

Two limits met while proving, both true of the code. `MarkMeansClean` is false of an old visit:
the nightly job writes back what it read before the erasure (`retention_rewrites`), so the
theorems about cleanings exclude the visits retention may touch, while TLC checks the property
whole where `Old` is empty. And with two erasures of one visit at once the second may answer
while the first still erases, so `AnswerCoversThePerson` holds of every number of handlers only
when nothing is under way; with a single erasing handler, as in `erasure_request`, it holds at
every moment, which TLC checks.

Only model-checked, and why:

- Liveness (`ErasureIsFinished`, `RetentionIsFinished`, `RetriesEnd`, `StoredContactsBecomeLeads`):
  fairness and `ENABLED` are beyond the prover.
- `ProofSettles`: that a consent settles is liveness as well.

Induction over data. The prover cannot apply the library's induction theorems, which take a
formula as a parameter, nor read what a recursive definition says of every input. Where a sum
over a set is at stake (`RoutingIsFair`) the induction is made by hand: the subsets on which the
claim fails are a set, and a nonempty set of finite sets has a least member (`LeastSubset`, from
the well-founded order of `FiniteSetTheorems`). `FoldProofs` derives from it, for any operation
given as a constant, that a fold over a finite set takes one element and folds the rest
(`FoldSteps`), and that it depends on the values in the set alone (`FoldReadsTheSet`);
`DecisionProofs` instantiates it with the sum of weights, `ReportProofs` with the sum of a
function's values, from which its totals and counts over groups follow. `TriedBefore` and
`FirstOf` say which mapping or value comes first, and `StepFunnel` which row comes before a row,
instead of sorting and filtering a sequence, for the same reason.

## Not modelled, and why

- Lists, details and exports (leads, clicks, conversions, reports as CSV, the scheduled export,
  the digest): they read one table, format, and change nothing.
- Building the networks' URLs and bodies, and the HTTP of strategies, adapters and geolocation:
  the answer is a choice of the environment.
- `notifications`: best-effort sends. Guards, filters, sign-in, deployment: no state of their own.
- Placements, targets, creatives' thumbnails, paths' own rows: one upsert or delete per
  operation over independent rows. The DNS lookup of a domain is a choice.
- What a screen draws, its forms, the bell's poll and live refreshes.
- Ages: the attribution window, the retention cutoff, the velocity window, the auto-winner's and
  the 48-hour window of the reconciliation choose which rows a job sees. `Old`, `Rest`, hours and
  ticks stand for the uses of time that matter; elsewhere all rows are in the window.
- Of `leads`: which strings look like a number, a name or an address (the regular expressions of
  `lead-fields.ts`: sequences of digits are sorts of values here), the limit of 500 visits of a
  search, the witness of the HMAC key. The rules of who is a person are checked as functions;
  `Erasure` takes the relation they compute as a constant, since neither changes under the other.
- In `Intake`: erasure (in `Erasure`), fields other than contact and consent, and events other
  than the partner's own on a partner's visit.
- In `Postbacks`: what is sent. Which networks an event goes to is `Handles`, and `FiredNetworks`
  of `Params`.
- In `Traffic`: cookies' attributes and the URL of the redirect. In `Reports`: labels, sorting,
  time zones and buckets of days. In `Machine`: the parsing of its queries.

## What is left

1. `PersonVisits` computed inside `Erasure` from `Persons`, in place of the given relation, for
   households of two visits each.
2. Proofs: `OutcomesAddUp` and the advice over any number of leads, images and headlines, which
   the model fixes at two; a bound on the conversions of a visit when several handlers insert at
   once.
3. The configuration of postbacks per campaign, whose edits meet a delivery under way.
4. Abstract specifications for the catalogue (a link is a partial function from campaigns to
   their landers) and for alerts (a page's problem is open or not).
