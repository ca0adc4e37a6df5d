------------------------------ MODULE Erasure ------------------------------
(***************************************************************************)
(* The life of a person's data in the tracker: a visit (clicks), the       *)
(* conversions that arrive for it, the lead row built from them, the       *)
(* postback logs, and the jobs that write or clean them: conversion        *)
(* intake, erasure on request, the hourly resume and reconcile jobs, the   *)
(* nightly retention.  Every job is a task of one Node process: its        *)
(* database statements are atomic, and any other task may run between two  *)
(* of them.  Personal data is abstracted to the parts the cleaning rules   *)
(* tell apart.                                                             *)
(***************************************************************************)
EXTENDS Integers, FiniteSets

CONSTANTS
    Visits,     \* click ids: every visit row exists from the start
    Events,     \* contact event types; (visit, event) is unique
    Person,     \* [Visits -> ...] who is behind the visit
    Browser,    \* [Visits -> ...] the visitor id of the visit
    Landing,    \* what the visit row itself carries of the person
    Payloads,   \* what an incoming conversion may carry
    Old,        \* visits past the retention cutoff
    Tasks,      \* concurrent requests and cron jobs
    Roles,      \* [Tasks -> SUBSET Operation] what each task may run
    Fragile,    \* tasks that may fail half-way (restart, database error)
    MaxFaults   \* bound on the number of failures

(* "contact": a phone, address or name under a named key or column; SQL     *)
(* removes it.  "text": a contact inside a free value; only the JavaScript  *)
(* detector removes it.  "rest": zip, state, quiz answers; retention keeps  *)
(* it, an erasure does not.                                                 *)
Parts == {"contact", "text", "rest"}

Operation == {"create", "erase", "resume", "reconcile", "purge", "deliver"}

Keys == Visits \X Events

ASSUME ErasureAssumption ==
    /\ Visits # {} /\ Events # {}
    /\ Landing \subseteq Parts
    /\ Payloads \subseteq SUBSET Parts
    /\ Old \subseteq Visits
    /\ Roles \in [Tasks -> SUBSET Operation]
    /\ Fragile \subseteq Tasks
    /\ MaxFaults \in Nat

VARIABLES
    clickPii,     \* [Visits -> SUBSET Parts]  clicks
    visitor,      \* visits whose visitor_id is not NULL
    convRow,      \* the (visit, event) pairs stored in conversions
    convPii,      \* [Keys -> SUBSET Parts]
    convScrubbed, \* conversions.scrubbed_at is set
    logPii,       \* [Keys -> SUBSET Parts]  postback_logs of the conversion
    leadRow,      \* visits with a row in leads
    leadPii,      \* [Visits -> SUBSET Parts]
    erased,       \* leads.erased_at is set
    purged,       \* leads.purged_at is set
    leadScrubbed, \* leads.scrubbed_at is set
    clickScrubbed,\* clicks.scrubbed_at is set
    suppressed,   \* persons whose contact is on the suppression list
    task,         \* [Tasks -> what the running handler remembers]
    faults,       \* failures so far
    owed,         \* history: <<v, w>>, w showed v's contact when v's erasure was asked
    answered      \* history: visits whose erasure answered "deleted", nothing skipped

clickVars == <<clickPii, visitor, clickScrubbed>>
convVars  == <<convRow, convPii, convScrubbed>>
leadVars  == <<leadRow, leadPii, erased, purged, leadScrubbed>>
history   == <<owed, answered>>
vars == <<clickVars, convVars, logPii, leadVars, suppressed, task, faults, history>>

(***************************************************************************)
(* What a running handler remembers between two statements.                *)
(***************************************************************************)
Mode == {"erased", "purged"}

PC == {"idle",
       "insert", "recheck", "store", "lead",             \* conversions.create
       "find", "remember", "stone", "tombs", "seal",     \* deleteOne, eraseVisit
       "loop", "resumeMark",                             \* resumeScrubs
       "recon",                                          \* reconcileRecentLeads
       "answers", "rows", "purgeMark", "sweep",          \* purgePersonalData
       "log",                                            \* processConversion
       "scrubRead", "scrubRewrite", "scrubSql", "scrubLogs", "scrubMark"}

Job == {"none", "create", "delete", "visit", "resume", "reconcile", "purge", "sweep", "deliver"}

TaskRecord ==
    [job: Job, pc: PC, v: Visits, ev: Events,
     data: SUBSET Parts,           \* the payload, or the contact the request knows
     gone: SUBSET Visits,          \* visits read as erased
     seen: [Visits -> SUBSET Parts],  \* lead data read earlier
     visits: SUBSET Visits, todo: SUBSET Visits, skipped: SUBSET Visits,
     mode: Mode, read: SUBSET Keys, snap: [Keys -> SUBSET Parts],
     failed: BOOLEAN]

Idle ==
    [job |-> "none", pc |-> "idle",
     v |-> CHOOSE v \in Visits : TRUE, ev |-> CHOOSE e \in Events : TRUE,
     data |-> {}, gone |-> {}, seen |-> [v \in Visits |-> {}],
     visits |-> {}, todo |-> {}, skipped |-> {},
     mode |-> "erased", read |-> {}, snap |-> [k \in Keys |-> {}],
     failed |-> FALSE]

Free(t, o) == task[t].pc = "idle" /\ o \in Roles[t]
At(t, p)   == task[t].pc = p
Becomes(t, r) == task' = [task EXCEPT ![t] = r]
Goto(t, p) == Becomes(t, [task[t] EXCEPT !.pc = p])
Done(t)    == Becomes(t, Idle)
Key(t)     == <<task[t].v, task[t].ev>>

ConvOf(S)  == {k \in convRow : k[1] \in S}

Init ==
    /\ clickPii = [v \in Visits |-> Landing]
    /\ visitor = Visits
    /\ clickScrubbed = {}
    /\ convRow = {} /\ convPii = [k \in Keys |-> {}] /\ convScrubbed = {}
    /\ logPii = [k \in Keys |-> {}]
    /\ leadRow = {} /\ leadPii = [v \in Visits |-> {}]
    /\ erased = {} /\ purged = {} /\ leadScrubbed = {}
    /\ suppressed = {}
    /\ task = [t \in Tasks |-> Idle]
    /\ faults = 0
    /\ owed = {} /\ answered = {}

(***************************************************************************)
(* Statements several jobs share.                                          *)
(***************************************************************************)
\* Variant: the UPDATE without its WHERE on erased_at and purged_at.
FillLeadUnguarded(v, data) ==
    /\ leadPii' = [leadPii EXCEPT ![v] = IF v \in leadRow THEN @ \cup data ELSE @]
    /\ UNCHANGED <<leadRow, erased, purged, leadScrubbed>>

\* One UPDATE: COALESCE keeps what is there, an erased or purged row is left alone.
FillLead(v, data) ==
    /\ leadPii' = [leadPii EXCEPT ![v] =
                     IF v \in leadRow \ (erased \cup purged) THEN @ \cup data ELSE @]
    /\ UNCHANGED <<leadRow, erased, purged, leadScrubbed>>

\* lead.create; on a unique violation, fillLead.  Rows are never deleted, so
\* nothing can happen between the two that changes what the second one does.
CreateOrFillLead(v, data) ==
    \/ /\ v \notin leadRow
       /\ leadRow' = leadRow \cup {v}
       /\ leadPii' = [leadPii EXCEPT ![v] = data]
       /\ UNCHANGED <<erased, purged, leadScrubbed>>
    \/ v \in leadRow /\ FillLead(v, data)

\* Variant: the tombstone is born with its scrubbed_at mark.
TombstoneBornMarked(S) ==
    /\ leadRow' = leadRow \cup S
    /\ leadPii' = [v \in Visits |-> IF v \in S THEN {} ELSE leadPii[v]]
    /\ erased' = erased \cup S
    /\ purged' = purged \cup S
    /\ leadScrubbed' = leadScrubbed \cup S

\* The tombstone: every personal column empty, erased_at and purged_at set,
\* scrubbed_at back to NULL so that a row retention had cleaned is cleaned again.
Tombstone(S) ==
    /\ leadRow' = leadRow \cup S
    /\ leadPii' = [v \in Visits |-> IF v \in S THEN {} ELSE leadPii[v]]
    /\ erased' = erased \cup S
    /\ purged' = purged \cup S
    /\ leadScrubbed' = leadScrubbed \ S

(***************************************************************************)
(* scrubVisitPii: the gesture four jobs share.  It reads the conversions,  *)
(* writes back what the JavaScript pass leaves of each, runs the SQL        *)
(* statements on every row of the visits, and marks what it READ.          *)
(***************************************************************************)
ScrubThen(t, r) == Becomes(t, [r EXCEPT !.pc = "scrubRead"])

ScrubRead(t) ==
    /\ At(t, "scrubRead")
    /\ LET read == ConvOf(task[t].visits) IN
       Becomes(t, [task[t] EXCEPT
                       !.pc = "scrubRewrite", !.read = read,
                       !.snap = [k \in Keys |-> IF k \in read THEN convPii[k] ELSE {}]])
    /\ UNCHANGED <<clickVars, convVars, logPii, leadVars, suppressed, faults, history>>

Kept(mode) == IF mode = "erased" THEN {} ELSE {"rest"}

\* What a row holds after the JavaScript pass wrote back the metadata it had
\* read: the columns are not its business, and it writes only if it changed something.
Rewritten(p, snap, mode) ==
    IF snap \subseteq Kept(mode) THEN p
    ELSE (p \cap {"contact"}) \cup (snap \cap Kept(mode))

ScrubRewrite(t) ==
    /\ At(t, "scrubRewrite")
    /\ LET r == task[t] IN
       convPii' = [k \in Keys |->
                     IF k \in r.read THEN Rewritten(convPii[k], r.snap[k], r.mode)
                     ELSE convPii[k]]
    /\ Goto(t, "scrubSql")
    /\ UNCHANGED <<clickVars, convRow, convScrubbed, logPii, leadVars, suppressed, faults, history>>

\* scrubConversionMetadata and scrubClicks: the SQL statements reach every
\* conversion of the visits, also one that arrived after the read, but only under
\* the keys and columns they name.  No other job writes a visit row.
ScrubSql(t) ==
    /\ At(t, "scrubSql")
    /\ LET r == task[t] IN
       /\ convPii' = [k \in Keys |->
                        IF k \in ConvOf(r.visits) THEN convPii[k] \ {"contact"} ELSE convPii[k]]
       /\ clickPii' = [v \in Visits |->
                         IF v \in r.visits THEN clickPii[v] \cap Kept(r.mode) ELSE clickPii[v]]
       /\ visitor' = IF r.mode = "erased" THEN visitor \ r.visits ELSE visitor
    /\ Goto(t, "scrubLogs")
    /\ UNCHANGED <<clickScrubbed, convRow, convScrubbed, logPii, leadVars, suppressed, faults, history>>

\* The logs of the conversions that were read, as they are by now.
ScrubLogs(t) ==
    /\ At(t, "scrubLogs")
    /\ logPii' = [k \in Keys |-> IF k \in task[t].read THEN {} ELSE logPii[k]]
    /\ Goto(t, "scrubMark")
    /\ UNCHANGED <<clickVars, convVars, leadVars, suppressed, faults, history>>

\* Variant: a caller the scrub never returns to.
AfterScrubLost(job) ==
    CASE job \in {"delete", "visit"} -> "seal"
      [] job = "resume"              -> "resumeMark"
      [] job = "purge"               -> "purgeMark"
      [] OTHER                       -> "lost"

AfterScrub(job) ==
    CASE job \in {"delete", "visit"} -> "seal"
      [] job = "resume"              -> "resumeMark"
      [] job = "purge"               -> "purgeMark"
      [] OTHER                       -> "idle"

ScrubMark(t) ==
    /\ At(t, "scrubMark")
    /\ convScrubbed' = convScrubbed \cup task[t].read
    /\ clickScrubbed' = clickScrubbed \cup task[t].visits
    /\ LET next == AfterScrub(task[t].job) IN
       Becomes(t, IF next = "idle" THEN Idle ELSE [task[t] EXCEPT !.pc = next])
    /\ UNCHANGED <<clickPii, visitor, convRow, convPii, logPii, leadVars, suppressed, faults, history>>

Scrub(t) == ScrubRead(t) \/ ScrubRewrite(t) \/ ScrubSql(t) \/ ScrubLogs(t) \/ ScrubMark(t)

(***************************************************************************)
(* conversions.create for a contact event.                                 *)
(***************************************************************************)
\* The read of the existing conversion and erasureState, in one step: a row
\* that appears between the two only makes the insert conflict.  A duplicate
\* goes straight to storeLead, which is then told nothing about an erasure.
CreateBegin(t) ==
    /\ Free(t, "create")
    /\ \E v \in Visits, e \in Events, p \in Payloads :
         LET exists == <<v, e>> \in convRow IN
         Becomes(t, [Idle EXCEPT
                    !.job = "create", !.v = v, !.ev = e, !.data = p,
                    !.pc = IF exists THEN "store" ELSE "insert",
                    !.gone = IF exists THEN {} ELSE {v} \cap erased])
    /\ UNCHANGED <<clickVars, convVars, logPii, leadVars, suppressed, faults, history>>

\* prisma.conversion.create: an erased visit writes nothing of the person.
CreateInsert(t) ==
    /\ At(t, "insert")
    /\ Key(t) \notin convRow
    /\ convRow' = convRow \cup {Key(t)}
    /\ convPii' = [convPii EXCEPT ![Key(t)] = IF task[t].gone = {} THEN task[t].data ELSE {}]
    /\ IF task[t].gone = {}
         THEN Goto(t, "recheck")
         ELSE Done(t)
    /\ UNCHANGED <<clickVars, convScrubbed, logPii, leadVars, suppressed, faults, history>>

\* Another request stored the same (visit, event) first: the unique violation is thrown.
CreateConflict(t) ==
    /\ At(t, "insert") /\ Key(t) \in convRow
    /\ Done(t)
    /\ UNCHANGED <<clickVars, convVars, logPii, leadVars, suppressed, faults, history>>

\* Variant: no second look after the insert.
CreateRecheckDropped(t) ==
    /\ At(t, "recheck")
    /\ Goto(t, "store")
    /\ UNCHANGED <<clickVars, convVars, logPii, leadVars, suppressed, faults, history>>

\* erasedSince: the visit was erased while the conversion was being written.
CreateRecheck(t) ==
    /\ At(t, "recheck")
    /\ IF task[t].v \in erased
         THEN ScrubThen(t, [task[t] EXCEPT !.visits = {task[t].v}, !.mode = "erased"])
         ELSE Goto(t, "store")
    /\ UNCHANGED <<clickVars, convVars, logPii, leadVars, suppressed, faults, history>>

\* storeLead: without a contact it completes a known lead and never creates one.
StoreStep(t) ==
    /\ At(t, "store") /\ "contact" \notin task[t].data
    /\ FillLead(task[t].v, task[t].data)
    /\ Done(t)
    /\ UNCHANGED <<clickVars, convVars, logPii, suppressed, faults, history>>

\* storeLead: with one, the answers of the visit's earlier conversions are read first ...
StoreRead(t) ==
    /\ At(t, "store") /\ "contact" \in task[t].data
    /\ LET earlier == UNION {convPii[k] : k \in ConvOf({task[t].v})} IN
       Becomes(t, [task[t] EXCEPT !.pc = "lead", !.data = @ \cup earlier])
    /\ UNCHANGED <<clickVars, convVars, logPii, leadVars, suppressed, faults, history>>

\* ... and the lead is created, or completed where it is still empty.
StoreLead(t) ==
    /\ At(t, "lead")
    /\ CreateOrFillLead(task[t].v, task[t].data)
    /\ Done(t)
    /\ UNCHANGED <<clickVars, convVars, logPii, suppressed, faults, history>>

Create(t) ==
    \/ CreateBegin(t) \/ CreateInsert(t) \/ CreateConflict(t) \/ CreateRecheck(t)
    \/ StoreStep(t) \/ StoreRead(t) \/ StoreLead(t)

(***************************************************************************)
(* deleteOne and eraseVisit: an erasure on request.                        *)
(***************************************************************************)
SamePerson(v, w)  == Person[v] = Person[w]
ShowsContact(w)   == w \in leadRow /\ "contact" \in leadPii[w]

\* visitsOfPerson.  A contact names one person here (an e-mail address): it
\* confirms a visit of the same person and contradicts one of somebody else.
ByVisitor(v, w)      == {v, w} \subseteq visitor /\ Browser[v] = Browser[w]
Matches(v, w, known)   == known /\ ShowsContact(w) /\ SamePerson(v, w)
Conflicts(v, w, known) == known /\ ShowsContact(w) /\ ~SamePerson(v, w)

Candidates(v, known) ==
    {w \in Visits : w = v \/ ByVisitor(v, w) \/ Matches(v, w, known)}

\* Variant: only the browser links two visits.
PersonVisitsByBrowser(v, known) ==
    {w \in Candidates(v, known) :
        w = v \/ (ByVisitor(v, w) /\ ~Conflicts(v, w, known))}

PersonVisits(v, known) ==
    {w \in Candidates(v, known) :
        \/ w = v
        \/ /\ ByVisitor(v, w) /\ ~Conflicts(v, w, known)
           /\ w \notin leadRow \/ Matches(v, w, known)
        \/ Matches(v, w, known)}

Known(t) == "contact" \in task[t].data

\* The visit, its lead row and the contact the request will search with: the
\* lead's own, or what the landing URL carried when there is no lead row.
EraseBegin(t) ==
    /\ Free(t, "erase")
    /\ \E v \in Visits :
         /\ Becomes(t, [Idle EXCEPT
                       !.v = v, !.pc = "find",
                       !.job = IF v \in leadRow THEN "delete" ELSE "visit",
                       !.data = (IF v \in leadRow THEN leadPii[v] ELSE clickPii[v]) \cap {"contact"}])
         /\ owed' = owed \cup (IF ShowsContact(v)
                               THEN {<<v, w>> : w \in {x \in Visits : ShowsContact(x) /\ SamePerson(v, x)}}
                               ELSE {})
    /\ UNCHANGED <<clickVars, convVars, logPii, leadVars, suppressed, faults, answered>>

EraseFind(t) ==
    /\ At(t, "find")
    /\ LET visits == PersonVisits(task[t].v, Known(t)) IN
       Becomes(t, [task[t] EXCEPT !.pc = "remember", !.visits = visits, !.todo = visits,
                                  !.skipped = Candidates(task[t].v, Known(t)) \ visits])
    /\ UNCHANGED <<clickVars, convVars, logPii, leadVars, suppressed, faults, history>>

\* rememberErased: every contact readable on the visits goes on the
\* suppression list, before anything is emptied.
Readable(w) == clickPii[w] \cup leadPii[w] \cup UNION {convPii[k] : k \in ConvOf({w})}

EraseRemember(t) ==
    /\ At(t, "remember")
    /\ LET named == {w \in task[t].visits : Readable(w) \cap {"contact", "text"} # {}}
                      \cup (IF Known(t) THEN {task[t].v} ELSE {}) IN
       suppressed' = suppressed \cup {Person[w] : w \in named}
    /\ Goto(t, IF task[t].job = "visit" THEN "stone" ELSE "tombs")
    /\ UNCHANGED <<clickVars, convVars, logPii, leadVars, faults, history>>

\* eraseVisit only: the tombstone of the visit that had no lead row.
EraseStone(t) ==
    /\ At(t, "stone") /\ task[t].v \notin leadRow
    /\ Tombstone({task[t].v})
    /\ Goto(t, "tombs")
    /\ UNCHANGED <<clickVars, convVars, logPii, suppressed, faults, history>>

\* eraseVisit lost the race against an event that created the row: deleteOne takes over.
EraseStoneRaced(t) ==
    /\ At(t, "stone") /\ task[t].v \in leadRow
    /\ Becomes(t, [Idle EXCEPT
                  !.v = task[t].v, !.pc = "find", !.job = "delete",
                  !.data = leadPii[task[t].v] \cap {"contact"}])
    /\ UNCHANGED <<clickVars, convVars, logPii, leadVars, suppressed, faults, history>>

\* tombstoneVisits: one upsert per visit, the requested one among them, newest
\* visit first (their ages are not modelled: any order).
EraseTomb(t) ==
    /\ At(t, "tombs")
    /\ \E w \in task[t].todo :
         /\ Tombstone({w})
         /\ Becomes(t, [task[t] EXCEPT !.todo = @ \ {w}])
    /\ UNCHANGED <<clickVars, convVars, logPii, suppressed, faults, history>>

\* tombstoneVisits throws if an upsert failed: nothing is scrubbed by this request.
EraseThrow(t) ==
    /\ At(t, "tombs") /\ task[t].todo = {} /\ task[t].failed
    /\ Done(t)
    /\ UNCHANGED <<clickVars, convVars, logPii, leadVars, suppressed, faults, history>>

\* deleteOne then updates the requested row in a transaction of its own.
EraseOwnRow(t) ==
    /\ At(t, "tombs") /\ task[t].todo = {} /\ ~task[t].failed
    /\ IF task[t].job = "delete"
         THEN Tombstone({task[t].v})
         ELSE UNCHANGED leadVars
    /\ ScrubThen(t, [task[t] EXCEPT !.mode = "erased"])
    /\ UNCHANGED <<clickVars, convVars, logPii, suppressed, faults, history>>

\* scrubbed_at on the lead rows once everything is clean, and the answer.
EraseSeal(t) ==
    /\ At(t, "seal")
    /\ leadScrubbed' = leadScrubbed \cup (task[t].visits \cap leadRow)
    /\ answered' = answered \cup (IF task[t].skipped = {} THEN {task[t].v} ELSE {})
    /\ Done(t)
    /\ UNCHANGED <<clickVars, convVars, logPii, leadRow, leadPii, erased, purged,
                   suppressed, faults, owed>>

Erase(t) ==
    \/ EraseBegin(t) \/ EraseFind(t) \/ EraseRemember(t) \/ EraseStone(t) \/ EraseStoneRaced(t)
    \/ EraseTomb(t) \/ EraseThrow(t) \/ EraseOwnRow(t) \/ EraseSeal(t)

(***************************************************************************)
(* resumeScrubs: finishes the cleanings that were interrupted.  The mode   *)
(* of each comes from the first read.                                      *)
(***************************************************************************)
ResumeBegin(t) ==
    /\ Free(t, "resume")
    /\ \A u \in Tasks : task[u].job # "resume"          \* the `resuming` lock
    /\ LET pending == (erased \cup purged) \ leadScrubbed IN
       /\ pending # {}
       /\ Becomes(t, [Idle EXCEPT
                     !.job = "resume", !.pc = "loop", !.todo = pending,
                     !.gone = pending \cap erased])
    /\ UNCHANGED <<clickVars, convVars, logPii, leadVars, suppressed, faults, history>>

ResumeStep(t) ==
    /\ At(t, "loop")
    /\ \E w \in task[t].todo :
         ScrubThen(t, [task[t] EXCEPT
           !.v = w, !.visits = {w}, !.todo = @ \ {w},
           !.mode = IF w \in task[t].gone THEN "erased" ELSE "purged"])
    /\ UNCHANGED <<clickVars, convVars, logPii, leadVars, suppressed, faults, history>>

ResumeMark(t) ==
    /\ At(t, "resumeMark")
    /\ leadScrubbed' = leadScrubbed \cup {task[t].v}
    /\ IF task[t].todo = {}
         THEN Done(t)
         ELSE Goto(t, "loop")
    /\ UNCHANGED <<clickVars, convVars, logPii, leadRow, leadPii, erased, purged,
                   suppressed, faults, history>>

Resume(t) == ResumeBegin(t) \/ ResumeStep(t) \/ ResumeMark(t)

(***************************************************************************)
(* reconcileRecentLeads: rebuilds the leads whose row failed to be         *)
(* written.  Whether the row existed when the job looked is irrelevant:    *)
(* rows are never deleted and a create that conflicts becomes a fill.      *)
(***************************************************************************)
ReconcileBegin(t) ==
    /\ Free(t, "reconcile")
    /\ convRow # {}
    /\ Becomes(t, [Idle EXCEPT
                  !.job = "reconcile", !.pc = "recon",
                  !.todo = {k[1] : k \in convRow},
                  !.seen = [v \in Visits |-> UNION {convPii[k] : k \in ConvOf({v})}]])
    /\ UNCHANGED <<clickVars, convVars, logPii, leadVars, suppressed, faults, history>>

ReconcileStep(t) ==
    /\ At(t, "recon")
    /\ \E w \in task[t].todo :
         /\ IF "contact" \in task[t].seen[w]
              THEN CreateOrFillLead(w, task[t].seen[w])
              ELSE UNCHANGED leadVars
         /\ IF task[t].todo = {w}
              THEN Done(t)
              ELSE Becomes(t, [task[t] EXCEPT !.todo = @ \ {w}])
    /\ UNCHANGED <<clickVars, convVars, logPii, suppressed, faults, history>>

Reconcile(t) == ReconcileBegin(t) \/ ReconcileStep(t)

(***************************************************************************)
(* purgePersonalData: retention of the leads, then of the visits.          *)
(***************************************************************************)
PurgeBegin(t) ==
    /\ Free(t, "purge")
    /\ LET due == (Old \cap leadRow) \ (purged \cup erased) IN
       Becomes(t, [Idle EXCEPT
                  !.job = "purge", !.visits = due, !.mode = "purged", !.seen = leadPii,
                  !.pc = IF due = {} THEN "sweep" ELSE "answers"])
    /\ UNCHANGED <<clickVars, convVars, logPii, leadVars, suppressed, faults, history>>

\* The answers read at the start are written back cleaned, by row id.
PurgeAnswers(t) ==
    /\ At(t, "answers")
    /\ LET r == task[t] IN
       leadPii' = [v \in Visits |->
                     IF v \in r.visits /\ "text" \in r.seen[v]
                     THEN (leadPii[v] \ {"text"}) \cup (r.seen[v] \cap {"rest"})
                     ELSE leadPii[v]]
    /\ Goto(t, "rows")
    /\ UNCHANGED <<clickVars, convVars, logPii, leadRow, erased, purged, leadScrubbed,
                   suppressed, faults, history>>

\* updateMany WHERE purged_at IS NULL AND erased_at IS NULL.
PurgeRows(t) ==
    /\ At(t, "rows")
    /\ LET hit == task[t].visits \ (purged \cup erased) IN
       /\ leadPii' = [v \in Visits |-> IF v \in hit THEN leadPii[v] \ {"contact"} ELSE leadPii[v]]
       /\ purged' = purged \cup hit
    /\ ScrubThen(t, task[t])
    /\ UNCHANGED <<clickVars, convVars, logPii, leadRow, erased, leadScrubbed,
                   suppressed, faults, history>>

\* updateMany WHERE scrubbed_at IS NULL, on every lead of the batch.
PurgeMark(t) ==
    /\ At(t, "purgeMark")
    /\ leadScrubbed' = leadScrubbed \cup task[t].visits
    /\ Goto(t, "sweep")
    /\ UNCHANGED <<clickVars, convVars, logPii, leadRow, leadPii, erased, purged,
                   suppressed, faults, history>>

\* Variant: a visit that has its mark is not looked at again.
DueByVisit(late) == Old \ clickScrubbed

\* visitsDueForPurge: the visits with no mark of their own, and those with a conversion
\* that has none and is past the cutoff itself.
Due(late) == (Old \ clickScrubbed) \cup late

(* Visits with an unmarked conversion: it is past the cutoff sooner or later. *)
Unmarked == {k[1] : k \in ConvOf(Old) \ convScrubbed}

\* purgeOldVisits, on the night on which the unmarked conversions of `late` are old enough.
PurgeSweepOn(t, late) ==
    /\ At(t, "sweep")
    /\ IF Due(late) = {}
         THEN Done(t)
         ELSE ScrubThen(t, [Idle EXCEPT !.job = "sweep", !.visits = Due(late), !.mode = "purged"])
    /\ UNCHANGED <<clickVars, convVars, logPii, leadVars, suppressed, faults, history>>

PurgeSweep(t) == \E late \in SUBSET Unmarked : PurgeSweepOn(t, late)

Purge(t) == PurgeBegin(t) \/ PurgeAnswers(t) \/ PurgeRows(t) \/ PurgeMark(t) \/ PurgeSweep(t)

(***************************************************************************)
(* processConversion, as far as personal data goes: it reads the           *)
(* conversion, calls the network, then logs what it sent.                  *)
(***************************************************************************)
DeliverBegin(t) ==
    /\ Free(t, "deliver")
    /\ \E k \in convRow :
         Becomes(t, [Idle EXCEPT
                    !.job = "deliver", !.pc = "log", !.v = k[1], !.ev = k[2], !.data = convPii[k]])
    /\ UNCHANGED <<clickVars, convVars, logPii, leadVars, suppressed, faults, history>>

DeliverLog(t) ==
    /\ At(t, "log")
    /\ logPii' = [logPii EXCEPT ![Key(t)] = @ \cup task[t].data]
    /\ Done(t)
    /\ UNCHANGED <<clickVars, convVars, leadVars, suppressed, faults, history>>

Deliver(t) == DeliverBegin(t) \/ DeliverLog(t)

(***************************************************************************)
(* Failures.  A restart of the process is the crash of every running task. *)
(***************************************************************************)
Fails(t) ==
    /\ t \in Fragile /\ task[t].pc # "idle"
    /\ faults < MaxFaults
    /\ faults' = faults + 1

Crash(t) ==
    /\ Fails(t)
    /\ Done(t)
    /\ UNCHANGED <<clickVars, convVars, logPii, leadVars, suppressed, history>>

\* Errors the handlers catch: erasureState and erasedSince answer "not
\* erased", the other visits of the person are not looked for, the list is not written.
Swallow(t) ==
    /\ Fails(t)
    /\ \/ /\ At(t, "insert")
          /\ Becomes(t, [task[t] EXCEPT !.gone = {}])
       \/ /\ \/ At(t, "recheck")
             \/ task[t].job = "create" /\ task[t].pc \in
                  {"scrubRead", "scrubRewrite", "scrubSql", "scrubLogs", "scrubMark"}
          /\ Goto(t, "store")
       \/ /\ At(t, "find")
          /\ Becomes(t, [task[t] EXCEPT !.pc = "remember", !.visits = {task[t].v}, !.todo = {task[t].v},
                                  !.skipped = {task[t].v}])
       \/ /\ At(t, "remember")
          /\ Goto(t, IF task[t].job = "visit" THEN "stone" ELSE "tombs")
    /\ UNCHANGED <<clickVars, convVars, logPii, leadVars, suppressed, history>>

\* One upsert of tombstoneVisits fails; the others are still tried.
TombFails(t) ==
    /\ Fails(t) /\ At(t, "tombs")
    /\ \E w \in task[t].todo :
         Becomes(t, [task[t] EXCEPT !.todo = @ \ {w}, !.failed = TRUE])
    /\ UNCHANGED <<clickVars, convVars, logPii, leadVars, suppressed, history>>

Fault(t) == Crash(t) \/ Swallow(t) \/ TombFails(t)

-----------------------------------------------------------------------------
Work(t) == Create(t) \/ Erase(t) \/ Resume(t) \/ Reconcile(t) \/ Purge(t) \/ Deliver(t) \/ Scrub(t)

Next == \E t \in Tasks : Work(t) \/ Fault(t)

Spec == Init /\ [][Next]_vars

(* A handler that runs keeps running (the event loop), and the hourly job   *)
(* fires; nobody promises that a request arrives.                           *)
Continue(t) == task[t].pc # "idle" /\ Work(t)

Fairness == \A t \in Tasks : WF_vars(Continue(t)) /\ WF_vars(ResumeBegin(t))

FairSpec == Spec /\ Fairness

(* The nightly job fires too, and conversions age: of its nights, those on    *)
(* which every conversion still unmarked is past the cutoff do not run out.   *)
RetentionFairness ==
    \A t \in Tasks : WF_vars(PurgeBegin(t)) /\ SF_vars(PurgeSweepOn(t, Unmarked))

RetentionSpec == FairSpec /\ RetentionFairness

-----------------------------------------------------------------------------
\* Every table and every handler's memory holds values of its type.
TypeOK ==
    /\ clickPii \in [Visits -> SUBSET Parts]
    /\ visitor \subseteq Visits /\ clickScrubbed \subseteq Visits
    /\ convRow \subseteq Keys /\ convScrubbed \subseteq Keys
    /\ convPii \in [Keys -> SUBSET Parts]
    /\ logPii \in [Keys -> SUBSET Parts]
    /\ leadRow \subseteq Visits /\ erased \subseteq Visits /\ purged \subseteq Visits
    /\ leadScrubbed \subseteq Visits
    /\ leadPii \in [Visits -> SUBSET Parts]
    /\ suppressed \subseteq {Person[v] : v \in Visits}
    /\ task \in [Tasks -> TaskRecord]
    /\ faults \in Nat
    /\ owed \subseteq Visits \X Visits /\ answered \subseteq Visits

(* The person is gone from what one visit leaves behind.                    *)
Forgotten(v) ==
    /\ clickPii[v] = {} /\ v \notin visitor
    /\ \A e \in Events : convPii[<<v, e>>] = {}

Quiet == faults = 0 /\ \A t \in Tasks : task[t].pc = "idle"

\* Nobody comes back: whatever requests, jobs and failures interleave, the
\* lead row of an erased visit exists, is closed to retention, and never shows
\* a contact again (the guard of fillLead, the unique row per visit).
TombstoneHasNoContact ==
    \A v \in erased : v \in leadRow /\ v \in purged /\ "contact" \notin leadPii[v]

(* Why that holds, inductively: a row shows a contact exactly while it is   *)
(* live, whoever is about to create one holds a contact, and retention      *)
(* works on rows that exist.                                                *)
LeadInv ==
    /\ erased \subseteq purged /\ purged \subseteq leadRow
    /\ \A v \in Visits : "contact" \in leadPii[v] <=> v \in leadRow \ purged

RecordInv(r) ==
    /\ r.pc = "lead" => "contact" \in r.data
    /\ r.pc \in {"answers", "rows"} => r.visits \subseteq leadRow

\* A lead shows a contact exactly while it is live, and no handler holds what
\* would break that: storeLead never creates a row from an event without a
\* contact, and the purge only works on leads it found.
RegisterInv == LeadInv /\ \A t \in Tasks : RecordInv(task[t])

\* The tombstone holds nothing at all: zip, state and quiz answers are gone too
\* (leads.service tombstone()).
TombstoneIsBlank == \A v \in erased : leadPii[v] = {}

\* Once every handler has returned and none failed, an erased visit is clean:
\* also when conversions arrived while it was being erased (erasedSince).
QuietErasureIsClean == Quiet => \A v \in erased : Forgotten(v)

(* What the marks say of a visit.                                           *)
CleanAsMarked(v) ==
    /\ clickPii[v] = {} /\ v \notin visitor
    /\ \A e \in Events : <<v, e>> \in convScrubbed => convPii[<<v, e>>] = {}

\* The mark never lies: an erased lead marked scrubbed has a visit without the
\* person, and every conversion the scrub marked holds nothing.  A mark set too
\* early hides the visit from the resume job for good.
MarkMeansClean == \A v \in erased \cap leadScrubbed : CleanAsMarked(v)

\* An erasure that answered "deleted" with nothing skipped has erased every
\* visit that showed the person's contact when the erasure was first asked for
\* (deleteOne: "as long as nothing is written, everything can be replayed").
AnswerCoversThePerson ==
    \A v \in answered, w \in Visits : <<v, w>> \in owed => w \in erased

\* What an erasure promises in the end: once a visit is erased, it comes to be
\* clean, even if the request was cut between the tombstone and the scrub.
ErasureIsFinished == \A v \in Visits : v \in erased ~> Forgotten(v)

(* What is stored under these parts names a person.                          *)
Names(parts) == parts \cap {"contact", "text"} # {}

NamesNobody(v) == ~Names(clickPii[v]) /\ \A e \in Events : ~Names(convPii[<<v, e>>])

\* Retention ends, whatever a night left behind: a visit past the cutoff comes to name
\* nobody, for good, also when the job was cut and when a conversion was stored after its
\* visit had been cleaned and marked (visitsDueForPurge: such a conversion has no mark and
\* comes back on its own).  The log of a delivery goes with the conversion it was made
\* from, if it was written before that one was cleaned.
RetentionIsFinished ==
    \A v \in Old :
        /\ <>[]NamesNobody(v)
        /\ \A e \in Events :
              Names(logPii[<<v, e>>] \cap convPii[<<v, e>>]) ~> ~Names(logPii[<<v, e>>])

-----------------------------------------------------------------------------
(* The leads table as an outsider sees it.                                  *)
RowState ==
    [v \in Visits |-> IF v \in erased THEN "erased"
                     ELSE IF v \in purged THEN "purged"
                     ELSE IF v \in leadRow THEN "live" ELSE "none"]

Shown == {v \in Visits : ShowsContact(v)}

Register == INSTANCE LeadRegister WITH row <- RowState, shown <- Shown

\* Every job of the system, step by step, is a step of the register: a row is
\* born with a contact, loses it once and for ever, and an erased row is final.
KeepsTheRegister == Register!Spec
=============================================================================
