------------------------------- MODULE Intake -------------------------------
(***************************************************************************)
(* How a lead is built.  A visit receives events from the landing page,    *)
(* from buyers and from partner sites; each is stored once as a conversion,*)
(* and the ones that carry a contact create the lead of the visit or       *)
(* complete it.  The hourly reconciliation rebuilds the same lead from the *)
(* stored conversions.  Requests and jobs interleave at every await.  Of   *)
(* what an event carries, the model keeps whether it names a contact and   *)
(* whether it brings a consent text; a lead remembers which request gave   *)
(* it each.  A request the code skips (test lead, outside the attribution  *)
(* window, a buyer's verdict sent by a browser) changes nothing and is not *)
(* a step.  A partner's visit gets only what the partner sends.  Erasure   *)
(* has a module of its own.                                                *)
(***************************************************************************)
EXTENDS Integers, FiniteSets, SequencesExt

CONSTANTS
    AdVisits,       \* visits recorded by the redirect, before any event
    PartnerVisits,  \* visits a partner's externalId stands for
    Events,         \* event types
    ContactEvents,  \* CONTACT_EVENT_TYPES
    Outcomes,       \* LEAD_OUTCOME_EVENTS, a buyer's verdict
    Payloads,       \* [contact, consent, test: BOOLEAN] an event may carry
    Cap,            \* maxConversionsPerClick, 0 for none
    MaxRequests,    \* bound on the requests
    Tasks, Roles,   \* [Tasks -> SUBSET Operation]
    Fragile,        \* tasks that may fail half-way
    MaxFaults       \* bound on the failures

Visits == AdVisits \cup PartnerVisits
Operation == {"browser", "buyer", "partner", "reconcile"}
Payload == [contact: BOOLEAN, consent: BOOLEAN, test: BOOLEAN]

ASSUME IntakeAssumption ==
    /\ Visits # {} /\ AdVisits \cap PartnerVisits = {}
    /\ "lead" \in ContactEvents /\ ContactEvents \cup Outcomes \subseteq Events
    /\ ContactEvents \cap Outcomes = {}
    /\ Payloads \subseteq Payload
    /\ Cap \in Nat /\ MaxRequests \in Nat \ {0} /\ MaxFaults \in Nat
    /\ Roles \in [Tasks -> SUBSET Operation] /\ Fragile \subseteq Tasks

VARIABLES
    sent,       \* requests received so far; they are numbered from 1
    payload,    \* [Requests -> Payload]
    visits,     \* rows of clicks
    testVisits, \* clicks.is_test
    convs,      \* [Visits -> Seq([ev, req])]  conversions, by created_at
    lead,       \* [Visits -> Data]; the row exists as soon as it has a contact
    task, faults,
    heard,      \* history: <<visit, request>>: the request names a contact for the visit
    refused,    \* history: <<visit, request>>: the request was answered with a refusal
    repeated    \* history: visits that received an event type a second time

tables  == <<visits, testVisits, convs, lead>>
history == <<heard, refused, repeated>>
vars    == <<sent, payload, tables, task, faults, history>>

Requests == 1 .. MaxRequests
Data == [contact: 0 .. MaxRequests, consent: 0 .. MaxRequests]  \* 0: nothing
Nothing == [contact |-> 0, consent |-> 0]

TaskRecord ==
    [job: Operation,
     pc: {"idle", "visit", "check", "look", "cap", "insert", "store", "lead", "rebuild"},
     v: Visits, ev: Events, req: 0 .. MaxRequests,
     data: Data,                   \* the merged lead about to be written
     seen: [Visits -> Data],       \* what the reconciliation has read
     todo: SUBSET Visits,
     late: BOOLEAN]                \* when it came, the cap or the partner's lead was there

Idle ==
    [job |-> "browser", pc |-> "idle",
     v |-> CHOOSE v \in Visits : TRUE, ev |-> "lead", req |-> 0,
     data |-> Nothing, seen |-> [v \in Visits |-> Nothing], todo |-> {}, late |-> FALSE]

Becomes(t, r) == task' = [task EXCEPT ![t] = r]
Goto(t, p)    == Becomes(t, [task[t] EXCEPT !.pc = p])
Done(t)       == Becomes(t, Idle)
Free(t, o)    == task[t].pc = "idle" /\ o \in Roles[t]
At(t, p)      == task[t].pc = p

Init ==
    /\ sent = 0 /\ payload \in [Requests -> {CHOOSE p \in Payloads : TRUE}]
    /\ visits = AdVisits /\ testVisits = {}
    /\ convs = [v \in Visits |-> <<>>]
    /\ lead = [v \in Visits |-> Nothing]
    /\ task = [t \in Tasks |-> Idle] /\ faults = 0
    /\ heard = {} /\ refused = {} /\ repeated = {}

(***************************************************************************)
(* Pure helpers: leadFromConversion, mergeLeadData, fillLead.              *)
(***************************************************************************)
\* What one event says of the lead.
Brings(r) == [contact |-> IF payload[r].contact THEN r ELSE 0,
              consent |-> IF payload[r].consent THEN r ELSE 0]

\* Variant: the first consent stays, like every other field.
MergeFirstConsent(d, e) ==
    [contact |-> IF d.contact # 0 THEN d.contact ELSE e.contact,
     consent |-> IF d.consent # 0 THEN d.consent ELSE e.consent]

\* Variant: the last value of every field wins.
MergeLast(d, e) ==
    [contact |-> IF e.contact # 0 THEN e.contact ELSE d.contact,
     consent |-> IF e.consent # 0 THEN e.consent ELSE d.consent]

\* First wins, except for a consent that comes along with a contact.
Merge(d, e) ==
    [contact |-> IF d.contact # 0 THEN d.contact ELSE e.contact,
     consent |-> IF e.consent # 0 /\ (e.contact # 0 \/ d.consent = 0) THEN e.consent ELSE d.consent]

Stored(v, e) == \E i \in DOMAIN convs[v] : convs[v][i].ev = e

\* The contact events of a visit, merged in the order they were stored.
Merged(v) ==
    LET events == SelectSeq(convs[v], LAMBDA c : c.ev \in ContactEvents)
    IN FoldLeft(LAMBDA d, c : Merge(d, Brings(c.req)), Nothing, events)

\* lead.create, and fillLead when the row is there: both leave the merge of what
\* was in the row and what comes.
Write(v, d) == lead' = [lead EXCEPT ![v] = Merge(@, d)]

(***************************************************************************)
(* conversions.create.                                                     *)
(***************************************************************************)
Receive(p) ==
    /\ sent < MaxRequests
    /\ sent' = sent + 1
    /\ payload' = [payload EXCEPT ![sent + 1] = p]

(* A contact is heard when the request that names it is received.         *)
Hears(v, contact) ==
    heard' = IF contact THEN heard \cup {<<v, sent + 1>>} ELSE heard

(* The caller is told that his request was not taken.                     *)
Refuse(t) ==
    /\ refused' = refused \cup {<<task[t].v, task[t].req>>}
    /\ Done(t)

Counted(v) == {i \in DOMAIN convs[v] : convs[v][i].ev \notin Outcomes}

Full(v) == Cap # 0 /\ Cardinality(Counted(v)) >= Cap

CreateBegin(t) ==
    /\ \E o \in {"browser", "buyer"}, v \in AdVisits, e \in Events, p \in Payloads :
         /\ Free(t, o)
         /\ o = "browser" => e \notin Outcomes
         /\ ~p.test
         /\ Receive(p) /\ Hears(v, e \in ContactEvents /\ p.contact)
         /\ Becomes(t, [Idle EXCEPT !.job = o, !.pc = "look", !.v = v, !.ev = e, !.req = sent + 1,
                                    !.late = Full(v)])
    /\ UNCHANGED <<tables, faults, refused, repeated>>

\* Variant: a duplicate is answered at once, whatever it carries.
CreateLookReturns(t) ==
    /\ At(t, "look")
    /\ LET r == task[t] IN
       IF Stored(r.v, r.ev)
         THEN /\ Done(t)
              /\ repeated' = repeated \cup {r.v}
         ELSE /\ Goto(t, IF r.ev \in Outcomes \/ Cap = 0 THEN "insert" ELSE "cap")
              /\ UNCHANGED repeated
    /\ UNCHANGED <<sent, payload, tables, faults, heard, refused>>

\* The conversion of this visit and event type may be there already.
CreateLook(t) ==
    /\ At(t, "look")
    /\ LET r == task[t] IN
       IF Stored(r.v, r.ev)
         THEN /\ Goto(t, "store")
              /\ repeated' = repeated \cup {r.v}
         ELSE /\ Goto(t, IF r.ev \in Outcomes \/ Cap = 0 THEN "insert" ELSE "cap")
              /\ UNCHANGED repeated
    /\ UNCHANGED <<sent, payload, tables, faults, heard, refused>>

\* Variant: only the conversions of the same type are counted.
CreateCapByType(t) ==
    /\ At(t, "cap")
    /\ IF Cardinality({i \in Counted(task[t].v) : convs[task[t].v][i].ev = task[t].ev}) >= Cap
         THEN Refuse(t)
         ELSE Goto(t, "insert") /\ UNCHANGED refused
    /\ UNCHANGED <<sent, payload, tables, faults, heard, repeated>>

\* The cap per click: partner campaigns have none.
CreateCap(t) ==
    /\ At(t, "cap")
    /\ IF task[t].v \in AdVisits /\ Full(task[t].v)
         THEN Refuse(t)
         ELSE Goto(t, "insert") /\ UNCHANGED refused
    /\ UNCHANGED <<sent, payload, tables, faults, heard, repeated>>

CreateInsert(t) ==
    /\ At(t, "insert")
    /\ LET r == task[t] IN
       /\ ~Stored(r.v, r.ev)
       /\ convs' = [convs EXCEPT ![r.v] = Append(@, [ev |-> r.ev, req |-> r.req])]
    /\ Goto(t, "store")
    /\ UNCHANGED <<sent, payload, visits, testVisits, lead, faults, history>>

\* Another request stored this event first: the unique violation is an error for the caller,
\* and the contact of his request goes no further.
CreateConflict(t) ==
    /\ At(t, "insert") /\ Stored(task[t].v, task[t].ev)
    /\ Refuse(t)
    /\ UNCHANGED <<sent, payload, tables, faults, heard, repeated>>

\* storeLead: an event without a contact completes a lead that exists.  One with a
\* contact is merged with what the visit's conversions say by now.
StoreLead(t) ==
    /\ At(t, "store")
    /\ LET r == task[t] IN
       IF r.ev \in ContactEvents /\ payload[r.req].contact
         THEN /\ lead' = lead
              /\ Becomes(t, [r EXCEPT !.pc = "lead", !.data = Merge(Merged(r.v), Brings(r.req))])
         ELSE /\ IF r.ev \in ContactEvents /\ lead[r.v].contact # 0
                   THEN Write(r.v, Brings(r.req))
                   ELSE lead' = lead
              /\ Done(t)
    /\ UNCHANGED <<sent, payload, visits, testVisits, convs, faults, history>>

\* lead.create, or fillLead on the unique violation.
StoreWrite(t) ==
    /\ At(t, "lead")
    /\ Write(task[t].v, task[t].data)
    /\ Done(t)
    /\ UNCHANGED <<sent, payload, visits, testVisits, convs, faults, history>>

Create(t) ==
    \/ CreateBegin(t) \/ CreateLook(t) \/ CreateCap(t) \/ CreateInsert(t) \/ CreateConflict(t)
    \/ StoreLead(t) \/ StoreWrite(t)

(***************************************************************************)
(* leads.intake: a lead captured on a partner's site.  The visit is made    *)
(* first, then the lead enters by the normal door.                          *)
(***************************************************************************)
PartnerBegin(t) ==
    /\ Free(t, "partner")
    /\ \E v \in PartnerVisits, p \in Payloads :
         /\ p.contact                                 \* without one, refused
         /\ Receive(p) /\ Hears(v, ~p.test)
         /\ Becomes(t, [Idle EXCEPT !.job = "partner", !.pc = "visit", !.v = v, !.req = sent + 1,
                                    !.late = lead[v].contact # 0])
    /\ UNCHANGED <<tables, faults, refused, repeated>>

\* click.upsert with an empty update: a replay does not touch the visit.
PartnerVisit(t) ==
    /\ At(t, "visit")
    /\ visits' = visits \cup {task[t].v}
    /\ testVisits' = IF task[t].v \notin visits /\ payload[task[t].req].test
                     THEN testVisits \cup {task[t].v} ELSE testVisits
    /\ Goto(t, "check")
    /\ UNCHANGED <<sent, payload, convs, lead, faults, history>>

\* A real lead for the visit of a test.
OnTestVisit(r) == r.v \in testVisits /\ ~payload[r.req].test

\* Variant: a replay goes through the normal door again.
PartnerCheckNoReplay(t) ==
    /\ At(t, "check")
    /\ \/ OnTestVisit(task[t]) /\ Refuse(t)
       \/ ~OnTestVisit(task[t]) /\ payload[task[t].req].test /\ Done(t) /\ UNCHANGED refused
       \/ ~OnTestVisit(task[t]) /\ ~payload[task[t].req].test /\ Goto(t, "look") /\ UNCHANGED refused
    /\ UNCHANGED <<sent, payload, tables, faults, heard, repeated>>

\* Variant: the flag of the visit is not looked at.
PartnerCheckNoFlag(t) ==
    /\ At(t, "check")
    /\ IF payload[task[t].req].test \/ lead[task[t].v].contact # 0
         THEN Done(t)
         ELSE Goto(t, "look")
    /\ UNCHANGED <<sent, payload, tables, faults, history>>

\* A real lead on a test visit is refused.  A replay stores nothing and is told that the
\* lead is there; create skips a test lead.
PartnerCheck(t) ==
    /\ At(t, "check")
    /\ LET r == task[t]
           nothingToStore == payload[r.req].test \/ lead[r.v].contact # 0
       IN
       \/ OnTestVisit(r) /\ Refuse(t)
       \/ ~OnTestVisit(r) /\ nothingToStore /\ Done(t) /\ UNCHANGED refused
       \/ ~OnTestVisit(r) /\ ~nothingToStore /\ Goto(t, "look") /\ UNCHANGED refused
    /\ UNCHANGED <<sent, payload, tables, faults, heard, repeated>>

Partner(t) == PartnerBegin(t) \/ PartnerVisit(t) \/ PartnerCheck(t)

(***************************************************************************)
(* reconcileRecentLeads, every hour.                                       *)
(***************************************************************************)
ReconcileBegin(t) ==
    /\ Free(t, "reconcile")
    /\ LET seen == [v \in Visits |-> Merged(v)]
           todo == {v \in Visits : convs[v] # <<>> /\ seen[v].contact # 0}
       IN
       /\ todo # {}
       /\ Becomes(t, [Idle EXCEPT !.job = "reconcile", !.pc = "rebuild", !.seen = seen, !.todo = todo])
    /\ UNCHANGED <<sent, payload, tables, faults, history>>

\* Variant: only rows that exist are completed.
ReconcileFillOnly(t) ==
    /\ At(t, "rebuild")
    /\ \E v \in task[t].todo :
         /\ IF lead[v].contact # 0 THEN Write(v, task[t].seen[v]) ELSE lead' = lead
         /\ Becomes(t, IF task[t].todo = {v} THEN Idle ELSE [task[t] EXCEPT !.todo = @ \ {v}])
    /\ UNCHANGED <<sent, payload, visits, testVisits, convs, faults, history>>

\* Created if it is missing, completed field by field if it is not.
ReconcileStep(t) ==
    /\ At(t, "rebuild")
    /\ \E v \in task[t].todo :
         /\ Write(v, task[t].seen[v])
         /\ Becomes(t, IF task[t].todo = {v} THEN Idle ELSE [task[t] EXCEPT !.todo = @ \ {v}])
    /\ UNCHANGED <<sent, payload, visits, testVisits, convs, faults, history>>

Reconcile(t) == ReconcileBegin(t) \/ ReconcileStep(t)

(***************************************************************************)
(* Failures: the process stops, or storeLead fails and says nothing.  Both *)
(* leave the tables as they are and end the request.                       *)
(***************************************************************************)
Fails(t) ==
    /\ t \in Fragile /\ task[t].pc # "idle"
    /\ faults < MaxFaults
    /\ faults' = faults + 1
    /\ Done(t)
    /\ UNCHANGED <<sent, payload, tables, history>>

-----------------------------------------------------------------------------
Work(t) == Create(t) \/ Partner(t) \/ Reconcile(t)

Next == \E t \in Tasks : Work(t) \/ Fails(t)

Spec == Init /\ [][Next]_vars

(* What runs keeps running, and the reconciliation fires; no request has to come. *)
Continue(t) == task[t].pc # "idle" /\ Work(t)

Fairness == \A t \in Tasks : WF_vars(Continue(t)) /\ WF_vars(ReconcileBegin(t))

FairSpec == Spec /\ Fairness

-----------------------------------------------------------------------------
\* Tables and handlers hold values of their types, and a row of clicks is there
\* before anything hangs on it.
TypeOK ==
    /\ sent \in 0 .. MaxRequests /\ payload \in [Requests -> Payload]
    /\ visits \subseteq Visits /\ testVisits \subseteq visits
    /\ \A v \in Visits : \A i \in DOMAIN convs[v] : convs[v][i] \in [ev: Events, req: Requests]
    /\ lead \in [Visits -> Data]
    /\ task \in [Tasks -> TaskRecord]
    /\ \A v \in Visits \ visits : convs[v] = <<>> /\ lead[v] = Nothing
    /\ faults \in 0 .. MaxFaults
    /\ heard \subseteq Visits \X Requests /\ refused \subseteq Visits \X Requests
    /\ repeated \subseteq Visits

\* The contact a lead was born with is the one it keeps, whatever other event,
\* duplicate, replay or reconciliation is under way (fillLead, "COALESCE keeps
\* whatever is already there"): the callback goes to the person who filled the form.
FirstContactStays ==
    [][\A v \in Visits : lead[v].contact # 0 => lead'[v].contact = lead[v].contact]_vars

\* A contact that was received does not get lost on the way: once its request has been
\* answered, and nothing failed, the visit has a lead, or the caller was refused - also when
\* the contact came with a second event of a type already stored, two requests created the
\* row at once, or a partner sent it again.  Refused are only requests of a visit that has
\* a conversion already (the cap, or the same event at the same time) and a real lead of a
\* partner's test visit (conversions.create, storeLead, leads.intake).
NothingIsLost ==
    /\ faults = 0 => \A p \in heard \ refused :
          \/ lead[p[1]].contact # 0
          \/ \E t \in Tasks : task[t].pc # "idle" /\ <<task[t].v, task[t].req>> = p
    /\ \A p \in refused : p[1] \in testVisits \/ convs[p[1]] # <<>>

\* A request that comes once the visit holds its fill of conversions stores none, a
\* buyer's verdict excepted; those that counted before the cap was reached may still
\* overshoot it (the count and the insert are two statements).
CapHolds ==
    [][\A t \in Tasks : /\ task[t].job \in {"browser", "buyer"} /\ task[t].late
                        /\ task[t].ev \notin Outcomes /\ task'[t] # task[t]
                       => UNCHANGED convs]_vars

\* A partner that sends a lead again, once the first one is stored, changes
\* nothing of it: neither the contact nor the proof of consent (leads.intake).
ReplayChangesNothing ==
    [][\A t \in Tasks : task[t].job = "partner" /\ task[t].late /\ task'[t] # task[t] =>
          UNCHANGED <<convs, lead>>]_vars

\* No real lead hides behind a visit a partner created for a test, whichever of a
\* test and a real submission of the same externalId comes first.
RealLeadsAreVisible ==
    \A v \in testVisits : lead[v] = Nothing /\ convs[v] = <<>>

\* A contact that was stored becomes a lead, even if the process stopped or the
\* row could not be written: the reconciliation creates what is missing.
StoredContactsBecomeLeads ==
    \A v \in Visits : Merged(v).contact # 0 ~> lead[v].contact # 0

(* The consent on the lead was shown along with a contact, if the visit's     *)
(* conversions hold one that was.                                             *)
ProofAuthorises(v) ==
    (\E i \in DOMAIN convs[v] :
        LET c == convs[v][i] IN
        c.ev \in ContactEvents /\ payload[c.req].contact /\ payload[c.req].consent)
    => lead[v].consent # 0 /\ payload[lead[v].consent].contact

\* Whatever order events, failures and jobs take, the consent a lead ends up with
\* is one that came with the contact and authorises the call (mergeLeadData) -
\* for visits that send each event type once.
ProofSettles == \A v \in Visits : <>[](v \in repeated \/ ProofAuthorises(v))
=============================================================================
