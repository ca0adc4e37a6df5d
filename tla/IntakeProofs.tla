---------------------------- MODULE IntakeProofs ----------------------------
(***************************************************************************)
(* Proofs about Intake, for any visits, events, payloads, tasks, requests  *)
(* and failures.  What the fold over a visit's conversions returns is left *)
(* open: nothing below needs to know it.                                   *)
(***************************************************************************)
EXTENDS Intake, FiniteSetTheorems, SequenceTheorems, TLAPS

\* A handler's record: its fields, whatever is in them.
IsTask(r) ==
    r \in [job: {r.job}, pc: {r.pc}, v: {r.v}, ev: {r.ev}, req: {r.req},
           data: {r.data}, seen: {r.seen}, todo: {r.todo}, late: {r.late}]

\* A handler past the check of its visit works on a visit that exists (in there) and is
\* not a test (in real); so does the reconciliation.
Good(r, there, real) ==
    /\ IsTask(r)
    /\ r.v \in Visits
    /\ r.pc \in {"idle", "visit", "check", "look", "cap", "insert", "store", "lead", "rebuild"}
    /\ r.pc = "visit" => r.v \in PartnerVisits
    /\ r.pc = "check" => r.v \in there
    /\ r.pc \in {"look", "cap", "insert", "store", "lead"} => r.v \in real
    /\ r.pc = "rebuild" => r.todo \subseteq real

RealVisits == visits \ testVisits

TablesInv ==
    /\ lead = [v \in Visits |-> lead[v]] /\ convs = [v \in Visits |-> convs[v]]
    /\ AdVisits \subseteq visits /\ visits \subseteq Visits
    /\ testVisits \subseteq visits /\ testVisits \subseteq PartnerVisits
    /\ \A v \in Visits \ RealVisits : lead[v] = Nothing /\ convs[v] = <<>>

TasksInv ==
    /\ task = [t \in Tasks |-> task[t]]
    /\ \A t \in Tasks : Good(task[t], visits, RealVisits)

\* The inductive invariant: nothing hangs on a visit that is missing or a test, and no
\* handler is about to hang something there.
VisibleInv == TablesInv /\ TasksInv

LEMMA IdleIsGood == ASSUME NEW there, NEW real PROVE Good(Idle, there, real)
<1>1. Visits # {} BY IntakeAssumption
<1>2. (CHOOSE v \in Visits : TRUE) \in Visits BY <1>1
<1> QED BY <1>2 DEF Idle, Good, IsTask

\* A step that gives one handler a good record, while visits are only added, keeps
\* every handler good.
LEMMA StepKeepsTasks ==
    ASSUME TasksInv, NEW t \in Tasks, NEW r, Becomes(t, r),
           visits \subseteq visits', RealVisits \subseteq RealVisits',
           Good(r, visits', RealVisits')
    PROVE  TasksInv'
<1>1. task' = [u \in Tasks |-> task'[u]] BY DEF TasksInv, Becomes
<1>2. ASSUME NEW u \in Tasks PROVE Good(task'[u], visits', RealVisits')
  <2>1. CASE u = t BY <2>1 DEF TasksInv, Becomes
  <2>2. CASE u # t
    <3>1. task'[u] = task[u] BY <2>2 DEF TasksInv, Becomes
    <3>2. Good(task[u], visits, RealVisits) BY DEF TasksInv
    <3> QED BY <3>1, <3>2 DEF Good
  <2> QED BY <2>1, <2>2
<1> QED BY <1>1, <1>2 DEF TasksInv

\* Writing the lead of a real visit, and of no other, keeps the tables.
LEMMA WriteKeepsTables ==
    ASSUME TablesInv, NEW v \in RealVisits, NEW d, Write(v, d), UNCHANGED <<visits, testVisits, convs>>
    PROVE  TablesInv'
<1>1. v \in Visits BY DEF TablesInv, RealVisits
<1>2. lead' = [w \in Visits |-> lead'[w]] BY <1>1 DEF TablesInv, Write
<1>3. \A w \in Visits \ RealVisits : lead'[w] = lead[w] BY DEF TablesInv, Write
<1> QED BY <1>2, <1>3 DEF TablesInv, RealVisits

LEMMA InitVisible == Init => VisibleInv
<1> SUFFICES ASSUME Init PROVE VisibleInv OBVIOUS
<1>1. TablesInv BY IntakeAssumption DEF Init, TablesInv, Visits, RealVisits
<1>2. TasksInv BY IdleIsGood DEF Init, TasksInv
<1> QED BY <1>1, <1>2 DEF VisibleInv

\* Steps that touch no table: the handler moves on, or ends.
LEMMA QuietStep ==
    ASSUME VisibleInv, NEW t \in Tasks, NEW r, Becomes(t, r), UNCHANGED tables,
           Good(r, visits, RealVisits)
    PROVE  VisibleInv'
<1>1. UNCHANGED RealVisits BY DEF tables, RealVisits
<1>2. TablesInv' BY <1>1 DEF VisibleInv, TablesInv, tables
<1>3. TasksInv' BY <1>1, StepKeepsTasks DEF VisibleInv, tables
<1> QED BY <1>2, <1>3 DEF VisibleInv

LEMMA MoveIsGood ==
    ASSUME NEW there, NEW real, NEW r, Good(r, there, real),
           NEW p \in {"look", "cap", "insert", "store", "lead"}, r.v \in real
    PROVE  Good([r EXCEPT !.pc = p], there, real)
<1> DEFINE s == [r EXCEPT !.pc = p]
<1>1. IsTask(s) /\ s.pc = p /\ s.v = r.v /\ s.todo = r.todo BY DEF Good, IsTask
<1> QED BY <1>1 DEF Good

LEMMA CreateKeepsVisible ==
    ASSUME VisibleInv, NEW t \in Tasks, Create(t) PROVE VisibleInv'
<1> DEFINE r == task[t]
<1>0. Good(r, visits, RealVisits) BY DEF VisibleInv, TasksInv
<1>a. ASSUME Done(t), UNCHANGED tables PROVE VisibleInv'
  BY <1>a, IdleIsGood, QuietStep DEF Done
<1>b. ASSUME NEW p \in {"look", "cap", "insert", "store", "lead"}, Goto(t, p), UNCHANGED tables, r.v \in RealVisits
      PROVE VisibleInv'
  <2>1. Good([r EXCEPT !.pc = p], visits, RealVisits) BY <1>0, <1>b, MoveIsGood
  <2> QED BY <2>1, <1>b, QuietStep DEF Goto
<1>1. CASE CreateBegin(t)
  <2>1. PICK o \in {"browser", "buyer"}, v \in AdVisits, e \in Events :
             Becomes(t, [Idle EXCEPT !.job = o, !.pc = "look", !.v = v, !.ev = e, !.req = sent + 1,
                                     !.late = Full(v)])
    BY <1>1 DEF CreateBegin
  <2> DEFINE q == [Idle EXCEPT !.job = o, !.pc = "look", !.v = v, !.ev = e, !.req = sent + 1,
                               !.late = Full(v)]
  <2>2. v \in RealVisits /\ v \in Visits
    BY IntakeAssumption DEF VisibleInv, TablesInv, RealVisits, Visits
  <2>3. IsTask(q) /\ q.pc = "look" /\ q.v = v BY DEF Idle, IsTask
  <2>4. Good(q, visits, RealVisits) BY <2>2, <2>3 DEF Good
  <2> QED BY <1>1, <2>1, <2>4, QuietStep DEF CreateBegin
<1>2. CASE CreateLook(t)
  <2>1. r.v \in RealVisits BY <1>0, <1>2 DEF CreateLook, At, Good
  <2>2. UNCHANGED tables BY <1>2 DEF CreateLook
  <2>3. \E p \in {"look", "cap", "insert", "store", "lead"} : Goto(t, p) BY <1>2 DEF CreateLook
  <2> QED BY <1>b, <2>1, <2>2, <2>3
<1>3. CASE CreateCap(t)
  <2>1. r.v \in RealVisits BY <1>0, <1>3 DEF CreateCap, At, Good
  <2>2. UNCHANGED tables BY <1>3 DEF CreateCap
  <2>3. Done(t) \/ Goto(t, "insert") BY <1>3 DEF CreateCap, Refuse
  <2> QED BY <1>a, <1>b, <2>1, <2>2, <2>3
<1>4. CASE CreateInsert(t)
  <2>1. r.v \in RealVisits /\ r.v \in Visits BY <1>0, <1>4 DEF CreateInsert, At, Good
  <2>2. Good([r EXCEPT !.pc = "store"], visits, RealVisits) BY <1>0, <2>1, MoveIsGood
  <2>3. UNCHANGED <<visits, RealVisits, testVisits, lead>> BY <1>4 DEF CreateInsert, RealVisits
  <2>4. TasksInv' BY <1>4, <2>2, <2>3, StepKeepsTasks DEF CreateInsert, Goto, VisibleInv
  <2>5. convs' = [w \in Visits |-> convs'[w]] BY <1>4, <2>1 DEF CreateInsert, VisibleInv, TablesInv
  <2>6. \A w \in Visits \ RealVisits : convs'[w] = convs[w]
    BY <1>4, <2>1 DEF CreateInsert, VisibleInv, TablesInv
  <2>7. TablesInv' BY <2>3, <2>5, <2>6 DEF VisibleInv, TablesInv
  <2> QED BY <2>4, <2>7 DEF VisibleInv
<1>5. CASE CreateConflict(t) BY <1>a, <1>5 DEF CreateConflict, Refuse
<1>6. CASE StoreLead(t)
  <2>1. r.v \in RealVisits /\ r.v \in Visits BY <1>0, <1>6 DEF StoreLead, At, Good
  <2>2. UNCHANGED <<visits, RealVisits, testVisits, convs>> BY <1>6 DEF StoreLead, RealVisits
  <2>3. CASE lead' = lead /\ Done(t) BY <1>a, <2>2, <2>3 DEF tables
  <2>4. CASE lead' = lead /\ Becomes(t, [r EXCEPT !.pc = "lead", !.data = Merge(Merged(r.v), Brings(r.req))])
    <3> DEFINE q == [r EXCEPT !.pc = "lead", !.data = Merge(Merged(r.v), Brings(r.req))]
    <3>1. IsTask(q) /\ q.pc = "lead" /\ q.v = r.v BY <1>0 DEF Good, IsTask
    <3>2. Good(q, visits, RealVisits) BY <2>1, <3>1 DEF Good
    <3> QED BY <2>2, <2>4, <3>2, QuietStep DEF tables
  <2>5. CASE Write(r.v, Brings(r.req)) /\ Done(t)
    <3>1. TablesInv' BY <2>1, <2>2, <2>5, WriteKeepsTables DEF VisibleInv
    <3>2. TasksInv' BY <2>2, <2>5, IdleIsGood, StepKeepsTasks DEF Done, VisibleInv
    <3> QED BY <3>1, <3>2 DEF VisibleInv
  <2> QED BY <1>6, <2>3, <2>4, <2>5 DEF StoreLead
<1>7. CASE StoreWrite(t)
  <2>1. r.v \in RealVisits BY <1>0, <1>7 DEF StoreWrite, At, Good
  <2>2. UNCHANGED <<visits, RealVisits, testVisits, convs>> BY <1>7 DEF StoreWrite, RealVisits
  <2>3. TablesInv' BY <1>7, <2>1, <2>2, WriteKeepsTables DEF StoreWrite, VisibleInv
  <2>4. TasksInv' BY <1>7, <2>2, IdleIsGood, StepKeepsTasks DEF StoreWrite, Done, VisibleInv
  <2> QED BY <2>3, <2>4 DEF VisibleInv
<1> QED BY <1>1, <1>2, <1>3, <1>4, <1>5, <1>6, <1>7 DEF Create

LEMMA PartnerKeepsVisible ==
    ASSUME VisibleInv, NEW t \in Tasks, Partner(t) PROVE VisibleInv'
<1> DEFINE r == task[t]
<1>0. Good(r, visits, RealVisits) BY DEF VisibleInv, TasksInv
<1>1. CASE PartnerBegin(t)
  <2>1. PICK v \in PartnerVisits :
             Becomes(t, [Idle EXCEPT !.job = "partner", !.pc = "visit", !.v = v, !.req = sent + 1,
                                     !.late = lead[v].contact # 0])
    BY <1>1 DEF PartnerBegin
  <2> DEFINE q == [Idle EXCEPT !.job = "partner", !.pc = "visit", !.v = v, !.req = sent + 1,
                               !.late = lead[v].contact # 0]
  <2>2. IsTask(q) /\ q.pc = "visit" /\ q.v = v BY DEF Idle, IsTask
  <2>3. Good(q, visits, RealVisits) BY <2>2 DEF Good, Visits
  <2> QED BY <1>1, <2>1, <2>3, QuietStep DEF PartnerBegin
<1>2. CASE PartnerVisit(t)
  <2>1. r.v \in Visits /\ r.v \in PartnerVisits BY <1>0, <1>2 DEF PartnerVisit, At, Good
  <2>2. visits' = visits \cup {r.v} /\ UNCHANGED <<lead, convs>> BY <1>2 DEF PartnerVisit
  <2>3. testVisits' = testVisits \/ (r.v \notin visits /\ testVisits' = testVisits \cup {r.v})
    BY <1>2 DEF PartnerVisit
  <2>4. RealVisits \subseteq RealVisits' BY <2>2, <2>3 DEF RealVisits
  <2> DEFINE q == [r EXCEPT !.pc = "check"]
  <2>5. IsTask(q) /\ q.pc = "check" /\ q.v = r.v BY <1>0 DEF Good, IsTask
  <2>6. Good(q, visits', RealVisits') BY <2>1, <2>2, <2>5 DEF Good
  <2>7. TasksInv' BY <1>2, <2>2, <2>4, <2>6, StepKeepsTasks DEF PartnerVisit, Goto, VisibleInv
  <2>8. TablesInv' BY <2>1, <2>2, <2>3, <2>4 DEF VisibleInv, TablesInv
  <2> QED BY <2>7, <2>8 DEF VisibleInv
<1>3. CASE PartnerCheck(t)
  <2>1. UNCHANGED tables BY <1>3 DEF PartnerCheck
  <2>2. CASE Done(t) BY <2>1, <2>2, IdleIsGood, QuietStep DEF Done
  <2>3. CASE Goto(t, "look") /\ r.v \notin testVisits
    <3>1. r.v \in RealVisits BY <1>0, <1>3, <2>3 DEF PartnerCheck, At, Good, RealVisits
    <3>2. Good([r EXCEPT !.pc = "look"], visits, RealVisits) BY <1>0, <3>1, MoveIsGood
    <3> QED BY <2>1, <2>3, <3>2, QuietStep DEF Goto
  <2> QED BY <1>3, <2>2, <2>3 DEF PartnerCheck, OnTestVisit, Refuse
<1> QED BY <1>1, <1>2, <1>3 DEF Partner

LEMMA ReconcileKeepsVisible ==
    ASSUME VisibleInv, NEW t \in Tasks, Reconcile(t) PROVE VisibleInv'
<1> DEFINE r == task[t]
<1>0. Good(r, visits, RealVisits) BY DEF VisibleInv, TasksInv
<1>1. CASE ReconcileBegin(t)
  <2> DEFINE seen == [v \in Visits |-> Merged(v)]
             todo == {v \in Visits : convs[v] # <<>> /\ seen[v].contact # 0}
             q == [Idle EXCEPT !.job = "reconcile", !.pc = "rebuild", !.seen = seen, !.todo = todo]
  <2>1. todo \subseteq RealVisits BY DEF VisibleInv, TablesInv
  <2>2. IsTask(q) /\ q.pc = "rebuild" /\ q.v = Idle.v /\ q.todo = todo BY DEF Idle, IsTask
  <2>3. Idle.v \in Visits BY IdleIsGood DEF Good
  <2>4. Good(q, visits, RealVisits) BY <2>1, <2>2, <2>3 DEF Good
  <2>5. Becomes(t, q) /\ UNCHANGED tables BY <1>1 DEF ReconcileBegin
  <2> QED BY <2>4, <2>5, QuietStep
<1>2. CASE ReconcileStep(t)
  <2>1. PICK v \in r.todo :
             /\ Write(v, r.seen[v])
             /\ Becomes(t, IF r.todo = {v} THEN Idle ELSE [r EXCEPT !.todo = @ \ {v}])
    BY <1>2 DEF ReconcileStep
  <2>2. v \in RealVisits BY <1>0, <1>2 DEF ReconcileStep, At, Good
  <2>3. UNCHANGED <<visits, RealVisits, testVisits, convs>> BY <1>2 DEF ReconcileStep, RealVisits
  <2>4. TablesInv' BY <2>1, <2>2, <2>3, WriteKeepsTables DEF VisibleInv
  <2> DEFINE s == [r EXCEPT !.todo = @ \ {v}]
  <2>5. IsTask(s) /\ s.pc = r.pc /\ s.v = r.v /\ s.todo \subseteq r.todo BY <1>0 DEF Good, IsTask
  <2>6. Good(s, visits, RealVisits) BY <1>0, <2>5 DEF Good
  <2>7. Good(IF r.todo = {v} THEN Idle ELSE s, visits, RealVisits) BY <2>6, IdleIsGood
  <2>8. TasksInv' BY <2>1, <2>3, <2>7, StepKeepsTasks DEF VisibleInv
  <2> QED BY <2>4, <2>8 DEF VisibleInv
<1> QED BY <1>1, <1>2 DEF Reconcile

LEMMA NextVisible == VisibleInv /\ [Next]_vars => VisibleInv'
<1> SUFFICES ASSUME VisibleInv, [Next]_vars PROVE VisibleInv' OBVIOUS
<1>1. CASE UNCHANGED vars
  BY <1>1 DEF vars, tables, VisibleInv, TablesInv, TasksInv, RealVisits
<1>2. ASSUME NEW t \in Tasks, Work(t) PROVE VisibleInv'
  BY <1>2, CreateKeepsVisible, PartnerKeepsVisible, ReconcileKeepsVisible DEF Work
<1>3. ASSUME NEW t \in Tasks, Fails(t) PROVE VisibleInv'
  BY <1>3, IdleIsGood, QuietStep DEF Fails, Done
<1> QED BY <1>1, <1>2, <1>3 DEF Next

\* What a visit shows: the tables and the handlers keep to real visits, always.
THEOREM VisibleInvariant == Spec => []VisibleInv
BY InitVisible, NextVisible, PTL DEF Spec

\* No real lead is ever stored behind a visit a partner created for a test
\* (leads.intake refuses it before conversions.create).
THEOREM RealLeads == Spec => []RealLeadsAreVisible
<1>1. VisibleInv => RealLeadsAreVisible
  BY DEF VisibleInv, TablesInv, RealVisits, RealLeadsAreVisible
<1> QED BY <1>1, VisibleInvariant, PTL

LEMMA MergeKeepsContact ==
    ASSUME NEW d, NEW e, d.contact # 0 PROVE Merge(d, e).contact = d.contact
BY DEF Merge

LEMMA WriteKeepsContact ==
    ASSUME TablesInv, NEW v \in Visits, NEW d, Write(v, d), NEW w \in Visits, lead[w].contact # 0
    PROVE  lead'[w].contact = lead[w].contact
<1>1. CASE w = v
  <2>1. lead'[w] = Merge(lead[w], d) BY <1>1 DEF TablesInv, Write
  <2> QED BY <2>1, MergeKeepsContact
<1>2. CASE w # v BY <1>2 DEF TablesInv, Write
<1> QED BY <1>1, <1>2

\* The contact a lead was born with is the one it keeps (fillLead, mergeLeadData),
\* whatever events, replays and reconciliations run.
THEOREM FirstContact == Spec => FirstContactStays
<1>1. ASSUME VisibleInv, [Next]_vars
      PROVE  [\A v \in Visits : lead[v].contact # 0 => lead'[v].contact = lead[v].contact]_vars
  <2> SUFFICES ASSUME NEW w \in Visits, lead[w].contact # 0 PROVE lead'[w].contact = lead[w].contact
    OBVIOUS
  <2>1. CASE lead' = lead BY <2>1
  <2>2. ASSUME NEW v \in Visits, NEW d, Write(v, d) PROVE lead'[w].contact = lead[w].contact
    BY <1>1, <2>2, WriteKeepsContact DEF VisibleInv
  <2>3. ASSUME NEW t \in Tasks, Create(t) PROVE lead'[w].contact = lead[w].contact
    <3>1. task[t].v \in Visits BY <1>1 DEF VisibleInv, TasksInv, Good
    <3>2. CASE StoreLead(t)
      <4>1. lead' = lead \/ Write(task[t].v, Brings(task[t].req)) BY <3>2 DEF StoreLead
      <4> QED BY <2>1, <2>2, <3>1, <4>1
    <3>3. CASE StoreWrite(t)
      <4>1. Write(task[t].v, task[t].data) BY <3>3 DEF StoreWrite
      <4> QED BY <2>2, <3>1, <4>1
    <3>4. CASE CreateBegin(t) \/ CreateLook(t) \/ CreateCap(t) \/ CreateInsert(t) \/ CreateConflict(t)
      BY <2>1, <3>4 DEF CreateBegin, CreateLook, CreateCap, CreateInsert, CreateConflict, tables
    <3> QED BY <2>3, <3>2, <3>3, <3>4 DEF Create
  <2>4. ASSUME NEW t \in Tasks, Partner(t) PROVE lead' = lead
    BY <2>4 DEF Partner, PartnerBegin, PartnerVisit, PartnerCheck, tables
  <2>5. ASSUME NEW t \in Tasks, Reconcile(t) PROVE lead'[w].contact = lead[w].contact
    <3>1. CASE ReconcileBegin(t) BY <2>1, <3>1 DEF ReconcileBegin, tables
    <3>2. CASE ReconcileStep(t)
      <4>1. PICK v \in task[t].todo : Write(v, task[t].seen[v]) BY <3>2 DEF ReconcileStep
      <4>2. v \in Visits BY <1>1, <3>2 DEF ReconcileStep, At, VisibleInv, TasksInv, TablesInv, Good, RealVisits
      <4> QED BY <2>2, <4>1, <4>2
    <3> QED BY <2>5, <3>1, <3>2 DEF Reconcile
  <2>6. ASSUME NEW t \in Tasks, Fails(t) PROVE lead' = lead BY <2>6 DEF Fails, tables
  <2>7. CASE UNCHANGED vars BY <2>1, <2>7 DEF vars, tables
  <2> QED BY <1>1, <2>1, <2>3, <2>4, <2>5, <2>6, <2>7 DEF Next, Work
<1> QED BY <1>1, VisibleInvariant, PTL DEF Spec, FirstContactStays

(***************************************************************************)
(* Where a handler may stand: a request past the cap, a replay of a        *)
(* partner, a contact about to be written.                                 *)
(***************************************************************************)
Conversion == [ev: Events, req: Requests]

FullVisits == {v \in Visits : Full(v)}
LedVisits  == {v \in Visits : lead[v].contact # 0}

\* A request that found its visit full never reaches the insert, a replay that found a lead
\* never gets past the check, and what is about to be written has a contact.
Sound(r, full, led) ==
    /\ r.ev \in Events
    /\ r.pc \notin {"idle", "rebuild"} => r.req \in Requests
    /\ r.pc = "idle" => ~r.late
    /\ r.pc = "lead" => r.data.contact # 0
    /\ r.late /\ r.job \in {"browser", "buyer"} /\ r.ev \notin Outcomes =>
          r.v \in AdVisits /\ r.v \in full /\ r.pc \in {"look", "cap", "store", "lead"}
    /\ r.late /\ r.job = "partner" => r.v \in led /\ r.pc \in {"visit", "check"}

\* A handler is on its way with the contact that was heard as p, a visit and a request.
Carries(r, p) ==
    /\ r.pc \notin {"idle", "rebuild"}
    /\ r.v = p[1] /\ r.req = p[2] /\ r.ev \in ContactEvents

Awaited(p) == \E t \in Tasks : Carries(task[t], p)

\* As long as nothing failed, a contact that was heard is in the lead, refused or on its way.
HeardInv ==
    /\ \A p \in heard : p[2] \in 1 .. sent /\ payload[p[2]].contact /\ ~payload[p[2]].test
    /\ faults = 0 => \A p \in heard \ refused : p[1] \in LedVisits \/ Awaited(p)

\* Who is refused comes to a visit that has a conversion, or to a partner's test.
RefusedInv == \A p \in refused : p[1] \in testVisits \/ convs[p[1]] # <<>>

CountsInv ==
    /\ sent \in 0 .. MaxRequests /\ faults \in Nat
    /\ heard \subseteq Visits \X Requests /\ refused \subseteq Visits \X Requests
    /\ convs \in [Visits -> Seq(Conversion)]
    /\ payload = [n \in Requests |-> payload[n]]

SoundInv == \A t \in Tasks : Sound(task[t], FullVisits, LedVisits)

\* The inductive invariant: VisibleInv with the path every handler may take.
PathInv == VisibleInv /\ CountsInv /\ SoundInv /\ HeardInv /\ RefusedInv

LEMMA IdleIsSound == ASSUME NEW full, NEW led PROVE Sound(Idle, full, led)
BY IntakeAssumption DEF Idle, Sound

\* What a step does to one handler, while full visits stay full and leads keep their contact.
LEMMA StepKeepsSound ==
    ASSUME TasksInv, SoundInv, NEW t \in Tasks, NEW r, Becomes(t, r),
           FullVisits \subseteq FullVisits', LedVisits \subseteq LedVisits',
           Sound(r, FullVisits', LedVisits')
    PROVE  SoundInv'
<1> SUFFICES ASSUME NEW u \in Tasks PROVE Sound(task'[u], FullVisits', LedVisits')
  BY DEF SoundInv
<1>1. CASE u = t BY <1>1 DEF TasksInv, Becomes
<1>2. CASE u # t
  <2>1. task'[u] = task[u] BY <1>2 DEF TasksInv, Becomes
  <2>2. Sound(task[u], FullVisits, LedVisits) BY DEF SoundInv
  <2> QED BY <2>1, <2>2 DEF Sound
<1> QED BY <1>1, <1>2

\* What is heard is not lost by a step of one handler, if what this one carries is still
\* carried, refused or written after it.
LEMMA HeardIsKept ==
    ASSUME TasksInv, HeardInv, NEW t \in Tasks, NEW r, Becomes(t, r),
           UNCHANGED <<sent, payload, heard>>, refused \subseteq refused',
           LedVisits \subseteq LedVisits', faults' = 0 => faults = 0,
           faults' = 0 => \A p \in heard : Carries(task[t], p) =>
                             Carries(r, p) \/ p \in refused' \/ p[1] \in LedVisits'
    PROVE  HeardInv'
<1>1. \A p \in heard' : p[2] \in 1 .. sent' /\ payload'[p[2]].contact /\ ~payload'[p[2]].test
  BY DEF HeardInv
<1>2. ASSUME faults' = 0, NEW p \in heard, p \notin refused', p[1] \notin LedVisits' PROVE Awaited(p)'
  <2>1. PICK u \in Tasks : Carries(task[u], p) BY <1>2 DEF HeardInv, Awaited
  <2>2. Carries(task'[u], p)
    <3>1. CASE u = t
      <4>1. task'[u] = r BY <3>1 DEF TasksInv, Becomes
      <4> QED BY <1>2, <2>1, <3>1, <4>1
    <3>2. CASE u # t
      <4>1. task'[u] = task[u] BY <3>2 DEF TasksInv, Becomes
      <4> QED BY <2>1, <4>1
    <3> QED BY <3>1, <3>2
  <2> QED BY <2>2 DEF Awaited, Carries
<1> QED BY <1>1, <1>2 DEF HeardInv

\* A request is received: what it names is on its way with the handler that took it.
LEMMA HeardIsTaken ==
    ASSUME TasksInv, HeardInv, CountsInv, NEW t \in Tasks, NEW r, Becomes(t, r), task[t].pc = "idle",
           NEW p, sent + 1 \in Requests, Receive(p), NEW contact \in BOOLEAN, Hears(r.v, contact),
           contact => p.contact /\ ~p.test /\ r.ev \in ContactEvents,
           r.pc \notin {"idle", "rebuild"}, r.req = sent + 1,
           UNCHANGED <<faults, refused>>, LedVisits' = LedVisits
    PROVE  HeardInv'
<1>1. /\ sent \in Nat /\ sent' = sent + 1 /\ payload'[sent + 1] = p
      /\ \A n \in 1 .. sent : payload'[n] = payload[n]
  BY DEF CountsInv, Receive, Requests
<1>2. \A q \in heard : q[2] \in 1 .. sent' /\ payload'[q[2]].contact /\ ~payload'[q[2]].test
  BY <1>1 DEF HeardInv
<1>3. task'[t] = r /\ \A u \in Tasks : u # t => task'[u] = task[u] BY DEF TasksInv, Becomes
<1>4. ASSUME faults = 0, NEW q \in heard \ refused, q[1] \notin LedVisits PROVE Awaited(q)'
  <2>1. PICK u \in Tasks : Carries(task[u], q) BY <1>4 DEF HeardInv, Awaited
  <2>2. u # t BY <2>1 DEF Carries
  <2> QED BY <1>3, <2>1, <2>2 DEF Awaited, Carries
<1>5. CASE ~contact
  <2>1. heard' = heard BY <1>5 DEF Hears
  <2> QED BY <1>2, <1>4, <2>1 DEF HeardInv
<1>6. CASE contact
  <2>0. PICK new : new = <<r.v, sent + 1>> OBVIOUS
  <2>1. heard' = heard \cup {new} BY <1>6, <2>0 DEF Hears
  <2>2. new[2] \in 1 .. sent' /\ payload'[new[2]].contact /\ ~payload'[new[2]].test
    <3>1. sent + 1 \in 1 .. sent' BY <1>1
    <3>2. payload'[sent + 1] = p BY DEF CountsInv, Receive
    <3> QED BY <1>6, <2>0, <3>1, <3>2
  <2>3. Awaited(new)'
    <3>1. new[1] = r.v /\ new[2] = r.req BY <2>0
    <3>2. Carries(r, new) BY <1>6, <3>1 DEF Carries
    <3>3. task'[t] = r BY <1>3
    <3>4. Carries(task'[t], new) BY <3>2, <3>3
    <3> QED BY <3>4 DEF Awaited, Carries
  <2>4. \A q \in heard' : q[2] \in 1 .. sent' /\ payload'[q[2]].contact /\ ~payload'[q[2]].test
    BY <1>2, <2>1, <2>2
  <2>5. ASSUME faults' = 0, NEW q \in heard' \ refused' PROVE q[1] \in LedVisits' \/ Awaited(q)'
    <3>1. CASE q = new BY <2>3, <3>1
    <3>2. CASE q # new BY <1>4, <2>1, <2>5, <3>2
    <3> QED BY <3>1, <3>2
  <2> QED BY <2>4, <2>5 DEF HeardInv
<1> QED BY <1>5, <1>6

\* What a handler that moves on carries, it still carries.
LEMMA MovesOn ==
    ASSUME NEW r, NEW q, q.v = r.v, q.req = r.req, q.ev = r.ev, q.pc \notin {"idle", "rebuild"}, NEW p
    PROVE  Carries(r, p) => Carries(q, p)
BY DEF Carries

\* Conversions are only added: a visit that is full stays full.
LEMMA AppendKeepsFull ==
    ASSUME CountsInv, NEW v \in Visits, NEW c \in Conversion, Full(v),
           convs' = [convs EXCEPT ![v] = Append(@, c)]
    PROVE  Full(v)'
<1> DEFINE s == convs[v]
<1>1. s \in Seq(Conversion) BY DEF CountsInv
<1>2. convs'[v] = Append(s, c) BY DEF CountsInv
<1>3. DOMAIN s = 1 .. Len(s) /\ DOMAIN Append(s, c) = 1 .. Len(s) + 1 /\ Len(s) \in Nat
      /\ \A i \in 1 .. Len(s) : Append(s, c)[i] = s[i]
  BY <1>1
<1>4. Counted(v) \subseteq Counted(v)' BY <1>2, <1>3 DEF Counted
<1>5. IsFiniteSet(Counted(v)')
  <2>1. IsFiniteSet(1 .. Len(s) + 1) BY <1>3, FS_Interval
  <2>2. Counted(v)' \subseteq 1 .. Len(s) + 1 BY <1>2, <1>3 DEF Counted
  <2> QED BY <2>1, <2>2, FS_Subset
<1>6. IsFiniteSet(Counted(v)) /\ Cardinality(Counted(v)) <= Cardinality(Counted(v)')
  BY <1>4, <1>5, FS_Subset
<1>7. Cardinality(Counted(v)) \in Nat /\ Cardinality(Counted(v)') \in Nat
  BY <1>5, <1>6, FS_CardinalityType
<1> QED BY <1>6, <1>7, IntakeAssumption DEF Full

\* Steps that touch no table: the handler moves on, or ends.
LEMMA QuietPath ==
    ASSUME PathInv, VisibleInv', HeardInv', NEW t \in Tasks, NEW r, Becomes(t, r), UNCHANGED tables,
           sent' \in 0 .. MaxRequests, faults' \in Nat, payload' = [n \in Requests |-> payload'[n]],
           heard' \subseteq Visits \X Requests,
           refused' = refused
             \/ \E v \in Visits, n \in Requests : /\ refused' = refused \cup {<<v, n>>}
                                                  /\ v \in testVisits \/ convs[v] # <<>>,
           Sound(r, FullVisits, LedVisits)
    PROVE  PathInv'
<1>1. FullVisits' = FullVisits /\ LedVisits' = LedVisits
  BY DEF tables, FullVisits, LedVisits, Full, Counted
<1>2. CountsInv' BY DEF PathInv, CountsInv, tables
<1>3. SoundInv' BY <1>1, StepKeepsSound DEF PathInv, VisibleInv
<1>4. RefusedInv' BY DEF PathInv, RefusedInv, tables
<1> QED BY <1>2, <1>3, <1>4 DEF PathInv

\* A handler that moves on without receiving, writing or refusing anything.
LEMMA MovePath ==
    ASSUME PathInv, VisibleInv', NEW t \in Tasks, NEW r, Becomes(t, r),
           UNCHANGED <<tables, sent, payload, faults, heard, refused>>,
           Sound(r, FullVisits, LedVisits),
           \A p \in heard : Carries(task[t], p) => Carries(r, p) \/ p[1] \in LedVisits
    PROVE  PathInv'
<1>1. LedVisits' = LedVisits BY DEF tables, LedVisits
<1>2. HeardInv' BY <1>1, HeardIsKept DEF PathInv, VisibleInv
<1> QED BY <1>2, QuietPath DEF PathInv, CountsInv

\* A handler that refuses its request.
LEMMA RefusePath ==
    ASSUME PathInv, VisibleInv', NEW t \in Tasks, Refuse(t), task[t].v \in Visits, task[t].req \in Requests,
           task[t].v \in testVisits \/ convs[task[t].v] # <<>>,
           UNCHANGED <<tables, sent, payload, faults, heard>>
    PROVE  PathInv'
<1>1. refused' = refused \cup {<<task[t].v, task[t].req>>} /\ Becomes(t, Idle) BY DEF Refuse, Done
<1>2. LedVisits' = LedVisits BY DEF tables, LedVisits
<1>3. ASSUME NEW p \in heard, Carries(task[t], p) PROVE p \in refused'
  <2>1. p = <<p[1], p[2]>> BY DEF PathInv, CountsInv
  <2> QED BY <1>1, <1>3, <2>1 DEF Carries
<1>4. HeardInv' BY <1>1, <1>2, <1>3, HeardIsKept DEF PathInv, VisibleInv
<1> QED BY <1>1, <1>4, IdleIsSound, QuietPath DEF PathInv, CountsInv

\* Writing into a lead: its visit keeps or gains a contact.
LEMMA WritePath ==
    ASSUME PathInv, VisibleInv', NEW t \in Tasks, NEW r, Becomes(t, r), NEW v \in Visits, NEW d, Write(v, d),
           UNCHANGED <<sent, payload, visits, testVisits, convs, faults, heard, refused>>,
           Sound(r, FullVisits, LedVisits),
           \A p \in heard : Carries(task[t], p) => p[1] = v /\ (d.contact # 0 \/ v \in LedVisits)
    PROVE  PathInv'
<1>1. FullVisits' = FullVisits BY DEF FullVisits, Full, Counted
<1>2. TablesInv BY DEF PathInv, VisibleInv
<1>3. LedVisits \subseteq LedVisits' BY <1>2, WriteKeepsContact DEF LedVisits
<1>4. CountsInv' BY DEF PathInv, CountsInv
<1>5. Sound(r, FullVisits', LedVisits') BY <1>1, <1>3 DEF Sound
<1>6. SoundInv' BY <1>1, <1>3, <1>5, StepKeepsSound DEF PathInv, VisibleInv
<1>7. ASSUME NEW p \in heard, Carries(task[t], p) PROVE p[1] \in LedVisits'
  <2>1. CASE v \in LedVisits BY <1>3, <1>7, <2>1
  <2>2. CASE v \notin LedVisits
    <3>1. lead'[v] = Merge(lead[v], d) BY <1>2 DEF TablesInv, Write
    <3>2. lead'[v].contact # 0 BY <1>7, <2>2, <3>1 DEF Merge, LedVisits
    <3> QED BY <1>7, <3>2 DEF LedVisits
  <2> QED BY <2>1, <2>2
<1>8. HeardInv' BY <1>3, <1>7, HeardIsKept DEF PathInv, VisibleInv
<1>9. RefusedInv' BY DEF PathInv, RefusedInv
<1> QED BY <1>4, <1>6, <1>8, <1>9 DEF PathInv

LEMMA FullHasOne == ASSUME CountsInv, NEW v \in Visits, Full(v) PROVE convs[v] # <<>>
<1> SUFFICES ASSUME convs[v] = <<>> PROVE FALSE OBVIOUS
<1>1. Counted(v) = {} BY DEF Counted
<1>2. Cardinality(Counted(v)) = 0 BY <1>1, FS_EmptySet
<1> QED BY <1>2, IntakeAssumption DEF Full

LEMMA CreateKeepsPath ==
    ASSUME PathInv, VisibleInv', NEW t \in Tasks, Create(t) PROVE PathInv'
<1> DEFINE r == task[t]
<1>0. Good(r, visits, RealVisits) /\ Sound(r, FullVisits, LedVisits) /\ r.v \in Visits
  BY DEF PathInv, VisibleInv, TasksInv, SoundInv, Good
<1>i. Sound(Idle, FullVisits, LedVisits) BY IdleIsSound
<1>c. sent \in 0 .. MaxRequests /\ faults \in Nat /\ CountsInv BY DEF PathInv, CountsInv
<1>1. CASE CreateBegin(t)
  <2>1. PICK o \in {"browser", "buyer"}, v \in AdVisits, e \in Events, p \in Payloads :
             /\ ~p.test /\ Receive(p) /\ Hears(v, e \in ContactEvents /\ p.contact)
             /\ Becomes(t, [Idle EXCEPT !.job = o, !.pc = "look", !.v = v, !.ev = e, !.req = sent + 1,
                                        !.late = Full(v)])
    BY <1>1 DEF CreateBegin
  <2>t. ~p.test BY <2>1
  <2> DEFINE q == [Idle EXCEPT !.job = o, !.pc = "look", !.v = v, !.ev = e, !.req = sent + 1,
                               !.late = Full(v)]
             contact == e \in ContactEvents /\ p.contact
  <2>2. sent + 1 \in Requests /\ sent' = sent + 1 BY <1>1, <1>c, IntakeAssumption DEF CreateBegin, Receive, Requests
  <2>3. q.job = o /\ q.pc = "look" /\ q.v = v /\ q.ev = e /\ q.req = sent + 1 /\ q.late = Full(v)
    BY DEF Idle
  <2>4. v \in Visits /\ (Full(v) => v \in FullVisits) BY DEF FullVisits, Visits
  <2>5. Sound(q, FullVisits, LedVisits) BY <2>2, <2>3, <2>4 DEF Sound
  <2>6. task[t].pc = "idle" BY <1>1 DEF CreateBegin, Free
  <2>7. sent' \in 0 .. MaxRequests BY <2>2 DEF Requests
  <2>8. UNCHANGED <<tables, faults, refused>> BY <1>1 DEF CreateBegin
  <2>9. LedVisits' = LedVisits BY <2>8 DEF tables, LedVisits
  <2>10. contact \in BOOLEAN /\ (contact => p.contact /\ ~p.test /\ e \in ContactEvents)
    <3>1. p.contact \in BOOLEAN BY IntakeAssumption DEF Payload
    <3>2. ~p.test BY <2>t
    <3> QED BY <3>1, <3>2
  <2> HIDE DEF q, contact
  <2>11. Becomes(t, q) /\ Receive(p) /\ Hears(q.v, contact) BY <2>1, <2>3 DEF q, contact
  <2>12. HeardInv'
    BY <1>c, <2>2, <2>3, <2>6, <2>8, <2>9, <2>10, <2>11, HeardIsTaken DEF PathInv, VisibleInv
  <2>13. heard' \subseteq Visits \X Requests BY <1>c, <2>2, <2>3, <2>4, <2>11 DEF CountsInv, Hears
  <2>14. payload' = [n \in Requests |-> payload'[n]] BY <1>c, <2>11 DEF CountsInv, Receive
  <2> QED BY <1>c, <2>5, <2>7, <2>8, <2>11, <2>12, <2>13, <2>14, QuietPath
<1>2. CASE CreateLook(t)
  <2>1. UNCHANGED <<tables, heard, refused, sent, payload, faults>> /\ r.pc = "look"
    BY <1>2 DEF CreateLook, At
  <2>2. PICK p \in {"store", "cap", "insert"} : Goto(t, p) /\ (p = "insert" => r.ev \in Outcomes \/ Cap = 0)
    BY <1>2 DEF CreateLook
  <2> DEFINE q == [r EXCEPT !.pc = p]
  <2>3. q.pc = p /\ q.job = r.job /\ q.v = r.v /\ q.ev = r.ev /\ q.req = r.req /\ q.late = r.late
    BY <1>0 DEF Good, IsTask
  <2>4. Cap = 0 => FullVisits = {} BY DEF FullVisits, Full
  <2>5. Sound(q, FullVisits, LedVisits) BY <1>0, <2>1, <2>2, <2>3, <2>4 DEF Sound
  <2>6. \A x \in heard : Carries(r, x) => Carries(q, x) BY <2>3, MovesOn
  <2>7. Becomes(t, q) BY <2>2 DEF Goto
  <2> HIDE DEF q
  <2> QED BY <2>1, <2>5, <2>6, <2>7, MovePath
<1>3. CASE CreateCap(t)
  <2>1. UNCHANGED <<tables, heard, sent, payload, faults>> /\ r.pc = "cap" BY <1>3 DEF CreateCap, At
  <2>2. CASE Refuse(t) /\ Full(r.v)
    <3>1. convs[r.v] # <<>> BY <1>0, <1>c, <2>2, FullHasOne
    <3>2. r.req \in Requests BY <1>0, <2>1 DEF Sound
    <3> QED BY <1>0, <2>1, <2>2, <3>1, <3>2, RefusePath
  <2>3. CASE Goto(t, "insert") /\ UNCHANGED refused /\ ~(r.v \in AdVisits /\ Full(r.v))
    <3> DEFINE q == [r EXCEPT !.pc = "insert"]
    <3>1. q.pc = "insert" /\ q.job = r.job /\ q.v = r.v /\ q.ev = r.ev /\ q.req = r.req /\ q.late = r.late
      BY <1>0 DEF Good, IsTask
    <3>2. Sound(q, FullVisits, LedVisits) BY <1>0, <2>1, <2>3, <3>1 DEF Sound, FullVisits
    <3>3. \A x \in heard : Carries(r, x) => Carries(q, x) BY <3>1, MovesOn
    <3>4. Becomes(t, q) BY <2>3 DEF Goto
    <3> HIDE DEF q
    <3> QED BY <2>1, <2>3, <3>2, <3>3, <3>4, MovePath
  <2> QED BY <1>3, <2>2, <2>3 DEF CreateCap
<1>4. CASE CreateInsert(t)
  <2> DEFINE c == [ev |-> r.ev, req |-> r.req]
             q == [r EXCEPT !.pc = "store"]
  <2>1. r.pc = "insert" /\ convs' = [convs EXCEPT ![r.v] = Append(@, c)]
        /\ UNCHANGED <<sent, payload, testVisits, lead, faults, heard, refused>> /\ Becomes(t, q)
    BY <1>4 DEF CreateInsert, At, history, Goto
  <2>2. c \in Conversion BY <1>0, <2>1 DEF Sound, Conversion
  <2>3. CountsInv' BY <1>0, <2>1, <2>2 DEF PathInv, CountsInv
  <2>4. FullVisits \subseteq FullVisits'
    <3> SUFFICES ASSUME NEW v \in FullVisits PROVE Full(v)' BY DEF FullVisits
    <3>1. CASE v = r.v BY <1>0, <2>1, <2>2, <3>1, AppendKeepsFull DEF PathInv, FullVisits
    <3>2. CASE v # r.v
      <4>1. convs'[v] = convs[v] BY <2>1, <3>2 DEF PathInv, CountsInv, FullVisits
      <4> QED BY <4>1 DEF FullVisits, Full, Counted
    <3> QED BY <3>1, <3>2
  <2>5. LedVisits' = LedVisits BY <2>1 DEF LedVisits
  <2>6. q.pc = "store" /\ q.job = r.job /\ q.v = r.v /\ q.ev = r.ev /\ q.req = r.req /\ q.late = r.late
    BY <1>0 DEF Good, IsTask
  <2>7. Sound(q, FullVisits', LedVisits') BY <1>0, <2>1, <2>4, <2>5, <2>6 DEF Sound
  <2>8. SoundInv' BY <2>1, <2>4, <2>5, <2>7, StepKeepsSound DEF PathInv, VisibleInv
  <2>9. \A x \in heard : Carries(r, x) => Carries(q, x) BY <2>6, MovesOn
  <2>10. ASSUME NEW v \in Visits, convs[v] # <<>> PROVE convs'[v] # <<>>
    <3>1. convs[r.v] \in Seq(Conversion) BY <1>0 DEF PathInv, CountsInv
    <3>2. Append(convs[r.v], c) # <<>>
      <4> DEFINE s == convs[r.v]
      <4>1. s \in Seq(Conversion) BY <3>1
      <4> HIDE DEF s
      <4> HIDE DEF c
      <4> QED BY <2>2, <4>1, AppendProperties
    <3>3. convs'[v] = IF v = r.v THEN Append(convs[r.v], c) ELSE convs[v]
      BY <2>1, <2>10 DEF PathInv, CountsInv
    <3> QED BY <2>10, <3>2, <3>3
  <2>11. RefusedInv'
    <3>1. \A p \in refused : p[1] \in Visits BY DEF PathInv, CountsInv
    <3> QED BY <2>1, <2>10, <3>1 DEF PathInv, RefusedInv
  <2> HIDE DEF q, c
  <2>12. HeardInv' BY <2>1, <2>5, <2>9, HeardIsKept DEF PathInv, VisibleInv
  <2> QED BY <2>3, <2>8, <2>11, <2>12 DEF PathInv
<1>5. CASE CreateConflict(t)
  <2>1. UNCHANGED <<tables, heard, sent, payload, faults>> /\ r.pc = "insert" /\ Refuse(t)
    BY <1>5 DEF CreateConflict, At
  <2>2. convs[r.v] # <<>> BY <1>5 DEF CreateConflict, Stored
  <2>3. r.req \in Requests BY <1>0, <2>1 DEF Sound
  <2> QED BY <1>0, <2>1, <2>2, <2>3, RefusePath
<1>6. CASE StoreLead(t)
  <2>1. r.pc = "store" /\ UNCHANGED <<sent, payload, visits, testVisits, convs, faults, heard, refused>>
    BY <1>6 DEF StoreLead, At, history
  <2>a. ASSUME NEW p \in heard, Carries(r, p) PROVE r.ev \in ContactEvents /\ payload[r.req].contact
    BY <2>a DEF Carries, PathInv, HeardInv
  <2>2. CASE Write(r.v, Brings(r.req)) /\ Done(t) /\ lead[r.v].contact # 0
    <3>1. \A p \in heard : Carries(r, p) => p[1] = r.v /\ r.v \in LedVisits
      BY <1>0, <2>2 DEF Carries, LedVisits
    <3>2. Becomes(t, Idle) BY <2>2 DEF Done
    <3> QED BY <1>0, <1>i, <2>1, <2>2, <3>1, <3>2, WritePath
  <2>3. CASE lead' = lead /\ Done(t) /\ ~(r.ev \in ContactEvents /\ payload[r.req].contact)
    <3>1. \A p \in heard : ~Carries(r, p) BY <2>a, <2>3
    <3>2. UNCHANGED tables /\ Becomes(t, Idle) BY <2>1, <2>3 DEF tables, Done
    <3> QED BY <1>i, <2>1, <3>1, <3>2, MovePath
  <2>4. CASE /\ lead' = lead /\ payload[r.req].contact
             /\ Becomes(t, [r EXCEPT !.pc = "lead", !.data = Merge(Merged(r.v), Brings(r.req))])
    <3> DEFINE d == Merge(Merged(r.v), Brings(r.req))
               q == [r EXCEPT !.pc = "lead", !.data = d]
    <3>1. q.pc = "lead" /\ q.job = r.job /\ q.v = r.v /\ q.ev = r.ev /\ q.req = r.req
          /\ q.late = r.late /\ q.data = d
      BY <1>0 DEF Good, IsTask
    <3>2. r.req \in Requests BY <1>0, <2>1 DEF Sound
    <3>3. d.contact # 0 BY <2>4, <3>2, IntakeAssumption DEF Merge, Brings, Requests
    <3>4. Sound(q, FullVisits, LedVisits) BY <1>0, <2>1, <3>1, <3>3 DEF Sound
    <3>5. \A x \in heard : Carries(r, x) => Carries(q, x) BY <3>1, MovesOn
    <3>6. UNCHANGED tables /\ Becomes(t, q) BY <2>1, <2>4 DEF tables
    <3> HIDE DEF q
    <3> QED BY <2>1, <3>4, <3>5, <3>6, MovePath
  <2> QED BY <1>6, <2>2, <2>3, <2>4 DEF StoreLead
<1>7. CASE StoreWrite(t)
  <2>1. r.pc = "lead" /\ UNCHANGED <<sent, payload, visits, testVisits, convs, faults, heard, refused>>
        /\ Write(r.v, r.data) /\ Becomes(t, Idle)
    BY <1>7 DEF StoreWrite, At, history, Done
  <2>2. r.data.contact # 0 BY <1>0, <2>1 DEF Sound
  <2>3. \A p \in heard : Carries(r, p) => p[1] = r.v /\ r.data.contact # 0 BY <2>2 DEF Carries
  <2> QED BY <1>0, <1>i, <2>1, <2>3, WritePath
<1> QED BY <1>1, <1>2, <1>3, <1>4, <1>5, <1>6, <1>7 DEF Create

LEMMA PartnerKeepsPath ==
    ASSUME PathInv, VisibleInv', NEW t \in Tasks, Partner(t) PROVE PathInv'
<1> DEFINE r == task[t]
<1>0. Good(r, visits, RealVisits) /\ Sound(r, FullVisits, LedVisits) /\ r.v \in Visits
  BY DEF PathInv, VisibleInv, TasksInv, SoundInv, Good
<1>i. Sound(Idle, FullVisits, LedVisits) BY IdleIsSound
<1>c. sent \in 0 .. MaxRequests /\ faults \in Nat /\ CountsInv BY DEF PathInv, CountsInv
<1>1. CASE PartnerBegin(t)
  <2>1. PICK v \in PartnerVisits, p \in Payloads :
             /\ p.contact /\ Receive(p) /\ Hears(v, ~p.test)
             /\ Becomes(t, [Idle EXCEPT !.job = "partner", !.pc = "visit", !.v = v, !.req = sent + 1,
                                        !.late = lead[v].contact # 0])
    BY <1>1 DEF PartnerBegin
  <2> DEFINE q == [Idle EXCEPT !.job = "partner", !.pc = "visit", !.v = v, !.req = sent + 1,
                               !.late = lead[v].contact # 0]
             contact == ~p.test
  <2>2. sent + 1 \in Requests /\ sent' = sent + 1
    BY <1>1, <1>c, IntakeAssumption DEF PartnerBegin, Receive, Requests
  <2>3. q.job = "partner" /\ q.pc = "visit" /\ q.v = v /\ q.ev = "lead" /\ q.ev = Idle.ev /\ q.req = sent + 1
        /\ q.late = (lead[v].contact # 0)
    BY DEF Idle
  <2>4. v \in Visits /\ (lead[v].contact # 0 => v \in LedVisits) BY DEF LedVisits, Visits
  <2>5. Sound(q, FullVisits, LedVisits) BY <1>i, <2>2, <2>3, <2>4 DEF Sound
  <2>6. task[t].pc = "idle" BY <1>1 DEF PartnerBegin, Free
  <2>7. sent' \in 0 .. MaxRequests BY <2>2 DEF Requests
  <2>8. UNCHANGED <<tables, faults, refused>> BY <1>1 DEF PartnerBegin
  <2>9. LedVisits' = LedVisits BY <2>8 DEF tables, LedVisits
  <2>10. contact \in BOOLEAN /\ (contact => p.contact /\ ~p.test /\ q.ev \in ContactEvents)
    BY <2>1, <2>3, IntakeAssumption
  <2> HIDE DEF q, contact
  <2>11. Becomes(t, q) /\ Receive(p) /\ Hears(q.v, contact) BY <2>1, <2>3 DEF q, contact
  <2>12. HeardInv'
    BY <1>c, <2>2, <2>3, <2>6, <2>8, <2>9, <2>10, <2>11, HeardIsTaken DEF PathInv, VisibleInv
  <2>13. heard' \subseteq Visits \X Requests BY <1>c, <2>2, <2>3, <2>4, <2>11 DEF CountsInv, Hears
  <2>14. payload' = [n \in Requests |-> payload'[n]] BY <1>c, <2>11 DEF CountsInv, Receive
  <2> QED BY <1>c, <2>5, <2>7, <2>8, <2>11, <2>12, <2>13, <2>14, QuietPath
<1>2. CASE PartnerVisit(t)
  <2> DEFINE q == [r EXCEPT !.pc = "check"]
  <2>1. r.pc = "visit" /\ Becomes(t, q) /\ UNCHANGED <<sent, payload, convs, lead, faults, heard, refused>>
        /\ testVisits \subseteq testVisits'
    BY <1>2 DEF PartnerVisit, At, history, Goto
  <2>2. q.pc = "check" /\ q.job = r.job /\ q.v = r.v /\ q.ev = r.ev /\ q.req = r.req /\ q.late = r.late
    BY <1>0 DEF Good, IsTask
  <2>3. Sound(q, FullVisits, LedVisits) BY <1>0, <2>1, <2>2 DEF Sound
  <2>4. FullVisits' = FullVisits /\ LedVisits' = LedVisits
    BY <2>1 DEF FullVisits, LedVisits, Full, Counted
  <2>5. CountsInv' BY <2>1 DEF PathInv, CountsInv
  <2>6. SoundInv' BY <2>1, <2>3, <2>4, StepKeepsSound DEF PathInv, VisibleInv
  <2>7. \A x \in heard : Carries(r, x) => Carries(q, x) BY <2>2, MovesOn
  <2> HIDE DEF q
  <2>8. HeardInv' BY <2>1, <2>4, <2>7, HeardIsKept DEF PathInv, VisibleInv
  <2>9. RefusedInv' BY <2>1 DEF PathInv, RefusedInv
  <2> QED BY <2>5, <2>6, <2>8, <2>9 DEF PathInv
<1>3. CASE PartnerCheck(t)
  <2>1. UNCHANGED <<tables, heard, sent, payload, faults>> /\ r.pc = "check" BY <1>3 DEF PartnerCheck, At
  <2>2. CASE Refuse(t) /\ r.v \in testVisits
    <3>1. r.req \in Requests BY <1>0, <2>1 DEF Sound
    <3> QED BY <1>0, <2>1, <2>2, <3>1, RefusePath
  <2>3. CASE Done(t) /\ UNCHANGED refused /\ lead[r.v].contact # 0
    <3>1. \A p \in heard : Carries(r, p) => p[1] \in LedVisits BY <1>0, <2>3 DEF Carries, LedVisits
    <3> QED BY <1>i, <2>1, <2>3, <3>1, MovePath DEF Done
  <2>4. CASE Done(t) /\ UNCHANGED refused /\ payload[r.req].test
    <3>1. \A p \in heard : ~payload[p[2]].test BY DEF PathInv, HeardInv
    <3>2. \A p \in heard : ~Carries(r, p) BY <2>4, <3>1 DEF Carries
    <3> QED BY <1>i, <2>1, <2>4, <3>2, MovePath DEF Done
  <2>5. CASE Goto(t, "look") /\ UNCHANGED refused /\ lead[r.v].contact = 0
    <3> DEFINE q == [r EXCEPT !.pc = "look"]
    <3>1. q.pc = "look" /\ q.job = r.job /\ q.v = r.v /\ q.ev = r.ev /\ q.req = r.req /\ q.late = r.late
      BY <1>0 DEF Good, IsTask
    <3>2. Sound(q, FullVisits, LedVisits) BY <1>0, <2>1, <2>5, <3>1 DEF Sound, LedVisits
    <3>3. \A x \in heard : Carries(r, x) => Carries(q, x) BY <3>1, MovesOn
    <3>4. Becomes(t, q) BY <2>5 DEF Goto
    <3> HIDE DEF q
    <3> QED BY <2>1, <2>5, <3>2, <3>3, <3>4, MovePath
  <2> QED BY <1>3, <2>2, <2>3, <2>4, <2>5 DEF PartnerCheck, OnTestVisit
<1> QED BY <1>1, <1>2, <1>3 DEF Partner

LEMMA ReconcileKeepsPath ==
    ASSUME PathInv, VisibleInv', NEW t \in Tasks, Reconcile(t) PROVE PathInv'
<1> DEFINE r == task[t]
<1>0. Good(r, visits, RealVisits) /\ Sound(r, FullVisits, LedVisits)
  BY DEF PathInv, VisibleInv, TasksInv, SoundInv
<1>i. Sound(Idle, FullVisits, LedVisits) BY IdleIsSound
<1>1. CASE ReconcileBegin(t)
  <2> DEFINE seen == [v \in Visits |-> Merged(v)]
             todo == {v \in Visits : convs[v] # <<>> /\ seen[v].contact # 0}
             q == [Idle EXCEPT !.job = "reconcile", !.pc = "rebuild", !.seen = seen, !.todo = todo]
  <2>1. q.job = "reconcile" /\ q.pc = "rebuild" /\ q.ev = Idle.ev /\ q.late = FALSE BY DEF Idle
  <2>2. Sound(q, FullVisits, LedVisits) BY <1>i, <2>1 DEF Sound
  <2>3. Becomes(t, q) /\ UNCHANGED <<tables, heard, refused, sent, payload, faults>> /\ task[t].pc = "idle"
    BY <1>1 DEF ReconcileBegin, Free, history
  <2>4. \A p \in heard : ~Carries(task[t], p) BY <2>3 DEF Carries
  <2> HIDE DEF q
  <2> QED BY <2>2, <2>3, <2>4, MovePath
<1>2. CASE ReconcileStep(t)
  <2>1. PICK v \in r.todo :
             /\ Write(v, r.seen[v])
             /\ Becomes(t, IF r.todo = {v} THEN Idle ELSE [r EXCEPT !.todo = @ \ {v}])
    BY <1>2 DEF ReconcileStep
  <2>2. r.pc = "rebuild" /\ UNCHANGED <<sent, payload, visits, testVisits, convs, faults, heard, refused>>
    BY <1>2 DEF ReconcileStep, At, history
  <2>3. v \in Visits BY <1>0, <2>2 DEF Good, PathInv, VisibleInv, TablesInv, RealVisits
  <2> DEFINE s == [r EXCEPT !.todo = @ \ {v}]
  <2>4. s.pc = r.pc /\ s.job = r.job /\ s.v = r.v /\ s.ev = r.ev /\ s.req = r.req /\ s.late = r.late
    BY <1>0 DEF Good, IsTask
  <2>5. Sound(s, FullVisits, LedVisits) BY <1>0, <2>2, <2>4 DEF Sound
  <2>6. Sound(IF r.todo = {v} THEN Idle ELSE s, FullVisits, LedVisits) BY <1>i, <2>5
  <2>7. \A p \in heard : ~Carries(r, p) BY <2>2 DEF Carries
  <2> QED BY <2>1, <2>2, <2>3, <2>6, <2>7, WritePath
<1> QED BY <1>1, <1>2 DEF Reconcile

LEMMA InitPath == Init => PathInv
<1> SUFFICES ASSUME Init PROVE PathInv OBVIOUS
<1>1. VisibleInv BY InitVisible
<1>2. CountsInv BY IntakeAssumption DEF Init, CountsInv
<1>3. SoundInv BY IdleIsSound DEF Init, SoundInv
<1>4. HeardInv /\ RefusedInv BY DEF Init, HeardInv, RefusedInv
<1> QED BY <1>1, <1>2, <1>3, <1>4 DEF PathInv

LEMMA NextPath == PathInv /\ [Next]_vars => PathInv'
<1> SUFFICES ASSUME PathInv, [Next]_vars PROVE PathInv' OBVIOUS
<1>0. VisibleInv' BY NextVisible DEF PathInv
<1>1. CASE UNCHANGED vars
  <2>1. FullVisits' = FullVisits /\ LedVisits' = LedVisits
    BY <1>1 DEF vars, tables, FullVisits, LedVisits, Full, Counted
  <2>2. CountsInv' BY <1>1 DEF vars, tables, history, PathInv, CountsInv
  <2>3. SoundInv' BY <1>1, <2>1 DEF vars, PathInv, SoundInv
  <2>4. HeardInv' BY <1>1, <2>1 DEF vars, history, PathInv, HeardInv, Awaited, Carries
  <2>5. RefusedInv' BY <1>1 DEF vars, tables, history, PathInv, RefusedInv
  <2> QED BY <1>0, <2>2, <2>3, <2>4, <2>5 DEF PathInv
<1>2. ASSUME NEW t \in Tasks, Work(t) PROVE PathInv'
  BY <1>0, <1>2, CreateKeepsPath, PartnerKeepsPath, ReconcileKeepsPath DEF Work
<1>3. ASSUME NEW t \in Tasks, Fails(t) PROVE PathInv'
  <2>1. Becomes(t, Idle) /\ UNCHANGED <<tables, heard, refused, sent, payload>> /\ faults' = faults + 1
    BY <1>3 DEF Fails, Done, history
  <2>2. sent \in 0 .. MaxRequests /\ faults \in Nat BY DEF PathInv, CountsInv
  <2>3. LedVisits' = LedVisits BY <2>1 DEF tables, LedVisits
  <2>4. HeardInv' BY <2>1, <2>2, <2>3, HeardIsKept DEF PathInv, VisibleInv
  <2> QED BY <1>0, <2>1, <2>2, <2>4, IdleIsSound, QuietPath DEF PathInv, CountsInv
<1> QED BY <1>1, <1>2, <1>3 DEF Next

\* What every handler may still do, whatever requests, replays, reconciliations and failures
\* came before.
THEOREM PathInvariant == Spec => []PathInv
BY InitPath, NextPath, PTL DEF Spec

\* Once a request that named a contact has been answered and nothing failed, the visit has a
\* lead or the caller was refused, and refused is only who comes to a visit that has a
\* conversion or to a partner's test (conversions.create, storeLead, leads.intake).
THEOREM HeardContacts == Spec => []NothingIsLost
<1>1. PathInv => NothingIsLost
  <2> SUFFICES ASSUME PathInv PROVE NothingIsLost OBVIOUS
  <2>1. ASSUME faults = 0, NEW p \in heard \ refused, lead[p[1]].contact = 0
        PROVE  \E t \in Tasks : task[t].pc # "idle" /\ <<task[t].v, task[t].req>> = p
    <3>1. Awaited(p) BY <2>1 DEF PathInv, HeardInv, LedVisits
    <3>2. p = <<p[1], p[2]>> BY <2>1 DEF PathInv, CountsInv
    <3> QED BY <3>1, <3>2 DEF Awaited, Carries
  <2> QED BY <2>1 DEF PathInv, RefusedInv, NothingIsLost
<1> QED BY <1>1, PathInvariant, PTL

\* A handler that has a step to take: every other one stays where it is.
LEMMA OneMoves ==
    ASSUME VisibleInv, NEW t \in Tasks, NEW u \in Tasks, NEW r, Becomes(u, r), task'[t] # task[t]
    PROVE  u = t
BY DEF VisibleInv, TasksInv, Becomes

LEMMA WorkMovesOne ==
    ASSUME VisibleInv, NEW t \in Tasks, NEW u \in Tasks, Work(u) \/ Fails(u), task'[t] # task[t]
    PROVE  u = t
<1>1. \E r : Becomes(u, r)
  <2>1. CASE Create(u)
    BY <2>1 DEF Create, CreateBegin, CreateLook, CreateCap, CreateInsert, CreateConflict, StoreLead,
       StoreWrite, Goto, Refuse, Done
  <2>2. CASE Partner(u)
    BY <2>2 DEF Partner, PartnerBegin, PartnerVisit, PartnerCheck, Goto, Refuse, Done
  <2>3. CASE Reconcile(u) BY <2>3 DEF Reconcile, ReconcileBegin, ReconcileStep
  <2>4. CASE Fails(u) BY <2>4 DEF Fails, Done
  <2> QED BY <2>1, <2>2, <2>3, <2>4 DEF Work
<1> QED BY <1>1, OneMoves

\* A request that comes once the visit holds maxConversionsPerClick conversions stores none,
\* whichever handlers run beside it (conversions.create).
THEOREM CapPerClick == Spec => CapHolds
<1>1. ASSUME PathInv, [Next]_vars
      PROVE  [\A t \in Tasks : /\ task[t].job \in {"browser", "buyer"} /\ task[t].late
                               /\ task[t].ev \notin Outcomes /\ task'[t] # task[t]
                              => UNCHANGED convs]_vars
  <2> SUFFICES ASSUME NEW t \in Tasks, task[t].job \in {"browser", "buyer"}, task[t].late,
                      task[t].ev \notin Outcomes, task'[t] # task[t]
               PROVE  UNCHANGED convs
    OBVIOUS
  <2>1. task[t].pc \in {"look", "cap", "store", "lead"} BY <1>1 DEF PathInv, SoundInv, Sound
  <2>2. Work(t) \/ Fails(t)
    <3>1. task' # task OBVIOUS
    <3>2. PICK u \in Tasks : Work(u) \/ Fails(u) BY <1>1, <3>1 DEF vars, Next
    <3> QED BY <1>1, <3>2, WorkMovesOne DEF PathInv
  <2>3. ~CreateInsert(t) BY <2>1 DEF CreateInsert, At
  <2>4. CASE Create(t)
    BY <2>3, <2>4 DEF Create, CreateBegin, CreateLook, CreateCap, CreateConflict, StoreLead, StoreWrite, tables
  <2>5. CASE Partner(t) BY <2>5 DEF Partner, PartnerBegin, PartnerVisit, PartnerCheck, tables
  <2>6. CASE Reconcile(t) BY <2>6 DEF Reconcile, ReconcileBegin, ReconcileStep, tables
  <2>7. CASE Fails(t) BY <2>7 DEF Fails, tables
  <2> QED BY <2>2, <2>4, <2>5, <2>6, <2>7 DEF Work
<1> QED BY <1>1, PathInvariant, PTL DEF Spec, CapHolds

\* A partner's replay, once its lead is stored, changes neither a lead nor a conversion of it
\* (leads.intake: "already there").
THEOREM Replay == Spec => ReplayChangesNothing
<1>1. ASSUME PathInv, [Next]_vars
      PROVE  [\A t \in Tasks : task[t].job = "partner" /\ task[t].late /\ task'[t] # task[t] =>
                 UNCHANGED <<convs, lead>>]_vars
  <2> SUFFICES ASSUME NEW t \in Tasks, task[t].job = "partner", task[t].late, task'[t] # task[t]
               PROVE  UNCHANGED <<convs, lead>>
    OBVIOUS
  <2>1. task[t].pc \in {"visit", "check"} BY <1>1 DEF PathInv, SoundInv, Sound
  <2>2. Work(t) \/ Fails(t)
    <3>1. task' # task OBVIOUS
    <3>2. PICK u \in Tasks : Work(u) \/ Fails(u) BY <1>1, <3>1 DEF vars, Next
    <3> QED BY <1>1, <3>2, WorkMovesOne DEF PathInv
  <2>3. CASE Create(t)
    BY <2>1, <2>3 DEF Create, CreateBegin, CreateLook, CreateCap, CreateInsert, CreateConflict,
       StoreLead, StoreWrite, At, Free
  <2>4. CASE Partner(t) BY <2>4 DEF Partner, PartnerBegin, PartnerVisit, PartnerCheck, tables
  <2>5. CASE Reconcile(t) BY <2>1, <2>5 DEF Reconcile, ReconcileBegin, ReconcileStep, At, Free, tables
  <2>6. CASE Fails(t) BY <2>6 DEF Fails, tables
  <2> QED BY <2>2, <2>3, <2>4, <2>5, <2>6 DEF Work
<1> QED BY <1>1, PathInvariant, PTL DEF Spec, ReplayChangesNothing
=============================================================================
