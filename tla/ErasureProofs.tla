--------------------------- MODULE ErasureProofs ---------------------------
(***************************************************************************)
(* Theorems about Erasure, for any number of visits, event types, persons,  *)
(* requests, jobs and failures.                                             *)
(***************************************************************************)
EXTENDS Erasure, TLAPS

USE ErasureAssumption

-----------------------------------------------------------------------------
(* Type correctness: the tables by the statements, the memory of a handler  *)
(* by the record each step leaves in it.                                    *)

LEMMA IdleType == Idle \in TaskRecord
<1>1. (CHOOSE v \in Visits : TRUE) \in Visits
  OBVIOUS
<1>2. (CHOOSE e \in Events : TRUE) \in Events
  OBVIOUS
<1>3. QED
  BY <1>1, <1>2 DEF Idle, TaskRecord, Job, PC, Mode, Parts

LEMMA BecomesType ==
    ASSUME TypeOK, NEW t \in Tasks, NEW r \in TaskRecord, Becomes(t, r)
    PROVE  task' \in [Tasks -> TaskRecord]
  BY DEF TypeOK, Becomes

LEMMA GotoType ==
    ASSUME TypeOK, NEW t \in Tasks, NEW p \in PC, Goto(t, p)
    PROVE  task' \in [Tasks -> TaskRecord]
<1>1. task[t] \in TaskRecord
  BY DEF TypeOK
<1>2. [task[t] EXCEPT !.pc = p] \in TaskRecord
  BY <1>1 DEF TaskRecord
<1>3. QED
  BY <1>2, BecomesType DEF Goto

LEMMA DoneType ==
    ASSUME TypeOK, NEW t \in Tasks, Done(t)
    PROVE  task' \in [Tasks -> TaskRecord]
  BY IdleType, BecomesType DEF Done

LEMMA ScrubThenType ==
    ASSUME TypeOK, NEW t \in Tasks, NEW r \in TaskRecord, ScrubThen(t, r)
    PROVE  task' \in [Tasks -> TaskRecord]
<1>1. [r EXCEPT !.pc = "scrubRead"] \in TaskRecord
  BY DEF TaskRecord, PC
<1>2. QED
  BY <1>1, BecomesType DEF ScrubThen

LEMMA TypeInit == Init => TypeOK
  BY IdleType DEF Init, TypeOK, Parts, Keys

LEMMA ConvOfType == 
    ASSUME TypeOK, NEW S
    PROVE  ConvOf(S) \subseteq Keys
  BY DEF TypeOK, ConvOf

LEMMA CreateOrFillType ==
    ASSUME TypeOK, NEW v \in Visits, NEW data \in SUBSET Parts, CreateOrFillLead(v, data)
    PROVE  leadRow' \subseteq Visits /\ leadPii' \in [Visits -> SUBSET Parts]
<1>1. CASE v \notin leadRow
  BY <1>1 DEF TypeOK, CreateOrFillLead
<1>2. CASE v \in leadRow
  BY <1>2 DEF TypeOK, CreateOrFillLead, FillLead
<1>3. QED
  BY <1>1, <1>2

LEMMA TombstoneType ==
    ASSUME TypeOK, NEW S \in SUBSET Visits, Tombstone(S)
    PROVE  /\ leadRow' \subseteq Visits /\ erased' \subseteq Visits /\ purged' \subseteq Visits
           /\ leadScrubbed' \subseteq Visits
           /\ leadPii' \in [Visits -> SUBSET Parts]
  BY DEF TypeOK, Tombstone

LEMMA ScrubType ==
    ASSUME TypeOK, NEW t \in Tasks, Scrub(t)
    PROVE  TypeOK'
<1> USE DEF clickVars, convVars, leadVars, history
<1>0. task[t] \in TaskRecord
  BY DEF TypeOK
<1>1. CASE ScrubRead(t)
  <2> DEFINE read == ConvOf(task[t].visits)
             snap == [k \in Keys |-> IF k \in read THEN convPii[k] ELSE {}]
  <2>1. read \in SUBSET Keys /\ snap \in [Keys -> SUBSET Parts]
    BY ConvOfType DEF TypeOK
  <2>2. [task[t] EXCEPT !.pc = "scrubRewrite", !.read = read, !.snap = snap] \in TaskRecord
    BY <1>0, <2>1 DEF TaskRecord, PC
  <2>3. task' \in [Tasks -> TaskRecord]
    BY <1>1, <2>2, BecomesType DEF ScrubRead
  <2>4. QED
    BY <1>1, <2>3 DEF ScrubRead, TypeOK
<1>2. CASE ScrubRewrite(t)
  <2>1. task' \in [Tasks -> TaskRecord]
    BY <1>2, GotoType DEF ScrubRewrite, PC
  <2>2. convPii' \in [Keys -> SUBSET Parts]
    BY <1>0, <1>2 DEF ScrubRewrite, Rewritten, Kept, Parts, TypeOK, TaskRecord
  <2>3. QED
    BY <1>2, <2>1, <2>2 DEF ScrubRewrite, TypeOK
<1>3. CASE ScrubSql(t)
  <2>1. task' \in [Tasks -> TaskRecord]
    BY <1>3, GotoType DEF ScrubSql, PC
  <2>2. convPii' \in [Keys -> SUBSET Parts] /\ clickPii' \in [Visits -> SUBSET Parts]
    BY <1>3 DEF ScrubSql, Kept, TypeOK
  <2>3. QED
    BY <1>3, <2>1, <2>2 DEF ScrubSql, TypeOK
<1>4. CASE ScrubLogs(t)
  <2>1. task' \in [Tasks -> TaskRecord]
    BY <1>4, GotoType DEF ScrubLogs, PC
  <2>2. QED
    BY <1>4, <2>1 DEF ScrubLogs, TypeOK
<1>5. CASE ScrubMark(t)
  <2> DEFINE next == AfterScrub(task[t].job)
             r == IF next = "idle" THEN Idle ELSE [task[t] EXCEPT !.pc = next]
  <2>1. next \in PC
    BY DEF AfterScrub, PC
  <2>2. r \in TaskRecord
    BY <1>0, <2>1, IdleType DEF TaskRecord
  <2>3. task' \in [Tasks -> TaskRecord]
    BY <1>5, <2>2, BecomesType DEF ScrubMark
  <2>4. QED
    BY <1>0, <1>5, <2>3 DEF ScrubMark, TypeOK, TaskRecord
<1>6. QED
  BY <1>1, <1>2, <1>3, <1>4, <1>5 DEF Scrub

LEMMA CreateType ==
    ASSUME TypeOK, NEW t \in Tasks, Create(t)
    PROVE  TypeOK'
<1> USE DEF clickVars, convVars, leadVars, history
<1>0. task[t] \in TaskRecord
  BY DEF TypeOK
<1>1. CASE CreateBegin(t)
  <2>1. PICK v \in Visits, e \in Events, p \in Payloads :
          LET exists == <<v, e>> \in convRow IN
          Becomes(t, [Idle EXCEPT
                    !.job = "create", !.v = v, !.ev = e, !.data = p,
                    !.pc = IF exists THEN "store" ELSE "insert",
                    !.gone = IF exists THEN {} ELSE {v} \cap erased])
    BY <1>1 DEF CreateBegin
  <2> DEFINE exists == <<v, e>> \in convRow
             r == [Idle EXCEPT
                    !.job = "create", !.v = v, !.ev = e, !.data = p,
                    !.pc = IF exists THEN "store" ELSE "insert",
                    !.gone = IF exists THEN {} ELSE {v} \cap erased]
  <2>2. r \in TaskRecord
    BY ZenonT(40), IdleType DEF TypeOK, TaskRecord, Job, PC
  <2>3. task' \in [Tasks -> TaskRecord]
    BY <2>1, <2>2, BecomesType
  <2>4. QED
    BY <1>1, <2>3 DEF CreateBegin, TypeOK
<1>2. CASE CreateInsert(t)
  <2>1. task' \in [Tasks -> TaskRecord]
    BY <1>2, GotoType, DoneType DEF CreateInsert, PC
  <2>2. QED
    BY <1>0, <1>2, <2>1 DEF CreateInsert, Key, Keys, TypeOK, TaskRecord
<1>3. CASE CreateConflict(t)
  BY <1>3, DoneType DEF CreateConflict, TypeOK
<1>4. CASE CreateRecheck(t)
  <2>1. [task[t] EXCEPT !.visits = {task[t].v}, !.mode = "erased"] \in TaskRecord
    BY <1>0 DEF TaskRecord, Mode
  <2>2. task' \in [Tasks -> TaskRecord]
    BY <1>4, <2>1, ScrubThenType, GotoType DEF CreateRecheck, PC
  <2>3. QED
    BY <1>4, <2>2 DEF CreateRecheck, TypeOK
<1>5. CASE StoreStep(t)
  <2>1. task' \in [Tasks -> TaskRecord]
    BY <1>5, DoneType DEF StoreStep
  <2>2. QED
    BY <1>0, <1>5, <2>1 DEF StoreStep, FillLead, TypeOK, TaskRecord
<1>6. CASE StoreRead(t)
  <2> DEFINE earlier == UNION {convPii[k] : k \in ConvOf({task[t].v})}
  <2>1. earlier \in SUBSET Parts
    BY ConvOfType DEF TypeOK
  <2>2. [task[t] EXCEPT !.pc = "lead", !.data = @ \cup earlier] \in TaskRecord
    BY <1>0, <2>1 DEF TaskRecord, PC
  <2>3. task' \in [Tasks -> TaskRecord]
    BY <1>6, <2>2, BecomesType DEF StoreRead
  <2>4. QED
    BY <1>6, <2>3 DEF StoreRead, TypeOK
<1>7. CASE StoreLead(t)
  <2>1. task' \in [Tasks -> TaskRecord]
    BY <1>7, DoneType DEF StoreLead
  <2>2. task[t].v \in Visits /\ task[t].data \in SUBSET Parts
    BY <1>0 DEF TaskRecord
  <2>3. leadRow' \subseteq Visits /\ leadPii' \in [Visits -> SUBSET Parts]
    BY <1>7, <2>2, CreateOrFillType DEF StoreLead
  <2>4. QED
    BY <1>7, <2>1, <2>3 DEF StoreLead, CreateOrFillLead, FillLead, TypeOK
<1>8. QED
  BY <1>1, <1>2, <1>3, <1>4, <1>5, <1>6, <1>7 DEF Create

LEMMA EraseType ==
    ASSUME TypeOK, NEW t \in Tasks, Erase(t)
    PROVE  TypeOK'
<1> USE DEF clickVars, convVars, leadVars, history
<1>0. task[t] \in TaskRecord
  BY DEF TypeOK
<1>v. task[t].v \in Visits /\ task[t].todo \in SUBSET Visits
  BY <1>0 DEF TaskRecord
<1>1. CASE EraseBegin(t)
  <2> DEFINE Entry(v) == [Idle EXCEPT
               !.v = v, !.pc = "find",
               !.job = IF v \in leadRow THEN "delete" ELSE "visit",
               !.data = (IF v \in leadRow THEN leadPii[v] ELSE clickPii[v]) \cap {"contact"}]
  <2>1. PICK v \in Visits :
          /\ Becomes(t, Entry(v))
          /\ owed' = owed \cup (IF ShowsContact(v)
                               THEN {<<v, w>> : w \in {x \in Visits : ShowsContact(x) /\ SamePerson(v, x)}}
                               ELSE {})
    BY <1>1, Zenon DEF EraseBegin
  <2> DEFINE known == (IF v \in leadRow THEN leadPii[v] ELSE clickPii[v]) \cap {"contact"}
             job == IF v \in leadRow THEN "delete" ELSE "visit"
  <2>a. known \in SUBSET Parts /\ job \in Job
    BY DEF Parts, Job
  <2> HIDE DEF known, job
  <2>b. [Idle EXCEPT !.v = v, !.pc = "find", !.job = job, !.data = known] \in TaskRecord
    BY <2>a, IdleType DEF TaskRecord, PC
  <2>2. Entry(v) \in TaskRecord
    BY <2>b DEF known, job
  <2>3. task' \in [Tasks -> TaskRecord]
    BY <2>1, <2>2, BecomesType
  <2>4. owed' \subseteq Visits \X Visits
    BY <2>1 DEF TypeOK
  <2>5. QED
    BY <1>1, <2>3, <2>4 DEF EraseBegin, TypeOK
<1>2. CASE EraseFind(t)
  <2> DEFINE visits == PersonVisits(task[t].v, Known(t))
             others == Candidates(task[t].v, Known(t)) \ visits
  <2>1. visits \in SUBSET Visits /\ others \in SUBSET Visits
    BY DEF PersonVisits, Candidates
  <2>2. [task[t] EXCEPT !.pc = "remember", !.visits = visits, !.todo = visits,
                        !.skipped = others] \in TaskRecord
    BY <1>0, <2>1 DEF TaskRecord, PC
  <2>3. task' \in [Tasks -> TaskRecord]
    BY <1>2, <2>2, BecomesType DEF EraseFind
  <2>4. QED
    BY <1>2, <2>3 DEF EraseFind, TypeOK
<1>3. CASE EraseRemember(t)
  <2>1. task' \in [Tasks -> TaskRecord]
    BY <1>3, GotoType DEF EraseRemember, PC
  <2>2. suppressed' \subseteq {Person[v] : v \in Visits}
    BY <1>0, <1>3 DEF EraseRemember, TaskRecord, TypeOK
  <2>3. QED
    BY <1>3, <2>1, <2>2 DEF EraseRemember, TypeOK
<1>4. CASE EraseStone(t)
  <2>1. task' \in [Tasks -> TaskRecord]
    BY <1>4, GotoType DEF EraseStone, PC
  <2>2. QED
    BY <1>v, <1>4, <2>1, TombstoneType DEF EraseStone, TypeOK
<1>5. CASE EraseStoneRaced(t)
  <2> DEFINE r == [Idle EXCEPT !.v = task[t].v, !.pc = "find", !.job = "delete",
                               !.data = leadPii[task[t].v] \cap {"contact"}]
  <2>1. r \in TaskRecord
    BY <1>v, IdleType DEF TaskRecord, Job, PC, Parts
  <2>2. task' \in [Tasks -> TaskRecord]
    BY <1>5, <2>1, BecomesType DEF EraseStoneRaced
  <2>3. QED
    BY <1>5, <2>2 DEF EraseStoneRaced, TypeOK
<1>6. CASE EraseTomb(t)
  <2>1. PICK w \in task[t].todo :
          Tombstone({w}) /\ Becomes(t, [task[t] EXCEPT !.todo = @ \ {w}])
    BY <1>6 DEF EraseTomb
  <2>2. [task[t] EXCEPT !.todo = @ \ {w}] \in TaskRecord
    BY <1>0 DEF TaskRecord
  <2>3. task' \in [Tasks -> TaskRecord]
    BY <2>1, <2>2, BecomesType
  <2>4. {w} \in SUBSET Visits
    BY <1>v
  <2>5. QED
    BY <1>6, <2>1, <2>3, <2>4, TombstoneType DEF EraseTomb, TypeOK
<1>7. CASE EraseThrow(t)
  BY <1>7, DoneType DEF EraseThrow, TypeOK
<1>8. CASE EraseOwnRow(t)
  <2>1. [task[t] EXCEPT !.mode = "erased"] \in TaskRecord
    BY <1>0 DEF TaskRecord, Mode
  <2>2. task' \in [Tasks -> TaskRecord]
    BY <1>8, <2>1, ScrubThenType DEF EraseOwnRow
  <2>3. CASE task[t].job = "delete"
    BY <1>v, <1>8, <2>2, <2>3, TombstoneType DEF EraseOwnRow, TypeOK
  <2>4. CASE task[t].job # "delete"
    BY <1>8, <2>2, <2>4 DEF EraseOwnRow, TypeOK
  <2>5. QED
    BY <2>3, <2>4
<1>9. CASE EraseSeal(t)
  <2>1. task' \in [Tasks -> TaskRecord]
    BY <1>9, DoneType DEF EraseSeal
  <2>2. QED
    BY <1>v, <1>9, <2>1 DEF EraseSeal, TypeOK
<1>10. QED
  BY <1>1, <1>2, <1>3, <1>4, <1>5, <1>6, <1>7, <1>8, <1>9 DEF Erase

LEMMA JobsType ==
    ASSUME TypeOK, NEW t \in Tasks, Resume(t) \/ Reconcile(t) \/ Deliver(t)
    PROVE  TypeOK'
<1> USE DEF clickVars, convVars, leadVars, history
<1>0. task[t] \in TaskRecord
  BY DEF TypeOK
<1>v. task[t].v \in Visits /\ task[t].todo \in SUBSET Visits
  BY <1>0 DEF TaskRecord
<1>1. CASE ResumeBegin(t)
  <2> DEFINE pending == (erased \cup purged) \ leadScrubbed
  <2>1. [Idle EXCEPT !.job = "resume", !.pc = "loop", !.todo = pending,
                     !.gone = pending \cap erased] \in TaskRecord
    BY IdleType DEF TypeOK, TaskRecord, Job, PC
  <2>2. task' \in [Tasks -> TaskRecord]
    BY <1>1, <2>1, BecomesType DEF ResumeBegin
  <2>3. QED
    BY <1>1, <2>2 DEF ResumeBegin, TypeOK
<1>2. CASE ResumeStep(t)
  <2> DEFINE One(w) == [task[t] EXCEPT
           !.v = w, !.visits = {w}, !.todo = @ \ {w},
           !.mode = IF w \in task[t].gone THEN "erased" ELSE "purged"]
  <2>1. PICK w \in task[t].todo : ScrubThen(t, One(w))
    BY <1>2 DEF ResumeStep
  <2>2. w \in Visits
    BY <1>v
  <2>3. One(w) \in TaskRecord
    BY <1>0, <2>2 DEF TaskRecord, Mode
  <2>4. task' \in [Tasks -> TaskRecord]
    BY <2>1, <2>3, ScrubThenType
  <2>5. QED
    BY <1>2, <2>4 DEF ResumeStep, TypeOK
<1>3. CASE ResumeMark(t)
  <2>1. task' \in [Tasks -> TaskRecord]
    BY <1>3, GotoType, DoneType DEF ResumeMark, PC
  <2>2. QED
    BY <1>v, <1>3, <2>1 DEF ResumeMark, TypeOK
<1>4. CASE ReconcileBegin(t)
  <2> DEFINE seen == [v \in Visits |-> UNION {convPii[k] : k \in ConvOf({v})}]
             todo == {k[1] : k \in convRow}
  <2>1. seen \in [Visits -> SUBSET Parts]
    BY ConvOfType DEF TypeOK
  <2>2. todo \in SUBSET Visits
    BY DEF TypeOK, Keys
  <2>3. [Idle EXCEPT !.job = "reconcile", !.pc = "recon", !.todo = todo, !.seen = seen] \in TaskRecord
    BY <2>1, <2>2, IdleType DEF TaskRecord, Job, PC
  <2>4. task' \in [Tasks -> TaskRecord]
    BY <1>4, <2>3, BecomesType DEF ReconcileBegin
  <2>5. QED
    BY <1>4, <2>4 DEF ReconcileBegin, TypeOK
<1>5. CASE ReconcileStep(t)
  <2>1. PICK w \in task[t].todo :
         /\ IF "contact" \in task[t].seen[w]
              THEN CreateOrFillLead(w, task[t].seen[w])
              ELSE UNCHANGED leadVars
         /\ IF task[t].todo = {w}
              THEN Done(t)
              ELSE Becomes(t, [task[t] EXCEPT !.todo = @ \ {w}])
    BY <1>5 DEF ReconcileStep
  <2>2. [task[t] EXCEPT !.todo = @ \ {w}] \in TaskRecord
    BY <1>0 DEF TaskRecord
  <2>3. task' \in [Tasks -> TaskRecord]
    BY <2>1, <2>2, BecomesType, DoneType
  <2>4. w \in Visits /\ task[t].seen[w] \in SUBSET Parts
    BY <1>0, <1>v DEF TaskRecord
  <2>5. CASE "contact" \in task[t].seen[w]
    BY <1>5, <2>1, <2>3, <2>4, <2>5, CreateOrFillType
    DEF ReconcileStep, CreateOrFillLead, FillLead, TypeOK
  <2>6. CASE "contact" \notin task[t].seen[w]
    BY <1>5, <2>1, <2>3, <2>6 DEF ReconcileStep, TypeOK
  <2>7. QED
    BY <2>5, <2>6
<1>6. CASE DeliverBegin(t)
  <2> DEFINE Sending(k) == [Idle EXCEPT !.job = "deliver", !.pc = "log", !.v = k[1], !.ev = k[2],
                                        !.data = convPii[k]]
  <2>1. PICK k \in convRow : Becomes(t, Sending(k))
    BY <1>6 DEF DeliverBegin
  <2>2. k[1] \in Visits /\ k[2] \in Events /\ convPii[k] \in SUBSET Parts
    BY DEF TypeOK, Keys
  <2>3. Sending(k) \in TaskRecord
    BY <2>2, IdleType DEF TaskRecord, Job, PC
  <2>4. task' \in [Tasks -> TaskRecord]
    BY <2>1, <2>3, BecomesType
  <2>5. QED
    BY <1>6, <2>4 DEF DeliverBegin, TypeOK
<1>7. CASE DeliverLog(t)
  <2>1. task' \in [Tasks -> TaskRecord]
    BY <1>7, DoneType DEF DeliverLog
  <2>2. logPii' \in [Keys -> SUBSET Parts]
    BY <1>0, <1>7 DEF DeliverLog, TypeOK, TaskRecord
  <2>3. QED
    BY <1>7, <2>1, <2>2 DEF DeliverLog, TypeOK
<1>8. QED
  BY <1>1, <1>2, <1>3, <1>4, <1>5, <1>6, <1>7 DEF Resume, Reconcile, Deliver

LEMMA PurgeType ==
    ASSUME TypeOK, NEW t \in Tasks, Purge(t)
    PROVE  TypeOK'
<1> USE DEF clickVars, convVars, leadVars, history
<1>0. task[t] \in TaskRecord
  BY DEF TypeOK
<1>v. /\ task[t].v \in Visits /\ task[t].visits \in SUBSET Visits
       /\ task[t].seen \in [Visits -> SUBSET Parts]
  BY <1>0 DEF TaskRecord
<1>1. CASE PurgeBegin(t)
  <2> DEFINE due == (Old \cap leadRow) \ (purged \cup erased)
             pc == IF due = {} THEN "sweep" ELSE "answers"
             r == [Idle EXCEPT !.job = "purge", !.visits = due, !.mode = "purged", !.seen = leadPii,
                               !.pc = pc]
  <2>1. due \in SUBSET Visits /\ leadPii \in [Visits -> SUBSET Parts] /\ pc \in PC
    BY DEF TypeOK, PC
  <2>2. r \in TaskRecord
    BY <2>1, IdleType DEF TaskRecord, Job, Mode
  <2>3. task' \in [Tasks -> TaskRecord]
    BY <1>1, <2>2, BecomesType DEF PurgeBegin
  <2>4. QED
    BY <1>1, <2>3 DEF PurgeBegin, TypeOK
<1>2. CASE PurgeAnswers(t)
  <2>1. task' \in [Tasks -> TaskRecord]
    BY <1>2, GotoType DEF PurgeAnswers, PC
  <2>2. leadPii' \in [Visits -> SUBSET Parts]
    BY <1>v, <1>2 DEF PurgeAnswers, TypeOK, Parts
  <2>3. QED
    BY <1>2, <2>1, <2>2 DEF PurgeAnswers, TypeOK
<1>3. CASE PurgeRows(t)
  <2>1. task' \in [Tasks -> TaskRecord]
    BY <1>0, <1>3, ScrubThenType DEF PurgeRows
  <2>2. leadPii' \in [Visits -> SUBSET Parts] /\ purged' \subseteq Visits
    BY <1>v, <1>3 DEF PurgeRows, TypeOK
  <2>3. QED
    BY <1>3, <2>1, <2>2 DEF PurgeRows, TypeOK
<1>4. CASE PurgeMark(t)
  <2>1. task' \in [Tasks -> TaskRecord]
    BY <1>4, GotoType DEF PurgeMark, PC
  <2>2. QED
    BY <1>v, <1>4, <2>1 DEF PurgeMark, TypeOK
<1>5. CASE PurgeSweep(t)
  <2> DEFINE Clean(due) == [Idle EXCEPT !.job = "sweep", !.visits = due, !.mode = "purged"]
  <2>1. PICK late \in SUBSET {k[1] : k \in ConvOf(Old) \ convScrubbed} :
          LET due == (Old \ clickScrubbed) \cup late IN
          IF due = {} THEN Done(t) ELSE ScrubThen(t, Clean(due))
    BY <1>5 DEF PurgeSweep, PurgeSweepOn, Due, Unmarked
  <2> DEFINE due == (Old \ clickScrubbed) \cup late
  <2>2. due \in SUBSET Visits
    BY ConvOfType DEF Keys
  <2>3. Clean(due) \in TaskRecord
    BY <2>2, IdleType DEF TaskRecord, Job, Mode
  <2>4. task' \in [Tasks -> TaskRecord]
    BY <2>1, <2>3, DoneType, ScrubThenType
  <2>5. QED
    BY <1>5, <2>4 DEF PurgeSweep, PurgeSweepOn, Due, Unmarked, TypeOK
<1>6. QED
  BY <1>1, <1>2, <1>3, <1>4, <1>5 DEF Purge

LEMMA FaultType ==
    ASSUME TypeOK, NEW t \in Tasks, Fault(t)
    PROVE  TypeOK'
<1> USE DEF clickVars, convVars, leadVars, history
<1>0. task[t] \in TaskRecord
  BY DEF TypeOK
<1>f. Fails(t)
  BY DEF Fault, Crash, Swallow, TombFails
<1>v. faults' \in Nat
  BY <1>f DEF Fails, TypeOK
<1>1. CASE Crash(t)
  BY <1>1, <1>v, DoneType DEF Crash, TypeOK
<1>2. CASE Swallow(t)
  <2>1. [task[t] EXCEPT !.gone = {}] \in TaskRecord
    BY <1>0 DEF TaskRecord
  <2>2. [task[t] EXCEPT !.pc = "remember", !.visits = {task[t].v}, !.todo = {task[t].v},
                        !.skipped = {task[t].v}] \in TaskRecord
    BY <1>0 DEF TaskRecord, PC
  <2>3. task' \in [Tasks -> TaskRecord]
    BY <1>2, <2>1, <2>2, GotoType, BecomesType DEF Swallow, PC
  <2>4. QED
    BY <1>2, <1>v, <2>3 DEF Swallow, TypeOK
<1>3. CASE TombFails(t)
  <2> DEFINE Without(w) == [task[t] EXCEPT !.todo = @ \ {w}, !.failed = TRUE]
  <2>1. PICK w \in task[t].todo : Becomes(t, Without(w))
    BY <1>3 DEF TombFails
  <2>2. Without(w) \in TaskRecord
    BY <1>0 DEF TaskRecord
  <2>3. task' \in [Tasks -> TaskRecord]
    BY <2>1, <2>2, BecomesType
  <2>4. QED
    BY <1>3, <1>v, <2>3 DEF TombFails, TypeOK
<1>4. QED
  BY <1>1, <1>2, <1>3 DEF Fault

\* Every table and every handler's memory keeps its type, whatever runs, races
\* or fails.
THEOREM TypeCorrect == Spec => []TypeOK
<1>1. TypeOK /\ [Next]_vars => TypeOK'
  <2>1. CASE UNCHANGED vars
    BY <2>1 DEF vars, clickVars, convVars, leadVars, history, TypeOK
  <2>2. CASE Next
    <3>1. PICK t \in Tasks : Work(t) \/ Fault(t)
      BY <2>2 DEF Next
    <3>2. QED
      BY <3>1, ScrubType, CreateType, EraseType, JobsType, PurgeType, FaultType DEF Work
  <2>3. QED
    BY <2>1, <2>2
<1>2. QED
  BY TypeInit, <1>1, PTL DEF Spec

-----------------------------------------------------------------------------
(* The leads table.  Whatever the job, a step does one of five things to it. *)

Untouched == UNCHANGED <<leadRow, leadPii, erased, purged>>

Completes == \E v \in Visits, data \in SUBSET Parts : FillLead(v, data)

Stores == \E v \in Visits, data \in SUBSET Parts : "contact" \in data /\ CreateOrFillLead(v, data)

Erases == \E v \in Visits : Tombstone({v})

CleansAnswers ==
    /\ UNCHANGED <<leadRow, erased, purged>>
    /\ \A v \in Visits : "contact" \in leadPii'[v] <=> "contact" \in leadPii[v]

Retains ==
    \E S \in SUBSET (leadRow \ purged) :
        /\ leadPii' = [v \in Visits |-> IF v \in S THEN leadPii[v] \ {"contact"} ELSE leadPii[v]]
        /\ purged' = purged \cup S
        /\ UNCHANGED <<leadRow, erased>>

LeadStep == Untouched \/ Completes \/ Stores \/ Erases \/ CleansAnswers \/ Retains

\* Which of them the step of a handler is.
LEMMA LeadWrites ==
    ASSUME TypeOK, RegisterInv, NEW t \in Tasks, Work(t) \/ Fault(t)
    PROVE  Untouched \/ Completes \/ Stores \/ Erases \/ PurgeAnswers(t) \/ PurgeRows(t)
<1>0. task[t] \in TaskRecord
  BY DEF TypeOK
<1>1. CASE Scrub(t)
  BY <1>1 DEF Scrub, ScrubRead, ScrubRewrite, ScrubSql, ScrubLogs, ScrubMark, leadVars, Untouched
<1>2. CASE Create(t)
  <2>1. task[t].v \in Visits /\ task[t].data \in SUBSET Parts
    BY <1>0 DEF TaskRecord
  <2>2. CASE StoreStep(t)
    BY <2>1, <2>2 DEF StoreStep, Completes
  <2>3. CASE StoreLead(t)
    <3>1. "contact" \in task[t].data
      BY <2>3 DEF StoreLead, RegisterInv, RecordInv, At
    <3>2. QED
      BY <2>1, <2>3, <3>1 DEF StoreLead, Stores
  <2>4. CASE ~StoreStep(t) /\ ~StoreLead(t)
    BY <1>2, <2>4 DEF Create, CreateBegin, CreateInsert, CreateConflict, CreateRecheck, StoreRead,
                      leadVars, Untouched
  <2>5. QED
    BY <2>2, <2>3, <2>4
<1>3. CASE Erase(t)
  <2>1. task[t].v \in Visits /\ task[t].todo \in SUBSET Visits
    BY <1>0 DEF TaskRecord
  <2>2. CASE EraseStone(t)
    BY <2>1, <2>2 DEF EraseStone, Erases
  <2>3. CASE EraseTomb(t)
    BY <2>1, <2>3 DEF EraseTomb, Erases
  <2>4. CASE EraseOwnRow(t)
    BY <2>1, <2>4 DEF EraseOwnRow, Erases, Untouched, leadVars
  <2>5. CASE EraseSeal(t)
    BY <2>5 DEF EraseSeal, Untouched
  <2>6. CASE ~EraseStone(t) /\ ~EraseTomb(t) /\ ~EraseOwnRow(t) /\ ~EraseSeal(t)
    BY <1>3, <2>6 DEF Erase, EraseBegin, EraseFind, EraseRemember, EraseStoneRaced, EraseThrow,
                      leadVars, Untouched
  <2>7. QED
    BY <2>2, <2>3, <2>4, <2>5, <2>6
<1>4. CASE Resume(t)
  BY <1>4 DEF Resume, ResumeBegin, ResumeStep, ResumeMark, leadVars, Untouched
<1>5. CASE Reconcile(t)
  <2>1. CASE ReconcileBegin(t)
    BY <2>1 DEF ReconcileBegin, leadVars, Untouched
  <2>2. CASE ReconcileStep(t)
    <3>1. PICK w \in task[t].todo :
            IF "contact" \in task[t].seen[w]
              THEN CreateOrFillLead(w, task[t].seen[w])
              ELSE UNCHANGED leadVars
      BY <2>2 DEF ReconcileStep
    <3>2. w \in Visits /\ task[t].seen[w] \in SUBSET Parts
      BY <1>0 DEF TaskRecord
    <3>3. QED
      BY <3>1, <3>2 DEF Stores, Untouched, leadVars
  <2>3. QED
    BY <1>5, <2>1, <2>2 DEF Reconcile
<1>6. CASE Purge(t)
  <2>1. CASE PurgeMark(t)
    BY <2>1 DEF PurgeMark, Untouched
  <2>2. CASE PurgeBegin(t) \/ PurgeSweep(t)
    BY <2>2 DEF PurgeBegin, PurgeSweep, PurgeSweepOn, Due, Unmarked, leadVars, Untouched
  <2>3. QED
    BY <1>6, <2>1, <2>2 DEF Purge
<1>7. CASE Deliver(t)
  BY <1>7 DEF Deliver, DeliverBegin, DeliverLog, leadVars, Untouched
<1>8. CASE Fault(t)
  BY <1>8 DEF Fault, Crash, Swallow, TombFails, leadVars, Untouched
<1>9. QED
  BY <1>1, <1>2, <1>3, <1>4, <1>5, <1>6, <1>7, <1>8 DEF Work

LEMMA LeadSteps ==
    ASSUME TypeOK, RegisterInv, NEW t \in Tasks, Work(t) \/ Fault(t)
    PROVE  LeadStep
<1> USE DEF LeadStep
<1>1. /\ task[t].visits \in SUBSET Visits
      /\ task[t].seen \in [Visits -> SUBSET Parts]
  BY DEF TypeOK, TaskRecord
<1>2. CASE PurgeAnswers(t)
  BY <1>1, <1>2 DEF PurgeAnswers, CleansAnswers
<1>3. CASE PurgeRows(t)
  <2>1. task[t].visits \subseteq leadRow
    BY <1>3 DEF PurgeRows, RegisterInv, RecordInv, At
  <2>2. task[t].visits \ (purged \cup erased) \in SUBSET (leadRow \ purged)
    BY <2>1
  <2>3. QED
    BY <1>3, <2>2 DEF PurgeRows, Retains
<1>4. QED
  BY <1>2, <1>3, LeadWrites

(* The abstract register takes a step, or none, for each of the five.        *)
RegisterStep == [Register!Next]_<<RowState, Shown>>

LEMMA LeadStepKeeps ==
    ASSUME TypeOK, LeadInv, LeadStep
    PROVE  LeadInv' /\ leadRow \subseteq leadRow' /\ RegisterStep
<1> USE DEF LeadInv
<1>1. /\ leadPii \in [Visits -> SUBSET Parts] /\ leadRow \subseteq Visits
      /\ purged \subseteq Visits /\ erased \subseteq Visits
  BY DEF TypeOK
<1>s. Shown = leadRow \ purged
  BY <1>1 DEF Shown, ShowsContact
<1>2. ASSUME LeadInv', erased' = erased, purged' = purged, leadRow' = leadRow
      PROVE  RegisterStep
  <2>1. Shown' = leadRow' \ purged'
    BY <1>2, <1>1 DEF Shown, ShowsContact
  <2>2. RowState' = RowState
    BY <1>2 DEF RowState
  <2>3. QED
    BY <1>2, <1>s, <2>1, <2>2 DEF RegisterStep
<1>3. CASE Untouched
  BY <1>2, <1>3 DEF Untouched
<1>4. CASE Completes
  <2>1. PICK v \in Visits, data \in SUBSET Parts : FillLead(v, data)
    BY <1>4 DEF Completes
  <2>2. LeadInv' /\ erased' = erased /\ purged' = purged /\ leadRow' = leadRow
    BY <1>1, <2>1 DEF FillLead
  <2>3. QED
    BY <1>2, <2>2
<1>5. CASE Stores
  <2>1. PICK v \in Visits, data \in SUBSET Parts : "contact" \in data /\ CreateOrFillLead(v, data)
    BY <1>5 DEF Stores
  <2>2. CASE v \in leadRow
    <3>1. LeadInv' /\ erased' = erased /\ purged' = purged /\ leadRow' = leadRow
      BY <1>1, <2>1, <2>2 DEF CreateOrFillLead, FillLead
    <3>2. QED
      BY <1>2, <3>1
  <2>3. CASE v \notin leadRow
    <3>1. /\ leadRow' = leadRow \cup {v} /\ erased' = erased /\ purged' = purged
          /\ leadPii' = [leadPii EXCEPT ![v] = data]
      BY <2>1, <2>3 DEF CreateOrFillLead
    <3>2. LeadInv'
      BY <1>1, <2>1, <2>3, <3>1
    <3>3. Shown' = Shown \cup {v}
      BY <1>1, <1>s, <2>3, <3>1, <3>2 DEF Shown, ShowsContact
    <3>4. RowState[v] = "none" /\ RowState' = [RowState EXCEPT ![v] = "live"]
      BY <2>3, <3>1 DEF RowState
    <3>5. Register!Store(v)
      BY <3>3, <3>4 DEF Register!Store
    <3>6. QED
      BY <3>1, <3>2, <3>5 DEF RegisterStep, Register!Next
  <2>4. QED
    BY <2>2, <2>3
<1>6. CASE Erases
  <2>1. PICK v \in Visits : Tombstone({v})
    BY <1>6 DEF Erases
  <2>2. /\ leadRow' = leadRow \cup {v} /\ erased' = erased \cup {v} /\ purged' = purged \cup {v}
        /\ leadPii' = [w \in Visits |-> IF w \in {v} THEN {} ELSE leadPii[w]]
    BY <2>1 DEF Tombstone
  <2>3. LeadInv'
    BY <1>1, <2>2
  <2>4. Shown' = Shown \ {v}
    BY <1>1, <1>s, <2>2, <2>3 DEF Shown, ShowsContact
  <2>5. RowState' = [RowState EXCEPT ![v] = "erased"]
    BY <2>2 DEF RowState
  <2>6. Register!Forget(v)
    BY <2>4, <2>5 DEF Register!Forget
  <2>7. QED
    BY <2>2, <2>3, <2>6 DEF RegisterStep, Register!Next
<1>7. CASE CleansAnswers
  <2>1. LeadInv' /\ erased' = erased /\ purged' = purged /\ leadRow' = leadRow
    BY <1>7 DEF CleansAnswers
  <2>2. QED
    BY <1>2, <2>1
<1>8. CASE Retains
  <2>1. PICK S \in SUBSET (leadRow \ purged) :
          /\ leadPii' = [v \in Visits |-> IF v \in S THEN leadPii[v] \ {"contact"} ELSE leadPii[v]]
          /\ purged' = purged \cup S
          /\ leadRow' = leadRow /\ erased' = erased
    BY <1>8 DEF Retains
  <2>2. LeadInv'
    BY <1>1, <2>1
  <2>3. Shown' = Shown \ S
    BY <1>1, <1>s, <2>1, <2>2 DEF Shown, ShowsContact
  <2>4. \A v \in S : RowState[v] = "live"
    BY <1>1, <2>1 DEF RowState
  <2>5. RowState' = [v \in Visits |-> IF v \in S THEN "purged" ELSE RowState[v]]
    BY <1>1, <2>1 DEF RowState
  <2>6. S \in SUBSET Visits
    BY <1>1
  <2>7. Register!Retain(S)
    BY <2>3, <2>4, <2>5 DEF Register!Retain
  <2>8. QED
    BY <2>1, <2>2, <2>6, <2>7 DEF RegisterStep, Register!Next
<1>9. QED
  BY <1>3, <1>4, <1>5, <1>6, <1>7, <1>8 DEF LeadStep

-----------------------------------------------------------------------------
(* The memory of the handlers.                                              *)

LEMMA BecomesKeeps ==
    ASSUME TypeOK, RegisterInv, leadRow \subseteq leadRow', NEW t \in Tasks,
           NEW r, Becomes(t, r), RecordInv(r)
    PROVE  \A u \in Tasks : RecordInv(task[u])'
<1>1. SUFFICES ASSUME NEW u \in Tasks
               PROVE  RecordInv(task[u])'
  OBVIOUS
<1>2. task'[u] = IF u = t THEN r ELSE task[u]
  BY DEF Becomes, TypeOK
<1>3. RecordInv(task[u])
  BY DEF RegisterInv
<1>4. QED
  BY <1>2, <1>3 DEF RecordInv

LEMMA IdleKeeps == RecordInv(Idle)
  BY DEF RecordInv, Idle

LEMMA GotoKeeps ==
    ASSUME TypeOK, RegisterInv, leadRow \subseteq leadRow', NEW t \in Tasks,
           NEW p \in PC \ {"lead", "answers", "rows"}, Goto(t, p)
    PROVE  \A u \in Tasks : RecordInv(task[u])'
<1>1. task[t] \in TaskRecord
  BY DEF TypeOK
<1>2. RecordInv([task[t] EXCEPT !.pc = p])
  BY <1>1 DEF RecordInv, TaskRecord
<1>3. QED
  BY <1>2, BecomesKeeps DEF Goto

LEMMA DoneKeeps ==
    ASSUME TypeOK, RegisterInv, leadRow \subseteq leadRow', NEW t \in Tasks, Done(t)
    PROVE  \A u \in Tasks : RecordInv(task[u])'
  BY IdleKeeps, BecomesKeeps DEF Done

LEMMA ScrubThenKeeps ==
    ASSUME TypeOK, RegisterInv, leadRow \subseteq leadRow', NEW t \in Tasks,
           NEW r \in TaskRecord, ScrubThen(t, r)
    PROVE  \A u \in Tasks : RecordInv(task[u])'
<1>1. RecordInv([r EXCEPT !.pc = "scrubRead"])
  BY DEF RecordInv, TaskRecord
<1>2. QED
  BY <1>1, BecomesKeeps DEF ScrubThen

LEMMA HandlersKeep ==
    ASSUME TypeOK, RegisterInv, leadRow \subseteq leadRow', NEW t \in Tasks,
           Work(t) \/ Fault(t)
    PROVE  \A u \in Tasks : RecordInv(task[u])'
<1> DEFINE Goal == \A u \in Tasks : RecordInv(task[u])'
<1>0. task[t] \in TaskRecord /\ RecordInv(task[t]) /\ Idle \in TaskRecord
  BY IdleType DEF TypeOK, RegisterInv
<1>1. ASSUME NEW r \in TaskRecord, Becomes(t, r), r.pc \notin {"lead", "answers", "rows"}
      PROVE  Goal
  BY <1>1, BecomesKeeps DEF RecordInv
<1> HIDE DEF Goal
<1>2. CASE Scrub(t)
  <2>1. CASE ScrubRead(t)
    <3> DEFINE read == ConvOf(task[t].visits)
               r == [task[t] EXCEPT !.pc = "scrubRewrite", !.read = read,
                       !.snap = [k \in Keys |-> IF k \in read THEN convPii[k] ELSE {}]]
    <3>1. Becomes(t, r)
      BY <2>1 DEF ScrubRead
    <3>2. RecordInv(r)
      BY <1>0 DEF RecordInv, TaskRecord
    <3>3. QED
      BY <3>1, <3>2, BecomesKeeps DEF Goal
  <2>2. CASE ScrubRewrite(t) \/ ScrubSql(t) \/ ScrubLogs(t)
    BY <2>2, GotoKeeps DEF ScrubRewrite, ScrubSql, ScrubLogs, PC, Goal
  <2>3. CASE ScrubMark(t)
    <3> DEFINE next == AfterScrub(task[t].job)
               r == IF next = "idle" THEN Idle ELSE [task[t] EXCEPT !.pc = next]
    <3>1. Becomes(t, r)
      BY <2>3 DEF ScrubMark
    <3>2. next \notin {"lead", "answers", "rows"}
      BY DEF AfterScrub
    <3>3. RecordInv(r)
      BY <1>0, <3>2, IdleKeeps DEF RecordInv, TaskRecord
    <3>4. QED
      BY <3>1, <3>3, BecomesKeeps DEF Goal
  <2>4. QED
    BY <1>2, <2>1, <2>2, <2>3 DEF Scrub
<1>3. CASE Create(t)
  <2>1. CASE CreateBegin(t)
    <3> DEFINE Entry(v, e, p) == [Idle EXCEPT
                    !.job = "create", !.v = v, !.ev = e, !.data = p,
                    !.pc = IF <<v, e>> \in convRow THEN "store" ELSE "insert",
                    !.gone = IF <<v, e>> \in convRow THEN {} ELSE {v} \cap erased]
    <3>1. PICK v \in Visits, e \in Events, p \in Payloads : Becomes(t, Entry(v, e, p))
      BY <2>1 DEF CreateBegin
    <3>2. RecordInv(Entry(v, e, p))
      BY DEF RecordInv, Idle
    <3>3. QED
      BY <3>1, <3>2, BecomesKeeps DEF Goal
  <2>2. CASE CreateInsert(t) \/ CreateConflict(t)
    BY <2>2, GotoKeeps, DoneKeeps DEF CreateInsert, CreateConflict, PC, Goal
  <2>3. CASE CreateRecheck(t)
    <3>1. [task[t] EXCEPT !.visits = {task[t].v}, !.mode = "erased"] \in TaskRecord
      BY <1>0 DEF TaskRecord, Mode
    <3>2. QED
      BY <2>3, <3>1, GotoKeeps, ScrubThenKeeps DEF CreateRecheck, PC, Goal
  <2>4. CASE StoreRead(t)
    <3> DEFINE earlier == UNION {convPii[k] : k \in ConvOf({task[t].v})}
               r == [task[t] EXCEPT !.pc = "lead", !.data = @ \cup earlier]
    <3>1. Becomes(t, r) /\ "contact" \in task[t].data
      BY <2>4 DEF StoreRead
    <3>2. RecordInv(r)
      BY <1>0, <3>1 DEF RecordInv, TaskRecord
    <3>3. QED
      BY <3>1, <3>2, BecomesKeeps DEF Goal
  <2>5. CASE StoreStep(t) \/ StoreLead(t)
    BY <2>5, DoneKeeps DEF StoreStep, StoreLead, Goal
  <2>6. QED
    BY <1>3, <2>1, <2>2, <2>3, <2>4, <2>5 DEF Create
<1>4. CASE Erase(t)
  <2>1. CASE EraseBegin(t)
    <3> DEFINE Entry(v) == [Idle EXCEPT
               !.v = v, !.pc = "find",
               !.job = IF v \in leadRow THEN "delete" ELSE "visit",
               !.data = (IF v \in leadRow THEN leadPii[v] ELSE clickPii[v]) \cap {"contact"}]
    <3>1. PICK v \in Visits : Becomes(t, Entry(v))
      BY <2>1, Zenon DEF EraseBegin
    <3>2. RecordInv(Entry(v))
      BY DEF RecordInv, Idle
    <3>3. QED
      BY <3>1, <3>2, BecomesKeeps DEF Goal
  <2>2. CASE EraseFind(t)
    <3> DEFINE visits == PersonVisits(task[t].v, Known(t))
               r == [task[t] EXCEPT !.pc = "remember", !.visits = visits, !.todo = visits,
                                    !.skipped = Candidates(task[t].v, Known(t)) \ visits]
    <3>1. Becomes(t, r)
      BY <2>2 DEF EraseFind
    <3>2. RecordInv(r)
      BY <1>0 DEF RecordInv, TaskRecord
    <3>3. QED
      BY <3>1, <3>2, BecomesKeeps DEF Goal
  <2>3. CASE EraseStoneRaced(t)
    <3> DEFINE r == [Idle EXCEPT !.v = task[t].v, !.pc = "find", !.job = "delete",
                                 !.data = leadPii[task[t].v] \cap {"contact"}]
    <3>1. Becomes(t, r)
      BY <2>3 DEF EraseStoneRaced
    <3>2. RecordInv(r)
      BY DEF RecordInv, Idle
    <3>3. QED
      BY <3>1, <3>2, BecomesKeeps DEF Goal
  <2>4. CASE EraseTomb(t)
    <3>1. PICK w \in task[t].todo : Becomes(t, [task[t] EXCEPT !.todo = @ \ {w}])
      BY <2>4 DEF EraseTomb
    <3>2. task[t].pc = "tombs"
      BY <2>4 DEF EraseTomb, At
    <3>3. RecordInv([task[t] EXCEPT !.todo = @ \ {w}])
      BY <1>0, <3>2 DEF RecordInv, TaskRecord
    <3>4. QED
      BY <3>1, <3>3, BecomesKeeps DEF Goal
  <2>5. CASE EraseOwnRow(t)
    <3>1. [task[t] EXCEPT !.mode = "erased"] \in TaskRecord
      BY <1>0 DEF TaskRecord, Mode
    <3>2. QED
      BY <2>5, <3>1, ScrubThenKeeps DEF EraseOwnRow, Goal
  <2>6. CASE EraseRemember(t) \/ EraseStone(t) \/ EraseThrow(t) \/ EraseSeal(t)
    BY <2>6, GotoKeeps, DoneKeeps DEF EraseRemember, EraseStone, EraseThrow, EraseSeal, PC, Goal
  <2>7. QED
    BY <1>4, <2>1, <2>2, <2>3, <2>4, <2>5, <2>6 DEF Erase
<1>5. CASE Resume(t)
  <2>1. CASE ResumeBegin(t)
    <3> DEFINE pending == (erased \cup purged) \ leadScrubbed
               r == [Idle EXCEPT !.job = "resume", !.pc = "loop", !.todo = pending,
                                 !.gone = pending \cap erased]
    <3>1. Becomes(t, r)
      BY <2>1 DEF ResumeBegin
    <3>2. RecordInv(r)
      BY DEF RecordInv, Idle
    <3>3. QED
      BY <3>1, <3>2, BecomesKeeps DEF Goal
  <2>2. CASE ResumeStep(t)
    <3> DEFINE One(w) == [task[t] EXCEPT
                 !.v = w, !.visits = {w}, !.todo = @ \ {w},
                 !.mode = IF w \in task[t].gone THEN "erased" ELSE "purged"]
    <3>1. PICK w \in task[t].todo : ScrubThen(t, One(w))
      BY <2>2 DEF ResumeStep
    <3>2. w \in Visits
      BY <1>0 DEF TaskRecord
    <3>3. One(w) \in TaskRecord
      BY <1>0, <3>2 DEF TaskRecord, Mode
    <3>4. QED
      BY <3>1, <3>3, ScrubThenKeeps DEF Goal
  <2>3. CASE ResumeMark(t)
    BY <2>3, GotoKeeps, DoneKeeps DEF ResumeMark, PC, Goal
  <2>4. QED
    BY <1>5, <2>1, <2>2, <2>3 DEF Resume
<1>6. CASE Reconcile(t)
  <2>1. CASE ReconcileBegin(t)
    <3> DEFINE r == [Idle EXCEPT
                  !.job = "reconcile", !.pc = "recon",
                  !.todo = {k[1] : k \in convRow},
                  !.seen = [v \in Visits |-> UNION {convPii[k] : k \in ConvOf({v})}]]
    <3>1. Becomes(t, r)
      BY <2>1 DEF ReconcileBegin
    <3>2. RecordInv(r)
      BY DEF RecordInv, Idle
    <3>3. QED
      BY <3>1, <3>2, BecomesKeeps DEF Goal
  <2>2. CASE ReconcileStep(t)
    <3>1. PICK w \in task[t].todo :
            IF task[t].todo = {w} THEN Done(t)
            ELSE Becomes(t, [task[t] EXCEPT !.todo = @ \ {w}])
      BY <2>2 DEF ReconcileStep
    <3>2. task[t].pc = "recon"
      BY <2>2 DEF ReconcileStep, At
    <3>3. RecordInv([task[t] EXCEPT !.todo = @ \ {w}])
      BY <1>0, <3>2 DEF RecordInv, TaskRecord
    <3>4. QED
      BY <3>1, <3>3, BecomesKeeps, DoneKeeps DEF Goal
  <2>3. QED
    BY <1>6, <2>1, <2>2 DEF Reconcile
<1>7. CASE Purge(t)
  <2>1. CASE PurgeBegin(t)
    <3> DEFINE due == (Old \cap leadRow) \ (purged \cup erased)
               r == [Idle EXCEPT !.job = "purge", !.visits = due, !.mode = "purged",
                                 !.seen = leadPii, !.pc = IF due = {} THEN "sweep" ELSE "answers"]
    <3>1. Becomes(t, r)
      BY <2>1 DEF PurgeBegin
    <3>2. RecordInv(r)
      BY DEF RecordInv, Idle
    <3>3. QED
      BY <3>1, <3>2, BecomesKeeps DEF Goal
  <2>2. CASE PurgeAnswers(t)
    <3>1. task[t].pc = "answers" /\ Becomes(t, [task[t] EXCEPT !.pc = "rows"])
      BY <2>2 DEF PurgeAnswers, At, Goto
    <3>2. RecordInv([task[t] EXCEPT !.pc = "rows"])
      BY <1>0, <3>1 DEF RecordInv, TaskRecord
    <3>3. QED
      BY <3>1, <3>2, BecomesKeeps DEF Goal
  <2>3. CASE PurgeRows(t)
    BY <1>0, <2>3, ScrubThenKeeps DEF PurgeRows, Goal
  <2>4. CASE PurgeMark(t)
    BY <2>4, GotoKeeps DEF PurgeMark, PC, Goal
  <2>5. CASE PurgeSweep(t)
    <3> DEFINE Clean(due) == [Idle EXCEPT !.job = "sweep", !.visits = due, !.mode = "purged"]
    <3>1. PICK due : (due \subseteq Visits /\ ScrubThen(t, Clean(due))) \/ Done(t)
      <4>1. PICK late \in SUBSET {k[1] : k \in ConvOf(Old) \ convScrubbed} :
              LET d == (Old \ clickScrubbed) \cup late IN
              IF d = {} THEN Done(t) ELSE ScrubThen(t, Clean(d))
        BY <2>5 DEF PurgeSweep, PurgeSweepOn, Due, Unmarked
      <4>2. (Old \ clickScrubbed) \cup late \subseteq Visits
        BY ConvOfType DEF Keys
      <4>3. QED
        BY <4>1, <4>2
    <3>2. CASE Done(t)
      BY <3>2, DoneKeeps DEF Goal
    <3>3. CASE due \subseteq Visits /\ ScrubThen(t, Clean(due))
      <4>1. Clean(due) \in TaskRecord
        BY <1>0, <3>3 DEF TaskRecord, Job, Mode
      <4>2. QED
        BY <3>3, <4>1, ScrubThenKeeps DEF Goal
    <3>4. QED
      BY <3>1, <3>2, <3>3
  <2>6. QED
    BY <1>7, <2>1, <2>2, <2>3, <2>4, <2>5 DEF Purge
<1>8. CASE Deliver(t)
  <2>1. CASE DeliverBegin(t)
    <3> DEFINE Sending(k) == [Idle EXCEPT !.job = "deliver", !.pc = "log", !.v = k[1], !.ev = k[2],
                                          !.data = convPii[k]]
    <3>1. PICK k \in convRow : Becomes(t, Sending(k))
      BY <2>1 DEF DeliverBegin
    <3>2. RecordInv(Sending(k))
      BY DEF RecordInv, Idle
    <3>3. QED
      BY <3>1, <3>2, BecomesKeeps DEF Goal
  <2>2. CASE DeliverLog(t)
    BY <2>2, DoneKeeps DEF DeliverLog, Goal
  <2>3. QED
    BY <1>8, <2>1, <2>2 DEF Deliver
<1>9. CASE Fault(t)
  <2>1. CASE Crash(t)
    BY <2>1, DoneKeeps DEF Crash, Goal
  <2>2. CASE Swallow(t)
    <3>1. CASE At(t, "insert") /\ Becomes(t, [task[t] EXCEPT !.gone = {}])
      <4>1. RecordInv([task[t] EXCEPT !.gone = {}])
        BY <1>0, <3>1 DEF RecordInv, TaskRecord, At
      <4>2. QED
        BY <3>1, <4>1, BecomesKeeps DEF Goal
    <3>2. CASE Becomes(t, [task[t] EXCEPT !.pc = "remember", !.visits = {task[t].v},
                                          !.todo = {task[t].v}, !.skipped = {task[t].v}])
      <4>1. RecordInv([task[t] EXCEPT !.pc = "remember", !.visits = {task[t].v},
                                      !.todo = {task[t].v}, !.skipped = {task[t].v}])
        BY <1>0 DEF RecordInv, TaskRecord
      <4>2. QED
        BY <3>2, <4>1, BecomesKeeps DEF Goal
    <3>3. CASE \E p \in {"store", "stone", "tombs"} : Goto(t, p)
      BY <3>3, GotoKeeps DEF PC, Goal
    <3>4. QED
      BY <2>2, <3>1, <3>2, <3>3 DEF Swallow
  <2>3. CASE TombFails(t)
    <3>1. PICK w \in task[t].todo : Becomes(t, [task[t] EXCEPT !.todo = @ \ {w}, !.failed = TRUE])
      BY <2>3 DEF TombFails
    <3>2. task[t].pc = "tombs"
      BY <2>3 DEF TombFails, At
    <3>3. RecordInv([task[t] EXCEPT !.todo = @ \ {w}, !.failed = TRUE])
      BY <1>0, <3>2 DEF RecordInv, TaskRecord
    <3>4. QED
      BY <3>1, <3>3, BecomesKeeps DEF Goal
  <2>4. QED
    BY <1>9, <2>1, <2>2, <2>3 DEF Fault
<1>10. QED
  BY <1>2, <1>3, <1>4, <1>5, <1>6, <1>7, <1>8, <1>9 DEF Work, Goal

-----------------------------------------------------------------------------
LEMMA RegisterInit == Init => RegisterInv
  BY IdleKeeps DEF Init, RegisterInv, LeadInv

LEMMA RegisterNext ==
    ASSUME TypeOK, RegisterInv, [Next]_vars
    PROVE  RegisterInv' /\ RegisterStep
<1>1. CASE UNCHANGED vars
  BY <1>1 DEF vars, clickVars, convVars, leadVars, history, RegisterInv, LeadInv, RecordInv,
              RegisterStep, RowState, Shown, ShowsContact
<1>2. CASE Next
  <2>1. PICK t \in Tasks : Work(t) \/ Fault(t)
    BY <1>2 DEF Next
  <2>2. LeadStep
    BY <2>1, LeadSteps
  <2>3. LeadInv' /\ leadRow \subseteq leadRow' /\ RegisterStep
    BY <2>2, LeadStepKeeps DEF RegisterInv
  <2>4. (\A u \in Tasks : RecordInv(task[u]))'
    BY <2>1, <2>3, HandlersKeep
  <2>5. QED
    BY <2>3, <2>4 DEF RegisterInv
<1>3. QED
  BY <1>1, <1>2

\* The inductive invariant of the leads table holds of every behaviour.
THEOREM RegisterInvariant == Spec => []RegisterInv
<1>1. TypeOK /\ RegisterInv /\ [Next]_vars => RegisterInv'
  BY RegisterNext
<1>2. QED
  BY TypeCorrect, RegisterInit, <1>1, PTL DEF Spec

\* Nobody comes back: the lead row of an erased visit never shows a contact
\* again, for any number of concurrent events, requests, jobs and failures.
THEOREM ErasedStaysBlind == Spec => []TombstoneHasNoContact
<1>1. TypeOK /\ RegisterInv => TombstoneHasNoContact
  BY DEF TypeOK, RegisterInv, LeadInv, TombstoneHasNoContact
<1>2. QED
  BY TypeCorrect, RegisterInvariant, <1>1, PTL

\* The whole system, seen through its leads table, is the abstract register.
THEOREM Refines == Spec => KeepsTheRegister
<1>1. Init => Register!Init
  BY DEF Init, Register!Init, RowState, Shown, ShowsContact
<1>2. TypeOK /\ RegisterInv /\ [Next]_vars => [Register!Next]_<<RowState, Shown>>
  BY RegisterNext DEF RegisterStep
<1>3. QED
  BY TypeCorrect, RegisterInvariant, <1>1, <1>2, PTL DEF Spec, KeepsTheRegister, Register!Spec

-----------------------------------------------------------------------------
(* What Erasure's scrub and its marks are worth: which rows are clean when.  *)
(* Everything below is about the visits retention has not reached yet: a     *)
(* cleaning in retention's mode writes answers back (run retention_rewrites).*)

Washing == {"scrubRead", "scrubRewrite", "scrubSql", "scrubLogs", "scrubMark"}
Washed  == {"scrubLogs", "scrubMark", "seal", "resumeMark"}

CleanClick(v) == clickPii[v] = {} /\ v \notin visitor

(* What a handler is doing: retention works on old visits only, the resume  *)
(* job takes the mode from what it read first, and a request works on the   *)
(* visit it was asked for.                                                  *)
JobRecord(r) ==
    /\ r.pc \in {"answers", "rows", "purgeMark"} => r.visits \subseteq Old
    /\ r.pc \in Washing /\ (r.mode = "purged" \/ r.job = "purge") => r.visits \subseteq Old
    /\ r.job = "purge" => r.pc \in Washing \cup {"answers", "rows", "purgeMark", "sweep"}
    /\ r.pc \in {"loop", "resumeMark"} => r.job = "resume"
    /\ r.job = "resume" =>
         /\ r.pc \in Washing \cup {"loop", "resumeMark"}
         /\ r.todo \ Old \subseteq r.gone
         /\ r.pc # "loop" => r.visits = {r.v}
    /\ r.pc \in {"remember", "stone", "tombs"} => r.v \in r.visits /\ r.todo \subseteq r.visits

(* What its scrub has done so far: the SQL pass left nothing of a visit, and *)
(* a conversion that was read holds no more than it did then, then no more   *)
(* than the columns, then nothing.                                           *)
TableRecord(r) ==
    /\ r.pc \in Washed => \A v \in r.visits \ Old : CleanClick(v)
    /\ r.pc \in Washing \ {"scrubRead"} => \A k \in r.read : k \in convRow /\ k[1] \in r.visits
    /\ \A k \in r.read : k[1] \notin Old =>
         /\ r.pc = "scrubRewrite" => convPii[k] \subseteq r.snap[k]
         /\ r.pc = "scrubSql" => convPii[k] \subseteq {"contact"}
         /\ r.pc \in {"scrubLogs", "scrubMark"} => convPii[k] = {}

BlankInv ==
    /\ purged \ Old \subseteq erased
    /\ \A v \in erased : leadPii[v] \subseteq (IF v \in Old THEN {"rest"} ELSE {})

MarksInv ==
    /\ \A v \in leadScrubbed \ Old : CleanClick(v)
    /\ \A k \in convScrubbed : k[1] \notin Old => k \in convRow /\ convPii[k] = {}
    /\ \A k \in Keys \ convRow : convPii[k] = {}

CleanInv ==
    /\ BlankInv /\ MarksInv
    /\ \A t \in Tasks : JobRecord(task[t]) /\ TableRecord(task[t])

-----------------------------------------------------------------------------
(* How a step changes the memory of its handler.                             *)

SameMemory(r, s) ==
    /\ s.job = r.job /\ s.v = r.v /\ s.ev = r.ev /\ s.data = r.data /\ s.gone = r.gone
    /\ s.visits = r.visits /\ s.todo = r.todo /\ s.mode = r.mode
    /\ s.read = r.read /\ s.snap = r.snap /\ s.failed = r.failed

LEMMA BecomesIs ==
    ASSUME TypeOK, NEW t \in Tasks, NEW r, Becomes(t, r)
    PROVE  task'[t] = r /\ \A u \in Tasks \ {t} : task'[u] = task[u]
  BY DEF TypeOK, Becomes

LEMMA GotoIs ==
    ASSUME TypeOK, NEW t \in Tasks, NEW p \in PC, Goto(t, p)
    PROVE  task'[t].pc = p /\ SameMemory(task[t], task'[t])
<1>1. task[t] \in TaskRecord
  BY DEF TypeOK
<1>2. task'[t] = [task[t] EXCEPT !.pc = p]
  BY BecomesIs DEF Goto
<1>3. QED
  BY <1>1, <1>2 DEF TaskRecord, SameMemory

LEMMA ScrubThenIs ==
    ASSUME TypeOK, NEW t \in Tasks, NEW r \in TaskRecord, ScrubThen(t, r)
    PROVE  task'[t].pc = "scrubRead" /\ SameMemory(r, task'[t])
<1>1. task'[t] = [r EXCEPT !.pc = "scrubRead"]
  BY BecomesIs DEF ScrubThen
<1>2. QED
  BY <1>1 DEF TaskRecord, SameMemory

LEMMA DoneIs ==
    ASSUME TypeOK, NEW t \in Tasks, Done(t)
    PROVE  task'[t].pc = "idle" /\ task'[t].job = "none" /\ task'[t].failed = FALSE
  BY BecomesIs DEF Done, Idle

\* A step changes the memory of one handler.
LEMMA OneHandler ==
    ASSUME TypeOK, NEW t \in Tasks, Work(t) \/ Fault(t)
    PROVE  \A u \in Tasks \ {t} : task'[u] = task[u]
<1>1. ASSUME NEW r, Becomes(t, r) PROVE \A u \in Tasks \ {t} : task'[u] = task[u]
  BY <1>1 DEF TypeOK, Becomes
<1> USE <1>1 DEF Goto, Done, ScrubThen
<1>2. CASE Scrub(t)
  BY <1>2 DEF Scrub, ScrubRead, ScrubRewrite, ScrubSql, ScrubLogs, ScrubMark
<1>3. CASE Create(t)
  BY <1>3 DEF Create, CreateBegin, CreateInsert, CreateConflict, CreateRecheck, StoreStep,
              StoreRead, StoreLead
<1>4. CASE Erase(t)
  <2>1. CASE EraseBegin(t)
    BY <2>1, Zenon DEF EraseBegin
  <2>2. CASE ~EraseBegin(t)
    BY <1>4, <2>2 DEF Erase, EraseFind, EraseRemember, EraseStone, EraseStoneRaced,
              EraseTomb, EraseThrow, EraseOwnRow, EraseSeal
  <2>3. QED
    BY <2>1, <2>2
<1>5. CASE Resume(t) \/ Reconcile(t) \/ Deliver(t)
  BY <1>5 DEF Resume, ResumeBegin, ResumeStep, ResumeMark, Reconcile, ReconcileBegin,
              ReconcileStep, Deliver, DeliverBegin, DeliverLog
<1>6. CASE Purge(t)
  BY <1>6 DEF Purge, PurgeBegin, PurgeAnswers, PurgeRows, PurgeMark, PurgeSweep, PurgeSweepOn, Due, Unmarked
<1>7. CASE Fault(t)
  BY <1>7 DEF Fault, Crash, Swallow, TombFails
<1>8. QED
  BY <1>2, <1>3, <1>4, <1>5, <1>6, <1>7 DEF Work

-----------------------------------------------------------------------------
(* What a step does to the tables the scrub cleans.                          *)

Clicks == <<clickPii, visitor>>
Conversions == <<convRow, convPii>>

LEMMA TableWrites ==
    ASSUME NEW t \in Tasks, Work(t) \/ Fault(t)
    PROVE  /\ UNCHANGED Clicks \/ ScrubSql(t)
           /\ UNCHANGED Conversions \/ CreateInsert(t) \/ ScrubRewrite(t) \/ ScrubSql(t)
           /\ UNCHANGED convScrubbed \/ ScrubMark(t)
           /\ UNCHANGED erased \/ EraseStone(t) \/ EraseTomb(t) \/ EraseOwnRow(t)
           /\ leadScrubbed' \subseteq leadScrubbed \/ EraseSeal(t) \/ ResumeMark(t) \/ PurgeMark(t)
<1> USE DEF Clicks, Conversions, clickVars, convVars, leadVars
<1>1. CASE Scrub(t)
  BY <1>1 DEF Scrub, ScrubRead, ScrubRewrite, ScrubSql, ScrubLogs, ScrubMark
<1>2. CASE Create(t)
  BY <1>2 DEF Create, CreateBegin, CreateInsert, CreateConflict, CreateRecheck, StoreStep,
              StoreRead, StoreLead, CreateOrFillLead, FillLead
<1>3. CASE Erase(t)
  BY <1>3 DEF Erase, EraseBegin, EraseFind, EraseRemember, EraseStone, EraseStoneRaced,
              EraseTomb, EraseThrow, EraseOwnRow, EraseSeal, Tombstone
<1>4. CASE Resume(t)
  BY <1>4 DEF Resume, ResumeBegin, ResumeStep, ResumeMark
<1>5. CASE Reconcile(t) \/ Deliver(t)
  BY <1>5 DEF Reconcile, ReconcileBegin, ReconcileStep, Deliver, DeliverBegin, DeliverLog,
              CreateOrFillLead, FillLead
<1>6. CASE Purge(t)
  BY <1>6 DEF Purge, PurgeBegin, PurgeAnswers, PurgeRows, PurgeMark, PurgeSweep, PurgeSweepOn, Due, Unmarked
<1>7. CASE Fault(t)
  BY <1>7 DEF Fault, Crash, Swallow, TombFails
<1>8. QED
  BY <1>1, <1>2, <1>3, <1>4, <1>5, <1>6, <1>7 DEF Work

\* A visit and a stored conversion only ever lose parts of the person.
Shrinks ==
    /\ visitor' \subseteq visitor
    /\ \A v \in Visits : clickPii'[v] \subseteq clickPii[v]
    /\ convRow \subseteq convRow'
    /\ \A k \in convRow : k[1] \notin Old => convPii'[k] \subseteq convPii[k]

LEMMA TablesShrink ==
    ASSUME TypeOK, CleanInv, NEW t \in Tasks, Work(t) \/ Fault(t)
    PROVE  Shrinks
<1>0. /\ task[t] \in TaskRecord /\ convRow \subseteq Keys
      /\ convPii \in [Keys -> SUBSET Parts] /\ clickPii \in [Visits -> SUBSET Parts]
  BY DEF TypeOK
<1>1. CASE UNCHANGED Clicks /\ UNCHANGED Conversions
  BY <1>1 DEF Clicks, Conversions, Shrinks
<1>2. CASE CreateInsert(t)
  BY <1>0, <1>2 DEF CreateInsert, clickVars, Shrinks
<1>3. CASE ScrubRewrite(t)
  <2> DEFINE r == task[t]
  <2>1. JobRecord(r) /\ TableRecord(r) /\ r.pc = "scrubRewrite"
    BY <1>3 DEF CleanInv, ScrubRewrite, At
  <2>2. \A k \in convRow : convPii'[k] =
            IF k \in r.read THEN Rewritten(convPii[k], r.snap[k], r.mode) ELSE convPii[k]
    BY <1>0, <1>3 DEF ScrubRewrite
  <2>3. ASSUME NEW k \in r.read, k[1] \notin Old PROVE Kept(r.mode) = {}
    <3>1. r.mode # "purged"
      BY <2>1, <2>3 DEF JobRecord, TableRecord, Washing
    <3>2. QED
      BY <1>0, <3>1 DEF Kept, TaskRecord, Mode
  <2>4. ASSUME NEW k \in convRow, k \in r.read, k[1] \notin Old PROVE convPii'[k] \subseteq convPii[k]
    BY <2>2, <2>3, <2>4 DEF Rewritten
  <2>5. UNCHANGED <<clickPii, visitor, convRow>>
    BY <1>3 DEF ScrubRewrite, clickVars
  <2>6. QED
    BY <2>2, <2>4, <2>5 DEF Shrinks
<1>4. CASE ScrubSql(t)
  BY <1>0, <1>4 DEF ScrubSql, Shrinks
<1>5. QED
  BY <1>1, <1>2, <1>3, <1>4, TableWrites

\* So what the others have cleaned stays clean.
LEMMA OthersKeep ==
    ASSUME TypeOK, Shrinks, NEW r \in TaskRecord, TableRecord(r)
    PROVE  TableRecord(r)'
<1>1. r.visits \in SUBSET Visits
  BY DEF TaskRecord
<1>2. ASSUME NEW v \in Visits, CleanClick(v) PROVE CleanClick(v)'
  BY <1>2 DEF CleanClick, Shrinks
<1>3. r.pc \in Washed => \A v \in r.visits \ Old : CleanClick(v)'
  BY <1>1, <1>2 DEF TableRecord
<1>4. r.pc \in Washing \ {"scrubRead"} => \A k \in r.read : k \in convRow' /\ k[1] \in r.visits
  BY DEF TableRecord, Shrinks
<1>5. ASSUME NEW k \in r.read, k[1] \notin Old
      PROVE  /\ r.pc = "scrubRewrite" => convPii'[k] \subseteq r.snap[k]
             /\ r.pc = "scrubSql" => convPii'[k] \subseteq {"contact"}
             /\ r.pc \in {"scrubLogs", "scrubMark"} => convPii'[k] = {}
  <2>1. r.pc \in Washing \ {"scrubRead"} => convPii'[k] \subseteq convPii[k]
    BY <1>5 DEF TableRecord, Shrinks
  <2>2. QED
    BY <1>5, <2>1 DEF TableRecord, Washing
<1>6. QED
  BY <1>3, <1>4, <1>5 DEF TableRecord

-----------------------------------------------------------------------------
(* The memory a handler is left with.                                        *)

\* It cleans nothing, and is not the resume job.
Harmless(r) ==
    /\ r.pc \in {"idle", "insert", "recheck", "store", "lead", "find", "recon", "sweep", "log"}
    /\ r.job # "resume" /\ (r.job = "purge" => r.pc = "sweep")

LEMMA HarmlessIsFine ==
    ASSUME NEW t \in Tasks, Harmless(task'[t])
    PROVE  JobRecord(task'[t]) /\ TableRecord(task[t])'
  BY DEF Harmless, JobRecord, TableRecord, Washing, Washed

\* A handler about to read, or between two statements, has cleaned nothing yet.
LEMMA NothingWashed ==
    ASSUME NEW t \in Tasks,
           task'[t].pc \in {"scrubRead", "answers", "rows", "remember", "stone", "tombs", "loop",
                            "purgeMark"}
    PROVE  TableRecord(task[t])'
  BY DEF TableRecord, Washing, Washed

LEMMA ScrubRecord ==
    ASSUME TypeOK, TypeOK', CleanInv, Shrinks, NEW t \in Tasks, Scrub(t)
    PROVE  JobRecord(task'[t]) /\ TableRecord(task[t])'
<1> DEFINE r == task[t]
<1>0. /\ r \in TaskRecord /\ convRow \subseteq Keys
      /\ convPii \in [Keys -> SUBSET Parts] /\ clickPii \in [Visits -> SUBSET Parts]
  BY DEF TypeOK
<1>i. JobRecord(r) /\ TableRecord(r)
  BY DEF CleanInv
<1>k. ASSUME r.pc \in Washing, task'[t].pc \in Washing, SameMemory(r, task'[t])
      PROVE  JobRecord(task'[t])
  BY <1>i, <1>k DEF JobRecord, SameMemory, Washing
<1>e. ASSUME r.pc \in Washing, NEW v \in r.visits, v \notin Old PROVE r.mode = "erased"
  BY <1>0, <1>i, <1>e DEF JobRecord, TaskRecord, Mode
<1>1. CASE ScrubRead(t)
  <2>1. /\ task'[t] = [r EXCEPT !.pc = "scrubRewrite", !.read = ConvOf(r.visits),
                         !.snap = [k \in Keys |-> IF k \in ConvOf(r.visits) THEN convPii[k] ELSE {}]]
        /\ r.pc = "scrubRead" /\ UNCHANGED convVars
    BY <1>1, BecomesIs DEF ScrubRead, At
  <2>2. /\ task'[t].pc = "scrubRewrite" /\ task'[t].read = ConvOf(r.visits)
        /\ \A k \in ConvOf(r.visits) : task'[t].snap[k] = convPii[k]
        /\ task'[t].visits = r.visits /\ task'[t].mode = r.mode /\ task'[t].job = r.job
        /\ task'[t].todo = r.todo /\ task'[t].gone = r.gone /\ task'[t].v = r.v
    BY <1>0, <2>1 DEF TaskRecord, ConvOf
  <2>3. JobRecord(task'[t])
    BY <1>i, <2>1, <2>2 DEF JobRecord, Washing
  <2>4. TableRecord(task[t])'
    BY <2>1, <2>2 DEF TableRecord, Washing, Washed, ConvOf, convVars
  <2>5. QED
    BY <2>3, <2>4
<1>2. CASE ScrubRewrite(t)
  <2>1. r.pc = "scrubRewrite" /\ task'[t].pc = "scrubSql" /\ SameMemory(r, task'[t])
    BY <1>2, GotoIs DEF ScrubRewrite, At, PC
  <2>2. r.read \subseteq Keys /\ \A k \in r.read : k \in convRow /\ k[1] \in r.visits
    BY <1>i, <1>0, <2>1 DEF TableRecord, Washing
  <2>3. ASSUME NEW k \in r.read, k[1] \notin Old PROVE convPii'[k] \subseteq {"contact"}
    <3>1. convPii'[k] = Rewritten(convPii[k], r.snap[k], r.mode)
      BY <1>2, <2>2 DEF ScrubRewrite
    <3>2. r.mode = "erased"
      BY <1>e, <2>1, <2>2, <2>3 DEF Washing
    <3>3. convPii[k] \subseteq r.snap[k]
      BY <1>i, <2>1, <2>3 DEF TableRecord
    <3>4. QED
      BY <3>1, <3>2, <3>3 DEF Rewritten, Kept
  <2>4. TableRecord(task[t])'
    BY <1>2, <2>1, <2>2, <2>3 DEF TableRecord, SameMemory, Washing, Washed, ScrubRewrite
  <2>5. QED
    BY <1>k, <2>1, <2>4 DEF Washing
<1>3. CASE ScrubSql(t)
  <2>1. r.pc = "scrubSql" /\ task'[t].pc = "scrubLogs" /\ SameMemory(r, task'[t])
    BY <1>3, GotoIs DEF ScrubSql, At, PC
  <2>2. r.read \subseteq Keys /\ \A k \in r.read : k \in convRow /\ k[1] \in r.visits
    BY <1>i, <1>0, <2>1 DEF TableRecord, Washing
  <2>3. ASSUME NEW k \in r.read, k[1] \notin Old PROVE convPii'[k] = {}
    <3>1. convPii'[k] = convPii[k] \ {"contact"}
      BY <1>3, <2>2 DEF ScrubSql, ConvOf
    <3>2. convPii[k] \subseteq {"contact"}
      BY <1>i, <2>1, <2>3 DEF TableRecord
    <3>3. QED
      BY <3>1, <3>2
  <2>4. ASSUME NEW v \in r.visits \ Old PROVE CleanClick(v)'
    <3>1. r.mode = "erased" /\ v \in Visits
      BY <1>0, <1>e, <2>1 DEF Washing, TaskRecord
    <3>2. QED
      BY <1>3, <3>1 DEF ScrubSql, Kept, CleanClick
  <2>5. TableRecord(task[t])'
    BY <1>3, <2>1, <2>2, <2>3, <2>4 DEF TableRecord, SameMemory, Washing, ScrubSql
  <2>6. QED
    BY <1>k, <2>1, <2>5 DEF Washing
<1>4. CASE ScrubLogs(t)
  <2>1. r.pc = "scrubLogs" /\ task'[t].pc = "scrubMark" /\ SameMemory(r, task'[t])
    BY <1>4, GotoIs DEF ScrubLogs, At, PC
  <2>2. UNCHANGED <<clickPii, visitor, convRow, convPii>>
    BY <1>4 DEF ScrubLogs, clickVars, convVars
  <2>3. TableRecord(task[t])'
    BY <1>i, <2>1, <2>2 DEF TableRecord, SameMemory, Washing, Washed, CleanClick
  <2>4. QED
    BY <1>k, <2>1, <2>3 DEF Washing
<1>5. CASE ScrubMark(t)
  <2> DEFINE next == AfterScrub(r.job)
  <2>1. /\ r.pc = "scrubMark" /\ UNCHANGED <<clickPii, visitor>>
        /\ task'[t] = IF next = "idle" THEN Idle ELSE [r EXCEPT !.pc = next]
    BY <1>5, BecomesIs DEF ScrubMark, At
  <2>2. CASE next = "idle"
    BY <2>1, <2>2, HarmlessIsFine DEF Harmless, Idle
  <2>3. CASE next # "idle"
    <3>1. /\ next \in {"seal", "resumeMark", "purgeMark"}
          /\ next = "resumeMark" <=> r.job = "resume"
          /\ next = "purgeMark" <=> r.job = "purge"
      BY <2>3 DEF AfterScrub
    <3>2. task'[t].pc = next /\ SameMemory(r, task'[t])
      BY <1>0, <2>1, <2>3 DEF TaskRecord, SameMemory
    <3>3. next = "purgeMark" => r.visits \subseteq Old
      BY <1>i, <2>1, <3>1 DEF JobRecord, Washing
    <3>4. JobRecord(task'[t])
      BY <1>i, <2>1, <3>1, <3>2, <3>3 DEF JobRecord, SameMemory, Washing
    <3>5. TableRecord(task[t])'
      BY <1>i, <2>1, <3>1, <3>2 DEF TableRecord, SameMemory, Washing, Washed, CleanClick
    <3>6. QED
      BY <3>4, <3>5
  <2>4. QED
    BY <2>2, <2>3
<1>6. QED
  BY <1>1, <1>2, <1>3, <1>4, <1>5 DEF Scrub

LEMMA CreateRecord ==
    ASSUME TypeOK, TypeOK', CleanInv, NEW t \in Tasks, Create(t)
    PROVE  JobRecord(task'[t]) /\ TableRecord(task[t])'
<1> DEFINE r == task[t]
<1>0. r \in TaskRecord /\ Idle \in TaskRecord /\ JobRecord(r)
  BY IdleType DEF TypeOK, CleanInv
<1>1. CASE CreateBegin(t)
  <2> DEFINE Entry(v, e, p) == [Idle EXCEPT
                    !.job = "create", !.v = v, !.ev = e, !.data = p,
                    !.pc = IF <<v, e>> \in convRow THEN "store" ELSE "insert",
                    !.gone = IF <<v, e>> \in convRow THEN {} ELSE {v} \cap erased]
  <2>1. PICK v \in Visits, e \in Events, p \in Payloads : Becomes(t, Entry(v, e, p))
    BY <1>1 DEF CreateBegin
  <2>2. task'[t] = Entry(v, e, p)
    BY <2>1, BecomesIs
  <2>3. Harmless(task'[t])
    BY <2>2 DEF Harmless, Idle
  <2>4. QED
    BY <2>3, HarmlessIsFine
<1>2. CASE CreateRecheck(t) /\ r.v \in erased
  <2> DEFINE s == [r EXCEPT !.visits = {r.v}, !.mode = "erased"]
  <2>1. s \in TaskRecord /\ ScrubThen(t, s) /\ r.pc = "recheck"
    BY <1>0, <1>2 DEF TaskRecord, Mode, CreateRecheck, At
  <2>2. task'[t].pc = "scrubRead" /\ SameMemory(s, task'[t])
    BY <2>1, ScrubThenIs
  <2>3. task'[t].mode = "erased" /\ task'[t].job = r.job /\ r.job \notin {"resume", "purge"}
    <3>1. s.mode = "erased" /\ s.job = r.job
      BY <1>0 DEF TaskRecord
    <3>2. r.job # "resume"
      BY <1>0, <2>1 DEF JobRecord, Washing
    <3>3. r.job # "purge"
      BY <1>0, <2>1 DEF JobRecord, Washing
    <3>4. QED
      BY <2>2, <3>1, <3>2, <3>3 DEF SameMemory
  <2>4. JobRecord(task'[t])
    BY <2>2, <2>3 DEF JobRecord, Washing
  <2>5. QED
    BY <2>2, <2>4, NothingWashed
<1>3. CASE ~CreateBegin(t) /\ ~(CreateRecheck(t) /\ r.v \in erased)
  <2>1. Harmless(task'[t])
    <3>1. ASSUME NEW p \in {"recheck", "store"}, Goto(t, p), r.pc \in {"insert", "recheck"}
          PROVE  Harmless(task'[t])
      BY <1>0, <3>1, GotoIs DEF Harmless, SameMemory, JobRecord, PC, Washing
    <3>2. ASSUME Done(t) PROVE Harmless(task'[t])
      BY <3>2, DoneIs DEF Harmless
    <3>3. CASE StoreRead(t)
      <4> DEFINE earlier == UNION {convPii[k] : k \in ConvOf({task[t].v})}
      <4>1. task'[t] = [r EXCEPT !.pc = "lead", !.data = @ \cup earlier] /\ r.pc = "store"
        BY <3>3, BecomesIs DEF StoreRead, At
      <4>2. task'[t].pc = "lead" /\ task'[t].job = r.job
        BY <1>0, <4>1 DEF TaskRecord
      <4>3. QED
        BY <1>0, <4>1, <4>2 DEF Harmless, JobRecord, Washing
    <3>4. QED
      BY <1>3, <3>1, <3>2, <3>3 DEF Create, CreateInsert, CreateConflict, CreateRecheck,
                                    StoreStep, StoreLead, At
  <2>2. QED
    BY <2>1, HarmlessIsFine
<1>4. QED
  BY <1>1, <1>2, <1>3

LEMMA EraseRecord ==
    ASSUME TypeOK, TypeOK', CleanInv, NEW t \in Tasks, Erase(t)
    PROVE  JobRecord(task'[t]) /\ TableRecord(task[t])'
<1> DEFINE r == task[t]
<1>0. r \in TaskRecord /\ Idle \in TaskRecord /\ JobRecord(r)
  BY IdleType DEF TypeOK, CleanInv
<1>1. CASE EraseBegin(t)
  <2> DEFINE Entry(v) == [Idle EXCEPT
               !.v = v, !.pc = "find",
               !.job = IF v \in leadRow THEN "delete" ELSE "visit",
               !.data = (IF v \in leadRow THEN leadPii[v] ELSE clickPii[v]) \cap {"contact"}]
  <2>1. PICK v \in Visits : Becomes(t, Entry(v))
    BY <1>1, Zenon DEF EraseBegin
  <2>2. task'[t] = Entry(v)
    BY <2>1, BecomesIs
  <2>3. Harmless(task'[t])
    BY <2>2 DEF Harmless, Idle
  <2>4. QED
    BY <2>3, HarmlessIsFine
<1>2. CASE EraseFind(t)
  <2> DEFINE visits == PersonVisits(r.v, Known(t))
             others == Candidates(r.v, Known(t)) \ visits
  <2>1. /\ r.pc = "find"
        /\ task'[t] = [r EXCEPT !.pc = "remember", !.visits = visits, !.todo = visits,
                                !.skipped = others]
    BY <1>2, BecomesIs DEF EraseFind, At
  <2>2. r.v \in visits
    BY <1>0 DEF TaskRecord, PersonVisits, Candidates
  <2> HIDE DEF visits, others
  <2>3. /\ task'[t].pc = "remember" /\ task'[t].visits = visits /\ task'[t].todo = visits
        /\ task'[t].job = r.job /\ task'[t].v = r.v
    BY <1>0, <2>1 DEF TaskRecord
  <2>4. JobRecord(task'[t])
    BY <1>0, <2>1, <2>2, <2>3 DEF JobRecord, Washing
  <2>5. QED
    BY <2>3, <2>4, NothingWashed
<1>3. CASE EraseRemember(t) \/ EraseStone(t)
  <2>1. /\ r.pc \in {"remember", "stone"} /\ task'[t].pc \in {"stone", "tombs"}
        /\ SameMemory(r, task'[t])
    BY <1>3, GotoIs DEF EraseRemember, EraseStone, At, PC
  <2>2. JobRecord(task'[t])
    BY <1>0, <2>1 DEF JobRecord, SameMemory, Washing
  <2>3. QED
    BY <2>1, <2>2, NothingWashed
<1>4. CASE EraseTomb(t)
  <2>1. PICK w \in r.todo : task'[t] = [r EXCEPT !.todo = @ \ {w}]
    BY <1>4, BecomesIs DEF EraseTomb
  <2>2. /\ r.pc = "tombs" /\ task'[t].pc = r.pc /\ task'[t].todo = r.todo \ {w}
        /\ task'[t].job = r.job /\ task'[t].v = r.v /\ task'[t].visits = r.visits
    BY <1>0, <1>4, <2>1 DEF EraseTomb, At, TaskRecord
  <2>3. JobRecord(task'[t])
    BY <1>0, <2>2 DEF JobRecord, Washing
  <2>4. QED
    BY <2>2, <2>3, NothingWashed
<1>5. CASE EraseOwnRow(t)
  <2> DEFINE s == [r EXCEPT !.mode = "erased"]
  <2>1. s \in TaskRecord /\ ScrubThen(t, s) /\ r.pc = "tombs" /\ s.mode = "erased" /\ s.job = r.job
    BY <1>0, <1>5 DEF TaskRecord, Mode, EraseOwnRow, At
  <2>2. task'[t].pc = "scrubRead" /\ SameMemory(s, task'[t])
    BY <2>1, ScrubThenIs
  <2>3. r.job \notin {"resume", "purge"}
    BY <1>0, <2>1 DEF JobRecord, Washing
  <2>4. JobRecord(task'[t])
    BY <2>1, <2>2, <2>3 DEF JobRecord, SameMemory, Washing
  <2>5. QED
    BY <2>2, <2>4, NothingWashed
<1>6. CASE EraseStoneRaced(t) \/ EraseThrow(t) \/ EraseSeal(t)
  <2>1. Harmless(task'[t])
    <3>1. ASSUME Done(t) PROVE Harmless(task'[t])
      BY <3>1, DoneIs DEF Harmless
    <3>2. CASE EraseStoneRaced(t)
      <4>1. task'[t] = [Idle EXCEPT !.v = task[t].v, !.pc = "find", !.job = "delete",
                                    !.data = leadPii[task[t].v] \cap {"contact"}]
        BY <3>2, BecomesIs DEF EraseStoneRaced
      <4>2. QED
        BY <4>1 DEF Harmless, Idle
    <3>3. QED
      BY <1>6, <3>1, <3>2 DEF EraseThrow, EraseSeal
  <2>2. QED
    BY <2>1, HarmlessIsFine
<1>7. QED
  BY <1>1, <1>2, <1>3, <1>4, <1>5, <1>6 DEF Erase

LEMMA ResumeRecord ==
    ASSUME TypeOK, TypeOK', CleanInv, NEW t \in Tasks, Resume(t)
    PROVE  JobRecord(task'[t]) /\ TableRecord(task[t])'
<1> DEFINE r == task[t]
<1>0. r \in TaskRecord /\ Idle \in TaskRecord /\ JobRecord(r)
  BY IdleType DEF TypeOK, CleanInv
<1>1. CASE ResumeBegin(t)
  <2> DEFINE pending == (erased \cup purged) \ leadScrubbed
  <2>1. task'[t] = [Idle EXCEPT !.job = "resume", !.pc = "loop", !.todo = pending,
                                !.gone = pending \cap erased]
    BY <1>1, BecomesIs DEF ResumeBegin
  <2>2. /\ task'[t].job = "resume" /\ task'[t].pc = "loop" /\ task'[t].todo = pending
        /\ task'[t].gone = pending \cap erased
    BY <2>1 DEF Idle
  <2>3. pending \ Old \subseteq erased
    BY DEF CleanInv, BlankInv
  <2>4. JobRecord(task'[t])
    BY <2>2, <2>3 DEF JobRecord, Washing
  <2>5. QED
    BY <2>2, <2>4, NothingWashed
<1>2. CASE ResumeStep(t)
  <2> DEFINE One(w) == [r EXCEPT
               !.v = w, !.visits = {w}, !.todo = @ \ {w},
               !.mode = IF w \in r.gone THEN "erased" ELSE "purged"]
  <2>1. PICK w \in r.todo : ScrubThen(t, One(w))
    BY <1>2 DEF ResumeStep
  <2>2. w \in Visits /\ r.pc = "loop"
    BY <1>0, <1>2 DEF TaskRecord, ResumeStep, At
  <2>3. One(w) \in TaskRecord
    BY <1>0, <2>2 DEF TaskRecord, Mode
  <2>4. /\ One(w).job = r.job /\ One(w).v = w /\ One(w).visits = {w} /\ One(w).todo = r.todo \ {w}
        /\ One(w).gone = r.gone /\ One(w).mode = IF w \in r.gone THEN "erased" ELSE "purged"
    BY <1>0 DEF TaskRecord
  <2>5. task'[t].pc = "scrubRead" /\ SameMemory(One(w), task'[t])
    BY <2>1, <2>3, ScrubThenIs
  <2>6. r.job = "resume" /\ r.todo \ Old \subseteq r.gone
    BY <1>0, <2>2 DEF JobRecord
  <2> HIDE DEF One
  <2>7. JobRecord(task'[t])
    BY <2>4, <2>5, <2>6 DEF JobRecord, SameMemory, Washing
  <2>8. QED
    BY <2>5, <2>7, NothingWashed
<1>3. CASE ResumeMark(t)
  <2>1. CASE r.todo = {}
    BY <1>3, <2>1, DoneIs, HarmlessIsFine DEF ResumeMark, Harmless
  <2>2. CASE r.todo # {}
    <3>1. r.pc = "resumeMark" /\ task'[t].pc = "loop" /\ SameMemory(r, task'[t])
      BY <1>3, <2>2, GotoIs DEF ResumeMark, At, PC
    <3>2. JobRecord(task'[t])
      BY <1>0, <3>1 DEF JobRecord, SameMemory, Washing
    <3>3. QED
      BY <3>1, <3>2, NothingWashed
  <2>3. QED
    BY <2>1, <2>2
<1>4. QED
  BY <1>1, <1>2, <1>3 DEF Resume

LEMMA RetentionRecord ==
    ASSUME TypeOK, TypeOK', CleanInv, NEW t \in Tasks, Purge(t)
    PROVE  JobRecord(task'[t]) /\ TableRecord(task[t])'
<1> DEFINE r == task[t]
<1>0. r \in TaskRecord /\ Idle \in TaskRecord /\ JobRecord(r)
  BY IdleType DEF TypeOK, CleanInv
<1>1. CASE PurgeBegin(t)
  <2> DEFINE due == (Old \cap leadRow) \ (purged \cup erased)
  <2>1. task'[t] = [Idle EXCEPT !.job = "purge", !.visits = due, !.mode = "purged",
                                 !.seen = leadPii, !.pc = IF due = {} THEN "sweep" ELSE "answers"]
    BY <1>1, BecomesIs DEF PurgeBegin
  <2>2. /\ task'[t].job = "purge" /\ task'[t].visits = due /\ due \subseteq Old
        /\ task'[t].pc \in {"sweep", "answers"}
    BY <2>1 DEF Idle
  <2>3. QED
    BY <2>2 DEF JobRecord, TableRecord, Washing, Washed
<1>2. CASE PurgeAnswers(t)
  <2>1. r.pc = "answers" /\ task'[t].pc = "rows" /\ SameMemory(r, task'[t])
    BY <1>2, GotoIs DEF PurgeAnswers, At, PC
  <2>2. JobRecord(task'[t])
    BY <1>0, <2>1 DEF JobRecord, SameMemory, Washing
  <2>3. QED
    BY <2>1, <2>2, NothingWashed
<1>3. CASE PurgeRows(t)
  <2>1. r.pc = "rows" /\ task'[t].pc = "scrubRead" /\ SameMemory(r, task'[t])
    BY <1>0, <1>3, ScrubThenIs DEF PurgeRows, At
  <2>2. JobRecord(task'[t])
    BY <1>0, <2>1 DEF JobRecord, SameMemory, Washing
  <2>3. QED
    BY <2>1, <2>2, NothingWashed
<1>4. CASE PurgeMark(t)
  <2>1. r.pc = "purgeMark" /\ task'[t].pc = "sweep" /\ SameMemory(r, task'[t])
    BY <1>4, GotoIs DEF PurgeMark, At, PC
  <2>2. Harmless(task'[t])
    BY <1>0, <2>1 DEF JobRecord, SameMemory, Washing, Harmless
  <2>3. QED
    BY <2>2, HarmlessIsFine
<1>5. CASE PurgeSweep(t)
  <2> DEFINE Clean(due) == [Idle EXCEPT !.job = "sweep", !.visits = due, !.mode = "purged"]
  <2>1. PICK late \in SUBSET {k[1] : k \in ConvOf(Old) \ convScrubbed} :
          LET due == (Old \ clickScrubbed) \cup late IN
          IF due = {} THEN Done(t) ELSE ScrubThen(t, Clean(due))
    BY <1>5 DEF PurgeSweep, PurgeSweepOn, Due, Unmarked
  <2> DEFINE due == (Old \ clickScrubbed) \cup late
  <2>2. due \subseteq Old
    BY DEF ConvOf
  <2>3. CASE due = {}
    BY <2>1, <2>3, DoneIs, HarmlessIsFine DEF Harmless
  <2>4. CASE due # {}
    <3>0. ScrubThen(t, Clean(due))
      BY <2>1, <2>4
    <3>a. due \in SUBSET Visits
      BY <2>2, ErasureAssumption
    <3> HIDE DEF due
    <3>1. Clean(due) \in TaskRecord /\ Clean(due).job = "sweep" /\ Clean(due).visits = due
      BY <1>0, <3>a DEF TaskRecord, Job, Mode
    <3>2. task'[t].pc = "scrubRead" /\ SameMemory(Clean(due), task'[t])
      BY <3>0, <3>1, ScrubThenIs
    <3>3. JobRecord(task'[t])
      BY <2>2, <3>1, <3>2 DEF JobRecord, SameMemory, Washing
    <3>4. QED
      BY <3>2, <3>3, NothingWashed
  <2>5. QED
    BY <2>3, <2>4
<1>6. QED
  BY <1>1, <1>2, <1>3, <1>4, <1>5 DEF Purge

LEMMA OtherRecord ==
    ASSUME TypeOK, TypeOK', CleanInv, NEW t \in Tasks, Reconcile(t) \/ Deliver(t) \/ Fault(t)
    PROVE  JobRecord(task'[t]) /\ TableRecord(task[t])'
<1> DEFINE r == task[t]
<1>0. r \in TaskRecord /\ Idle \in TaskRecord /\ JobRecord(r)
  BY IdleType DEF TypeOK, CleanInv
<1>d. ASSUME Done(t) PROVE Harmless(task'[t])
  BY <1>d, DoneIs DEF Harmless
<1>1. CASE Reconcile(t) \/ Deliver(t)
  <2>1. CASE ReconcileBegin(t)
    <3>1. task'[t] = [Idle EXCEPT
                  !.job = "reconcile", !.pc = "recon",
                  !.todo = {k[1] : k \in convRow},
                  !.seen = [v \in Visits |-> UNION {convPii[k] : k \in ConvOf({v})}]]
      BY <2>1, BecomesIs DEF ReconcileBegin
    <3>2. Harmless(task'[t])
      BY <3>1 DEF Harmless, Idle
    <3>3. QED
      BY <3>2, HarmlessIsFine
  <2>2. CASE ReconcileStep(t)
    <3>1. ASSUME NEW w, task'[t] = [r EXCEPT !.todo = @ \ {w}] PROVE Harmless(task'[t])
      <4>1. r.pc = "recon" /\ task'[t].pc = r.pc /\ task'[t].job = r.job
        BY <1>0, <2>2, <3>1 DEF ReconcileStep, At, TaskRecord
      <4>2. QED
        BY <1>0, <4>1 DEF Harmless, JobRecord, Washing
    <3>2. Harmless(task'[t])
      BY <1>d, <2>2, <3>1, BecomesIs DEF ReconcileStep
    <3>3. QED
      BY <3>2, HarmlessIsFine
  <2>3. CASE DeliverBegin(t)
    <3>1. PICK k \in convRow :
            task'[t] = [Idle EXCEPT !.job = "deliver", !.pc = "log", !.v = k[1], !.ev = k[2],
                                    !.data = convPii[k]]
      BY <2>3, BecomesIs DEF DeliverBegin
    <3>2. Harmless(task'[t])
      BY <3>1 DEF Harmless, Idle
    <3>3. QED
      BY <3>2, HarmlessIsFine
  <2>4. CASE DeliverLog(t)
    BY <1>d, <2>4, HarmlessIsFine DEF DeliverLog
  <2>5. QED
    BY <1>1, <2>1, <2>2, <2>3, <2>4 DEF Reconcile, Deliver
<1>2. CASE Crash(t)
  BY <1>d, <1>2, HarmlessIsFine DEF Crash
<1>3. CASE Swallow(t)
  <2>1. CASE r.pc = "insert" /\ Becomes(t, [r EXCEPT !.gone = {}])
    <3>1. task'[t].pc = "insert" /\ task'[t].job = r.job
      BY <1>0, <2>1, BecomesIs DEF TaskRecord
    <3>2. Harmless(task'[t])
      BY <1>0, <2>1, <3>1 DEF Harmless, JobRecord, Washing
    <3>3. QED
      BY <3>2, HarmlessIsFine
  <2>2. CASE (r.pc = "recheck" \/ r.job = "create") /\ Goto(t, "store")
    <3>1. task'[t].pc = "store" /\ SameMemory(r, task'[t])
      BY <2>2, GotoIs DEF PC
    <3>2. Harmless(task'[t])
      BY <1>0, <2>2, <3>1 DEF Harmless, JobRecord, SameMemory, Washing
    <3>3. QED
      BY <3>2, HarmlessIsFine
  <2>3. CASE r.pc = "find" /\ Becomes(t, [r EXCEPT !.pc = "remember", !.visits = {r.v},
                                                   !.todo = {r.v}, !.skipped = {r.v}])
    <3>a. task'[t] = [r EXCEPT !.pc = "remember", !.visits = {r.v}, !.todo = {r.v},
                               !.skipped = {r.v}]
      BY <2>3, BecomesIs
    <3>1. /\ task'[t].pc = "remember" /\ task'[t].visits = {r.v} /\ task'[t].todo = {r.v}
          /\ task'[t].job = r.job /\ task'[t].v = r.v
      BY <1>0, <3>a DEF TaskRecord
    <3>2. JobRecord(task'[t])
      BY <1>0, <2>3, <3>1 DEF JobRecord, Washing
    <3>3. QED
      BY <3>1, <3>2, NothingWashed
  <2>4. CASE r.pc = "remember" /\ \E p \in {"stone", "tombs"} : Goto(t, p)
    <3>1. task'[t].pc \in {"stone", "tombs"} /\ SameMemory(r, task'[t])
      BY <2>4, GotoIs DEF PC
    <3>2. JobRecord(task'[t])
      BY <1>0, <2>4, <3>1 DEF JobRecord, SameMemory, Washing
    <3>3. QED
      BY <3>1, <3>2, NothingWashed
  <2>5. QED
    BY <1>3, <2>1, <2>2, <2>3, <2>4 DEF Swallow, At
<1>4. CASE TombFails(t)
  <2>1. PICK w \in r.todo : task'[t] = [r EXCEPT !.todo = @ \ {w}, !.failed = TRUE]
    BY <1>4, BecomesIs DEF TombFails
  <2>2. /\ r.pc = "tombs" /\ task'[t].pc = r.pc /\ task'[t].todo = r.todo \ {w}
        /\ task'[t].job = r.job /\ task'[t].v = r.v /\ task'[t].visits = r.visits
    BY <1>0, <1>4, <2>1 DEF TombFails, At, TaskRecord
  <2>3. JobRecord(task'[t])
    BY <1>0, <2>2 DEF JobRecord, Washing
  <2>4. QED
    BY <2>2, <2>3, NothingWashed
<1>5. QED
  BY <1>1, <1>2, <1>3, <1>4 DEF Fault

-----------------------------------------------------------------------------
(* The tables.                                                               *)

LEMMA BlankKeeps ==
    ASSUME TypeOK, RegisterInv, CleanInv, NEW t \in Tasks, Work(t) \/ Fault(t)
    PROVE  BlankInv'
<1>0. /\ leadPii \in [Visits -> SUBSET Parts] /\ erased \subseteq Visits
      /\ BlankInv /\ JobRecord(task[t]) /\ erased \subseteq leadRow
  BY DEF TypeOK, CleanInv, RegisterInv, LeadInv
<1>1. CASE Untouched
  BY <1>0, <1>1 DEF Untouched, BlankInv
<1>2. CASE Completes \/ Stores
  <2>1. PICK v \in Visits, data \in SUBSET Parts : CreateOrFillLead(v, data) \/ FillLead(v, data)
    BY <1>2 DEF Completes, Stores
  <2>2. erased' = erased /\ purged' = purged /\ \A w \in erased : leadPii'[w] = leadPii[w]
    BY <1>0, <2>1 DEF CreateOrFillLead, FillLead
  <2>3. QED
    BY <1>0, <2>2 DEF BlankInv
<1>3. CASE Erases
  <2>1. PICK v \in Visits : Tombstone({v})
    BY <1>3 DEF Erases
  <2>2. /\ erased' = erased \cup {v} /\ purged' = purged \cup {v}
        /\ \A w \in Visits : leadPii'[w] = IF w = v THEN {} ELSE leadPii[w]
    BY <2>1 DEF Tombstone
  <2>3. QED
    BY <1>0, <2>2 DEF BlankInv
<1>4. CASE PurgeAnswers(t)
  <2> DEFINE r == task[t]
  <2>1. /\ erased' = erased /\ purged' = purged
        /\ \A v \in Visits : leadPii'[v] = IF v \in r.visits /\ "text" \in r.seen[v]
                                           THEN (leadPii[v] \ {"text"}) \cup (r.seen[v] \cap {"rest"})
                                           ELSE leadPii[v]
    BY <1>4 DEF PurgeAnswers
  <2>2. r.visits \subseteq Old
    BY <1>0, <1>4 DEF PurgeAnswers, At, JobRecord
  <2>3. ASSUME NEW v \in erased PROVE leadPii'[v] \subseteq (IF v \in Old THEN {"rest"} ELSE {})
    <3>1. v \in Visits /\ leadPii[v] \subseteq (IF v \in Old THEN {"rest"} ELSE {})
      BY <1>0 DEF BlankInv
    <3>2. QED
      BY <2>1, <2>2, <3>1
  <2>4. QED
    BY <1>0, <2>1, <2>3 DEF BlankInv
<1>5. CASE PurgeRows(t)
  <2>1. PICK hit : /\ hit = task[t].visits \ (purged \cup erased)
                   /\ erased' = erased /\ purged' = purged \cup hit
                   /\ \A v \in Visits : leadPii'[v] = IF v \in hit THEN leadPii[v] \ {"contact"}
                                                      ELSE leadPii[v]
    BY <1>5 DEF PurgeRows
  <2>2. hit \subseteq Old
    BY <1>0, <1>5, <2>1 DEF PurgeRows, At, JobRecord
  <2>3. QED
    BY <1>0, <2>1, <2>2 DEF BlankInv
<1>6. QED
  BY <1>1, <1>2, <1>3, <1>4, <1>5, LeadWrites

LEMMA MarksKeep ==
    ASSUME TypeOK, CleanInv, Shrinks, NEW t \in Tasks, Work(t) \/ Fault(t)
    PROVE  MarksInv'
<1> DEFINE r == task[t]
<1>0. /\ r \in TaskRecord /\ convRow \subseteq Keys /\ convPii \in [Keys -> SUBSET Parts]
      /\ leadScrubbed \subseteq Visits /\ convScrubbed \subseteq Keys
      /\ MarksInv /\ JobRecord(r) /\ TableRecord(r)
  BY DEF TypeOK, CleanInv
<1>1. ASSUME NEW v \in leadScrubbed' \ Old PROVE CleanClick(v)'
  <2>0. ASSUME NEW w \in Visits, CleanClick(w) PROVE CleanClick(w)'
    BY <2>0 DEF CleanClick, Shrinks
  <2>1. CASE v \in leadScrubbed
    BY <1>0, <2>0, <2>1 DEF MarksInv
  <2>2. CASE v \notin leadScrubbed
    <3>1. CASE EraseSeal(t)
      <4>1. v \in r.visits /\ r.pc = "seal"
        BY <2>2, <3>1 DEF EraseSeal, At
      <4>2. QED
        BY <1>0, <2>0, <4>1 DEF TableRecord, Washed, TaskRecord
    <3>2. CASE ResumeMark(t)
      <4>1. v = r.v /\ r.pc = "resumeMark"
        BY <2>2, <3>2 DEF ResumeMark, At
      <4>2. v \in r.visits
        BY <1>0, <4>1 DEF JobRecord
      <4>3. QED
        BY <1>0, <2>0, <4>1, <4>2 DEF TableRecord, Washed, TaskRecord
    <3>3. CASE PurgeMark(t)
      <4>1. v \in r.visits /\ r.pc = "purgeMark"
        BY <2>2, <3>3 DEF PurgeMark, At
      <4>2. QED
        BY <1>0, <4>1 DEF JobRecord
    <3>4. QED
      BY <2>2, <3>1, <3>2, <3>3, TableWrites
  <2>3. QED
    BY <2>1, <2>2
<1>2. ASSUME NEW k \in convScrubbed', k[1] \notin Old PROVE k \in convRow' /\ convPii'[k] = {}
  <2>1. k \in convRow /\ convPii[k] = {}
    <3>1. CASE k \in convScrubbed
      BY <1>0, <1>2, <3>1 DEF MarksInv
    <3>2. CASE k \notin convScrubbed
      <4>1. ScrubMark(t)
        BY <3>2, TableWrites
      <4>2. k \in r.read /\ r.pc = "scrubMark"
        BY <3>2, <4>1 DEF ScrubMark, At
      <4>3. QED
        BY <1>0, <1>2, <4>2 DEF TableRecord, Washing
    <3>3. QED
      BY <3>1, <3>2
  <2>2. QED
    BY <1>2, <2>1 DEF Shrinks
<1>3. ASSUME NEW k \in Keys \ convRow' PROVE convPii'[k] = {}
  <2>1. k \notin convRow /\ convPii[k] = {}
    BY <1>0, <1>3 DEF MarksInv, Shrinks
  <2>2. CASE CreateInsert(t)
    BY <1>0, <1>3, <2>1, <2>2 DEF CreateInsert
  <2>3. CASE ScrubRewrite(t)
    <3>1. k \notin r.read
      BY <1>0, <2>1, <2>3 DEF ScrubRewrite, At, TableRecord, Washing
    <3>2. QED
      BY <2>1, <2>3, <3>1 DEF ScrubRewrite
  <2>4. CASE ScrubSql(t)
    BY <2>1, <2>4 DEF ScrubSql, ConvOf
  <2>5. QED
    BY <2>1, <2>2, <2>3, <2>4, TableWrites DEF Conversions
<1>4. QED
  BY <1>1, <1>2, <1>3 DEF MarksInv

LEMMA CleanInit == Init => CleanInv
<1> SUFFICES ASSUME Init PROVE CleanInv
  OBVIOUS
<1>1. /\ purged = {} /\ erased = {} /\ leadScrubbed = {} /\ convScrubbed = {}
      /\ convPii = [k \in Keys |-> {}]
  BY DEF Init
<1>2. \A t \in Tasks : task[t].pc = "idle" /\ task[t].job = "none"
  BY DEF Init, Idle
<1>3. \A t \in Tasks : JobRecord(task[t]) /\ TableRecord(task[t])
  BY <1>2 DEF JobRecord, TableRecord, Washing, Washed
<1>4. QED
  BY <1>1, <1>3 DEF CleanInv, BlankInv, MarksInv

LEMMA CleanNext ==
    ASSUME TypeOK, TypeOK', RegisterInv, CleanInv, [Next]_vars
    PROVE  CleanInv'
<1>1. CASE UNCHANGED vars
  BY <1>1 DEF vars, clickVars, convVars, leadVars, CleanInv, BlankInv, MarksInv, CleanClick,
              TableRecord
<1>2. CASE Next
  <2>1. PICK t \in Tasks : Work(t) \/ Fault(t)
    BY <1>2 DEF Next
  <2>2. Shrinks
    BY <2>1, TablesShrink
  <2>3. JobRecord(task'[t]) /\ TableRecord(task[t])'
    BY <2>1, <2>2, ScrubRecord, CreateRecord, EraseRecord, ResumeRecord, RetentionRecord,
       OtherRecord DEF Work
  <2>4. ASSUME NEW u \in Tasks \ {t} PROVE JobRecord(task'[u]) /\ TableRecord(task[u])'
    <3>1. PICK r \in TaskRecord : r = task[u]
      BY DEF TypeOK
    <3>2. task'[u] = r /\ JobRecord(r) /\ TableRecord(r)
      BY <2>1, <3>1, OneHandler DEF CleanInv
    <3>3. TableRecord(r)'
      BY <2>2, <3>2, OthersKeep
    <3>4. QED
      BY <3>2, <3>3 DEF TableRecord
  <2>5. BlankInv' /\ MarksInv'
    BY <2>1, <2>2, BlankKeeps, MarksKeep
  <2>6. QED
    BY <2>3, <2>4, <2>5 DEF CleanInv
<1>3. QED
  BY <1>1, <1>2

LEMMA CleanInvariant == Spec => []CleanInv
<1>1. TypeOK /\ TypeOK' /\ RegisterInv /\ CleanInv /\ [Next]_vars => CleanInv'
  BY CleanNext
<1>2. QED
  BY TypeCorrect, RegisterInvariant, CleanInit, <1>1, PTL DEF Spec

\* The tombstone is blank, and only the retention that already held a row's
\* answers can write any of them back: never a contact, never on a recent visit.
THEOREM TombstoneKeepsAnswersOnly ==
    Spec => [](\A v \in erased : leadPii[v] \subseteq (IF v \in Old THEN {"rest"} ELSE {}))
<1>1. CleanInv => \A v \in erased : leadPii[v] \subseteq (IF v \in Old THEN {"rest"} ELSE {})
  BY DEF CleanInv, BlankInv
<1>2. QED
  BY CleanInvariant, <1>1, PTL

\* Where no visit is old enough for retention, every tombstone is blank.
THEOREM BlankBeforeRetention == Spec => [](Old = {} => TombstoneIsBlank)
<1>1. CleanInv => (Old = {} => TombstoneIsBlank)
  BY DEF CleanInv, BlankInv, TombstoneIsBlank
<1>2. QED
  BY CleanInvariant, <1>1, PTL

\* The mark never lies: of an erased lead marked scrubbed nothing of the person is
\* left, in the visit or in a conversion marked with it, whatever jobs overlap and
\* wherever one is cut.  A visit old enough for retention may get answers back.
THEOREM MarkNeverLies ==
    Spec => [](/\ \A v \in leadScrubbed \ Old : CleanAsMarked(v)
               /\ Old = {} => MarkMeansClean)
<1>1. ASSUME CleanInv, NEW v \in leadScrubbed \ Old PROVE CleanAsMarked(v)
  <2>1. CleanClick(v)
    BY <1>1 DEF CleanInv, MarksInv
  <2>2. ASSUME NEW e \in Events, <<v, e>> \in convScrubbed PROVE convPii[<<v, e>>] = {}
    BY <1>1, <2>2 DEF CleanInv, MarksInv
  <2>3. QED
    BY <2>1, <2>2 DEF CleanAsMarked, CleanClick
<1>2. CleanInv => /\ \A v \in leadScrubbed \ Old : CleanAsMarked(v)
                  /\ Old = {} => MarkMeansClean
  BY <1>1 DEF MarkMeansClean
<1>3. QED
  BY CleanInvariant, <1>2, PTL

-----------------------------------------------------------------------------
(* Nobody is forgotten half-way: as long as nothing failed, whatever is     *)
(* left of an erased visit is in the hands of a handler that will clean it. *)

Reaches(t, v) == task[t].pc \in {"tombs", "scrubRead"} /\ v \in task[t].visits

CoversClick(t, v) ==
    Reaches(t, v) \/ (task[t].pc \in {"scrubRewrite", "scrubSql"} /\ v \in task[t].visits)

CoversConv(t, k) ==
    \/ Reaches(t, k[1])
    \/ task[t].pc \in {"scrubRewrite", "scrubSql"} /\ k \in task[t].read
    \/ task[t].pc = "recheck" /\ Key(t) = k

QuietInv ==
    faults = 0 =>
        /\ \A t \in Tasks : ~task[t].failed
        /\ \A v \in erased \ Old : CleanClick(v) \/ \E t \in Tasks : CoversClick(t, v)
        /\ \A k \in Keys : k[1] \in erased \ Old =>
              convPii[k] = {} \/ \E t \in Tasks : CoversConv(t, k)

\* Without a fault, the step is one of the handler's own.
LEMMA NoFault ==
    ASSUME TypeOK, NEW t \in Tasks, Work(t) \/ Fault(t), faults' = 0
    PROVE  Work(t)
<1>1. ASSUME Fault(t) PROVE faults' = faults + 1
  BY <1>1 DEF Fault, Crash, Swallow, TombFails, Fails
<1>2. QED
  BY <1>1 DEF TypeOK

\* Without a fault, nothing counted one before.
LEMMA NoFaultBefore ==
    ASSUME NEW t \in Tasks, Work(t), faults' = 0
    PROVE  faults = 0
<1>1. CASE Scrub(t)
  BY <1>1 DEF Scrub, ScrubRead, ScrubRewrite, ScrubSql, ScrubLogs, ScrubMark
<1>2. CASE Create(t)
  BY <1>2 DEF Create, CreateBegin, CreateInsert, CreateConflict, CreateRecheck, StoreStep,
              StoreRead, StoreLead
<1>3. CASE Erase(t)
  BY <1>3 DEF Erase, EraseBegin, EraseFind, EraseRemember, EraseStone, EraseStoneRaced,
              EraseTomb, EraseThrow, EraseOwnRow, EraseSeal
<1>4. CASE Resume(t) \/ Reconcile(t) \/ Deliver(t)
  BY <1>4 DEF Resume, ResumeBegin, ResumeStep, ResumeMark, Reconcile, ReconcileBegin,
              ReconcileStep, Deliver, DeliverBegin, DeliverLog
<1>5. CASE Purge(t)
  BY <1>5 DEF Purge, PurgeBegin, PurgeAnswers, PurgeRows, PurgeMark, PurgeSweep, PurgeSweepOn, Due, Unmarked
<1>6. QED
  BY <1>1, <1>2, <1>3, <1>4, <1>5 DEF Work

\* What the handler at a statement does next.
LEMMA WorkIs ==
    ASSUME NEW t \in Tasks, Work(t)
    PROVE  /\ task[t].pc = "scrubRead" => ScrubRead(t)
           /\ task[t].pc = "scrubRewrite" => ScrubRewrite(t)
           /\ task[t].pc = "scrubSql" => ScrubSql(t)
           /\ task[t].pc = "recheck" => CreateRecheck(t)
           /\ task[t].pc = "find" => EraseFind(t)
           /\ task[t].pc = "remember" => EraseRemember(t)
           /\ task[t].pc = "tombs" => EraseTomb(t) \/ EraseThrow(t) \/ EraseOwnRow(t)
<1> USE DEF At, Free
<1>1. CASE Scrub(t)
  BY <1>1 DEF Scrub, ScrubRead, ScrubRewrite, ScrubSql, ScrubLogs, ScrubMark
<1>2. CASE Create(t)
  BY <1>2 DEF Create, CreateBegin, CreateInsert, CreateConflict, CreateRecheck, StoreStep,
              StoreRead, StoreLead
<1>3. CASE Erase(t)
  BY <1>3 DEF Erase, EraseBegin, EraseFind, EraseRemember, EraseStone, EraseStoneRaced,
              EraseTomb, EraseThrow, EraseOwnRow, EraseSeal
<1>4. CASE Resume(t) \/ Reconcile(t) \/ Deliver(t)
  BY <1>4 DEF Resume, ResumeBegin, ResumeStep, ResumeMark, Reconcile, ReconcileBegin,
              ReconcileStep, Deliver, DeliverBegin, DeliverLog
<1>5. CASE Purge(t)
  BY <1>5 DEF Purge, PurgeBegin, PurgeAnswers, PurgeRows, PurgeMark, PurgeSweep, PurgeSweepOn, Due, Unmarked
<1>6. QED
  BY <1>1, <1>2, <1>3, <1>4, <1>5 DEF Work

\* The handler that reaches a visit goes on reaching it until it has read its
\* conversions.
LEMMA ReachesOn ==
    ASSUME TypeOK, NEW t \in Tasks, Work(t), ~task[t].failed, NEW v, Reaches(t, v)
    PROVE  \/ Reaches(t, v)'
           \/ /\ ScrubRead(t)
              /\ task'[t].pc = "scrubRewrite" /\ v \in task'[t].visits
              /\ task'[t].read = ConvOf(task[t].visits)
<1> DEFINE r == task[t]
<1>0. r \in TaskRecord
  BY DEF TypeOK
<1>1. CASE ScrubRead(t)
  <2>1. task'[t] = [r EXCEPT !.pc = "scrubRewrite", !.read = ConvOf(r.visits),
                      !.snap = [k \in Keys |-> IF k \in ConvOf(r.visits) THEN convPii[k] ELSE {}]]
    BY <1>1, BecomesIs DEF ScrubRead
  <2>2. QED
    BY <1>0, <1>1, <2>1 DEF TaskRecord, Reaches
<1>2. CASE EraseTomb(t)
  <2>1. PICK w \in r.todo : task'[t] = [r EXCEPT !.todo = @ \ {w}]
    BY <1>2, BecomesIs DEF EraseTomb
  <2>2. task'[t].pc = r.pc /\ task'[t].visits = r.visits
    BY <1>0, <2>1 DEF TaskRecord
  <2>3. QED
    BY <2>2 DEF Reaches
<1>3. CASE EraseOwnRow(t)
  <2> DEFINE s == [r EXCEPT !.mode = "erased"]
  <2>1. s \in TaskRecord /\ ScrubThen(t, s) /\ s.visits = r.visits
    BY <1>0, <1>3 DEF TaskRecord, Mode, EraseOwnRow
  <2>2. task'[t].pc = "scrubRead" /\ task'[t].visits = r.visits
    BY <2>1, ScrubThenIs DEF SameMemory
  <2>3. QED
    BY <2>2 DEF Reaches
<1>4. QED
  BY <1>1, <1>2, <1>3, WorkIs DEF Reaches, EraseThrow

LEMMA CoversClickOn ==
    ASSUME TypeOK, CleanInv', NEW t \in Tasks, Work(t), ~task[t].failed,
           NEW v \in Visits \ Old, CoversClick(t, v)
    PROVE  CoversClick(t, v)' \/ CleanClick(v)'
<1>1. CASE Reaches(t, v)
  BY <1>1, ReachesOn DEF CoversClick
<1>2. CASE task[t].pc = "scrubRewrite" /\ v \in task[t].visits
  <2>1. task'[t].pc = "scrubSql" /\ SameMemory(task[t], task'[t])
    BY <1>2, WorkIs, GotoIs DEF ScrubRewrite, PC
  <2>2. QED
    BY <1>2, <2>1 DEF CoversClick, SameMemory
<1>3. CASE task[t].pc = "scrubSql" /\ v \in task[t].visits
  <2>1. task'[t].pc = "scrubLogs" /\ SameMemory(task[t], task'[t])
    BY <1>3, WorkIs, GotoIs DEF ScrubSql, PC
  <2>2. TableRecord(task[t])'
    BY DEF CleanInv
  <2>3. QED
    BY <1>3, <2>1, <2>2 DEF TableRecord, SameMemory, Washed
<1>4. QED
  BY <1>1, <1>2, <1>3 DEF CoversClick

LEMMA CoversConvOn ==
    ASSUME TypeOK, CleanInv, CleanInv', NEW t \in Tasks, Work(t), ~task[t].failed,
           NEW k \in Keys, k[1] \in erased \ Old, CoversConv(t, k)
    PROVE  CoversConv(t, k)' \/ convPii'[k] = {}
<1> DEFINE r == task[t]
<1>0. r \in TaskRecord
  BY DEF TypeOK
<1>1. CASE Reaches(t, k[1])
  <2>1. CASE Reaches(t, k[1])'
    BY <2>1 DEF CoversConv
  <2>2. CASE ~Reaches(t, k[1])'
    <3>1. ScrubRead(t) /\ task'[t].pc = "scrubRewrite" /\ task'[t].read = ConvOf(r.visits)
      BY <1>1, <2>2, ReachesOn
    <3>2. UNCHANGED convVars
      BY <3>1 DEF ScrubRead
    <3>3. CASE k \in convRow
      BY <1>1, <3>1, <3>3 DEF Reaches, ConvOf, CoversConv
    <3>4. CASE k \notin convRow
      BY <3>2, <3>4 DEF convVars, CleanInv, MarksInv
    <3>5. QED
      BY <3>3, <3>4
  <2>3. QED
    BY <2>1, <2>2
<1>2. CASE r.pc = "scrubRewrite" /\ k \in r.read
  <2>1. task'[t].pc = "scrubSql" /\ SameMemory(r, task'[t])
    BY <1>2, WorkIs, GotoIs DEF ScrubRewrite, PC
  <2>2. QED
    BY <1>2, <2>1 DEF CoversConv, SameMemory
<1>3. CASE r.pc = "scrubSql" /\ k \in r.read
  <2>1. task'[t].pc = "scrubLogs" /\ SameMemory(r, task'[t])
    BY <1>3, WorkIs, GotoIs DEF ScrubSql, PC
  <2>2. TableRecord(task[t])'
    BY DEF CleanInv
  <2>3. QED
    BY <1>3, <2>1, <2>2 DEF TableRecord, SameMemory
<1>4. CASE r.pc = "recheck" /\ Key(t) = k
  <2> DEFINE s == [r EXCEPT !.visits = {r.v}, !.mode = "erased"]
  <2>1. CreateRecheck(t) /\ r.v = k[1]
    BY <1>4, WorkIs DEF Key
  <2>2. s \in TaskRecord /\ ScrubThen(t, s) /\ s.visits = {r.v}
    BY <1>0, <2>1 DEF TaskRecord, Mode, CreateRecheck
  <2>3. task'[t].pc = "scrubRead" /\ task'[t].visits = {r.v}
    BY <2>2, ScrubThenIs DEF SameMemory
  <2>4. QED
    BY <2>1, <2>3 DEF CoversConv, Reaches
<1>5. QED
  BY <1>1, <1>2, <1>3, <1>4 DEF CoversConv

\* Whoever erases a visit is on its way to clean it ...
LEMMA ErasedIsReached ==
    ASSUME TypeOK, CleanInv, NEW t \in Tasks, Work(t), NEW v \in erased' \ erased
    PROVE  Reaches(t, v)'
<1> DEFINE r == task[t]
<1>0. r \in TaskRecord /\ JobRecord(r)
  BY DEF TypeOK, CleanInv
<1>1. CASE EraseStone(t)
  <2>1. task'[t].pc = "tombs" /\ SameMemory(r, task'[t]) /\ v = r.v /\ r.pc = "stone"
    BY <1>1, GotoIs DEF EraseStone, Tombstone, PC, At
  <2>2. QED
    BY <1>0, <2>1 DEF JobRecord, SameMemory, Reaches
<1>2. CASE EraseTomb(t)
  <2>1. PICK w \in r.todo : Tombstone({w}) /\ task'[t] = [r EXCEPT !.todo = @ \ {w}]
    BY <1>2, BecomesIs DEF EraseTomb
  <2>2. task'[t].pc = "tombs" /\ r.pc = "tombs" /\ task'[t].visits = r.visits /\ v = w
    BY <1>0, <1>2, <2>1 DEF TaskRecord, EraseTomb, At, Tombstone
  <2>3. QED
    BY <1>0, <2>2 DEF JobRecord, Reaches
<1>3. CASE EraseOwnRow(t)
  <2> DEFINE s == [r EXCEPT !.mode = "erased"]
  <2>1. s \in TaskRecord /\ ScrubThen(t, s) /\ s.visits = r.visits /\ r.pc = "tombs"
    BY <1>0, <1>3 DEF TaskRecord, Mode, EraseOwnRow, At
  <2>2. task'[t].pc = "scrubRead" /\ task'[t].visits = r.visits
    BY <2>1, ScrubThenIs DEF SameMemory
  <2>3. v = r.v
    BY <1>3 DEF EraseOwnRow, Tombstone, leadVars
  <2>4. QED
    BY <1>0, <2>1, <2>2, <2>3 DEF JobRecord, Reaches
<1>4. QED
  BY <1>1, <1>2, <1>3, TableWrites

\* ... and whoever writes a conversion of an erased visit is about to look again.
LEMMA WrittenIsLookedAt ==
    ASSUME TypeOK, CleanInv, CleanInv', Shrinks, NEW t \in Tasks, Work(t),
           NEW k \in Keys, k[1] \notin Old, convPii[k] = {}, convPii'[k] # {}
    PROVE  CoversConv(t, k)'
<1>0. task[t] \in TaskRecord /\ convPii \in [Keys -> SUBSET Parts]
  BY DEF TypeOK
<1>1. k \in convRow' \ convRow
  BY DEF Shrinks, CleanInv, MarksInv
<1>2. CreateInsert(t)
  BY <1>1, TableWrites DEF Conversions, ScrubRewrite, ScrubSql
<1>3. k = Key(t)
  BY <1>1, <1>2 DEF CreateInsert
<1>4. Goto(t, "recheck")
  BY <1>0, <1>2, <1>3 DEF CreateInsert
<1>5. task'[t].pc = "recheck" /\ SameMemory(task[t], task'[t])
  BY <1>4, GotoIs DEF PC
<1>6. QED
  BY <1>3, <1>5 DEF CoversConv, Key, SameMemory

\* Only a fault makes tombstoneVisits throw.
LEMMA FailedNext ==
    ASSUME TypeOK, NEW t \in Tasks, Work(t), ~task[t].failed
    PROVE  ~task'[t].failed
<1> DEFINE r == task[t]
           Fine == task'[t].failed = FALSE
<1>0. r \in TaskRecord /\ r.failed = FALSE
  BY DEF TypeOK, TaskRecord
<1>b. ASSUME NEW s, Becomes(t, s), s.failed = FALSE PROVE Fine
  BY <1>b, BecomesIs
<1>d. ASSUME Done(t) PROVE Fine
  BY <1>d, DoneIs
<1>g. ASSUME NEW p, Goto(t, p) PROVE Fine
  BY <1>0, <1>g, <1>b DEF Goto, TaskRecord
<1>s. ASSUME NEW s \in TaskRecord, ScrubThen(t, s), s.failed = FALSE PROVE Fine
  BY <1>s, ScrubThenIs DEF SameMemory
<1>1. CASE Scrub(t)
  <2>1. CASE ScrubRead(t)
    <3> DEFINE s == [r EXCEPT !.pc = "scrubRewrite", !.read = ConvOf(r.visits),
                      !.snap = [k \in Keys |-> IF k \in ConvOf(r.visits) THEN convPii[k] ELSE {}]]
    <3>1. task'[t] = s
      BY <2>1, BecomesIs DEF ScrubRead
    <3>2. s.failed = FALSE
      BY <1>0 DEF TaskRecord
    <3>3. QED
      BY <3>1, <3>2
  <2>2. CASE ScrubMark(t)
    <3> DEFINE next == AfterScrub(r.job)
               s == IF next = "idle" THEN Idle ELSE [r EXCEPT !.pc = next]
    <3>1. task'[t] = s
      BY <2>2, BecomesIs DEF ScrubMark
    <3>2. s.failed = FALSE
      BY <1>0 DEF TaskRecord, Idle
    <3>3. QED
      BY <3>1, <3>2
  <2>3. QED
    BY <1>1, <1>g, <2>1, <2>2 DEF Scrub, ScrubRewrite, ScrubSql, ScrubLogs
<1>2. CASE Create(t)
  <2>1. CASE CreateBegin(t)
    <3> DEFINE Entry(v, e, p) == [Idle EXCEPT
                    !.job = "create", !.v = v, !.ev = e, !.data = p,
                    !.pc = IF <<v, e>> \in convRow THEN "store" ELSE "insert",
                    !.gone = IF <<v, e>> \in convRow THEN {} ELSE {v} \cap erased]
    <3>1. PICK v \in Visits, e \in Events, p \in Payloads : Becomes(t, Entry(v, e, p))
      BY <2>1 DEF CreateBegin
    <3>2. task'[t] = Entry(v, e, p)
      BY <3>1 DEF Becomes, TypeOK
    <3>3. QED
      BY <3>2 DEF Idle
  <2>2. CASE CreateRecheck(t)
    <3> DEFINE s == [r EXCEPT !.visits = {r.v}, !.mode = "erased"]
    <3>1. s \in TaskRecord /\ s.failed = FALSE
      BY <1>0 DEF TaskRecord, Mode
    <3>2. QED
      BY <2>2, <3>1, <1>g, <1>s DEF CreateRecheck
  <2>3. CASE StoreRead(t)
    <3> DEFINE s == [r EXCEPT !.pc = "lead", !.data = @ \cup
                       UNION {convPii[k] : k \in ConvOf({task[t].v})}]
    <3>1. task'[t] = s
      BY <2>3, BecomesIs DEF StoreRead
    <3>2. s.failed = FALSE
      BY <1>0 DEF TaskRecord
    <3>3. QED
      BY <3>1, <3>2
  <2>4. QED
    BY <1>2, <1>d, <1>g, <2>1, <2>2, <2>3 DEF Create, CreateInsert, CreateConflict, StoreStep,
                                             StoreLead
<1>3. CASE Erase(t)
  <2>1. CASE EraseBegin(t)
    <3> DEFINE Entry(v) == [Idle EXCEPT
               !.v = v, !.pc = "find",
               !.job = IF v \in leadRow THEN "delete" ELSE "visit",
               !.data = (IF v \in leadRow THEN leadPii[v] ELSE clickPii[v]) \cap {"contact"}]
    <3>1. PICK v \in Visits : task'[t] = Entry(v)
      BY <2>1, BecomesIs, Zenon DEF EraseBegin
    <3>2. Entry(v).failed = FALSE
      BY DEF Idle
    <3>3. QED
      BY <3>1, <3>2
  <2>2. CASE EraseFind(t)
    <3> DEFINE visits == PersonVisits(r.v, Known(t))
               s == [r EXCEPT !.pc = "remember", !.visits = visits, !.todo = visits,
                              !.skipped = Candidates(r.v, Known(t)) \ visits]
    <3>1. task'[t] = s
      BY <2>2, BecomesIs DEF EraseFind
    <3>2. s.failed = FALSE
      BY <1>0 DEF TaskRecord
    <3>3. QED
      BY <3>1, <3>2
  <2>3. CASE EraseStoneRaced(t)
    <3> DEFINE s == [Idle EXCEPT !.v = task[t].v, !.pc = "find", !.job = "delete",
                                 !.data = leadPii[task[t].v] \cap {"contact"}]
    <3>1. task'[t] = s
      BY <2>3, BecomesIs DEF EraseStoneRaced
    <3>2. s.failed = FALSE
      BY DEF Idle
    <3>3. QED
      BY <3>1, <3>2
  <2>4. CASE EraseTomb(t)
    <3>1. PICK w \in r.todo : task'[t] = [r EXCEPT !.todo = @ \ {w}]
      BY <2>4, BecomesIs DEF EraseTomb
    <3>2. [r EXCEPT !.todo = @ \ {w}].failed = FALSE
      BY <1>0 DEF TaskRecord
    <3>3. QED
      BY <3>1, <3>2
  <2>5. CASE EraseOwnRow(t)
    <3> DEFINE s == [r EXCEPT !.mode = "erased"]
    <3>1. s \in TaskRecord /\ s.failed = FALSE
      BY <1>0 DEF TaskRecord, Mode
    <3>2. QED
      BY <2>5, <3>1, <1>s DEF EraseOwnRow
  <2>6. QED
    BY <1>3, <1>d, <1>g, <2>1, <2>2, <2>3, <2>4, <2>5 DEF Erase, EraseRemember, EraseStone,
                                                         EraseThrow, EraseSeal
<1>4. CASE Resume(t)
  <2>1. CASE ResumeBegin(t)
    <3> DEFINE pending == (erased \cup purged) \ leadScrubbed
               s == [Idle EXCEPT !.job = "resume", !.pc = "loop", !.todo = pending,
                                 !.gone = pending \cap erased]
    <3>1. task'[t] = s
      BY <2>1, BecomesIs DEF ResumeBegin
    <3>2. s.failed = FALSE
      BY DEF Idle
    <3>3. QED
      BY <3>1, <3>2
  <2>2. CASE ResumeStep(t)
    <3> DEFINE One(w) == [r EXCEPT
                 !.v = w, !.visits = {w}, !.todo = @ \ {w},
                 !.mode = IF w \in r.gone THEN "erased" ELSE "purged"]
    <3>1. PICK w \in r.todo : ScrubThen(t, One(w))
      BY <2>2 DEF ResumeStep
    <3>2. w \in Visits
      BY <1>0 DEF TaskRecord
    <3>3. One(w) \in TaskRecord /\ One(w).failed = FALSE
      BY <1>0, <3>2 DEF TaskRecord, Mode
    <3>4. task'[t] = [One(w) EXCEPT !.pc = "scrubRead"]
      BY <3>1 DEF ScrubThen, Becomes, TypeOK
    <3>5. QED
      BY <3>3, <3>4 DEF TaskRecord
  <2>3. QED
    BY <1>4, <1>d, <1>g, <2>1, <2>2 DEF Resume, ResumeMark
<1>5. CASE Reconcile(t) \/ Deliver(t)
  <2>1. CASE ReconcileBegin(t)
    <3> DEFINE s == [Idle EXCEPT
                  !.job = "reconcile", !.pc = "recon",
                  !.todo = {k[1] : k \in convRow},
                  !.seen = [v \in Visits |-> UNION {convPii[k] : k \in ConvOf({v})}]]
    <3>1. task'[t] = s
      BY <2>1, BecomesIs DEF ReconcileBegin
    <3>2. s.failed = FALSE
      BY DEF Idle
    <3>3. QED
      BY <3>1, <3>2
  <2>2. CASE ReconcileStep(t)
    <3>1. PICK w \in r.todo : Done(t) \/ Becomes(t, [r EXCEPT !.todo = @ \ {w}])
      BY <2>2 DEF ReconcileStep
    <3>2. [r EXCEPT !.todo = @ \ {w}].failed = FALSE
      BY <1>0 DEF TaskRecord
    <3>3. QED
      BY <3>1, <3>2, <1>b, <1>d
  <2>3. CASE DeliverBegin(t)
    <3> DEFINE Sending(k) == [Idle EXCEPT !.job = "deliver", !.pc = "log", !.v = k[1], !.ev = k[2],
                                          !.data = convPii[k]]
    <3>1. PICK k \in convRow : task'[t] = Sending(k)
      BY <2>3, BecomesIs DEF DeliverBegin
    <3>2. Sending(k).failed = FALSE
      BY DEF Idle
    <3>3. QED
      BY <3>1, <3>2
  <2>4. QED
    BY <1>5, <1>d, <2>1, <2>2, <2>3 DEF Reconcile, Deliver, DeliverLog
<1>6. CASE Purge(t)
  <2>1. CASE PurgeBegin(t)
    <3> DEFINE due == (Old \cap leadRow) \ (purged \cup erased)
               s == [Idle EXCEPT !.job = "purge", !.visits = due, !.mode = "purged",
                                 !.seen = leadPii, !.pc = IF due = {} THEN "sweep" ELSE "answers"]
    <3>1. task'[t] = s
      BY <2>1, BecomesIs DEF PurgeBegin
    <3>2. s.failed = FALSE
      BY DEF Idle
    <3>3. QED
      BY <3>1, <3>2
  <2>2. CASE PurgeSweep(t)
    <3> DEFINE Clean(due) == [Idle EXCEPT !.job = "sweep", !.visits = due, !.mode = "purged"]
    <3>1. PICK due : Done(t) \/ Becomes(t, [Clean(due) EXCEPT !.pc = "scrubRead"])
      <4>1. PICK late \in SUBSET {k[1] : k \in ConvOf(Old) \ convScrubbed} :
              LET d == (Old \ clickScrubbed) \cup late IN
              IF d = {} THEN Done(t) ELSE ScrubThen(t, Clean(d))
        BY <2>2 DEF PurgeSweep, PurgeSweepOn, Due, Unmarked
      <4>2. QED
        BY <4>1 DEF ScrubThen
    <3>2. [Clean(due) EXCEPT !.pc = "scrubRead"].failed = FALSE
      BY DEF Idle
    <3>3. QED
      BY <3>1, <3>2, <1>b, <1>d
  <2>3. QED
    BY <1>0, <1>6, <1>g, <1>s, <2>1, <2>2 DEF Purge, PurgeAnswers, PurgeRows, PurgeMark
<1>7. QED
  BY <1>1, <1>2, <1>3, <1>4, <1>5, <1>6 DEF Work, Fine

LEMMA QuietNext ==
    ASSUME TypeOK, CleanInv, CleanInv', QuietInv, [Next]_vars
    PROVE  QuietInv'
<1>1. CASE UNCHANGED vars
  BY <1>1 DEF vars, clickVars, convVars, leadVars, QuietInv, CleanClick, CoversClick, CoversConv,
              Reaches, Key
<1>2. CASE Next
  <2> SUFFICES ASSUME faults' = 0
               PROVE  /\ \A u \in Tasks : ~task'[u].failed
                      /\ \A v \in erased' \ Old :
                            CleanClick(v)' \/ \E u \in Tasks : CoversClick(u, v)'
                      /\ \A k \in Keys : k[1] \in erased' \ Old =>
                            convPii'[k] = {} \/ \E u \in Tasks : CoversConv(u, k)'
    BY DEF QuietInv
  <2>1. PICK t \in Tasks : Work(t) \/ Fault(t)
    BY <1>2 DEF Next
  <2>2. Work(t) /\ Shrinks /\ \A u \in Tasks \ {t} : task'[u] = task[u]
    BY <2>1, NoFault, TablesShrink, OneHandler
  <2>3. faults = 0
    BY <2>2, NoFaultBefore
  <2>4. /\ \A u \in Tasks : ~task[u].failed
        /\ \A v \in erased \ Old : CleanClick(v) \/ \E u \in Tasks : CoversClick(u, v)
        /\ \A k \in Keys : k[1] \in erased \ Old =>
              convPii[k] = {} \/ \E u \in Tasks : CoversConv(u, k)
    BY <2>3 DEF QuietInv
  <2>5. \A u \in Tasks : ~task'[u].failed
    BY <2>2, <2>4, FailedNext
  <2>6. ASSUME NEW v \in erased' \ Old PROVE CleanClick(v)' \/ \E u \in Tasks : CoversClick(u, v)'
    <3>1. CASE v \notin erased
      BY <2>2, <2>6, <3>1, ErasedIsReached DEF CoversClick
    <3>2. CASE v \in erased /\ CleanClick(v)
      <4>1. v \in Visits
        BY <3>2 DEF TypeOK
      <4>2. QED
        BY <2>2, <3>2, <4>1 DEF CleanClick, Shrinks
    <3>3. CASE v \in erased /\ \E u \in Tasks : CoversClick(u, v)
      <4>1. PICK u \in Tasks : CoversClick(u, v)
        BY <3>3
      <4>2. v \in Visits \ Old
        BY <2>6, <3>3 DEF TypeOK
      <4>3. CASE u = t
        BY <2>2, <2>4, <4>1, <4>2, <4>3, CoversClickOn
      <4>4. CASE u # t
        <5>1. task'[u] = task[u]
          BY <2>2, <4>4
        <5>2. CoversClick(u, v)'
          BY <4>1, <5>1 DEF CoversClick, Reaches
        <5>3. QED
          BY <5>2
      <4>5. QED
        BY <4>3, <4>4
    <3>4. QED
      BY <2>4, <2>6, <3>1, <3>2, <3>3
  <2>7. ASSUME NEW k \in Keys, k[1] \in erased' \ Old
        PROVE  convPii'[k] = {} \/ \E u \in Tasks : CoversConv(u, k)'
    <3>1. CASE k[1] \notin erased
      BY <2>2, <2>7, <3>1, ErasedIsReached DEF CoversConv
    <3>2. CASE k[1] \in erased /\ convPii[k] = {}
      BY <2>2, <2>7, <3>2, WrittenIsLookedAt
    <3>3. CASE k[1] \in erased /\ \E u \in Tasks : CoversConv(u, k)
      <4>1. PICK u \in Tasks : CoversConv(u, k)
        BY <3>3
      <4>3. CASE u = t
        BY <2>2, <2>4, <2>7, <3>3, <4>1, <4>3, CoversConvOn
      <4>4. CASE u # t
        <5>1. task'[u] = task[u]
          BY <2>2, <4>4
        <5>2. CoversConv(u, k)'
          BY <4>1, <5>1 DEF CoversConv, Reaches, Key
        <5>3. QED
          BY <5>2
      <4>5. QED
        BY <4>3, <4>4
    <3>4. QED
      BY <2>4, <2>7, <3>1, <3>2, <3>3
  <2>8. QED
    BY <2>5, <2>6, <2>7
<1>3. QED
  BY <1>1, <1>2

LEMMA QuietInit == Init => QuietInv
  BY DEF Init, QuietInv, Idle

LEMMA QuietInvariant == Spec => []QuietInv
<1>1. TypeOK /\ CleanInv /\ CleanInv' /\ QuietInv /\ [Next]_vars => QuietInv'
  BY QuietNext
<1>2. QED
  BY TypeCorrect, CleanInvariant, QuietInit, <1>1, PTL DEF Spec

\* Nobody is forgotten half-way: once every handler has returned and none failed, an
\* erased visit that retention has not reached is clean, conversions that arrived
\* during the erasure included.
THEOREM ErasureLeavesNothing ==
    Spec => [](/\ Quiet => \A v \in erased \ Old : Forgotten(v)
               /\ Old = {} => QuietErasureIsClean)
<1>1. ASSUME TypeOK, QuietInv, Quiet, NEW v \in erased \ Old PROVE Forgotten(v)
  <2>1. \A t \in Tasks : task[t].pc = "idle" /\ faults = 0
    BY <1>1 DEF Quiet
  <2>2. v \in Visits /\ faults = 0
    BY <1>1 DEF TypeOK, Quiet
  <2>3. CleanClick(v)
    BY <1>1, <2>1, <2>2 DEF QuietInv, CoversClick, Reaches
  <2>4. ASSUME NEW e \in Events PROVE convPii[<<v, e>>] = {}
    <3>1. <<v, e>> \in Keys
      BY <2>2 DEF Keys
    <3>2. QED
      BY <1>1, <2>1, <2>2, <3>1 DEF QuietInv, CoversConv, Reaches
  <2>5. QED
    BY <2>3, <2>4 DEF Forgotten, CleanClick
<1>2. TypeOK /\ QuietInv => /\ Quiet => \A v \in erased \ Old : Forgotten(v)
                            /\ Old = {} => QuietErasureIsClean
  BY <1>1 DEF QuietErasureIsClean
<1>3. QED
  BY TypeCorrect, QuietInvariant, <1>2, PTL

-----------------------------------------------------------------------------
(* The visits an erasure owes: those that showed the contact of its visit    *)
(* when it was asked for.                                                    *)

UnderWay(t, v, w) ==
    /\ task[t].job = "delete" /\ task[t].v = v
    /\ \/ task[t].pc = "find" /\ Known(t)
       \/ task[t].pc \in {"remember", "tombs"} /\ w \in task[t].todo

OwedInv ==
    faults = 0 =>
        \A v, w \in Visits : <<v, w>> \in owed /\ w \notin Old =>
            /\ SamePerson(v, w) /\ w \in leadRow
            /\ w \in erased \/ \E t \in Tasks : UnderWay(t, v, w)

\* No row is deleted and no erasure is undone.
LEMMA RowsStay ==
    ASSUME TypeOK, RegisterInv, NEW t \in Tasks, Work(t) \/ Fault(t)
    PROVE  leadRow \subseteq leadRow' /\ erased \subseteq erased'
<1>1. leadRow \subseteq leadRow'
  BY LeadSteps, LeadStepKeeps DEF RegisterInv
<1>2. erased \subseteq erased'
  BY TableWrites DEF EraseStone, EraseTomb, EraseOwnRow, Tombstone, leadVars
<1>3. QED
  BY <1>1, <1>2

\* Who is asked for what is written down when the request comes in.
LEMMA OwedStep ==
    ASSUME NEW t \in Tasks, Work(t)
    PROVE  owed' = owed \/ EraseBegin(t)
<1> USE DEF history
<1>1. CASE Scrub(t)
  BY <1>1 DEF Scrub, ScrubRead, ScrubRewrite, ScrubSql, ScrubLogs, ScrubMark
<1>2. CASE Create(t)
  BY <1>2 DEF Create, CreateBegin, CreateInsert, CreateConflict, CreateRecheck, StoreStep,
              StoreRead, StoreLead
<1>3. CASE Erase(t)
  BY <1>3 DEF Erase, EraseFind, EraseRemember, EraseStone, EraseStoneRaced,
              EraseTomb, EraseThrow, EraseOwnRow, EraseSeal
<1>4. CASE Resume(t) \/ Reconcile(t) \/ Deliver(t)
  BY <1>4 DEF Resume, ResumeBegin, ResumeStep, ResumeMark, Reconcile, ReconcileBegin,
              ReconcileStep, Deliver, DeliverBegin, DeliverLog
<1>5. CASE Purge(t)
  BY <1>5 DEF Purge, PurgeBegin, PurgeAnswers, PurgeRows, PurgeMark, PurgeSweep, PurgeSweepOn, Due, Unmarked
<1>6. QED
  BY <1>1, <1>2, <1>3, <1>4, <1>5 DEF Work

\* The request that comes in with the contact of v searches for every visit
\* it owes.
LEMMA AskedIsSearched ==
    ASSUME TypeOK, NEW t \in Tasks, EraseBegin(t),
           NEW v \in Visits, NEW w \in Visits, <<v, w>> \in owed' \ owed
    PROVE  SamePerson(v, w) /\ w \in leadRow' /\ UnderWay(t, v, w)'
<1> DEFINE Entry(x) == [Idle EXCEPT
             !.v = x, !.pc = "find",
             !.job = IF x \in leadRow THEN "delete" ELSE "visit",
             !.data = (IF x \in leadRow THEN leadPii[x] ELSE clickPii[x]) \cap {"contact"}]
           Owes(x) == IF ShowsContact(x)
                      THEN {<<x, y>> : y \in {z \in Visits : ShowsContact(z) /\ SamePerson(x, z)}}
                      ELSE {}
<1>1. PICK x \in Visits : Becomes(t, Entry(x)) /\ owed' = owed \cup Owes(x)
  BY Zenon DEF EraseBegin
<1>2. <<v, w>> \in Owes(x)
  BY <1>1
<1>3. x = v /\ ShowsContact(v) /\ ShowsContact(w) /\ SamePerson(v, w)
  BY <1>2
<1>4. task'[t] = Entry(v)
  BY <1>1, <1>3, BecomesIs
<1>5. /\ task'[t].v = v /\ task'[t].pc = "find" /\ task'[t].job = "delete"
      /\ "contact" \in task'[t].data
  BY <1>3, <1>4 DEF Idle, ShowsContact
<1>6. leadRow' = leadRow
  BY DEF EraseBegin, leadVars
<1>7. QED
  BY <1>3, <1>5, <1>6 DEF UnderWay, Known, ShowsContact

\* ... and goes on until it has written the tombstone.
LEMMA UnderWayOn ==
    ASSUME TypeOK, RegisterInv, CleanInv, NEW t \in Tasks, Work(t), ~task[t].failed,
           NEW v \in Visits, NEW w \in leadRow \ (erased \cup Old), SamePerson(v, w),
           UnderWay(t, v, w)
    PROVE  UnderWay(t, v, w)' \/ w \in erased'
<1> DEFINE r == task[t]
<1>0. r \in TaskRecord /\ r.job = "delete" /\ r.v = v /\ w \in Visits
  BY DEF TypeOK, UnderWay
<1>1. CASE EraseFind(t)
  <2> DEFINE visits == PersonVisits(r.v, Known(t))
             others == Candidates(r.v, Known(t)) \ visits
  <2>1. /\ r.pc = "find" /\ Known(t)
        /\ task'[t] = [r EXCEPT !.pc = "remember", !.visits = visits, !.todo = visits,
                                !.skipped = others]
    BY <1>1, BecomesIs DEF EraseFind, At, UnderWay
  <2>2. ShowsContact(w)
    BY <1>0 DEF CleanInv, BlankInv, RegisterInv, LeadInv, ShowsContact
  <2>3. w \in visits
    BY <1>0, <2>1, <2>2 DEF PersonVisits, Candidates, Matches
  <2> HIDE DEF visits, others
  <2>4. /\ task'[t].pc = "remember" /\ task'[t].todo = visits
        /\ task'[t].job = r.job /\ task'[t].v = r.v
    BY <1>0, <2>1 DEF TaskRecord
  <2>5. QED
    BY <1>0, <2>3, <2>4 DEF UnderWay
<1>2. CASE EraseRemember(t)
  <2>1. Goto(t, "tombs") /\ r.pc = "remember" /\ w \in r.todo
    BY <1>0, <1>2 DEF EraseRemember, At, UnderWay
  <2>2. task'[t].pc = "tombs" /\ SameMemory(r, task'[t])
    BY <2>1, GotoIs DEF PC
  <2>3. QED
    BY <1>0, <2>1, <2>2 DEF UnderWay, SameMemory
<1>3. CASE EraseTomb(t)
  <2>1. PICK x \in r.todo : Tombstone({x}) /\ task'[t] = [r EXCEPT !.todo = @ \ {x}]
    BY <1>3, BecomesIs DEF EraseTomb
  <2>2. r.pc = "tombs" /\ w \in r.todo
    BY <1>3 DEF EraseTomb, At, UnderWay
  <2>3. CASE x = w
    BY <2>1, <2>3 DEF Tombstone
  <2>4. CASE x # w
    <3>1. /\ task'[t].pc = "tombs" /\ task'[t].todo = r.todo \ {x}
          /\ task'[t].job = r.job /\ task'[t].v = r.v
      BY <1>0, <2>1, <2>2 DEF TaskRecord
    <3>2. QED
      BY <1>0, <2>2, <2>4, <3>1 DEF UnderWay
  <2>5. QED
    BY <2>3, <2>4
<1>4. QED
  BY <1>1, <1>2, <1>3, WorkIs DEF UnderWay, EraseThrow, EraseOwnRow

LEMMA OwedNext ==
    ASSUME TypeOK, RegisterInv, CleanInv, QuietInv, OwedInv, [Next]_vars
    PROVE  OwedInv'
<1>1. CASE UNCHANGED vars
  BY <1>1 DEF vars, clickVars, convVars, leadVars, history, OwedInv, UnderWay, Known
<1>2. CASE Next
  <2> SUFFICES ASSUME faults' = 0,
                      NEW v \in Visits, NEW w \in Visits, <<v, w>> \in owed', w \notin Old
               PROVE  /\ SamePerson(v, w) /\ w \in leadRow'
                      /\ w \in erased' \/ \E t \in Tasks : UnderWay(t, v, w)'
    BY DEF OwedInv, SamePerson
  <2>1. PICK t \in Tasks : Work(t) \/ Fault(t)
    BY <1>2 DEF Next
  <2>2. Work(t)
    BY <2>1, NoFault
  <2>3. faults = 0
    BY <2>2, NoFaultBefore
  <2>4. leadRow \subseteq leadRow' /\ erased \subseteq erased'
    BY <2>2, RowsStay
  <2>5. CASE <<v, w>> \notin owed
    BY <2>2, <2>5, OwedStep, AskedIsSearched
  <2>6. CASE <<v, w>> \in owed
    <3>1. /\ SamePerson(v, w) /\ w \in leadRow
          /\ w \in erased \/ \E u \in Tasks : UnderWay(u, v, w)
      BY <2>3, <2>6 DEF OwedInv
    <3>2. CASE w \in erased
      BY <2>4, <3>1, <3>2
    <3>3. CASE w \notin erased
      <4>1. PICK u \in Tasks : UnderWay(u, v, w)
        BY <3>1, <3>3
      <4>2. CASE u = t
        <5>1. ~task[t].failed
          BY <2>3 DEF QuietInv
        <5>2. QED
          BY <2>2, <2>4, <3>1, <3>3, <4>1, <4>2, <5>1, UnderWayOn
      <4>3. CASE u # t
        <5>1. task'[u] = task[u]
          BY <2>2, <4>3, OneHandler
        <5>2. UnderWay(u, v, w)'
          BY <4>1, <5>1 DEF UnderWay, Known
        <5>3. QED
          BY <2>4, <3>1, <5>2
      <4>4. QED
        BY <4>2, <4>3
    <3>4. QED
      BY <3>2, <3>3
  <2>7. QED
    BY <2>5, <2>6
<1>3. QED
  BY <1>1, <1>2

LEMMA OwedInit == Init => OwedInv
  BY DEF Init, OwedInv

\* What an erasure owes is tombstoned or on its way, until a fault; and an answer
\* given covers every visit that showed the person's contact when it was asked
\* for, once the handlers have returned (a second request for the same visit may
\* still be behind the answer of the first).
THEOREM AnswersArePaid ==
    Spec => [](OwedInv /\ (Quiet /\ Old = {} => AnswerCoversThePerson))
<1>1. TypeOK /\ RegisterInv /\ CleanInv /\ QuietInv /\ OwedInv /\ [Next]_vars => OwedInv'
  BY OwedNext
<1>2. TypeOK /\ OwedInv => OwedInv /\ (Quiet /\ Old = {} => AnswerCoversThePerson)
  BY DEF TypeOK, OwedInv, Quiet, UnderWay, AnswerCoversThePerson
<1>3. QED
  BY TypeCorrect, RegisterInvariant, CleanInvariant, QuietInvariant, OwedInit, <1>1, <1>2, PTL
     DEF Spec
=============================================================================
