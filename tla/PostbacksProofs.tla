-------------------------- MODULE PostbacksProofs --------------------------
(***************************************************************************)
(* Theorems about Postbacks, for any number of conversions, networks,       *)
(* overlapping sweeps, manual retries and failures, and any batch size.     *)
(***************************************************************************)
EXTENDS Postbacks, FiniteSetTheorems, TLAPS

USE PostbacksAssumption

-----------------------------------------------------------------------------
(* Type correctness.  A step leaves a well-typed record in one task.        *)

Good(r) == r \in TaskRecord /\ HasItsRow(r)

TasksOK == task \in [Tasks -> TaskRecord] /\ \A t \in Tasks : Good(task[t])

LEMMA IdsAreNumbers == Conversions \subseteq 0 .. MaxConversions
  BY DEF Conversions

LEMMA IdleType == Good(Idle)
  BY DEF Idle, Good, HasItsRow, TaskRecord, Operation

LEMMA BecomesType ==
    ASSUME TypeOK, NEW t \in Tasks, NEW r, Good(r), Becomes(t, r)
    PROVE  TasksOK'
<1>1. task' \in [Tasks -> TaskRecord]
  BY DEF TypeOK, Becomes, Good
<1>2. ASSUME NEW u \in Tasks
      PROVE  Good(task[u])'
  <2>1. Good(task[u])
    BY DEF TypeOK, Good
  <2>2. task'[u] = IF u = t THEN r ELSE task[u]
    BY DEF TypeOK, Becomes
  <2>3. QED
    BY <2>1, <2>2 DEF Good, HasItsRow
<1>3. QED
  BY <1>1, <1>2 DEF TasksOK

LEMMA ProcessType ==
    ASSUME TypeOK, NEW t \in Tasks, NEW o \in Operation, NEW c \in Conversions, Process(t, o, c)
    PROVE  TasksOK'
<1>1. [Idle EXCEPT !.job = o, !.pc = "read", !.c = c] \in TaskRecord
  BY IdleType, IdsAreNumbers DEF TaskRecord, Good, HasItsRow
<1>2. Good([Idle EXCEPT !.job = o, !.pc = "read", !.c = c])
  BY <1>1 DEF Good, HasItsRow, Idle
<1>3. QED
  BY <1>2, BecomesType DEF Process

LEMMA AfterType ==
    ASSUME TypeOK, NEW t \in Tasks, After(t)
    PROVE  TasksOK'
<1> DEFINE r == [Idle EXCEPT !.job = "sweep", !.pc = "claim", !.todo = task[t].todo,
                             !.seen = task[t].seen]
<1>1. task[t].todo \in SUBSET Conversions /\ task[t].seen \in [Conversions -> Nat]
  BY DEF TypeOK, TaskRecord
<1>2. r \in TaskRecord
  BY <1>1, IdleType DEF TaskRecord, Operation, Good
<1>3. Good(r)
  BY <1>2 DEF Good, HasItsRow, Idle
<1>4. QED
  BY <1>3, IdleType, BecomesType DEF After

LEMMA OldestIsSubset ==
    ASSUME NEW S, NEW n
    PROVE  Oldest(S, n) \subseteq S
  BY DEF Oldest

LEMMA TypeInit == Init => TypeOK
  BY IdleType DEF Init, TypeOK, Status, Conversions, Good

LEMMA TypeStep ==
    ASSUME TypeOK, NEW t \in Tasks,
           FirstBegin(t) \/ RetryBegin(t) \/ SweepBegin(t) \/ Work(t) \/ Throws(t)
    PROVE  TypeOK'
<1> USE DEF table
<1>a. task[t] \in TaskRecord
  BY DEF TypeOK
<1>0. Good(task[t]) /\ task[t] \in TaskRecord
  BY <1>a DEF TypeOK, Good
<1>t. ASSUME TasksOK'
      PROVE  (task \in [Tasks -> TaskRecord] /\ \A u \in Tasks : HasItsRow(task[u]))'
  BY <1>t DEF TasksOK, Good
<1>1. CASE FirstBegin(t)
  <2>1. PICK c \in scheduled : scheduled' = scheduled \ {c} /\ Process(t, "first", c)
    BY <1>1 DEF FirstBegin
  <2>2. TasksOK'
    BY <2>1, ProcessType DEF TypeOK, Operation
  <2>3. QED
    BY <1>1, <1>t, <2>1, <2>2 DEF FirstBegin, TypeOK
<1>2. CASE RetryBegin(t)
  <2>1. PICK c \in 1 .. stored : status' = [status EXCEPT ![c] = "pending"] /\ Process(t, "retry", c)
    BY <1>2 DEF RetryBegin
  <2>2. c \in Conversions
    BY DEF TypeOK, Conversions
  <2>3. TasksOK'
    BY <2>1, <2>2, ProcessType DEF Operation
  <2>4. retries' \in 0 .. MaxRetries
    BY <1>2 DEF RetryBegin, TypeOK
  <2>5. QED
    BY <1>2, <1>t, <2>1, <2>3, <2>4 DEF RetryBegin, TypeOK, Status
<1>3. CASE SweepBegin(t)
  <2> DEFINE rows == Oldest({c \in 1 .. stored : status[c] \in Unfinished
                                                /\ attempts[c] < MaxAttempts}, Batch)
             due  == rows \cap rested
             seen == [c \in Conversions |-> IF c \in due THEN attempts[c] ELSE 0]
             r == [Idle EXCEPT !.job = "sweep", !.pc = "claim", !.todo = due, !.seen = seen]
  <2>1. due \in SUBSET Conversions /\ seen \in [Conversions -> Nat]
    BY DEF TypeOK
  <2>2. r \in TaskRecord
    BY <2>1, IdleType DEF TaskRecord, Operation, Good
  <2>3. Good(r)
    BY <2>2 DEF Good, HasItsRow, Idle
  <2>4. Becomes(t, r)
    BY <1>3 DEF SweepBegin
  <2>5. TasksOK'
    BY <2>3, <2>4, BecomesType
  <2>6. QED
    BY <1>3, <1>t, <2>5 DEF SweepBegin, TypeOK
<1>4. CASE SweepClaim(t)
  <2>1. PICK c \in task[t].todo :
          \/ /\ rested' = rested \ {c}
             /\ Becomes(t, [task[t] EXCEPT !.pc = "read", !.c = c, !.todo = @ \ {c}])
          \/ /\ rested' = rested
             /\ Becomes(t, IF task[t].todo = {c} THEN Idle ELSE [task[t] EXCEPT !.todo = @ \ {c}])
    BY <1>4 DEF SweepClaim
  <2>2. c \in Conversions
    BY <1>0 DEF TaskRecord
  <2>3. Good([task[t] EXCEPT !.pc = "read", !.c = c, !.todo = @ \ {c}])
    BY <1>0, <2>2, IdsAreNumbers DEF TaskRecord, Good, HasItsRow
  <2>4. Good([task[t] EXCEPT !.todo = @ \ {c}])
    BY <1>0 DEF TaskRecord, Good, HasItsRow
  <2>5. TasksOK'
    BY <2>1, <2>3, <2>4, IdleType, BecomesType
  <2>6. rested' \subseteq Conversions
    BY <2>1 DEF TypeOK
  <2>7. QED
    BY <1>4, <1>t, <2>5, <2>6 DEF SweepClaim, TypeOK
<1>5. CASE ReadRow(t)
  <2>1. ASSUME task[t].c \in Configured
        PROVE  Good([task[t] EXCEPT !.pc = "send", !.left = Handles[task[t].c], !.bad = FALSE])
    BY <1>0, <2>1 DEF TaskRecord, Good, HasItsRow
  <2>2. TasksOK'
    BY <1>5, <2>1, AfterType, BecomesType DEF ReadRow
  <2>3. QED
    BY <1>5, <1>t, <2>2 DEF ReadRow, TypeOK
<1>6. CASE Send(t)
  <2>1. PICK n \in task[t].left, ok \in BOOLEAN, took \in BOOLEAN :
          /\ accepted' = IF took THEN accepted \cup {<<task[t].c, n>>} ELSE accepted
          /\ Becomes(t, [task[t] EXCEPT !.pc = "log", !.left = @ \ {n}, !.net = n, !.ok = ok])
    BY <1>6 DEF Send
  <2>2. n \in Networks /\ task[t].c \in Conversions
    BY <1>0, <1>6 DEF TaskRecord, Good, HasItsRow, Send, At
  <2>3. Good([task[t] EXCEPT !.pc = "log", !.left = @ \ {n}, !.net = n, !.ok = ok])
    BY <1>0, <2>2 DEF TaskRecord, Good, HasItsRow
  <2>4. TasksOK'
    BY <2>1, <2>3, BecomesType
  <2>5. accepted' \subseteq Conversions \X Networks
    BY <2>1, <2>2 DEF TypeOK
  <2>6. QED
    BY <1>6, <1>t, <2>4, <2>5 DEF Send, TypeOK
<1>7. CASE Log(t)
  <2>1. task[t].c \in Conversions /\ task[t].net \in Networks /\ task[t].ok \in BOOLEAN
    BY <1>0, <1>7 DEF Good, HasItsRow, Log, At, TaskRecord
  <2>2. Good([task[t] EXCEPT !.pc = "send", !.bad = @ \/ ~task[t].ok])
    BY <1>0, <2>1 DEF TaskRecord, Good, HasItsRow
  <2>3. TasksOK'
    BY <1>7, <2>2, BecomesType DEF Log
  <2>4. logs' \subseteq Conversions \X Networks \X BOOLEAN
    BY <1>7, <2>1 DEF Log, TypeOK
  <2>5. QED
    BY <1>7, <1>t, <2>3, <2>4 DEF Log, TypeOK
<1>8. CASE Finish(t)
  <2>1. TasksOK'
    BY <1>8, AfterType DEF Finish
  <2>2. status' \in [Conversions -> Status]
    <3>1. (IF Handles[task[t].c] = {} THEN "skipped" ELSE IF task[t].bad THEN "failed" ELSE "sent")
            \in Status
      BY DEF Status
    <3>2. QED
      BY <1>8, <3>1 DEF Finish, TypeOK
  <2>3. attempts' \in [Conversions -> Nat]
    <3>1. attempts' = [attempts EXCEPT ![task[t].c] = @ + 1]
      BY <1>8 DEF Finish
    <3>2. \A c \in Conversions : attempts[c] + 1 \in Nat
      BY DEF TypeOK
    <3>3. QED
      BY <3>1, <3>2 DEF TypeOK
  <2>4. rested' \subseteq Conversions
    BY <1>8 DEF Finish, TypeOK
  <2>5. QED
    BY <1>8, <1>t, <2>1, <2>2, <2>3, <2>4 DEF Finish, TypeOK
<1>9. CASE Throws(t)
  <2>1. TasksOK' /\ faults' \in 0 .. MaxFaults
    BY <1>9, AfterType, IdleType, BecomesType DEF Throws, TypeOK
  <2>2. QED
    BY <1>9, <1>t, <2>1 DEF Throws, TypeOK
<1>10. QED
  BY <1>1, <1>2, <1>3, <1>4, <1>5, <1>6, <1>7, <1>8, <1>9 DEF Work

LEMMA TypeNext == TypeOK /\ [Next]_vars => TypeOK'
<1> SUFFICES ASSUME TypeOK, [Next]_vars
             PROVE  TypeOK'
  OBVIOUS
<1>1. CASE UNCHANGED vars
  BY <1>1 DEF vars, table, TypeOK
<1>2. CASE Arrive
  BY <1>2 DEF Arrive, TypeOK, Conversions
<1>3. CASE Restart
  <2>1. (task \in [Tasks -> TaskRecord] /\ \A t \in Tasks : HasItsRow(task[t]))'
    BY <1>3, IdleType DEF Restart, Good
  <2>2. faults' \in 0 .. MaxFaults
    BY <1>3 DEF Restart, TypeOK
  <2>3. QED
    BY <1>3, <2>1, <2>2 DEF Restart, TypeOK, table
<1>4. CASE \E c \in Conversions : Rest(c)
  BY <1>4 DEF Rest, TypeOK, table
<1>5. QED
  BY <1>1, <1>2, <1>3, <1>4, TypeStep DEF Next

\* Every row, log and run keeps its type, whatever overlaps or fails.
THEOREM TypeCorrect == Spec => []TypeOK
  BY TypeInit, TypeNext, PTL DEF Spec
-----------------------------------------------------------------------------
(* What the runs believe is true.  The facts a step may rely on: attempts   *)
(* never decrease, logs and acceptances are never taken back, and a row     *)
(* becomes settled only in a step that counts an attempt.                   *)

Progress ==
    /\ accepted \subseteq accepted' /\ logs \subseteq logs'
    /\ \A c \in Conversions :
         /\ attempts'[c] >= attempts[c]
         /\ attempts'[c] = attempts[c] /\ status[c] \in Unfinished => status'[c] \in Unfinished

(* What a run r knows, over given logs and acceptances, and what a sweep r     *)
(* knows, over given attempts and statuses: r itself is a fixed record.        *)
RunKnows(r, lg, ac) ==
    /\ r.pc \in {"send", "log"} =>
         /\ r.bad => \E n \in Networks : <<r.c, n, FALSE>> \in lg
         /\ ~r.bad => \A n \in Tried(r) : <<r.c, n>> \in ac
    /\ r.pc = "log" /\ r.ok => <<r.c, r.net>> \in ac

SweepKnows(r, at, st) ==
    \A c \in r.todo :
        /\ r.seen[c] <= at[c] /\ r.seen[c] < MaxAttempts
        /\ r.seen[c] = at[c] => st[c] \in Unfinished

KnowsNow(r)  == RunKnows(r, logs, accepted) /\ SweepKnows(r, attempts, status)
KnowsNext(r) == RunKnows(r, logs', accepted') /\ SweepKnows(r, attempts', status')

LEMMA KnowsIsInv ==
    DeliveryInv <=> /\ SentMeansAccepted /\ FailureIsExplained
                    /\ \A t \in Tasks : KnowsNow(task[t])
  BY DEF DeliveryInv, RunInv, SweepInv, KnowsNow, RunKnows, SweepKnows

LEMMA KnowsNextIsInv ==
    DeliveryInv' <=> /\ (SentMeansAccepted /\ FailureIsExplained)'
                     /\ \A t \in Tasks : KnowsNext(task'[t])
  BY DEF DeliveryInv, RunInv, SweepInv, KnowsNext, RunKnows, SweepKnows, Tried

\* Progress takes away nothing a run or a sweep knows.
LEMMA StillKnown ==
    ASSUME TypeOK, TypeOK', Progress, NEW r \in TaskRecord, KnowsNow(r)
    PROVE  KnowsNext(r)
<1>1. RunKnows(r, logs', accepted')
  BY DEF RunKnows, KnowsNow, Progress
<1>2. SweepKnows(r, attempts', status')
  <2>1. SUFFICES ASSUME NEW c \in r.todo
                 PROVE  /\ r.seen[c] <= attempts'[c] /\ r.seen[c] < MaxAttempts
                        /\ r.seen[c] = attempts'[c] => status'[c] \in Unfinished
    BY DEF SweepKnows
  <2>2. c \in Conversions /\ r.seen[c] \in Nat
    BY DEF TaskRecord
  <2>3. attempts[c] \in Nat /\ attempts'[c] \in Nat
    BY <2>2 DEF TypeOK
  <2>4. /\ r.seen[c] <= attempts[c] /\ r.seen[c] < MaxAttempts
        /\ r.seen[c] = attempts[c] => status[c] \in Unfinished
    BY DEF KnowsNow, SweepKnows
  <2>5. /\ attempts'[c] >= attempts[c]
        /\ attempts'[c] = attempts[c] /\ status[c] \in Unfinished => status'[c] \in Unfinished
    BY <2>2 DEF Progress
  <2> QED
    BY <2>2, <2>3, <2>4, <2>5
<1> QED
  BY <1>1, <1>2 DEF KnowsNext

LEMMA OneTask ==
    ASSUME TypeOK, TypeOK', DeliveryInv, Progress,
           NEW t \in Tasks, NEW r, Becomes(t, r), KnowsNext(r)
    PROVE  \A u \in Tasks : KnowsNext(task'[u])
<1>1. SUFFICES ASSUME NEW u \in Tasks
               PROVE  KnowsNext(task'[u])
  OBVIOUS
<1>2. task'[u] = IF u = t THEN r ELSE task[u]
  BY DEF TypeOK, Becomes
<1>3. task[u] \in TaskRecord
  BY DEF TypeOK
<1>4. KnowsNext(task[u])
  BY <1>3, KnowsIsInv, StillKnown
<1> QED
  BY <1>2, <1>4

LEMMA IdleKnows == KnowsNext(Idle)
  BY DEF KnowsNext, RunKnows, SweepKnows, Idle

\* After a row the sweep keeps what it knows of the rows still to come.
LEMMA AfterKeeps ==
    ASSUME TypeOK, TypeOK', DeliveryInv, Progress, NEW t \in Tasks, After(t)
    PROVE  \A u \in Tasks : KnowsNext(task'[u])
<1> DEFINE r == [Idle EXCEPT !.job = "sweep", !.pc = "claim", !.todo = task[t].todo,
                             !.seen = task[t].seen]
<1>1. task[t] \in TaskRecord
  BY DEF TypeOK
<1>2. SweepKnows(task[t], attempts', status')
  BY <1>1, KnowsIsInv, StillKnown DEF KnowsNext
<1>3. r.pc = "claim" /\ r.todo = task[t].todo /\ r.seen = task[t].seen
  BY DEF Idle
<1>4. Becomes(t, IF task[t].todo = {} THEN Idle ELSE r)
  BY DEF After
<1> HIDE DEF r
<1>5. KnowsNext(r)
  BY <1>2, <1>3 DEF KnowsNext, RunKnows, SweepKnows
<1>6. KnowsNext(IF task[t].todo = {} THEN Idle ELSE r)
  BY <1>5, IdleKnows
<1> QED
  BY <1>4, <1>6, OneTask

\* Steps that touch no row, no log and no network.
LEMMA QuietProgress ==
    ASSUME TypeOK, DeliveryInv, UNCHANGED <<status, attempts, logs, accepted>>
    PROVE  Progress /\ (SentMeansAccepted /\ FailureIsExplained)'
<1>1. \A c \in Conversions : attempts[c] \in Nat
  BY DEF TypeOK
<1>2. Progress
  BY <1>1 DEF Progress
<1>3. (SentMeansAccepted /\ FailureIsExplained)'
  BY DEF DeliveryInv, SentMeansAccepted, FailureIsExplained
<1> QED
  BY <1>2, <1>3

LEMMA ProcessKeeps ==
    ASSUME TypeOK, TypeOK', DeliveryInv, Progress, NEW t \in Tasks, NEW o, NEW c, Process(t, o, c)
    PROVE  \A u \in Tasks : KnowsNext(task'[u])
<1> DEFINE r == [Idle EXCEPT !.job = o, !.pc = "read", !.c = c]
<1>1. r.pc = "read" /\ r.todo = {}
  BY DEF Idle
<1>2. Becomes(t, r)
  BY DEF Process
<1> HIDE DEF r
<1>3. KnowsNext(r)
  BY <1>1 DEF KnowsNext, RunKnows, SweepKnows
<1> QED
  BY <1>2, <1>3, OneTask

LEMMA DeliveryStep ==
    ASSUME TypeOK, TypeOK', DeliveryInv, NEW t \in Tasks,
           FirstBegin(t) \/ RetryBegin(t) \/ SweepBegin(t) \/ Work(t) \/ Throws(t)
    PROVE  DeliveryInv'
<1> USE DEF table
<1>a. task[t] \in TaskRecord /\ KnowsNow(task[t]) /\ HasItsRow(task[t])
  BY KnowsIsInv DEF TypeOK
<1>k. ASSUME (SentMeansAccepted /\ FailureIsExplained)', \A u \in Tasks : KnowsNext(task'[u])
      PROVE  DeliveryInv'
  BY <1>k, KnowsNextIsInv
<1>b. \A c \in Conversions : attempts[c] \in Nat
  BY DEF TypeOK
<1>1. CASE FirstBegin(t)
  <2>1. PICK c \in scheduled : Process(t, "first", c)
    BY <1>1 DEF FirstBegin
  <2>2. Progress /\ (SentMeansAccepted /\ FailureIsExplained)'
    BY <1>1, QuietProgress DEF FirstBegin
  <2>3. QED
    BY <1>k, <2>1, <2>2, ProcessKeeps
<1>2. CASE RetryBegin(t)
  <2>1. PICK c \in 1 .. stored : status' = [status EXCEPT ![c] = "pending"] /\ Process(t, "retry", c)
    BY <1>2 DEF RetryBegin
  <2>2. \A d \in Conversions : status'[d] = status[d] \/ status'[d] = "pending"
    BY <2>1 DEF TypeOK
  <2>3. Progress
    BY <1>2, <1>b, <2>2 DEF RetryBegin, Progress, Unfinished
  <2>4. (SentMeansAccepted /\ FailureIsExplained)'
    BY <1>2, <2>2 DEF RetryBegin, DeliveryInv, SentMeansAccepted, FailureIsExplained
  <2>5. QED
    BY <1>k, <2>1, <2>3, <2>4, ProcessKeeps
<1>3. CASE SweepBegin(t)
  <2> DEFINE open == {c \in 1 .. stored : status[c] \in Unfinished /\ attempts[c] < MaxAttempts}
             due  == Oldest(open, Batch) \cap rested
             seen == [c \in Conversions |-> IF c \in due THEN attempts[c] ELSE 0]
             r == [Idle EXCEPT !.job = "sweep", !.pc = "claim", !.todo = due, !.seen = seen]
  <2>1. Becomes(t, r)
    BY <1>3 DEF SweepBegin
  <2>2. Progress /\ (SentMeansAccepted /\ FailureIsExplained)'
    BY <1>3, QuietProgress DEF SweepBegin
  <2>3. due \subseteq open /\ due \subseteq Conversions
    BY OldestIsSubset DEF TypeOK
  <2>4. \A c \in due : /\ seen[c] = attempts[c] /\ attempts[c] \in Nat
                       /\ attempts[c] < MaxAttempts /\ status[c] \in Unfinished
    BY <1>b, <2>3
  <2> HIDE DEF due, seen
  <2>5. r.pc = "claim" /\ r.todo = due /\ r.seen = seen
    BY DEF Idle
  <2>6. attempts' = attempts /\ status' = status
    BY <1>3 DEF SweepBegin
  <2> HIDE DEF r
  <2>7. SweepKnows(r, attempts', status')
    <3>1. \A c \in due : seen[c] <= attempts[c]
      BY <2>4
    <3>2. QED
      BY <2>4, <2>5, <2>6, <3>1 DEF SweepKnows
  <2>8. KnowsNext(r)
    BY <2>5, <2>7 DEF KnowsNext, RunKnows
  <2>9. QED
    BY <1>k, <2>1, <2>2, <2>8, OneTask
<1>4. CASE SweepClaim(t)
  <2>1. PICK c \in task[t].todo :
          \/ Becomes(t, [task[t] EXCEPT !.pc = "read", !.c = c, !.todo = @ \ {c}])
          \/ Becomes(t, IF task[t].todo = {c} THEN Idle ELSE [task[t] EXCEPT !.todo = @ \ {c}])
    BY <1>4 DEF SweepClaim
  <2>2. Progress /\ (SentMeansAccepted /\ FailureIsExplained)'
    BY <1>4, QuietProgress DEF SweepClaim
  <2>3. task[t].pc = "claim" /\ UNCHANGED <<attempts, status>>
    BY <1>4 DEF SweepClaim, At
  <2> DEFINE r == [task[t] EXCEPT !.pc = "read", !.c = c, !.todo = @ \ {c}]
             s == [task[t] EXCEPT !.todo = @ \ {c}]
  <2>4. /\ r.pc = "read" /\ r.todo = task[t].todo \ {c} /\ r.seen = task[t].seen
        /\ s.pc = "claim" /\ s.todo = task[t].todo \ {c} /\ s.seen = task[t].seen
    BY <1>a, <2>3 DEF TaskRecord
  <2>5. Becomes(t, r) \/ Becomes(t, Idle) \/ Becomes(t, s)
    BY <2>1
  <2> HIDE DEF r, s
  <2>6. SweepKnows(task[t], attempts', status')
    BY <1>a, <2>3 DEF KnowsNow
  <2>7. KnowsNext(r) /\ KnowsNext(s)
    BY <2>4, <2>6 DEF KnowsNext, RunKnows, SweepKnows
  <2>8. QED
    BY <1>k, <2>2, <2>5, <2>7, IdleKnows, OneTask
<1>5. CASE ReadRow(t)
  <2>1. Progress /\ (SentMeansAccepted /\ FailureIsExplained)'
    BY <1>5, QuietProgress DEF ReadRow
  <2>2. CASE task[t].c \in Configured
    <3> DEFINE r == [task[t] EXCEPT !.pc = "send", !.left = Handles[task[t].c], !.bad = FALSE]
    <3>1. Becomes(t, r) /\ UNCHANGED <<status, attempts>>
      BY <1>5, <2>2 DEF ReadRow
    <3>2. /\ r.pc = "send" /\ r.c = task[t].c /\ r.left = Handles[r.c] /\ r.bad = FALSE
          /\ r.todo = task[t].todo /\ r.seen = task[t].seen
      BY <1>a DEF TaskRecord
    <3> HIDE DEF r
    <3>3. RunKnows(r, logs', accepted')
      BY <3>2 DEF RunKnows, Tried
    <3>4. SweepKnows(r, attempts', status')
      BY <1>a, <3>1, <3>2 DEF KnowsNow, SweepKnows
    <3>5. QED
      BY <1>k, <2>1, <3>1, <3>3, <3>4, OneTask DEF KnowsNext
  <2>3. CASE task[t].c \notin Configured
    BY <1>5, <1>k, <2>1, <2>3, AfterKeeps DEF ReadRow
  <2>4. QED
    BY <2>2, <2>3
<1>6. CASE Send(t)
  <2>1. PICK n \in task[t].left, ok \in BOOLEAN, took \in BOOLEAN :
          /\ ok => took
          /\ accepted' = IF took THEN accepted \cup {<<task[t].c, n>>} ELSE accepted
          /\ Becomes(t, [task[t] EXCEPT !.pc = "log", !.left = @ \ {n}, !.net = n, !.ok = ok])
    BY <1>6 DEF Send
  <2> DEFINE r == [task[t] EXCEPT !.pc = "log", !.left = @ \ {n}, !.net = n, !.ok = ok]
  <2>2. task[t].pc = "send" /\ UNCHANGED <<status, attempts, logs>> /\ accepted \subseteq accepted'
    BY <1>6, <2>1 DEF Send, At
  <2>3. Progress
    BY <1>b, <2>2 DEF Progress
  <2>4. (SentMeansAccepted /\ FailureIsExplained)'
    BY <2>2 DEF DeliveryInv, SentMeansAccepted, FailureIsExplained
  <2>5. /\ r.pc = "log" /\ r.c = task[t].c /\ r.left = task[t].left \ {n} /\ r.net = n
        /\ r.ok = ok /\ r.bad = task[t].bad /\ r.todo = task[t].todo /\ r.seen = task[t].seen
    BY <1>a DEF TaskRecord
  <2>6. Becomes(t, r)
    BY <2>1
  <2> HIDE DEF r
  <2>7. RunKnows(r, logs', accepted')
    <3>1. Tried(r) \subseteq Tried(task[t])
      BY <2>2, <2>5 DEF Tried
    <3>2. QED
      BY <1>a, <2>1, <2>2, <2>5, <3>1 DEF KnowsNow, RunKnows, Tried
  <2>8. SweepKnows(r, attempts', status')
    BY <1>a, <2>2, <2>5 DEF KnowsNow, SweepKnows
  <2>9. QED
    BY <1>k, <2>3, <2>4, <2>6, <2>7, <2>8, OneTask DEF KnowsNext
<1>7. CASE Log(t)
  <2> DEFINE r == [task[t] EXCEPT !.pc = "send", !.bad = @ \/ ~task[t].ok]
  <2>1. /\ task[t].pc = "log" /\ UNCHANGED <<status, attempts, accepted>>
        /\ logs' = logs \cup {<<task[t].c, task[t].net, task[t].ok>>}
        /\ Becomes(t, r)
    BY <1>7 DEF Log, At
  <2>2. Progress
    BY <1>b, <2>1 DEF Progress
  <2>3. (SentMeansAccepted /\ FailureIsExplained)'
    BY <2>1 DEF DeliveryInv, SentMeansAccepted, FailureIsExplained
  <2>4. /\ r.pc = "send" /\ r.c = task[t].c /\ r.left = task[t].left
        /\ r.bad = (task[t].bad \/ ~task[t].ok) /\ r.todo = task[t].todo /\ r.seen = task[t].seen
        /\ task[t].ok \in BOOLEAN /\ task[t].bad \in BOOLEAN
    BY <1>a DEF TaskRecord
  <2> HIDE DEF r
  <2>5. task[t].net \in Networks
    BY <1>a, <2>1 DEF HasItsRow
  <2>6. Tried(r) \subseteq Tried(task[t]) \cup {task[t].net}
    BY <2>1, <2>4 DEF Tried
  <2>7. RunKnows(r, logs', accepted')
    <3>1. ASSUME r.bad
          PROVE  \E n \in Networks : <<r.c, n, FALSE>> \in logs'
      <4>1. CASE task[t].bad
        BY <1>a, <2>1, <2>4, <4>1 DEF KnowsNow, RunKnows
      <4>2. CASE task[t].ok = FALSE
        BY <2>1, <2>4, <2>5, <4>2
      <4>3. QED
        BY <2>4, <3>1, <4>1, <4>2
    <3>2. ASSUME ~r.bad
          PROVE  \A n \in Tried(r) : <<r.c, n>> \in accepted'
      <4>1. ~task[t].bad /\ task[t].ok
        BY <2>4, <3>2
      <4>2. /\ \A n \in Tried(task[t]) : <<task[t].c, n>> \in accepted
            /\ <<task[t].c, task[t].net>> \in accepted
        BY <1>a, <2>1, <4>1 DEF KnowsNow, RunKnows
      <4>3. QED
        BY <2>1, <2>4, <2>6, <4>2
    <3>3. QED
      BY <2>4, <3>1, <3>2 DEF RunKnows
  <2>8. SweepKnows(r, attempts', status')
    BY <1>a, <2>1, <2>4 DEF KnowsNow, SweepKnows
  <2>9. QED
    BY <1>k, <2>1, <2>2, <2>3, <2>7, <2>8, OneTask DEF KnowsNext
<1>8. CASE Finish(t)
  <2> DEFINE c == task[t].c
  <2>1. /\ task[t].pc = "send" /\ task[t].left = {} /\ After(t) /\ UNCHANGED <<logs, accepted>>
        /\ status' = [status EXCEPT ![c] = IF Handles[c] = {} THEN "skipped"
                                           ELSE IF task[t].bad THEN "failed" ELSE "sent"]
        /\ attempts' = [attempts EXCEPT ![c] = @ + 1]
    BY <1>8 DEF Finish, At
  <2>2. c \in Conversions
    BY <1>a, <2>1 DEF HasItsRow
  <2>3. Progress
    BY <1>b, <2>1, <2>2 DEF Progress, TypeOK
  <2>4. /\ task[t].bad => \E n \in Networks : <<c, n, FALSE>> \in logs
        /\ ~task[t].bad => \A n \in Handles[c] : <<c, n>> \in accepted
    BY <1>a, <2>1 DEF KnowsNow, RunKnows, Tried
  <2>5. \A d \in Conversions \ {c} : status'[d] = status[d]
    BY <2>1 DEF TypeOK
  <2>6. status'[c] = IF Handles[c] = {} THEN "skipped"
                     ELSE IF task[t].bad THEN "failed" ELSE "sent"
    BY <2>1, <2>2 DEF TypeOK
  <2> HIDE DEF c
  <2>7. SentMeansAccepted'
    <3>1. SUFFICES ASSUME NEW d \in Conversions, status'[d] = "sent"
                   PROVE  Handles[d] # {} /\ \A n \in Handles[d] : <<d, n>> \in accepted
      BY <2>1 DEF SentMeansAccepted
    <3>2. CASE d = c
      BY <2>4, <2>6, <3>1, <3>2
    <3>3. CASE d # c
      BY <2>5, <3>1, <3>3 DEF DeliveryInv, SentMeansAccepted
    <3>4. QED
      BY <3>2, <3>3
  <2>8. FailureIsExplained'
    <3>1. SUFFICES ASSUME NEW d \in Conversions, status'[d] = "failed"
                   PROVE  \E n \in Networks : <<d, n, FALSE>> \in logs
      BY <2>1 DEF FailureIsExplained
    <3>2. CASE d = c
      BY <2>4, <2>6, <3>1, <3>2
    <3>3. CASE d # c
      BY <2>5, <3>1, <3>3 DEF DeliveryInv, FailureIsExplained
    <3>4. QED
      BY <3>2, <3>3
  <2>9. QED
    BY <1>k, <2>1, <2>3, <2>7, <2>8, AfterKeeps
<1>9. CASE Throws(t)
  <2>1. Progress /\ (SentMeansAccepted /\ FailureIsExplained)'
    BY <1>9, QuietProgress DEF Throws
  <2>2. CASE After(t)
    BY <1>k, <2>1, <2>2, AfterKeeps
  <2>3. CASE Becomes(t, Idle)
    BY <1>k, <2>1, <2>3, IdleKnows, OneTask
  <2> QED
    BY <1>9, <2>2, <2>3 DEF Throws
<1>10. QED
  BY <1>1, <1>2, <1>3, <1>4, <1>5, <1>6, <1>7, <1>8, <1>9 DEF Work

LEMMA DeliveryInit == Init => DeliveryInv
<1> SUFFICES ASSUME Init
             PROVE  DeliveryInv
  OBVIOUS
<1>1. RunInv(Idle) /\ SweepInv(Idle)
  BY DEF RunInv, SweepInv, Idle
<1>2. \A t \in Tasks : task[t] = Idle
  BY DEF Init
<1>3. SentMeansAccepted /\ FailureIsExplained
  BY DEF Init, SentMeansAccepted, FailureIsExplained
<1> QED
  BY <1>1, <1>2, <1>3 DEF DeliveryInv

LEMMA DeliveryNext == TypeOK /\ TypeOK' /\ DeliveryInv /\ [Next]_vars => DeliveryInv'
<1> SUFFICES ASSUME TypeOK, TypeOK', DeliveryInv, [Next]_vars
             PROVE  DeliveryInv'
  OBVIOUS
<1>1. CASE UNCHANGED vars \/ Arrive \/ \E c \in Conversions : Rest(c)
  <2>1. UNCHANGED <<task, status, attempts, logs, accepted>>
    BY <1>1 DEF vars, table, Arrive, Rest
  <2>2. \A t \in Tasks : KnowsNext(task'[t])
    BY <2>1, KnowsIsInv DEF KnowsNow, KnowsNext
  <2>3. QED
    BY <2>1, <2>2, QuietProgress, KnowsNextIsInv
<1>2. CASE Restart
  <2>1. UNCHANGED <<status, attempts, logs, accepted>> /\ \A t \in Tasks : task'[t] = Idle
    BY <1>2 DEF Restart, table
  <2>2. QED
    BY <2>1, IdleKnows, QuietProgress, KnowsNextIsInv
<1>3. QED
  BY <1>1, <1>2, DeliveryStep DEF Next

THEOREM Delivery == Spec => []DeliveryInv
<1>1. TypeOK /\ TypeOK' /\ DeliveryInv /\ [Next]_vars => DeliveryInv'
  BY DeliveryNext
<1>2. QED
  BY TypeCorrect, DeliveryInit, <1>1, PTL DEF Spec

\* "sent" is the truth, whatever overlapped: every network took the conversion.
THEOREM SentIsTrue == Spec => []SentMeansAccepted
<1>1. DeliveryInv => SentMeansAccepted
  BY DEF DeliveryInv
<1>2. QED
  BY Delivery, <1>1, PTL

\* The claim does its work for any number of overlapping sweeps: a row settled
\* since it was read, or out of attempts, is not taken up.
THEOREM ClaimProtects == Spec => TakesUpOnlyUnfinished
<1> DEFINE TakesUp == \A t \in Tasks : At(t, "claim") /\ task'[t].pc = "read" =>
          LET c == task'[t].c IN status[c] \in Unfinished /\ attempts[c] < MaxAttempts
<1>1. TypeOK /\ DeliveryInv /\ [Next]_vars => [TakesUp]_vars
  <2> SUFFICES ASSUME TypeOK, DeliveryInv, Next, NEW t \in Tasks,
                      At(t, "claim"), task'[t].pc = "read"
               PROVE  status[task'[t].c] \in Unfinished /\ attempts[task'[t].c] < MaxAttempts
    OBVIOUS
  <2>1. task[t].pc = "claim" /\ task[t] \in TaskRecord
    BY DEF At, TypeOK
  <2>2. PICK u \in Tasks : FirstBegin(u) \/ RetryBegin(u) \/ SweepBegin(u) \/ Work(u) \/ Throws(u)
    BY <2>1 DEF Next, Arrive, Restart, Rest, Idle, table, TypeOK
  <2>3. u = t
    BY <2>1, <2>2 DEF FirstBegin, RetryBegin, SweepBegin, Work, Throws, SweepClaim, ReadRow, Send,
                      Log, Finish, After, Process, Becomes, TypeOK
  <2>t. ~Throws(t)
    <3>1. ASSUME Becomes(t, Idle) PROVE FALSE
      BY <3>1 DEF Becomes, Idle, TypeOK
    <3> QED
      BY <2>1, <3>1 DEF Throws, At
  <2>4. SweepClaim(t)
    BY <2>1, <2>2, <2>3, <2>t DEF FirstBegin, RetryBegin, SweepBegin, Work, ReadRow, Send, Log,
                            Finish, Free, At
  <2>5. PICK c \in task[t].todo :
          IF attempts[c] = task[t].seen[c]
            THEN Becomes(t, [task[t] EXCEPT !.pc = "read", !.c = c, !.todo = @ \ {c}])
            ELSE Becomes(t, IF task[t].todo = {c} THEN Idle ELSE [task[t] EXCEPT !.todo = @ \ {c}])
    BY <2>4 DEF SweepClaim
  <2>6. attempts[c] = task[t].seen[c] /\ task'[t].c = c
    <3>1. CASE attempts[c] = task[t].seen[c]
      <4>1. task'[t] = [task[t] EXCEPT !.pc = "read", !.c = c, !.todo = @ \ {c}]
        BY <2>5, <3>1 DEF Becomes, TypeOK
      <4>2. QED
        BY <2>1, <3>1, <4>1 DEF TaskRecord
    <3>2. CASE attempts[c] # task[t].seen[c]
      <4>1. task'[t] = IF task[t].todo = {c} THEN Idle ELSE [task[t] EXCEPT !.todo = @ \ {c}]
        BY <2>5, <3>2 DEF Becomes, TypeOK
      <4>2. task'[t].pc # "read"
        BY <2>1, <4>1 DEF TaskRecord, Idle
      <4>3. QED
        BY <4>2
    <3>3. QED
      BY <3>1, <3>2
  <2>7. task[t].seen[c] < MaxAttempts /\ (task[t].seen[c] = attempts[c] => status[c] \in Unfinished)
    BY DEF DeliveryInv, SweepInv
  <2>8. QED
    BY <2>6, <2>7
<1>2. QED
  BY TypeCorrect, Delivery, <1>1, PTL DEF Spec, TakesUpOnlyUnfinished
-----------------------------------------------------------------------------
(* The budget of attempts.  What a row has used and what is at work on it   *)
(* stay within the budget together: the first run is there once, every      *)
(* retry at work was asked for, and a sweep takes the row up only while     *)
(* attempts are left, so what remains to be counted is at most one per task *)
(* that sweeps.                                                             *)

Working == {"read", "send", "log"}
WorksOn(r, job, c) == r.job = job /\ r.pc \in Working /\ r.c = c
By(job, c) == {t \in Tasks : WorksOn(task[t], job, c)}
Sweepers == {t \in Tasks : "sweep" \in Roles[t]}

Count(job, c) == Cardinality(By(job, c))
Bit(r, job, c) == IF WorksOn(r, job, c) THEN 1 ELSE 0
ToCome(c) == IF c \notin 1 .. stored \/ c \in scheduled THEN 1 ELSE 0

JobsOK ==
    /\ scheduled \subseteq 1 .. stored
    /\ \A t \in Tasks : /\ task[t].job = "sweep" => t \in Sweepers
                        /\ task[t].todo # {} => task[t].job = "sweep"

RowBudget(c) ==
    /\ ToCome(c) + Count("first", c) <= 1
    /\ Count("retry", c) <= retries
    /\ attempts[c] + ToCome(c) + Count("first", c) + Count("sweep", c) + Count("retry", c)
           <= MaxAttempts + retries + Cardinality(Sweepers)

BudgetInv == JobsOK /\ \A c \in Conversions : RowBudget(c)

LEMMA CountIsNat ==
    ASSUME NEW job, NEW c
    PROVE  /\ IsFiniteSet(By(job, c)) /\ Count(job, c) \in Nat
           /\ IsFiniteSet(By(job, c)') /\ Count(job, c)' \in Nat
           /\ IsFiniteSet(Sweepers) /\ Cardinality(Sweepers) \in Nat
<1>1. By(job, c) \subseteq Tasks /\ By(job, c)' \subseteq Tasks /\ Sweepers \subseteq Tasks
  BY DEF By, Sweepers
<1>2. IsFiniteSet(By(job, c)) /\ IsFiniteSet(By(job, c)') /\ IsFiniteSet(Sweepers)
  BY <1>1, FS_Subset
<1> QED
  BY <1>2, FS_CardinalityType DEF Count

LEMMA SweepersStay == Cardinality(Sweepers)' = Cardinality(Sweepers)
  BY DEF Sweepers

\* A set that gains or loses one member.
LEMMA OneMore ==
    ASSUME NEW S, IsFiniteSet(S), NEW x, NEW before \in {0, 1}, NEW after \in {0, 1},
           x \in S <=> before = 1, NEW R, R = (S \ {x}) \cup (IF after = 1 THEN {x} ELSE {})
    PROVE  Cardinality(R) = Cardinality(S) - before + after
<1>1. Cardinality(S) \in Nat
  BY FS_CardinalityType
<1>2. CASE before = after
  <2>1. Cardinality(R) = Cardinality(S)
    <3>1. R = S
      BY <1>2
    <3> QED
      BY <3>1
  <2> QED
    BY <1>1, <1>2, <2>1
<1>3. CASE before = 0 /\ after = 1
  <2>1. R = S \cup {x} /\ x \notin S
    BY <1>3
  <2>2. Cardinality(S \cup {x}) = Cardinality(S) + 1
    BY <2>1, FS_AddElement
  <2>3. Cardinality(R) = Cardinality(S) + 1
    BY <2>1, <2>2
  <2> QED
    BY <1>1, <1>3, <2>3
<1>4. CASE before = 1 /\ after = 0
  <2>1. R = S \ {x} /\ x \in S
    BY <1>4
  <2>2. Cardinality(S \ {x}) = Cardinality(S) - 1
    BY <2>1, FS_RemoveElement
  <2>3. Cardinality(R) = Cardinality(S) - 1
    BY <2>1, <2>2
  <2> QED
    BY <1>1, <1>4, <2>3
<1> QED
  BY <1>2, <1>3, <1>4

LEMMA CountMoves ==
    ASSUME TypeOK, NEW t \in Tasks, NEW r, Becomes(t, r), NEW job, NEW c
    PROVE  Count(job, c)' = Count(job, c) - Bit(task[t], job, c) + Bit(r, job, c)
<1>1. \A u \in Tasks : task'[u] = IF u = t THEN r ELSE task[u]
  BY DEF TypeOK, Becomes
<1>2. By(job, c)' = (By(job, c) \ {t}) \cup (IF WorksOn(r, job, c) THEN {t} ELSE {})
  BY <1>1 DEF By, WorksOn
<1>3. t \in By(job, c) <=> WorksOn(task[t], job, c)
  BY DEF By
<1> QED
  BY <1>2, <1>3, CountIsNat, OneMore DEF Bit, Count

\* The jobs stay those of the task when one task becomes r.
LEMMA JobsMove ==
    ASSUME TypeOK, JobsOK, NEW t \in Tasks, NEW r, Becomes(t, r),
           r.job = "sweep" => t \in Sweepers, r.todo # {} => r.job = "sweep",
           scheduled' \subseteq 1 .. stored'
    PROVE  JobsOK'
<1>1. \A u \in Tasks : task'[u] = IF u = t THEN r ELSE task[u]
  BY DEF TypeOK, Becomes
<1> QED
  BY <1>1 DEF JobsOK, Sweepers

\* A task that goes on with the row it was on, or with none.
LEMMA SameWork ==
    ASSUME TypeOK, BudgetInv, NEW t \in Tasks, NEW r, Becomes(t, r),
           \A job, c : WorksOn(r, job, c) => WorksOn(task[t], job, c),
           r.job = "sweep" => t \in Sweepers, r.todo # {} => r.job = "sweep",
           UNCHANGED <<stored, scheduled, attempts, retries>>
    PROVE  BudgetInv'
<1>1. JobsOK'
  BY JobsMove DEF BudgetInv, JobsOK
<1>2. ASSUME NEW c \in Conversions
      PROVE  RowBudget(c)'
  <2>1. \A job : /\ Count(job, c)' <= Count(job, c)
                 /\ Count(job, c) \in Nat /\ Count(job, c)' \in Nat
    BY CountMoves, CountIsNat DEF Bit
  <2>2. ToCome(c)' = ToCome(c) /\ ToCome(c) \in {0, 1}
    BY DEF ToCome
  <2>3. attempts[c] \in Nat /\ retries \in Nat
    BY DEF TypeOK
  <2>4. RowBudget(c)
    BY DEF BudgetInv
  <2> QED
    BY <2>1, <2>2, <2>3, <2>4, CountIsNat, SweepersStay DEF RowBudget
<1> QED
  BY <1>1, <1>2 DEF BudgetInv

\* What a task is after its row, and that it is on no row then.
LEMMA AfterRests ==
    ASSUME TypeOK, BudgetInv, NEW t \in Tasks, After(t)
    PROVE  \E r : /\ Becomes(t, r) /\ \A job, c : ~WorksOn(r, job, c)
                  /\ r.job = "sweep" => t \in Sweepers
                  /\ r.todo # {} => r.job = "sweep"
<1> DEFINE s == [Idle EXCEPT !.job = "sweep", !.pc = "claim", !.todo = task[t].todo,
                             !.seen = task[t].seen]
<1>1. Becomes(t, IF task[t].todo = {} THEN Idle ELSE s)
  BY DEF After
<1>2. s.job = "sweep" /\ s.pc = "claim" /\ Idle.job = "first" /\ Idle.pc = "idle" /\ Idle.todo = {}
  BY DEF Idle
<1>3. task[t].todo # {} => t \in Sweepers
  BY DEF BudgetInv, JobsOK
<1> HIDE DEF s
<1>4. CASE task[t].todo = {}
  BY <1>1, <1>2, <1>4 DEF WorksOn, Working
<1>5. CASE task[t].todo # {}
  BY <1>1, <1>2, <1>3, <1>5 DEF WorksOn, Working
<1> QED
  BY <1>4, <1>5

\* A run by hand or the first one begins on a row: the budget allows for it.
LEMMA BudgetProcess ==
    ASSUME TypeOK, BudgetInv, NEW t \in Tasks, task[t].pc = "idle", NEW job \in {"first", "retry"},
           NEW c \in Conversions, Process(t, job, c),
           job = "first" => /\ c \in scheduled /\ scheduled' = scheduled \ {c}
                            /\ UNCHANGED <<stored, attempts, retries>>,
           job = "retry" => retries' = retries + 1 /\ UNCHANGED <<stored, scheduled, attempts>>
    PROVE  BudgetInv'
<1>0. /\ UNCHANGED <<stored, attempts>>
      /\ IF job = "first" THEN c \in scheduled /\ scheduled' = scheduled \ {c} /\ retries' = retries
                          ELSE scheduled' = scheduled /\ retries' = retries + 1
  OBVIOUS
<1>1. PICK r : r = [Idle EXCEPT !.job = job, !.pc = "read", !.c = c]
  OBVIOUS
<1>2. Becomes(t, r)
  BY <1>1 DEF Process
<1>3. r.job = job /\ r.pc = "read" /\ r.c = c /\ r.todo = {}
  BY <1>1 DEF Idle
<1>4. JobsOK'
  BY <1>2, <1>3, JobsMove DEF BudgetInv, JobsOK
<1>5. ASSUME NEW d \in Conversions
      PROVE  RowBudget(d)'
  <2>1. \A j : Bit(task[t], j, d) = 0 /\ Bit(r, j, d) = IF j = job /\ d = c THEN 1 ELSE 0
    BY <1>3 DEF Bit, WorksOn, Working
  <2>2. \A j : /\ Count(j, d)' = Count(j, d) + (IF j = job /\ d = c THEN 1 ELSE 0)
               /\ Count(j, d) \in Nat
    BY <1>2, <2>1, CountMoves, CountIsNat
  <2>3. /\ Count("first", d)' = Count("first", d) + (IF job = "first" /\ d = c THEN 1 ELSE 0)
        /\ Count("retry", d)' = Count("retry", d) + (IF job = "retry" /\ d = c THEN 1 ELSE 0)
        /\ Count("sweep", d)' = Count("sweep", d)
    BY <2>2
  <2>4. ToCome(d)' = ToCome(d) - (IF job = "first" /\ d = c THEN 1 ELSE 0)
    <3>1. CASE job = "first"
      <4>1. c \in 1 .. stored /\ c \in scheduled /\ c \notin scheduled'
        BY <1>0, <3>1 DEF BudgetInv, JobsOK
      <4>2. d # c => (d \in scheduled' <=> d \in scheduled)
        BY <1>0, <3>1
      <4> QED
        BY <1>0, <3>1, <4>1, <4>2 DEF ToCome
    <3>2. CASE job # "first"
      BY <1>0, <3>2 DEF ToCome
    <3> QED
      BY <3>1, <3>2
  <2>5. attempts'[d] = attempts[d] /\ attempts[d] \in Nat /\ retries \in Nat /\ ToCome(d) \in {0, 1}
    BY <1>0 DEF TypeOK, ToCome
  <2>6. retries' = retries + (IF job = "retry" THEN 1 ELSE 0)
    BY <1>0, <2>5
  <2>7. RowBudget(d)
    BY DEF BudgetInv
  <2> QED
    BY <2>2, <2>3, <2>4, <2>5, <2>6, <2>7, CountIsNat, SweepersStay DEF RowBudget
<1> QED
  BY <1>4, <1>5 DEF BudgetInv

\* The row is settled: what was at work on it becomes an attempt that is counted.
LEMMA BudgetFinish ==
    ASSUME TypeOK, BudgetInv, NEW t \in Tasks, Finish(t)
    PROVE  BudgetInv'
<1>1. PICK r : /\ Becomes(t, r) /\ \A job, c : ~WorksOn(r, job, c)
               /\ r.job = "sweep" => t \in Sweepers
               /\ r.todo # {} => r.job = "sweep"
  BY AfterRests DEF Finish
<1>2. PICK c : c = task[t].c
  OBVIOUS
<1>3. /\ c \in Conversions /\ task[t].pc = "send" /\ task[t].job \in Operation
      /\ attempts' = [attempts EXCEPT ![c] = @ + 1]
      /\ UNCHANGED <<stored, scheduled, retries>>
  BY <1>2 DEF Finish, At, TypeOK, HasItsRow, TaskRecord
<1>4. JobsOK'
  BY <1>1, <1>3, JobsMove DEF BudgetInv, JobsOK
<1>5. ASSUME NEW d \in Conversions
      PROVE  RowBudget(d)'
  <2>1. \A job : /\ Count(job, d) \in Nat /\ Count(job, d)' \in Nat
                 /\ Count(job, d)' = Count(job, d) - Bit(task[t], job, d)
    BY <1>1, CountMoves, CountIsNat DEF Bit
  <2>2. Bit(task[t], "first", d) + Bit(task[t], "sweep", d) + Bit(task[t], "retry", d)
            = IF d = c THEN 1 ELSE 0
    BY <1>2, <1>3 DEF Bit, WorksOn, Working, Operation
  <2>3. \A job : Bit(task[t], job, d) \in {0, 1}
    BY DEF Bit
  <2>4. attempts'[d] = attempts[d] + (IF d = c THEN 1 ELSE 0) /\ attempts[d] \in Nat /\ retries \in Nat
    BY <1>3 DEF TypeOK
  <2>5. ToCome(d)' = ToCome(d) /\ ToCome(d) \in {0, 1}
    BY <1>3 DEF ToCome
  <2>6. RowBudget(d)
    BY DEF BudgetInv
  <2> QED
    BY <1>3, <2>1, <2>2, <2>3, <2>4, <2>5, <2>6, CountIsNat, SweepersStay DEF RowBudget
<1> QED
  BY <1>4, <1>5 DEF BudgetInv

\* A sweep takes a row up while attempts are left: the other sweeps at work may each
\* add one, and so may this one.
LEMMA BudgetClaim ==
    ASSUME TypeOK, DeliveryInv, BudgetInv, NEW t \in Tasks, SweepClaim(t)
    PROVE  BudgetInv'
<1>1. PICK c \in task[t].todo :
        IF attempts[c] = task[t].seen[c]
          THEN Becomes(t, [task[t] EXCEPT !.pc = "read", !.c = c, !.todo = @ \ {c}])
          ELSE Becomes(t, IF task[t].todo = {c} THEN Idle ELSE [task[t] EXCEPT !.todo = @ \ {c}])
  BY DEF SweepClaim
<1>2. /\ task[t] \in TaskRecord /\ task[t].pc = "claim" /\ c \in Conversions
      /\ UNCHANGED <<stored, scheduled, attempts, retries>>
  BY DEF SweepClaim, At, TypeOK, TaskRecord, table
<1>3. task[t].job = "sweep" /\ t \in Sweepers
  BY <1>1 DEF BudgetInv, JobsOK
<1>4. CASE attempts[c] # task[t].seen[c]
  <2>1. PICK r : r = IF task[t].todo = {c} THEN Idle ELSE [task[t] EXCEPT !.todo = @ \ {c}]
    OBVIOUS
  <2>2. /\ Becomes(t, r) /\ r.pc \in {"idle", "claim"}
        /\ r.job = "sweep" => t \in Sweepers
        /\ r.todo # {} => r.job = "sweep"
    BY <1>1, <1>2, <1>3, <1>4, <2>1 DEF Idle, TaskRecord
  <2>3. \A job, d : ~WorksOn(r, job, d)
    BY <2>2 DEF WorksOn, Working
  <2> QED
    BY <1>2, <2>2, <2>3, SameWork
<1>5. CASE attempts[c] = task[t].seen[c]
  <2>1. PICK r : r = [task[t] EXCEPT !.pc = "read", !.c = c, !.todo = @ \ {c}]
    OBVIOUS
  <2>2. Becomes(t, r) /\ r.pc = "read" /\ r.c = c /\ r.job = "sweep"
    BY <1>1, <1>2, <1>3, <1>5, <2>1 DEF TaskRecord
  <2>3. JobsOK'
    BY <1>2, <1>3, <2>2, JobsMove DEF BudgetInv, JobsOK
  <2>4. attempts[c] < MaxAttempts
    BY <1>1, <1>5 DEF DeliveryInv, SweepInv
  <2>5. ASSUME NEW d \in Conversions
        PROVE  RowBudget(d)'
    <3>1. \A job : Bit(task[t], job, d) = 0
                   /\ Bit(r, job, d) = IF job = "sweep" /\ d = c THEN 1 ELSE 0
      BY <1>2, <2>2 DEF Bit, WorksOn, Working
    <3>2. \A job : /\ Count(job, d)' = Count(job, d) + (IF job = "sweep" /\ d = c THEN 1 ELSE 0)
                   /\ Count(job, d) \in Nat
      BY <2>2, <3>1, CountMoves, CountIsNat
    <3>3. /\ Count("first", d)' = Count("first", d) /\ Count("retry", d)' = Count("retry", d)
          /\ Count("sweep", d)' = Count("sweep", d) + (IF d = c THEN 1 ELSE 0)
      BY <3>2
    <3>4. Count("sweep", d)' <= Cardinality(Sweepers)
      <4>1. By("sweep", d)' \subseteq Sweepers
        BY <2>3 DEF By, WorksOn, JobsOK, Sweepers
      <4>2. Cardinality(By("sweep", d)') <= Cardinality(Sweepers)
        BY <4>1, CountIsNat, FS_Subset
      <4> QED
        BY <4>2 DEF Count
    <3>5. ToCome(d)' = ToCome(d) /\ ToCome(d) \in {0, 1}
      BY <1>2 DEF ToCome
    <3>6. attempts[d] \in Nat /\ retries \in Nat /\ MaxAttempts \in Nat
      BY DEF TypeOK
    <3>7. RowBudget(d)
      BY DEF BudgetInv
    <3> QED
      BY <1>2, <2>4, <3>2, <3>3, <3>4, <3>5, <3>6, <3>7, CountIsNat, SweepersStay DEF RowBudget
  <2> QED
    BY <2>3, <2>5 DEF BudgetInv
<1> QED
  BY <1>4, <1>5

LEMMA BudgetStep ==
    ASSUME TypeOK, DeliveryInv, BudgetInv, NEW t \in Tasks,
           FirstBegin(t) \/ RetryBegin(t) \/ SweepBegin(t) \/ Work(t) \/ Throws(t)
    PROVE  BudgetInv'
<1> USE DEF table
<1>a. /\ task[t] \in TaskRecord
      /\ task[t].job = "sweep" => t \in Sweepers
      /\ task[t].todo # {} => task[t].job = "sweep"
  BY DEF TypeOK, BudgetInv, JobsOK
<1>1. CASE FirstBegin(t)
  <2>1. PICK c \in scheduled : scheduled' = scheduled \ {c} /\ Process(t, "first", c)
    BY <1>1 DEF FirstBegin
  <2> QED
    BY <1>1, <2>1, BudgetProcess DEF FirstBegin, Free, TypeOK
<1>2. CASE RetryBegin(t)
  <2>1. PICK c \in 1 .. stored : Process(t, "retry", c)
    BY <1>2 DEF RetryBegin
  <2>2. c \in Conversions
    BY DEF TypeOK, Conversions
  <2> QED
    BY <1>2, <2>1, <2>2, BudgetProcess DEF RetryBegin, Free
<1>3. CASE SweepBegin(t)
  <2>1. PICK due, seen :
          Becomes(t, [Idle EXCEPT !.job = "sweep", !.pc = "claim", !.todo = due, !.seen = seen])
    BY <1>3 DEF SweepBegin
  <2>2. PICK r : r = [Idle EXCEPT !.job = "sweep", !.pc = "claim", !.todo = due, !.seen = seen]
    OBVIOUS
  <2>3. Becomes(t, r) /\ r.job = "sweep" /\ r.pc = "claim"
    BY <2>1, <2>2 DEF Idle
  <2>4. \A job, d : ~WorksOn(r, job, d)
    BY <2>3 DEF WorksOn, Working
  <2>5. t \in Sweepers
    BY <1>3 DEF SweepBegin, Free, Sweepers
  <2> QED
    BY <1>3, <2>3, <2>4, <2>5, SameWork DEF SweepBegin
<1>4. CASE SweepClaim(t)
  BY <1>4, BudgetClaim
<1>5. CASE After(t) /\ UNCHANGED <<stored, scheduled, attempts, retries>>
  <2>1. PICK r : /\ Becomes(t, r) /\ \A job, c : ~WorksOn(r, job, c)
                 /\ r.job = "sweep" => t \in Sweepers
                 /\ r.todo # {} => r.job = "sweep"
    BY <1>5, AfterRests
  <2> QED
    BY <1>5, <2>1, SameWork
<1>6. CASE ReadRow(t)
  <2>1. CASE task[t].c \notin Configured
    BY <1>5, <1>6, <2>1 DEF ReadRow
  <2>2. CASE task[t].c \in Configured
    <3>1. PICK r : r = [task[t] EXCEPT !.pc = "send", !.left = Handles[task[t].c], !.bad = FALSE]
      OBVIOUS
    <3>2. /\ Becomes(t, r) /\ r.job = task[t].job /\ r.c = task[t].c /\ r.todo = task[t].todo
          /\ task[t].pc = "read"
      BY <1>6, <1>a, <2>2, <3>1 DEF ReadRow, At, TaskRecord
    <3>3. \A job, d : WorksOn(r, job, d) => WorksOn(task[t], job, d)
      BY <3>2 DEF WorksOn, Working
    <3> QED
      BY <1>6, <1>a, <3>2, <3>3, SameWork DEF ReadRow
  <2> QED
    BY <2>1, <2>2
<1>7. CASE Send(t) \/ Log(t)
  <2>1. PICK r : /\ Becomes(t, r) /\ r.job = task[t].job /\ r.c = task[t].c /\ r.todo = task[t].todo
                 /\ task[t].pc \in Working
    BY <1>7, <1>a DEF Send, Log, At, TaskRecord, Working
  <2>2. \A job, d : WorksOn(r, job, d) => WorksOn(task[t], job, d)
    BY <2>1 DEF WorksOn
  <2> QED
    BY <1>7, <1>a, <2>1, <2>2, SameWork DEF Send, Log
<1>8. CASE Finish(t)
  BY <1>8, BudgetFinish
<1>9. CASE Throws(t)
  <2>1. CASE Becomes(t, Idle)
    <3>1. Idle.job = "first" /\ Idle.todo = {} /\ \A job, c : ~WorksOn(Idle, job, c)
      BY DEF Idle, WorksOn, Working
    <3> QED
      BY <1>9, <2>1, <3>1, SameWork DEF Throws
  <2> QED
    BY <1>5, <1>9, <2>1 DEF Throws
<1> QED
  BY <1>1, <1>2, <1>3, <1>4, <1>6, <1>7, <1>8, <1>9 DEF Work

LEMMA NobodyWorks ==
    ASSUME \A t \in Tasks : task[t] = Idle
    PROVE  \A job, c : Count(job, c) = 0
<1>1. \A job, c : By(job, c) = {}
  BY DEF By, WorksOn, Working, Idle
<1> QED
  BY <1>1, FS_EmptySet DEF Count

LEMMA BudgetInit == Init => BudgetInv
<1> SUFFICES ASSUME Init
             PROVE  BudgetInv
  OBVIOUS
<1>1. \A t \in Tasks : task[t] = Idle
  BY DEF Init
<1>2. JobsOK
  BY <1>1 DEF Init, JobsOK, Idle
<1>3. \A job, c : Count(job, c) = 0
  BY <1>1, NobodyWorks
<1>4. ASSUME NEW c \in Conversions
      PROVE  RowBudget(c)
  <2>1. attempts[c] = 0 /\ retries = 0 /\ ToCome(c) \in {0, 1}
    BY DEF Init, ToCome
  <2> QED
    BY <1>3, <2>1, CountIsNat DEF RowBudget
<1> QED
  BY <1>2, <1>4 DEF BudgetInv

LEMMA BudgetNext == TypeOK /\ DeliveryInv /\ BudgetInv /\ [Next]_vars => BudgetInv'
<1> SUFFICES ASSUME TypeOK, DeliveryInv, BudgetInv, [Next]_vars
             PROVE  BudgetInv'
  OBVIOUS
<1>1. CASE UNCHANGED <<stored, scheduled, task, attempts, retries>>
  <2>1. JobsOK'
    BY <1>1 DEF BudgetInv, JobsOK, Sweepers
  <2>2. ASSUME NEW c \in Conversions
        PROVE  RowBudget(c)'
    <3>1. RowBudget(c)
      BY DEF BudgetInv
    <3>2. \A job : Count(job, c)' = Count(job, c)
      BY <1>1 DEF Count, By
    <3> QED
      BY <1>1, <3>1, <3>2, SweepersStay DEF RowBudget, ToCome
  <2> QED
    BY <2>1, <2>2 DEF BudgetInv
<1>2. CASE Arrive
  <2>1. /\ stored \in Nat /\ stored' = stored + 1 /\ scheduled' = scheduled \cup {stored + 1}
        /\ UNCHANGED <<task, attempts, retries>>
    BY <1>2 DEF Arrive, TypeOK
  <2>2. JobsOK'
    <3>1. JobsOK
      BY DEF BudgetInv
    <3>2. scheduled \subseteq 1..stored
      BY <3>1 DEF JobsOK
    <3>3. scheduled' \subseteq 1..stored'
      BY <2>1, <3>2
    <3>4. task' = task
      BY <2>1
    <3> QED
      BY <3>1, <3>3, <3>4 DEF JobsOK
  <2>3. ASSUME NEW c \in Conversions
        PROVE  RowBudget(c)'
    <3>1. RowBudget(c)
      BY DEF BudgetInv
    <3>2. \A job : Count(job, c)' = Count(job, c)
      BY <2>1 DEF Count, By
    <3>3. ToCome(c)' = ToCome(c)
      BY <2>1 DEF ToCome, Conversions, BudgetInv, JobsOK
    <3> QED
      BY <2>1, <3>1, <3>2, <3>3, SweepersStay DEF RowBudget
  <2> QED
    BY <2>2, <2>3 DEF BudgetInv
<1>3. CASE Restart
  <2>1. /\ \A t \in Tasks : task'[t] = Idle
        /\ scheduled' = {} /\ UNCHANGED <<stored, attempts, retries>>
    BY <1>3 DEF Restart, table
  <2>2. JobsOK'
    BY <2>1 DEF JobsOK, Idle
  <2>3. \A job, c : Count(job, c)' = 0
    <3>1. \A job, c : By(job, c)' = {}
      BY <2>1 DEF By, WorksOn, Working, Idle
    <3> QED
      BY <3>1, FS_EmptySet DEF Count
  <2>4. ASSUME NEW c \in Conversions
        PROVE  RowBudget(c)'
    <3>1. RowBudget(c)
      BY DEF BudgetInv
    <3>2. ToCome(c)' <= ToCome(c) /\ ToCome(c) \in {0, 1} /\ ToCome(c)' \in {0, 1}
      BY <2>1 DEF ToCome
    <3>3. \A job : Count(job, c) \in Nat
      BY CountIsNat
    <3>4. attempts[c] \in Nat /\ retries \in Nat /\ MaxAttempts \in Nat
      BY DEF TypeOK
    <3> QED
      BY <2>1, <2>3, <3>1, <3>2, <3>3, <3>4, CountIsNat, SweepersStay DEF RowBudget
  <2> QED
    BY <2>2, <2>4 DEF BudgetInv
<1> QED
  BY <1>1, <1>2, <1>3, BudgetStep DEF Next, Rest, table, vars

\* However many sweeps, retries and first runs overlap, throw or are cut off by a
\* restart, a conversion is sent at most as often as the budget and the retries asked
\* by hand allow, and once more for every task that sweeps.
THEOREM BudgetHolds == Spec => []AttemptsAreBounded
<1>1. TypeOK /\ BudgetInv => AttemptsAreBounded
  <2> SUFFICES ASSUME TypeOK, BudgetInv, NEW c \in Conversions
               PROVE  attempts[c] <= MaxAttempts + retries + Cardinality(Sweepers)
    BY DEF AttemptsAreBounded, Sweepers
  <2>1. RowBudget(c) /\ ToCome(c) \in {0, 1} /\ attempts[c] \in Nat /\ retries \in Nat
    BY DEF BudgetInv, ToCome, TypeOK
  <2> QED
    BY <2>1, CountIsNat DEF RowBudget
<1> QED
  BY TypeCorrect, Delivery, BudgetInit, BudgetNext, <1>1, PTL DEF Spec
=============================================================================
