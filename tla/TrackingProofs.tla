--------------------------- MODULE TrackingProofs ---------------------------
(***************************************************************************)
(* Proofs about the parts of Tracking, each about any values of its        *)
(* constants, and then about Tracking itself: a behaviour exercises one    *)
(* part, and the others rest in one of their initial states, so that what  *)
(* is true of every part is true of the whole.  What is asked of the pure  *)
(* functions never changes; their answers are proved in DecisionProofs.    *)
(***************************************************************************)
EXTENDS Tracking, DecisionProofs, FiniteSetTheorems, SequenceTheorems, TLAPS

-----------------------------------------------------------------------------
(***************************************************************************)
(* Proofs about what a redirect rests on: the answers it gets from a cache *)
(* (Caches), for any values, times to live, latencies, readers and writers, *)
(* and how it marks the visit it stores (Traffic), for any requests,       *)
(* campaigns, cookies, addresses, signals and limits.                      *)
(***************************************************************************)
(* A cache.  The inductive invariant adds ReadsAreRecent: what a query     *)
(* holds and has not stored yet decides what the cache may answer next.    *)
CachesInv == CachesTypeOK /\ ReadsAreRecent /\ StaleIsYoung

LEMMA NoTaskIsIdle ==
    ASSUME NEW steps, "idle" \in steps PROVE NoTask \in CacheTask(steps)
BY CachesAssumption DEF NoTask, CacheTask

LEMMA HorizonIsNat == Horizon \in Nat /\ 0 \in 0 .. Horizon /\ 0 \in 0 .. CacheTtl
BY CachesAssumption DEF Horizon

LEMMA LaterIsLater ==
    ASSUME NEW n \in 0 .. Horizon
    PROVE  Later(n) \in 0 .. Horizon /\ n <= Later(n) /\ Later(n) <= n + 1
BY HorizonIsNat DEF Later

LEMMA CachesStart == CachesInit => CachesInv
<1> SUFFICES ASSUME CachesInit PROVE CachesInv OBVIOUS
<1>1. CachesTypeOK
  <2>1. reading \in [Readers -> CacheTask({"idle", "asked", "read"})]
    BY NoTaskIsIdle DEF CachesInit
  <2>2. writing \in [Writers -> CacheTask({"idle", "begun", "written", "emptied"})]
    BY NoTaskIsIdle DEF CachesInit
  <2>3. cached \in [value: CachedValues, left: 0 .. CacheTtl]
    BY HorizonIsNat DEF CachesInit
  <2>4. Horizon \in 0 .. Horizon /\ cacheFaults \in 0 .. MaxCacheFaults
    BY HorizonIsNat, CachesAssumption DEF CachesInit
  <2> QED BY <2>1, <2>2, <2>3, <2>4 DEF CachesInit, CachesTypeOK
<1>2. ReadsAreRecent BY DEF CachesInit, ReadsAreRecent, NoTask
<1>3. StaleIsYoung BY DEF CachesInit, StaleIsYoung
<1> QED BY <1>1, <1>2, <1>3 DEF CachesInv

-----------------------------------------------------------------------------
\* One lemma per kind of step.

LEMMA AskKeeps ==
    ASSUME CachesInv, NEW r \in Readers, Ask(r) PROVE CachesInv'
<1>1. reading' \in [Readers -> CacheTask({"idle", "asked", "read"})]
  <2> DEFINE new == [NoTask EXCEPT !.pc = "asked"]
  <2>1. new \in CacheTask({"idle", "asked", "read"})
    BY CachesAssumption DEF NoTask, CacheTask
  <2>2. reading' = [reading EXCEPT ![r] = new]
    BY DEF Ask
  <2> HIDE DEF new
  <2> QED BY <2>1, <2>2 DEF CachesInv, CachesTypeOK
<1>2. \A o \in Readers : reading'[o].pc = "read" => reading'[o] = reading[o]
  BY DEF CachesInv, CachesTypeOK, Ask, NoTask
<1>3. UNCHANGED <<kind, stored, cached, writing, cacheFaults, sinceWrite, sinceError>>
  BY DEF Ask
<1> QED BY <1>1, <1>2, <1>3 DEF CachesInv, CachesTypeOK, ReadsAreRecent, StaleIsYoung, Horizon

LEMMA SnapshotKeeps ==
    ASSUME CachesInv, NEW r \in Readers, Snapshot(r) PROVE CachesInv'
<1>1. reading' \in [Readers -> CacheTask({"idle", "asked", "read"})]
  <2> DEFINE new == [pc |-> "read", value |-> stored, age |-> reading[r].age]
  <2>1. new \in CacheTask({"idle", "asked", "read"})
    BY DEF CachesInv, CachesTypeOK, CacheTask
  <2>2. reading' = [reading EXCEPT ![r] = new]
    BY DEF Snapshot
  <2> HIDE DEF new
  <2> QED BY <2>1, <2>2 DEF CachesInv, CachesTypeOK
<1>2. \A o \in Readers : reading'[o].value # stored => reading'[o] = reading[o]
  BY DEF CachesInv, CachesTypeOK, Snapshot, CacheTask
<1>3. UNCHANGED <<kind, stored, cached, writing, cacheFaults, sinceWrite, sinceError>>
  BY DEF Snapshot
<1> QED BY <1>1, <1>2, <1>3 DEF CachesInv, CachesTypeOK, ReadsAreRecent, StaleIsYoung, Horizon

\* The value of a query that took at most Latency ticks is stored for CacheTtl ticks.
LEMMA FillKeeps ==
    ASSUME CachesInv, NEW r \in Readers, Fill(r) PROVE CachesInv'
<1>1. reading[r] \in CacheTask({"idle", "asked", "read"})
  BY DEF CachesInv, CachesTypeOK
<1>2. cached' = [value |-> reading[r].value, left |-> CacheTtl]
  BY DEF Fill, Keep
<1>3. cached' \in [value: CachedValues, left: 0 .. CacheTtl]
  BY <1>1, <1>2, CachesAssumption DEF CacheTask
<1>4. reading' = [reading EXCEPT ![r] = NoTask]
  BY DEF Fill
<1>5. reading' \in [Readers -> CacheTask({"idle", "asked", "read"})]
  BY <1>4, NoTaskIsIdle DEF CachesInv, CachesTypeOK
<1>6. \A o \in Readers : reading'[o].pc = "read" => reading'[o] = reading[o]
  BY <1>4 DEF CachesInv, CachesTypeOK, NoTask
<1>7. UNCHANGED <<kind, stored, writing, cacheFaults, sinceWrite, sinceError>>
  BY DEF Fill
<1>8. CachesTypeOK'
  BY <1>3, <1>5, <1>7 DEF CachesInv, CachesTypeOK, Horizon
<1>9. ReadsAreRecent'
  BY <1>6, <1>7 DEF CachesInv, ReadsAreRecent
<1>10. StaleIsYoung'
  <2> SUFFICES ASSUME reading[r].value # stored PROVE sinceWrite + CacheTtl <= CacheTtl + Latency
    BY <1>2, <1>7 DEF StaleIsYoung
  <2>1. sinceWrite <= reading[r].age
    BY DEF Fill, CachesInv, ReadsAreRecent
  <2>2. reading[r].age \in 0 .. Latency
    BY <1>1 DEF CacheTask
  <2>3. sinceWrite \in Nat
    BY HorizonIsNat DEF CachesInv, CachesTypeOK
  <2> QED BY <2>1, <2>2, <2>3, CachesAssumption
<1> QED BY <1>8, <1>9, <1>10 DEF CachesInv

LEMMA ReadFailsKeeps ==
    ASSUME CachesInv, NEW r \in Readers, ReadFails(r) PROVE CachesInv'
<1>1. reading' = [reading EXCEPT ![r] = NoTask]
  BY DEF ReadFails
<1>2. reading' \in [Readers -> CacheTask({"idle", "asked", "read"})]
  BY <1>1, NoTaskIsIdle DEF CachesInv, CachesTypeOK
<1>3. \A o \in Readers : reading'[o].pc = "read" => reading'[o] = reading[o]
  BY <1>1 DEF CachesInv, CachesTypeOK, NoTask
<1>4. cacheFaults' \in 0 .. MaxCacheFaults
  BY CachesAssumption DEF ReadFails, CachesInv, CachesTypeOK
<1>5. UNCHANGED <<kind, stored, writing, sinceWrite>>
  BY DEF ReadFails
<1>6. ReadsAreRecent'
  BY <1>3, <1>5 DEF CachesInv, ReadsAreRecent
<1>7. CASE kind = "settings"
  <2>1. cached' = [value |-> DefaultValue, left |-> CacheTtl] /\ sinceError' = 0
    BY <1>7 DEF ReadFails, Keep
  <2>2. CachesTypeOK'
    BY <2>1, <1>2, <1>4, <1>5, HorizonIsNat, CachesAssumption DEF CachesInv, CachesTypeOK, Horizon
  <2>3. StaleIsYoung'
    BY <2>1, CachesAssumption DEF StaleIsYoung
  <2> QED BY <2>2, <2>3, <1>6 DEF CachesInv
<1>8. CASE kind # "settings"
  <2>1. UNCHANGED <<cached, sinceError>>
    BY <1>8 DEF ReadFails
  <2> QED BY <2>1, <1>2, <1>4, <1>5, <1>6 DEF CachesInv, CachesTypeOK, StaleIsYoung, Horizon
<1> QED BY <1>7, <1>8

\* A step of a writer: its task, and perhaps the row or the cache.
LEMMA TaskOfWriter ==
    ASSUME CachesTypeOK, NEW w \in Writers, NEW from,
           NEW to \in {"idle", "written", "emptied"}, Step(w, from, to)
    PROVE  writing' \in [Writers -> CacheTask({"idle", "begun", "written", "emptied"})]
<1>1. CASE to = "idle"
  BY <1>1, NoTaskIsIdle DEF Step, CachesTypeOK
<1>2. CASE to # "idle"
  BY <1>2 DEF Step, CachesTypeOK, CacheTask
<1> QED BY <1>1, <1>2

LEMMA WriteBeginKeeps ==
    ASSUME CachesInv, NEW w \in Writers, NEW v \in CachedValues, WriteBegin(w, v)
    PROVE  CachesInv'
<1>1. writing' \in [Writers -> CacheTask({"idle", "begun", "written", "emptied"})]
  BY CachesAssumption DEF CachesInv, CachesTypeOK, WriteBegin, CacheTask
<1>2. UNCHANGED <<kind, stored, cached, reading, cacheFaults, sinceWrite, sinceError>>
  BY DEF WriteBegin
<1> QED BY <1>1, <1>2 DEF CachesInv, CachesTypeOK, ReadsAreRecent, StaleIsYoung, Horizon

LEMMA CommitKeeps ==
    ASSUME CachesInv, NEW w \in Writers, Commit(w) PROVE CachesInv'
<1>1. \E from : \E to \in {"idle", "written", "emptied"} : Step(w, from, to)
  BY DEF Commit
<1>2. writing' \in [Writers -> CacheTask({"idle", "begun", "written", "emptied"})]
  BY <1>1, TaskOfWriter DEF CachesInv
<1>3. stored' \in CachedValues
  BY DEF Commit, CachesInv, CachesTypeOK, CacheTask
<1>4. sinceWrite' = 0 /\ UNCHANGED <<kind, cached, reading, cacheFaults, sinceError>>
  BY DEF Commit
<1>5. CachesTypeOK'
  BY <1>2, <1>3, <1>4, HorizonIsNat DEF CachesInv, CachesTypeOK, Horizon
<1>6. ReadsAreRecent'
  BY <1>4, CachesAssumption DEF CachesInv, CachesTypeOK, CacheTask, ReadsAreRecent
<1>7. StaleIsYoung'
  BY <1>4, CachesAssumption DEF CachesInv, CachesTypeOK, StaleIsYoung
<1> QED BY <1>5, <1>6, <1>7 DEF CachesInv

LEMMA InvalidateKeeps ==
    ASSUME CachesInv, NEW w \in Writers, Invalidate(w) PROVE CachesInv'
<1>1. \E from : \E to \in {"idle", "written", "emptied"} : Step(w, from, to)
  BY DEF Invalidate
<1>2. writing' \in [Writers -> CacheTask({"idle", "begun", "written", "emptied"})]
  BY <1>1, TaskOfWriter DEF CachesInv
<1>3. cached' \in [value: CachedValues, left: 0 .. CacheTtl] /\ cached'.left = 0
  BY HorizonIsNat DEF Invalidate, CachesInv, CachesTypeOK
<1>4. UNCHANGED <<kind, stored, reading, cacheFaults, sinceWrite, sinceError>>
  BY DEF Invalidate
<1> QED BY <1>2, <1>3, <1>4 DEF CachesInv, CachesTypeOK, ReadsAreRecent, StaleIsYoung, Horizon

LEMMA RestartKeeps ==
    ASSUME CachesInv, Restart PROVE CachesInv'
<1>1. reading' \in [Readers -> CacheTask({"idle", "asked", "read"})]
  BY NoTaskIsIdle DEF Restart
<1>2. writing' \in [Writers -> CacheTask({"idle", "begun", "written", "emptied"})]
  BY NoTaskIsIdle DEF Restart
<1>3. cached' \in [value: CachedValues, left: 0 .. CacheTtl] /\ cached'.left = 0
  BY HorizonIsNat DEF Restart, CachesInv, CachesTypeOK
<1>4. stored' \in CachedValues /\ sinceWrite' \in 0 .. Horizon
  BY HorizonIsNat, CachesAssumption DEF Restart, CachesInv, CachesTypeOK
<1>5. cacheFaults' \in 0 .. MaxCacheFaults
  BY CachesAssumption DEF Restart, CachesInv, CachesTypeOK
<1>6. UNCHANGED <<kind, sinceError>> /\ \A r \in Readers : reading'[r].pc = "idle"
  BY DEF Restart, NoTask
<1> QED
  BY <1>1, <1>2, <1>3, <1>4, <1>5, <1>6
  DEF CachesInv, CachesTypeOK, ReadsAreRecent, StaleIsYoung, Horizon

LEMMA AgedIsTyped ==
    ASSUME NEW Names, NEW steps, NEW tasks \in [Names -> CacheTask(steps)],
           \A t \in Underway(tasks) : tasks[t].age < Latency
    PROVE  /\ Aged(tasks) \in [Names -> CacheTask(steps)]
           /\ \A t \in Names : tasks[t].pc # "idle" =>
                Aged(tasks)[t] = [tasks[t] EXCEPT !.age = @ + 1]
           /\ \A t \in Names : Aged(tasks)[t].pc = tasks[t].pc
<1>1. DOMAIN tasks = Names OBVIOUS
<1>2. ASSUME NEW t \in Names, tasks[t].pc # "idle"
      PROVE  [tasks[t] EXCEPT !.age = @ + 1] \in CacheTask(steps)
  <2>1. tasks[t].age < Latency BY <1>1, <1>2 DEF Underway
  <2>2. tasks[t] \in CacheTask(steps) OBVIOUS
  <2> QED BY <2>1, <2>2, CachesAssumption DEF CacheTask
<1>3. \A t \in Names : tasks[t] \in CacheTask(steps) OBVIOUS
<1> QED BY <1>1, <1>2, <1>3 DEF Aged, CacheTask

\* A tick ages what is under way and what is cached alike.
LEMMA TickKeeps ==
    ASSUME CachesInv, Tick PROVE CachesInv'
<1>1. /\ reading' \in [Readers -> CacheTask({"idle", "asked", "read"})]
      /\ \A r \in Readers : reading[r].pc # "idle" =>
            reading'[r] = [reading[r] EXCEPT !.age = @ + 1]
      /\ \A r \in Readers : reading'[r].pc = reading[r].pc
  BY AgedIsTyped DEF Tick, CachesInv, CachesTypeOK
<1>2. writing' \in [Writers -> CacheTask({"idle", "begun", "written", "emptied"})]
  BY AgedIsTyped DEF Tick, CachesInv, CachesTypeOK
<1>3. /\ sinceWrite' \in 0 .. Horizon /\ sinceWrite' <= sinceWrite + 1
      /\ sinceError' \in 0 .. Horizon /\ sinceError' <= sinceError + 1
  BY LaterIsLater DEF Tick, CachesInv, CachesTypeOK
<1>4. /\ cached' \in [value: CachedValues, left: 0 .. CacheTtl]
      /\ cached'.value = cached.value
      /\ cached'.left > 0 => cached.left > 0 /\ cached'.left = cached.left - 1
  BY CachesAssumption DEF Tick, CachesInv, CachesTypeOK
<1>5. UNCHANGED <<kind, stored, cacheFaults>>
  BY DEF Tick
<1>6. CachesTypeOK'
  BY <1>1, <1>2, <1>3, <1>4, <1>5 DEF CachesInv, CachesTypeOK, Horizon
<1>7. ReadsAreRecent'
  <2> SUFFICES ASSUME NEW r \in Readers, reading'[r].pc = "read", reading'[r].value # stored
               PROVE  sinceWrite' <= reading'[r].age
    BY <1>5 DEF ReadsAreRecent
  <2>1. reading[r] \in CacheTask({"idle", "asked", "read"}) /\ reading[r].pc = "read"
    BY <1>1 DEF CachesInv, CachesTypeOK
  <2>2. reading'[r].age = reading[r].age + 1 /\ reading'[r].value = reading[r].value
    BY <1>1, <2>1 DEF CacheTask
  <2>3. sinceWrite <= reading[r].age
    BY <2>1, <2>2 DEF CachesInv, ReadsAreRecent
  <2>4. sinceWrite \in Nat /\ sinceWrite' \in Nat /\ reading[r].age \in Nat
    BY <1>3, <2>1, HorizonIsNat, CachesAssumption DEF CachesInv, CachesTypeOK, CacheTask
  <2> QED BY <2>2, <2>3, <2>4, <1>3
<1>8. StaleIsYoung'
  <2> SUFFICES ASSUME cached'.left > 0, cached.value # stored
               PROVE  \/ sinceWrite' + cached'.left <= CacheTtl + Latency
                      \/ sinceError' + cached'.left <= CacheTtl
    BY <1>4, <1>5 DEF StaleIsYoung
  <2>1. cached.left \in Nat /\ cached.left > 0 /\ cached'.left = cached.left - 1
    BY <1>4, CachesAssumption DEF CachesInv, CachesTypeOK
  <2>2. sinceWrite \in Nat /\ sinceError \in Nat /\ sinceWrite' \in Nat /\ sinceError' \in Nat
    BY <1>3, HorizonIsNat DEF CachesInv, CachesTypeOK
  <2>3. \/ sinceWrite + cached.left <= CacheTtl + Latency
        \/ sinceError + cached.left <= CacheTtl
    BY <2>1 DEF CachesInv, StaleIsYoung
  <2> QED BY <2>1, <2>2, <2>3, <1>3, CachesAssumption
<1> QED BY <1>6, <1>7, <1>8 DEF CachesInv

-----------------------------------------------------------------------------
LEMMA CachesStep == CachesInv /\ [CachesNext]_cachesVars => CachesInv'
<1> SUFFICES ASSUME CachesInv, [CachesNext]_cachesVars PROVE CachesInv' OBVIOUS
<1>1. CASE \E r \in Readers : Ask(r) \/ Snapshot(r) \/ Fill(r) \/ ReadFails(r)
  BY <1>1, AskKeeps, SnapshotKeeps, FillKeeps, ReadFailsKeeps
<1>2. CASE \E w \in Writers : \E v \in CachedValues : WriteBegin(w, v)
  BY <1>2, WriteBeginKeeps
<1>3. CASE \E w \in Writers : Commit(w) \/ Invalidate(w)
  BY <1>3, CommitKeeps, InvalidateKeeps
<1>4. CASE Restart BY <1>4, RestartKeeps
<1>5. CASE Tick BY <1>5, TickKeeps
<1>6. CASE UNCHANGED cachesVars
  BY <1>6 DEF cachesVars, CachesInv, CachesTypeOK, ReadsAreRecent, StaleIsYoung, Horizon
<1> QED BY <1>1, <1>2, <1>3, <1>4, <1>5, <1>6 DEF CachesNext

\* The row, the cache and every query and write under way are well typed; the ages of
\* what is under way stay within the latency (settings.service.ts,
\* conversion-event-types.service.ts).
THEOREM CachesAreTyped == CachesSpec => []CachesTypeOK
<1>1. CachesInv => CachesTypeOK BY DEF CachesInv
<1> QED BY <1>1, CachesStart, CachesStep, PTL DEF CachesSpec

\* Whatever reads, writes, failures and restarts interleave, an answer of the cache that
\* is not the row was overtaken by a write, or put there by a failed read, no longer ago
\* than the time to live and the latency of one query allow.
THEOREM StaleAnswersAreYoung == CachesSpec => []StaleIsYoung
<1>1. CachesInv => StaleIsYoung BY DEF CachesInv
<1> QED BY <1>1, CachesStart, CachesStep, PTL DEF CachesSpec

-----------------------------------------------------------------------------
(* A visit.  However requests overlap, it is marked new or as a return for *)
(* a reason.  The decision is taken one statement before the row is there, *)
(* so the inductive invariant says what a request that is about to insert  *)
(* has found.                                                              *)
IsHandling(h) ==
    h \in [pc: Stages, score: {h.score}, limit: {h.limit}, isNew: BOOLEAN, flood: {h.flood}]

IsRow(row) ==
    row \in [visitor: {row.visitor}, fingerprint: {row.fingerprint}, isNew: BOOLEAN,
             score: {row.score}, isBot: {row.isBot}, enriched: {row.enriched}]

\* The rows and the order of their insertion.
Tables ==
    /\ handling = [c \in Clicks |-> handling[c]]
    /\ clickRow = [c \in Clicks |-> clickRow[c]]
    /\ arrivedAt = [c \in Clicks |-> arrivedAt[c]]
    /\ createdAt \in Seq(Clicks)
    /\ \A c \in Clicks : c \in Stored <=> \E j \in DOMAIN createdAt : createdAt[j] = c

\* What a request has done, and what it has found when it is about to insert.
Sound(c) ==
    /\ IsHandling(handling[c])
    /\ c \in Stored => IsRow(clickRow[c]) /\ clickRow[c].visitor = VisitorOf(request[c])
    /\ handling[c].pc \in {"idle", "velocity", "visitor", "insert"} => c \notin Stored
    /\ handling[c].pc \in {"lookup", "enrich"} => c \in Stored
    /\ arrivedAt[c] \subseteq Stored
    /\ handling[c].pc = "insert" =>
         IF handling[c].isNew THEN \A d \in arrivedAt[c] : ~Knows(d, c)
                              ELSE \E d \in Stored : Knows(d, c)

\* Why the row that was inserted as number i is marked as it is.
Reason(i) ==
    LET c == createdAt[i] IN
    IF clickRow[c].isNew
    THEN \A d \in arrivedAt[c] : ~ (request[d].campaign = request[c].campaign
                                    /\ clickRow[d].visitor = clickRow[c].visitor)
    ELSE \E j \in 1 .. i - 1 :
            /\ request[createdAt[j]].campaign = request[c].campaign
            /\ \/ clickRow[createdAt[j]].visitor = clickRow[c].visitor
               \/ FromSameBrowser(createdAt[j], c)

TrafficInv ==
    /\ Tables
    /\ \A c \in Clicks : Sound(c)
    /\ \A i \in DOMAIN createdAt : Reason(i)

LEMMA VisitorsAreNamed == ASSUME NEW q PROVE VisitorOf(q) # <<>>
BY DEF VisitorOf, Fingerprint

LEMMA TrafficStart == TrafficInit => TrafficInv
<1> SUFFICES ASSUME TrafficInit PROVE TrafficInv OBVIOUS
<1>1. Stored = {} /\ DOMAIN createdAt = {} BY DEF TrafficInit, Stored
<1>2. Tables BY <1>1 DEF TrafficInit, Tables
<1>3. ASSUME NEW c \in Clicks PROVE Sound(c)
  <2>1. handling[c] = NotHandled /\ arrivedAt[c] = {} BY DEF TrafficInit
  <2> QED BY <1>1, <2>1 DEF Sound, IsHandling, NotHandled, Stages
<1> QED BY <1>1, <1>2, <1>3 DEF TrafficInv

-----------------------------------------------------------------------------
\* A step of one request before or after its insertion: nothing is stored.
LEMMA QuietStepKeeps ==
    ASSUME TrafficInv, NEW c \in Clicks, NEW new,
           handling' = [handling EXCEPT ![c] = new],
           UNCHANGED <<request, clickRow, createdAt>>,
           arrivedAt' = arrivedAt
             \/ (arrivedAt' = [arrivedAt EXCEPT ![c] = Stored] /\ handling[c].pc = "idle"),
           IsHandling(new),
           new.pc \in {"velocity", "visitor", "insert"} =>
               handling[c].pc \in {"idle", "velocity", "visitor"},
           new.pc = "enrich" => handling[c].pc = "lookup",
           new.pc \in {"velocity", "visitor", "insert", "enrich", "done"},
           new.pc = "insert" =>
               IF new.isNew THEN \A d \in arrivedAt[c] : ~Knows(d, c)
                            ELSE \E d \in Stored : Knows(d, c),
           new.pc = "insert" => handling[c].pc = "visitor"
    PROVE  TrafficInv'
<1>1. Stored' = Stored /\ (\A d, e : Knows(d, e)' <=> Knows(d, e)) /\ createdAt' = createdAt
  BY DEF Stored, Knows, FromSameBrowser, VisitorOf, Fingerprint, NoRow
<1>2. handling'[c] = new /\ \A d \in Clicks : d # c => handling'[d] = handling[d]
  BY DEF TrafficInv, Tables
<1>3. \A d \in Clicks : d # c => arrivedAt'[d] = arrivedAt[d]
  BY DEF TrafficInv, Tables
<1>4. arrivedAt'[c] = arrivedAt[c] \/ (arrivedAt'[c] = Stored /\ handling[c].pc = "idle")
  BY DEF TrafficInv, Tables
<1>5. Tables' BY <1>1 DEF TrafficInv, Tables
<1>6. Sound(c)'
  <2>1. Sound(c) BY DEF TrafficInv
  <2>2. arrivedAt'[c] \subseteq Stored BY <1>4, <2>1 DEF Sound
  <2>3. new.pc = "insert" => arrivedAt'[c] = arrivedAt[c] BY <1>4
  <2> QED BY <1>1, <1>2, <2>1, <2>2, <2>3 DEF Sound, VisitorOf, Fingerprint
<1>7. ASSUME NEW d \in Clicks, d # c PROVE Sound(d)'
  <2>1. Sound(d) /\ handling'[d] = handling[d] /\ arrivedAt'[d] = arrivedAt[d]
    BY <1>2, <1>3, <1>7 DEF TrafficInv
  <2> QED BY <1>1, <2>1 DEF Sound, VisitorOf, Fingerprint
<1>8. ASSUME NEW i \in DOMAIN createdAt PROVE Reason(i)'
  <2>1. Reason(i) /\ createdAt[i] \in Clicks /\ createdAt[i] \in Stored
    BY DEF TrafficInv, Tables
  <2>2. arrivedAt'[createdAt[i]] = arrivedAt[createdAt[i]]
    BY <1>3, <1>4, <2>1 DEF TrafficInv, Sound
  <2> QED BY <2>1, <2>2 DEF Reason, FromSameBrowser
<1> QED BY <1>1, <1>5, <1>6, <1>7, <1>8 DEF TrafficInv

LEMMA ArriveKeeps == ASSUME TrafficInv, NEW c \in Clicks, Arrive(c) PROVE TrafficInv'
<1>1. PICK n \in Limits :
        Move(c, "idle", [NotHandled EXCEPT !.pc = "velocity",
                            !.score = DetectBot(request[c].signals), !.limit = n])
  BY DEF Arrive
<1> DEFINE new == [NotHandled EXCEPT !.pc = "velocity",
                       !.score = DetectBot(request[c].signals), !.limit = n]
<1>2. IsHandling(new) /\ new.pc = "velocity" BY DEF IsHandling, NotHandled, Stages
<1>3. handling[c].pc = "idle" /\ handling' = [handling EXCEPT ![c] = new] BY <1>1 DEF Move
<1>4. UNCHANGED <<request, clickRow, createdAt>> /\ arrivedAt' = [arrivedAt EXCEPT ![c] = Stored]
  BY DEF Arrive
<1> HIDE DEF new
<1> QED BY <1>2, <1>3, <1>4, QuietStepKeeps

LEMMA VelocityKeeps == ASSUME TrafficInv, NEW c \in Clicks, Velocity(c) PROVE TrafficInv'
<1> DEFINE added == IF request[c].ip \in Public
                    THEN ClickVelocity(Cardinality(SameAddress(c)), VelocityLimit(handling[c].limit))
                    ELSE 0
           new == [handling[c] EXCEPT !.pc = "visitor", !.flood = added > 0,
                                      !.score = Capped(handling[c].score + added)]
<1>1. handling[c].pc = "velocity" /\ handling' = [handling EXCEPT ![c] = new]
     /\ UNCHANGED <<request, clickRow, createdAt>> /\ arrivedAt' = arrivedAt
  BY DEF Velocity, Move
<1>2. IsHandling(handling[c]) BY DEF TrafficInv, Sound
<1> HIDE DEF added
<1>3. IsHandling(new) /\ new.pc = "visitor" BY <1>2 DEF IsHandling, Stages
<1> HIDE DEF new
<1> QED BY <1>1, <1>3, QuietStepKeeps

LEMMA ResolveVisitorKeeps ==
    ASSUME TrafficInv, NEW c \in Clicks, ResolveVisitor(c) PROVE TrafficInv'
<1> DEFINE known == \E d \in Stored : Knows(d, c)
           new == [handling[c] EXCEPT !.pc = "insert", !.isNew = ~known]
<1>1. handling[c].pc = "visitor" /\ handling' = [handling EXCEPT ![c] = new]
     /\ UNCHANGED <<request, clickRow, createdAt>> /\ arrivedAt' = arrivedAt
  BY DEF ResolveVisitor, Move
<1>2. IsHandling(handling[c]) /\ arrivedAt[c] \subseteq Stored BY DEF TrafficInv, Sound
<1>3. /\ IsHandling(new) /\ new.pc = "insert" /\ new.isNew = ~known
  <2> HIDE DEF known
  <2> QED BY <1>2 DEF IsHandling, Stages
<1>4. IF new.isNew THEN \A d \in arrivedAt[c] : ~Knows(d, c)
                   ELSE \E d \in Stored : Knows(d, c)
  <2> HIDE DEF new
  <2> QED BY <1>2, <1>3
<1> HIDE DEF new
<1> QED BY <1>1, <1>3, <1>4, QuietStepKeeps

LEMMA LookupKeeps == ASSUME TrafficInv, NEW c \in Clicks, Lookup(c) PROVE TrafficInv'
<1>1. IsHandling(handling[c]) /\ UNCHANGED <<request, clickRow, createdAt>> /\ arrivedAt' = arrivedAt
  BY DEF TrafficInv, Sound, Lookup
<1>2. CASE Move(c, "lookup", [handling[c] EXCEPT !.pc = "done"])
  <2> DEFINE new == [handling[c] EXCEPT !.pc = "done"]
  <2>1. IsHandling(new) /\ new.pc = "done" BY <1>1 DEF IsHandling, Stages
  <2>2. handling' = [handling EXCEPT ![c] = new] BY <1>2 DEF Move
  <2> HIDE DEF new
  <2> QED BY <1>1, <2>1, <2>2, QuietStepKeeps
<1>3. ASSUME NEW seen \in IpSignals,
             Move(c, "lookup", [handling[c] EXCEPT !.pc = "enrich",
                                  !.score = DetectBot(request[c].signals \cup seen)])
      PROVE  TrafficInv'
  <2> DEFINE new == [handling[c] EXCEPT !.pc = "enrich",
                         !.score = DetectBot(request[c].signals \cup seen)]
  <2>1. IsHandling(new) /\ new.pc = "enrich" BY <1>1 DEF IsHandling, Stages
  <2>2. handling[c].pc = "lookup" /\ handling' = [handling EXCEPT ![c] = new]
    BY <1>3 DEF Move
  <2> HIDE DEF new
  <2> QED BY <1>1, <2>1, <2>2, QuietStepKeeps
<1> QED BY <1>2, <1>3 DEF Lookup

-----------------------------------------------------------------------------
\* The steps that write a row.

LEMMA InsertKeeps == ASSUME TrafficInv, NEW c \in Clicks, Insert(c) PROVE TrafficInv'
<1> DEFINE new == [handling[c] EXCEPT !.pc = "lookup"]
           row == [visitor     |-> VisitorOf(request[c]),
                   fingerprint |-> request[c].cookie = NoCookie,
                   isNew       |-> handling[c].isNew,
                   score       |-> handling[c].score,
                   isBot       |-> IsBotScore(handling[c].score),
                   enriched    |-> FALSE]
<1>1. /\ handling[c].pc = "insert" /\ handling' = [handling EXCEPT ![c] = new]
      /\ clickRow' = [clickRow EXCEPT ![c] = row] /\ createdAt' = Append(createdAt, c)
      /\ request' = request /\ arrivedAt' = arrivedAt
  BY DEF Insert, Move
<1>2. Sound(c) /\ Tables BY DEF TrafficInv
<1>3. IsHandling(new) /\ new.pc = "lookup"
  BY <1>2 DEF Sound, IsHandling, Stages
<1>4. IsRow(row) /\ row.visitor = VisitorOf(request[c]) /\ row.isNew = handling[c].isNew
      /\ row # NoRow
  <2>1. handling[c].isNew \in BOOLEAN BY <1>2 DEF Sound, IsHandling
  <2>2. row.visitor # <<>> BY VisitorsAreNamed
  <2> QED BY <2>1, <2>2 DEF IsRow, NoRow
<1> HIDE DEF new, row
<1>5. /\ handling'[c] = new /\ \A d \in Clicks : d # c => handling'[d] = handling[d]
      /\ clickRow'[c] = row /\ \A d \in Clicks : d # c => clickRow'[d] = clickRow[d]
  BY <1>1, <1>2 DEF Tables
<1>6. c \notin Stored /\ Stored' = Stored \cup {c}
  BY <1>1, <1>2, <1>4, <1>5 DEF Sound, Stored, NoRow
<1>a. PICK last \in Nat : last = Len(createdAt) + 1 BY <1>2 DEF Tables
<1>7. /\ Len(createdAt) \in Nat /\ last \in DOMAIN createdAt' /\ createdAt'[last] = c
      /\ DOMAIN createdAt' = DOMAIN createdAt \cup {last}
      /\ createdAt' \in Seq(Clicks)
      /\ \A i \in DOMAIN createdAt : createdAt'[i] = createdAt[i] /\ i \in 1 .. last - 1
      /\ 1 .. last - 1 = DOMAIN createdAt
  BY <1>1, <1>2, <1>a DEF Tables
<1>8. Tables'
  <2>1. \A d \in Clicks : d \in Stored' <=> \E j \in DOMAIN createdAt' : createdAt'[j] = d
    BY <1>2, <1>6, <1>7 DEF Tables
  <2> QED BY <1>1, <1>2, <1>7, <2>1 DEF Tables
<1>9. Sound(c)' BY <1>1, <1>2, <1>3, <1>4, <1>5, <1>6 DEF Sound, VisitorOf, Fingerprint
<1>10. ASSUME NEW d \in Clicks, d # c PROVE Sound(d)'
  <2>1. Sound(d) /\ handling'[d] = handling[d] /\ clickRow'[d] = clickRow[d]
    BY <1>5, <1>10 DEF TrafficInv
  <2>2. \A e : Knows(e, d)' <=> Knows(e, d) BY <1>1 DEF Knows, FromSameBrowser, VisitorOf, Fingerprint
  <2> QED BY <1>1, <1>6, <1>10, <2>1, <2>2 DEF Sound, VisitorOf, Fingerprint
\* The rows before it stay, and so do their reasons.
<1>11. ASSUME NEW i \in DOMAIN createdAt PROVE Reason(i)'
  <2>1. Reason(i) /\ createdAt[i] \in Stored /\ createdAt[i] \in Clicks /\ createdAt'[i] = createdAt[i]
    BY <1>2, <1>7 DEF TrafficInv, Tables
  <2>2. arrivedAt[createdAt[i]] \subseteq Stored BY <2>1 DEF TrafficInv, Sound
  <2>3. \A d \in Stored : clickRow'[d] = clickRow[d] BY <1>5, <1>6 DEF Stored
  <2>4. \A j \in 1 .. i - 1 : createdAt'[j] = createdAt[j] /\ createdAt[j] \in Stored
    BY <1>2, <1>7 DEF Tables
  <2>5. clickRow'[createdAt[i]] = clickRow[createdAt[i]]
        /\ (\A d \in arrivedAt[createdAt[i]] : clickRow'[d] = clickRow[d])
        /\ (\A j \in 1 .. i - 1 : clickRow'[createdAt[j]] = clickRow[createdAt[j]])
    BY <2>1, <2>2, <2>3, <2>4
  <2>6. CASE clickRow[createdAt[i]].isNew BY <1>1, <2>1, <2>5, <2>6 DEF Reason, FromSameBrowser
  <2>7. CASE ~clickRow[createdAt[i]].isNew BY <1>1, <2>1, <2>4, <2>5, <2>7 DEF Reason, FromSameBrowser
  <2> QED BY <2>6, <2>7
<1>12. Reason(last)'
  <2>1. CASE handling[c].isNew
    <3>1. \A d \in arrivedAt[c] : ~Knows(d, c) /\ d \in Stored /\ d # c
      BY <1>1, <1>2, <1>6, <2>1 DEF Sound
    <3>2. \A d \in arrivedAt[c] : clickRow'[d].visitor = VisitorOf(request[d])
      BY <1>5, <3>1 DEF TrafficInv, Sound, Stored
    <3>3. \A d \in arrivedAt[c] : ~ (request[d].campaign = request[c].campaign
                                      /\ clickRow'[d].visitor = clickRow'[c].visitor)
      BY <1>4, <1>5, <3>1, <3>2 DEF Knows
    <3>4. clickRow'[c].isNew BY <1>4, <1>5, <2>1
    <3> QED BY <1>1, <1>7, <3>3, <3>4 DEF Reason, FromSameBrowser
  <2>2. CASE ~handling[c].isNew
    <3>1. PICK d \in Stored : Knows(d, c) BY <1>1, <1>2, <2>2 DEF Sound
    <3>2. d \in Clicks /\ d # c BY <1>6 DEF Stored
    <3>3. clickRow'[d].visitor = VisitorOf(request[d]) BY <1>5, <3>2 DEF TrafficInv, Sound
    <3>4. PICK j \in DOMAIN createdAt : createdAt[j] = d BY <1>2, <3>2 DEF Tables
    <3>5. j \in 1 .. last - 1 /\ createdAt'[j] = d BY <1>7, <3>4
    <3>6. /\ request[d].campaign = request[c].campaign
          /\ \/ clickRow'[d].visitor = clickRow'[c].visitor
             \/ FromSameBrowser(d, c)
      BY <1>4, <1>5, <3>1, <3>3 DEF Knows
    <3>7. ~clickRow'[c].isNew BY <1>4, <1>5, <2>2
    <3> QED BY <1>1, <1>7, <3>5, <3>6, <3>7 DEF Reason, FromSameBrowser
  <2> QED BY <2>1, <2>2
<1>13. \A i \in DOMAIN createdAt' : Reason(i)' BY <1>7, <1>11, <1>12
<1>14. \A d \in Clicks : Sound(d)' BY <1>9, <1>10
<1> QED BY <1>8, <1>13, <1>14 DEF TrafficInv

LEMMA EnrichKeeps == ASSUME TrafficInv, NEW c \in Clicks, Enrich(c) PROVE TrafficInv'
<1> DEFINE new == [handling[c] EXCEPT !.pc = "done"]
<1>1. /\ handling[c].pc = "enrich" /\ handling' = [handling EXCEPT ![c] = new]
      /\ request' = request /\ arrivedAt' = arrivedAt /\ createdAt' = createdAt
  BY DEF Enrich, Move
<1>2. Sound(c) /\ Tables BY DEF TrafficInv
<1>3. IsHandling(new) /\ new.pc = "done" BY <1>2 DEF Sound, IsHandling, Stages
<1> HIDE DEF new
<1>4. handling'[c] = new /\ \A d \in Clicks : d # c => handling'[d] = handling[d]
  BY <1>1, <1>2 DEF Tables
<1>5. c \in Stored /\ IsRow(clickRow[c]) /\ clickRow[c].visitor = VisitorOf(request[c])
  BY <1>1, <1>2 DEF Sound
<1>6. /\ clickRow' = [d \in Clicks |-> clickRow'[d]]
      /\ IsRow(clickRow'[c]) /\ clickRow'[c].visitor = clickRow[c].visitor
      /\ clickRow'[c].isNew = clickRow[c].isNew
      /\ \A d \in Clicks : d # c => clickRow'[d] = clickRow[d]
  BY <1>2, <1>5 DEF Tables, Enrich, IsRow
<1>7. Stored' = Stored
  <2>1. clickRow'[c] # NoRow BY <1>5, <1>6, VisitorsAreNamed DEF NoRow
  <2> QED BY <1>5, <1>6, <2>1 DEF Stored, NoRow
<1>8. Tables' BY <1>1, <1>2, <1>6, <1>7 DEF Tables
<1>9. \A d, e : Knows(d, e)' <=> Knows(d, e) BY <1>1 DEF Knows, FromSameBrowser, VisitorOf, Fingerprint
<1>10. Sound(c)'
  BY <1>1, <1>2, <1>3, <1>4, <1>5, <1>6, <1>7 DEF Sound, VisitorOf, Fingerprint
<1>11. ASSUME NEW d \in Clicks, d # c PROVE Sound(d)'
  <2>1. Sound(d) /\ handling'[d] = handling[d] /\ clickRow'[d] = clickRow[d]
    BY <1>4, <1>6, <1>11 DEF TrafficInv
  <2> QED BY <1>1, <1>7, <1>9, <2>1 DEF Sound, VisitorOf, Fingerprint
<1>12. ASSUME NEW i \in DOMAIN createdAt PROVE Reason(i)'
  <2>a. createdAt[i] \in Clicks BY <1>2 DEF Tables
  <2>b. Stored \subseteq Clicks BY DEF Stored
  <2>1. Reason(i) /\ createdAt[i] \in Clicks /\ arrivedAt[createdAt[i]] \subseteq Clicks
    BY <2>a, <2>b DEF TrafficInv, Sound
  <2>2. \A d \in Clicks : clickRow'[d].visitor = clickRow[d].visitor
                          /\ clickRow'[d].isNew = clickRow[d].isNew
    BY <1>6
  <2>3. \A j \in 1 .. i - 1 : createdAt[j] \in Clicks BY <1>2 DEF Tables
  <2> QED BY <1>1, <2>1, <2>2, <2>3 DEF Reason, FromSameBrowser
<1> QED BY <1>1, <1>8, <1>10, <1>11, <1>12 DEF TrafficInv

LEMMA TrafficStep == TrafficInv /\ [TrafficNext]_trafficVars => TrafficInv'
<1> SUFFICES ASSUME TrafficInv, [TrafficNext]_trafficVars PROVE TrafficInv' OBVIOUS
<1>1. CASE UNCHANGED trafficVars
  <2>1. UNCHANGED <<request, handling, clickRow, arrivedAt, createdAt>> BY <1>1 DEF trafficVars
  <2>2. Stored' = Stored /\ (\A d, e : Knows(d, e)' <=> Knows(d, e))
    BY <2>1 DEF Stored, Knows, FromSameBrowser, VisitorOf, Fingerprint, NoRow
  <2>3. Tables' BY <2>1, <2>2 DEF TrafficInv, Tables
  <2>4. ASSUME NEW c \in Clicks PROVE Sound(c)'
    <3>1. Sound(c) BY DEF TrafficInv
    <3> QED BY <2>1, <2>2, <3>1 DEF Sound, VisitorOf, Fingerprint
  <2>5. ASSUME NEW i \in DOMAIN createdAt PROVE Reason(i)'
    <3>1. Reason(i) BY DEF TrafficInv
    <3> QED BY <2>1, <3>1 DEF Reason, FromSameBrowser
  <2> QED BY <2>1, <2>3, <2>4, <2>5 DEF TrafficInv
<1>2. CASE TrafficNext
  BY <1>2, ArriveKeeps, VelocityKeeps, ResolveVisitorKeeps, InsertKeeps, LookupKeeps,
     EnrichKeeps DEF TrafficNext
<1> QED BY <1>1, <1>2

-----------------------------------------------------------------------------
\* A visit is counted as new only if no row of its visitor was there when its request
\* came, and as a return only after a row of its own campaign that knows it, however
\* many requests overlap.
THEOREM NewVisitorsAreNew == TrafficSpec => []NewMeansFirst
<1>1. TrafficInv => NewMeansFirst BY DEF TrafficInv, Reason, NewMeansFirst
<1> QED BY <1>1, TrafficStart, TrafficStep, PTL DEF TrafficSpec

-----------------------------------------------------------------------------
(* A flood.  What a request has added to its score, and what was there     *)
(* then: rows are only added, so what counts against it stays.             *)

Near(c, rows) == {d \in rows : request[d].ip = request[c].ip}
Limit(c) == VelocityLimit(handling[c].limit)

\* What stands in the row.
RowScored(c) ==
    c \in Stored =>
      /\ clickRow[c].score >= DetectBot(request[c].signals)
      /\ request[c].ip \in Public /\ Cardinality(Near(c, arrivedAt[c])) >= Limit(c)
           /\ ~clickRow[c].enriched => clickRow[c].score >= 30
      /\ ~handling[c].flood /\ ~clickRow[c].enriched
            => clickRow[c].score = DetectBot(request[c].signals)

\* What the request has found.
InHand(c) ==
    LET h == handling[c] IN
    /\ h.pc # "idle" => h.limit \in Nat /\ h.score \in Nat
                        /\ h.score >= DetectBot(request[c].signals)
    /\ h.pc \in {"visitor", "insert"} /\ request[c].ip \in Public
         /\ Cardinality(Near(c, arrivedAt[c])) >= Limit(c) => h.score >= 30
    /\ h.pc \in {"velocity", "visitor", "insert"} /\ ~h.flood
          => h.score = DetectBot(request[c].signals)
    /\ h.pc \in {"idle", "velocity"} => ~h.flood
    /\ h.flood => request[c].ip \in Public /\ Cardinality(Near(c, Stored \ {c})) >= Limit(c)

Scored(c) == InHand(c) /\ RowScored(c)

FloodInv == IsFiniteSet(Stored) /\ \A c \in Clicks : Scored(c)

LEMMA ScoresGrow ==
    ASSUME NEW S, NEW T
    PROVE  DetectBot(S) \in 0 .. 100 /\ DetectBot(S) <= DetectBot(S \cup T)
BY DEF DetectBot, Points, SignalScore, Capped

LEMMA QuotientIsNat ==
    ASSUME NEW a \in Nat, NEW b \in Nat \ {0}
    PROVE  a \div b \in Nat
OBVIOUS

LEMMA SmallerOfTwo ==
    ASSUME NEW a \in Int, NEW b \in Int
    PROVE  Min({a, b}) = IF a <= b THEN a ELSE b
BY DEF Min

LEMMA FloodPoints ==
    ASSUME NEW n \in Nat, NEW limit \in Nat \ {0}
    PROVE  /\ ClickVelocity(n, limit) \in 0 .. 60
           /\ n >= limit => ClickVelocity(n, limit) >= 30
           /\ n < limit => ClickVelocity(n, limit) = 0
<1>1. CASE n < limit BY <1>1 DEF ClickVelocity
<1>2. CASE n >= limit
  <2> DEFINE more == ((n - limit) * 30) \div limit
  <2>0. (n - limit) * 30 \in Nat BY <1>2
  <2>1. more \in Nat BY <2>0, QuotientIsNat
  <2>2. ClickVelocity(n, limit) = Min({60, 30 + more}) BY <1>2 DEF ClickVelocity
  <2> HIDE DEF more
  <2>3. ClickVelocity(n, limit) = IF 60 <= 30 + more THEN 60 ELSE 30 + more
    BY <2>1, <2>2, SmallerOfTwo
  <2> QED BY <1>2, <2>1, <2>3
<1> QED BY <1>1, <1>2

LEMMA CappedSum ==
    ASSUME NEW a \in Nat, NEW b \in Nat, NEW least \in 0 .. 100, a >= least
    PROVE  Capped(a + b) \in Nat /\ Capped(a + b) >= least /\ (b >= 30 => Capped(a + b) >= 30)
BY DEF Capped

LEMMA MoreAreNear ==
    ASSUME NEW c, NEW R, NEW S, IsFiniteSet(S), R \subseteq S
    PROVE  /\ Cardinality(Near(c, R)) \in Nat /\ Cardinality(Near(c, S)) \in Nat
           /\ Cardinality(Near(c, R)) <= Cardinality(Near(c, S))
<1>1. Near(c, S) \subseteq S /\ Near(c, R) \subseteq Near(c, S) BY DEF Near
<1>2. IsFiniteSet(Near(c, S)) BY <1>1, FS_Subset
<1>3. IsFiniteSet(Near(c, R)) /\ Cardinality(Near(c, R)) <= Cardinality(Near(c, S))
  BY <1>1, <1>2, FS_Subset
<1> QED BY <1>2, <1>3, FS_CardinalityType

LEMMA LimitIsPositive == ASSUME NEW n \in Nat PROVE VelocityLimit(n) \in Nat \ {0}
BY DEF VelocityLimit, DefaultMaxClicks

LEMMA FloodStart == TrafficInit => FloodInv
<1> SUFFICES ASSUME TrafficInit PROVE FloodInv OBVIOUS
<1>1. Stored = {} BY DEF TrafficInit, Stored
<1>2. \A c \in Clicks : handling[c] = NotHandled BY DEF TrafficInit
<1>3. NotHandled.pc = "idle" /\ NotHandled.flood = FALSE BY DEF NotHandled
<1>4. IsFiniteSet(Stored) BY <1>1, FS_EmptySet
<1>5. ASSUME NEW c \in Clicks PROVE Scored(c)
  <2>1. handling[c].pc = "idle" /\ ~handling[c].flood BY <1>2, <1>3
  <2>2. RowScored(c) BY <1>1 DEF RowScored
  <2>3. InHand(c) BY <2>1 DEF InHand
  <2> QED BY <2>2, <2>3 DEF Scored
<1> QED BY <1>4, <1>5 DEF FloodInv

\* A step that adds no row and turns nobody's score to anything but its own.
LEMMA OthersStayScored ==
    ASSUME TrafficInv, FloodInv, NEW c \in Clicks,
           request' = request, IsFiniteSet(Stored'), Stored \subseteq Stored',
           \A d \in Clicks \ {c} : /\ handling'[d] = handling[d] /\ arrivedAt'[d] = arrivedAt[d]
                                   /\ clickRow'[d] = clickRow[d]
    PROVE  \A d \in Clicks \ {c} : Scored(d)'
<1> SUFFICES ASSUME NEW d \in Clicks \ {c} PROVE Scored(d)' OBVIOUS
<1>1. /\ Scored(d) /\ handling'[d] = handling[d] /\ arrivedAt'[d] = arrivedAt[d]
      /\ clickRow'[d] = clickRow[d] /\ (d \in Stored' <=> d \in Stored)
  BY DEF FloodInv, Stored
<1>3. Near(d, arrivedAt[d])' = Near(d, arrivedAt[d]) BY <1>1 DEF Near
<1>4. Near(d, Stored \ {d})' = Near(d, Stored' \ {d}) BY DEF Near
<1>5. IsFiniteSet(Stored' \ {d}) BY FS_RemoveElement
<1>6. /\ Cardinality(Near(d, Stored \ {d})) \in Nat
      /\ Cardinality(Near(d, Stored \ {d})) <= Cardinality(Near(d, Stored' \ {d}))
      /\ Cardinality(Near(d, Stored' \ {d})) \in Nat
  BY <1>5, MoreAreNear
<1>7. handling[d].flood => Limit(d) \in Nat
  <2>1. handling[d].flood => handling[d].limit \in Nat BY <1>1 DEF Scored, InHand
  <2> QED BY <2>1, LimitIsPositive DEF Limit
<1>8. Limit(d)' = Limit(d) BY <1>1 DEF Limit
<1>9. handling[d].flood => Cardinality(Near(d, Stored' \ {d})) >= Limit(d)
  BY <1>1, <1>6, <1>7 DEF Scored, InHand
<1> HIDE DEF Near
<1>10. RowScored(d)' BY <1>1, <1>3, <1>8 DEF Scored, RowScored
<1>11. InHand(d)' BY <1>1, <1>3, <1>4, <1>8, <1>9 DEF Scored, InHand
<1> QED BY <1>10, <1>11 DEF Scored

\* A step of a request that writes no row.
LEMMA ScoredWithoutRow ==
    ASSUME TrafficInv, FloodInv, NEW c \in Clicks, NEW new,
           handling' = [handling EXCEPT ![c] = new],
           UNCHANGED <<request, clickRow>>,
           arrivedAt' = arrivedAt
             \/ (arrivedAt' = [arrivedAt EXCEPT ![c] = Stored] /\ c \notin Stored),
           Scored(c)'
    PROVE  FloodInv'
<1>1. Stored' = Stored BY DEF Stored, NoRow
<1>2. \A d \in Clicks \ {c} : /\ handling'[d] = handling[d] /\ arrivedAt'[d] = arrivedAt[d]
                              /\ clickRow'[d] = clickRow[d]
  BY DEF TrafficInv, Tables
<1>3. \A d \in Clicks \ {c} : Scored(d)' BY <1>1, <1>2, OthersStayScored DEF FloodInv
<1> QED BY <1>1, <1>3 DEF FloodInv

LEMMA ArriveScored == ASSUME TrafficInv, FloodInv, NEW c \in Clicks, Arrive(c) PROVE FloodInv'
<1>1. PICK n \in Limits :
        Move(c, "idle", [NotHandled EXCEPT !.pc = "velocity",
                            !.score = DetectBot(request[c].signals), !.limit = n])
  BY DEF Arrive
<1> DEFINE new == [NotHandled EXCEPT !.pc = "velocity",
                       !.score = DetectBot(request[c].signals), !.limit = n]
<1>2. handling' = [handling EXCEPT ![c] = new] /\ handling[c].pc = "idle" BY <1>1 DEF Move
<1>3. UNCHANGED <<request, clickRow>> /\ arrivedAt' = [arrivedAt EXCEPT ![c] = Stored]
  BY DEF Arrive
<1>4. c \notin Stored /\ handling'[c] = new /\ Stored' = Stored
  BY <1>2, <1>3 DEF TrafficInv, Tables, Sound, Stored, NoRow
<1>s. DetectBot(request[c].signals) \in 0 .. 100 /\ n \in Nat BY TrafficAssumption, ScoresGrow
<1>5. /\ new.pc = "velocity" /\ new.limit = n /\ new.flood = FALSE
      /\ new.score = DetectBot(request[c].signals)
  BY DEF NotHandled
<1> HIDE DEF new
<1>6. Scored(c)'
  <2>1. RowScored(c)' BY <1>4 DEF RowScored
  <2>2. handling'[c].pc = "velocity" /\ handling'[c].limit \in Nat /\ handling'[c].flood = FALSE
        /\ handling'[c].score \in Nat /\ handling'[c].score = DetectBot(request'[c].signals)
    BY <1>s, <1>3, <1>4, <1>5
  <2>3. InHand(c)' BY <2>2 DEF InHand
  <2> QED BY <2>1, <2>3 DEF Scored
<1> QED BY <1>2, <1>3, <1>4, <1>6, ScoredWithoutRow

LEMMA VelocityScored ==
    ASSUME TrafficInv, FloodInv, NEW c \in Clicks, Velocity(c) PROVE FloodInv'
<1> DEFINE h == handling[c]
           n == Cardinality(Near(c, Stored))
           public == request[c].ip \in Public
           added == IF public THEN ClickVelocity(n, Limit(c)) ELSE 0
           new == [h EXCEPT !.pc = "visitor", !.flood = added > 0, !.score = Capped(h.score + added)]
<1>1. SameAddress(c) = Near(c, Stored) BY DEF SameAddress, Near
<1>2. /\ h.pc = "velocity" /\ handling' = [handling EXCEPT ![c] = new]
      /\ UNCHANGED <<request, clickRow>> /\ arrivedAt' = arrivedAt
  BY <1>1 DEF Velocity, Move, Limit
<1>3. /\ c \notin Stored /\ arrivedAt[c] \subseteq Stored /\ handling'[c] = new /\ Stored' = Stored
      /\ IsHandling(h)
  BY <1>2 DEF TrafficInv, Tables, Sound, Stored, NoRow
<1>4. h.score \in Nat /\ h.score = DetectBot(request[c].signals) /\ Limit(c) \in Nat \ {0}
      /\ DetectBot(request[c].signals) \in 0 .. 100 /\ h.score >= DetectBot(request[c].signals)
  BY <1>2, LimitIsPositive, ScoresGrow DEF FloodInv, Scored, InHand, Limit
<1>5. n \in Nat /\ Cardinality(Near(c, arrivedAt[c])) \in Nat
      /\ Cardinality(Near(c, arrivedAt[c])) <= n
  BY <1>3, MoreAreNear DEF FloodInv
<1>6. /\ added \in 0 .. 60 /\ (public /\ n >= Limit(c) => added >= 30)
      /\ (~public \/ n < Limit(c) => added = 0)
  <2>1. ClickVelocity(n, Limit(c)) \in 0 .. 60 /\ (n >= Limit(c) => ClickVelocity(n, Limit(c)) >= 30)
        /\ (n < Limit(c) => ClickVelocity(n, Limit(c)) = 0)
    BY <1>4, <1>5, FloodPoints
  <2> QED BY <2>1
<1> HIDE DEF n, added
<1>7. /\ new.pc = "visitor" /\ new.limit = h.limit /\ new.flood = (added > 0)
      /\ new.score = Capped(h.score + added)
  BY <1>3 DEF IsHandling
<1>8. Near(c, Stored \ {c})' = Near(c, Stored) /\ Near(c, arrivedAt[c])' = Near(c, arrivedAt[c])
  BY <1>2, <1>3 DEF Near
<1>9. Capped(h.score + added) \in Nat
      /\ Capped(h.score + added) >= DetectBot(request[c].signals)
      /\ (public /\ n >= Limit(c) => Capped(h.score + added) >= 30)
      /\ (added = 0 => Capped(h.score + added) = DetectBot(request[c].signals))
  <2>1. added = 0 => Capped(h.score + added) = h.score BY <1>4 DEF Capped
  <2>2. added \in Nat BY <1>6
  <2>3. Capped(h.score + added) \in Nat /\ Capped(h.score + added) >= DetectBot(request[c].signals)
        /\ (added >= 30 => Capped(h.score + added) >= 30)
    BY <1>4, <2>2, CappedSum
  <2> QED BY <1>4, <1>6, <2>1, <2>3
<1>10. h.limit \in Nat BY <1>2 DEF FloodInv, Scored, InHand
<1> HIDE DEF new, h
<1>11. new.flood => public /\ n >= Limit(c)
  <2>1. SUFFICES ASSUME added > 0 PROVE public /\ n >= Limit(c) BY <1>7
  <2> QED BY <1>4, <1>5, <1>6, <2>1
<1>12. Limit(c)' = Limit(c) BY <1>3, <1>7 DEF Limit, h
<1>13. /\ public /\ Cardinality(Near(c, arrivedAt[c])) >= Limit(c) => new.score >= 30
       /\ ~new.flood => new.score = DetectBot(request[c].signals)
  <2>1. ~new.flood => added = 0
    <3>1. ~(added > 0) => added = 0 BY <1>6
    <3>2. new.flood = (added > 0) BY <1>7
    <3> QED BY <3>1, <3>2, Zenon
  <2> QED BY <1>4, <1>5, <1>7, <1>9, <2>1
<1>14. /\ handling'[c].pc = "visitor" /\ handling'[c].limit \in Nat /\ handling'[c].score \in Nat
       /\ handling'[c].score >= DetectBot(request'[c].signals)
       /\ request'[c].ip \in Public /\ Cardinality(Near(c, arrivedAt[c])') >= Limit(c)'
             => handling'[c].score >= 30
       /\ ~handling'[c].flood => handling'[c].score = DetectBot(request'[c].signals)
       /\ handling'[c].flood => /\ request'[c].ip \in Public
                                /\ Cardinality(Near(c, Stored \ {c})') >= Limit(c)'
  BY <1>2, <1>3, <1>7, <1>8, <1>9, <1>10, <1>11, <1>12, <1>13 DEF n
<1>15. Scored(c)'
  <2>1. RowScored(c)' BY <1>3 DEF RowScored
  <2>2. InHand(c)' BY <1>14 DEF InHand
  <2> QED BY <2>1, <2>2 DEF Scored
<1> QED BY <1>2, <1>15, ScoredWithoutRow

LEMMA ResolveVisitorScored ==
    ASSUME TrafficInv, FloodInv, NEW c \in Clicks, ResolveVisitor(c) PROVE FloodInv'
<1> DEFINE h == handling[c]
           known == \E d \in Stored : Knows(d, c)
           new == [h EXCEPT !.pc = "insert", !.isNew = ~known]
<1>1. /\ h.pc = "visitor" /\ handling' = [handling EXCEPT ![c] = new]
      /\ UNCHANGED <<request, clickRow>> /\ arrivedAt' = arrivedAt
  BY DEF ResolveVisitor, Move
<1>2. IsHandling(h) /\ c \notin Stored /\ handling'[c] = new /\ Stored' = Stored
  BY <1>1 DEF TrafficInv, Tables, Sound, Stored, NoRow
<1> HIDE DEF known
<1>3. /\ new.pc = "insert" /\ new.limit = h.limit /\ new.score = h.score /\ new.flood = h.flood
  BY <1>2 DEF IsHandling
<1> HIDE DEF new
<1>4. /\ Limit(c)' = Limit(c) /\ Near(c, Stored \ {c})' = Near(c, Stored \ {c})
      /\ Near(c, arrivedAt[c])' = Near(c, arrivedAt[c])
  BY <1>1, <1>2, <1>3 DEF Limit, Near
<1>5. Scored(c) BY DEF FloodInv
<1>6. Scored(c)'
  <2>1. RowScored(c)' BY <1>2 DEF RowScored
  <2>2. InHand(c)' BY <1>1, <1>2, <1>3, <1>4, <1>5 DEF InHand, Scored
  <2> QED BY <2>1, <2>2 DEF Scored
<1> QED BY <1>1, <1>6, ScoredWithoutRow

LEMMA LookupScored == ASSUME TrafficInv, FloodInv, NEW c \in Clicks, Lookup(c) PROVE FloodInv'
<1> DEFINE h == handling[c]
           asked == request[c].signals
<1>1. PICK p \in {"done", "enrich"}, score \in Nat :
        LET new == [h EXCEPT !.pc = p, !.score = score]
        IN  /\ h.pc = "lookup" /\ handling' = [handling EXCEPT ![c] = new]
            /\ score >= DetectBot(asked)
  <2>1. h.pc = "lookup" /\ h.score \in Nat /\ h.score >= DetectBot(asked)
    BY DEF Lookup, Move, FloodInv, Scored, InHand
  <2>2. CASE Move(c, "lookup", [h EXCEPT !.pc = "done"])
    <3>1. IsHandling(h) BY DEF TrafficInv, Sound
    <3>2. [h EXCEPT !.pc = "done"] = [h EXCEPT !.pc = "done", !.score = h.score]
      BY <3>1 DEF IsHandling
    <3> QED BY <2>1, <2>2, <3>2 DEF Move
  <2>3. ASSUME NEW seen \in IpSignals,
               Move(c, "lookup", [h EXCEPT !.pc = "enrich", !.score = DetectBot(asked \cup seen)])
        PROVE  \E p \in {"done", "enrich"}, score \in Nat :
                 LET new == [h EXCEPT !.pc = p, !.score = score]
                 IN  /\ h.pc = "lookup" /\ handling' = [handling EXCEPT ![c] = new]
                     /\ score >= DetectBot(asked)
    <3>1. /\ DetectBot(asked \cup seen) \in Nat /\ DetectBot(asked \cup seen) >= DetectBot(asked)
      <4>1. DetectBot(asked) \in 0 .. 100 /\ DetectBot(asked \cup seen) \in 0 .. 100
            /\ DetectBot(asked) <= DetectBot(asked \cup seen)
        BY ScoresGrow
      <4> QED BY <4>1
    <3> QED BY <2>1, <2>3, <3>1 DEF Move
  <2> QED BY <2>2, <2>3 DEF Lookup
<1> DEFINE new == [h EXCEPT !.pc = p, !.score = score]
<1>2. /\ h.pc = "lookup" /\ handling' = [handling EXCEPT ![c] = new]
      /\ UNCHANGED <<request, clickRow>> /\ arrivedAt' = arrivedAt /\ score >= DetectBot(asked)
  BY <1>1 DEF Lookup
<1>3. IsHandling(h) /\ handling'[c] = new /\ Stored' = Stored
  BY <1>2 DEF TrafficInv, Tables, Sound, Stored, NoRow
<1>4. /\ new.pc = p /\ new.limit = h.limit /\ new.score = score /\ new.flood = h.flood
  BY <1>3 DEF IsHandling
<1> HIDE DEF new
<1>5. /\ Limit(c)' = Limit(c) /\ Near(c, Stored \ {c})' = Near(c, Stored \ {c})
      /\ Near(c, arrivedAt[c])' = Near(c, arrivedAt[c])
  BY <1>2, <1>3, <1>4 DEF Limit, Near
<1>6. Scored(c) BY DEF FloodInv
<1>7. Scored(c)'
  <2>1. RowScored(c)' BY <1>2, <1>3, <1>4, <1>5, <1>6 DEF RowScored, Scored
  <2>2. InHand(c)' BY <1>1, <1>2, <1>3, <1>4, <1>5, <1>6 DEF InHand, Scored
  <2> QED BY <2>1, <2>2 DEF Scored
<1> QED BY <1>2, <1>7, ScoredWithoutRow

LEMMA InsertScored == ASSUME TrafficInv, FloodInv, NEW c \in Clicks, Insert(c) PROVE FloodInv'
<1> DEFINE h == handling[c]
           new == [h EXCEPT !.pc = "lookup"]
           row == [visitor     |-> VisitorOf(request[c]),
                   fingerprint |-> request[c].cookie = NoCookie,
                   isNew       |-> h.isNew,
                   score       |-> h.score,
                   isBot       |-> IsBotScore(h.score),
                   enriched    |-> FALSE]
<1>1. /\ h.pc = "insert" /\ handling' = [handling EXCEPT ![c] = new]
      /\ clickRow' = [clickRow EXCEPT ![c] = row] /\ request' = request /\ arrivedAt' = arrivedAt
  BY DEF Insert, Move
<1>2. IsHandling(h) /\ c \notin Stored /\ handling'[c] = new /\ clickRow'[c] = row
  BY <1>1 DEF TrafficInv, Tables, Sound
<1>3. row.visitor # <<>> /\ row.score = h.score BY VisitorsAreNamed
<1>4. /\ new.pc = "lookup" /\ new.limit = h.limit /\ new.score = h.score /\ new.flood = h.flood
  BY <1>2 DEF IsHandling
<1> HIDE DEF new, row
<1>5. \A d \in Clicks \ {c} : /\ handling'[d] = handling[d] /\ arrivedAt'[d] = arrivedAt[d]
                              /\ clickRow'[d] = clickRow[d]
  BY <1>1 DEF TrafficInv, Tables
<1>6. row # NoRow BY <1>3 DEF NoRow
<1>7. Stored' = Stored \cup {c} BY <1>2, <1>5, <1>6 DEF Stored, NoRow
<1>8. IsFiniteSet(Stored') /\ Stored' \ {c} = Stored \ {c}
  BY <1>7, FS_AddElement DEF FloodInv
<1>9. /\ Limit(c)' = Limit(c) /\ Near(c, Stored \ {c})' = Near(c, Stored \ {c})
      /\ Near(c, arrivedAt[c])' = Near(c, arrivedAt[c])
  BY <1>1, <1>2, <1>4, <1>8 DEF Limit, Near
<1>10. Scored(c) BY DEF FloodInv
<1>11. Scored(c)'
  <2>1. RowScored(c)' BY <1>1, <1>2, <1>3, <1>4, <1>9, <1>10 DEF RowScored, Scored, InHand
  <2>2. InHand(c)' BY <1>1, <1>2, <1>3, <1>4, <1>9, <1>10 DEF InHand, Scored
  <2> QED BY <2>1, <2>2 DEF Scored
<1>12. \A d \in Clicks \ {c} : Scored(d)' BY <1>1, <1>5, <1>7, <1>8, OthersStayScored
<1> QED BY <1>8, <1>11, <1>12 DEF FloodInv

LEMMA EnrichScored == ASSUME TrafficInv, FloodInv, NEW c \in Clicks, Enrich(c) PROVE FloodInv'
<1> DEFINE h == handling[c]
           new == [h EXCEPT !.pc = "done"]
<1>1. /\ h.pc = "enrich" /\ handling' = [handling EXCEPT ![c] = new]
      /\ request' = request /\ arrivedAt' = arrivedAt
  BY DEF Enrich, Move
<1>2. /\ IsHandling(h) /\ c \in Stored /\ IsRow(clickRow[c])
      /\ clickRow[c].visitor = VisitorOf(request[c]) /\ handling'[c] = new
  BY <1>1 DEF TrafficInv, Tables, Sound
<1>3. /\ clickRow'[c].score = h.score /\ clickRow'[c].enriched = TRUE
      /\ clickRow'[c].visitor = clickRow[c].visitor
  BY <1>2 DEF Enrich, TrafficInv, Tables, IsRow
<1>4. /\ new.pc = "done" /\ new.limit = h.limit /\ new.score = h.score /\ new.flood = h.flood
  BY <1>2 DEF IsHandling
<1> HIDE DEF new
<1>5. \A d \in Clicks \ {c} : /\ handling'[d] = handling[d] /\ arrivedAt'[d] = arrivedAt[d]
                              /\ clickRow'[d] = clickRow[d]
  BY <1>1 DEF TrafficInv, Tables, Enrich
<1>6. Stored' = Stored
  <2>1. clickRow'[c] # NoRow BY <1>2, <1>3, VisitorsAreNamed DEF NoRow
  <2> QED BY <1>2, <1>5, <2>1 DEF Stored, NoRow
<1>7. IsFiniteSet(Stored') BY <1>6 DEF FloodInv
<1>9. /\ Limit(c)' = Limit(c) /\ Near(c, Stored \ {c})' = Near(c, Stored \ {c})
      /\ Near(c, arrivedAt[c])' = Near(c, arrivedAt[c])
  BY <1>1, <1>2, <1>4, <1>6 DEF Limit, Near
<1>10. Scored(c) BY DEF FloodInv
<1>11. Scored(c)'
  <2>1. RowScored(c)' BY <1>1, <1>2, <1>3, <1>4, <1>9, <1>10 DEF RowScored, Scored, InHand
  <2>2. InHand(c)' BY <1>1, <1>2, <1>3, <1>4, <1>9, <1>10 DEF InHand, Scored
  <2> QED BY <2>1, <2>2 DEF Scored
<1>12. \A d \in Clicks \ {c} : Scored(d)' BY <1>1, <1>5, <1>6, <1>7, OthersStayScored
<1> QED BY <1>7, <1>11, <1>12 DEF FloodInv

LEMMA FloodStep == TrafficInv /\ FloodInv /\ [TrafficNext]_trafficVars => FloodInv'
<1> SUFFICES ASSUME TrafficInv, FloodInv, [TrafficNext]_trafficVars PROVE FloodInv' OBVIOUS
<1>1. CASE UNCHANGED trafficVars
  <2>1. UNCHANGED <<request, handling, clickRow, arrivedAt, createdAt>> BY <1>1 DEF trafficVars
  <2>2. Stored' = Stored BY <2>1 DEF Stored, NoRow
  <2>3. ASSUME NEW c \in Clicks PROVE Scored(c)'
    <3>1. Scored(c) BY DEF FloodInv
    <3> QED BY <2>1, <2>2, <3>1 DEF Scored, InHand, RowScored, Near, Limit
  <2> QED BY <2>2, <2>3 DEF FloodInv
<1>2. CASE TrafficNext
  BY <1>2, ArriveScored, VelocityScored, ResolveVisitorScored, InsertScored, LookupScored,
     EnrichScored DEF TrafficNext
<1> QED BY <1>1, <1>2

\* A flood from one public address is scored as one and only a flood is, however many
\* clicks are under way at once; no enrichment leaves a visit below what its own request
\* shows (evaluateVelocity, enrichClick).
THEOREM FloodsAreScored == TrafficSpec => []FloodIsScored
<1>1. FloodInv => FloodIsScored
  BY DEF FloodInv, Scored, InHand, RowScored, FloodIsScored, Near, Limit, Stored
<1> QED BY <1>1, TrafficStart, TrafficStep, FloodStart, FloodStep, PTL DEF TrafficSpec

-----------------------------------------------------------------------------
(***************************************************************************)
(* Proofs about Rotation, for any variants, evaluations and thresholds.    *)
(* A run decides on what it counted some time before: the inductive        *)
(* invariants say that the tallies have only grown since (so a promotion   *)
(* is earned), and that an undisturbed run has counted variants that are   *)
(* all still active (so the path keeps serving).                           *)
(***************************************************************************)
\* The shape of the state, without the bounds that only keep TLC's instance small.
Shape ==
    /\ variant \in [Variants -> [exists: BOOLEAN, active: BOOLEAN, winner: BOOLEAN]]
    /\ tally \in [Variants -> [real: Nat, bot: Nat, test: Nat, bought: Nat, testBought: Nat]]
    /\ autoRun \in [AutoRuns -> [pc: {"idle", "count", "decide"}, todo: SUBSET Variants,
                                 stats: [Variants -> [visits: Nat, conversions: Nat]]]]

\* What a run has counted is still there.
CountsHold ==
    \A r \in AutoRuns, v \in Variants :
        /\ autoRun[r].stats[v].visits <= tally[v].real
        /\ autoRun[r].stats[v].conversions <= tally[v].bought

EarnedInv == Shape /\ CountsHold

LEMMA Scale == {MinVisits, MinTotal, MinMargin, MinConversions, ZNum, ZDen} \subseteq Nat
BY RotationAssumption

LEMMA EarnedStart == RotationInit => EarnedInv
BY DEF RotationInit, EarnedInv, Shape, CountsHold, NoTally, NoAutoRun, Run, NoStats

\* Traffic only raises tallies.
LEMMA RaiseKeepsEarned ==
    ASSUME EarnedInv, NEW v \in Variants,
           NEW field \in {"real", "bot", "test", "bought", "testBought"}, Raise(v, field)
    PROVE  EarnedInv'
<1>1. tally' = [tally EXCEPT ![v][field] = @ + 1] /\ UNCHANGED <<variant, autoRun>>
  BY DEF Raise
<1>2. tally' \in [Variants -> [real: Nat, bot: Nat, test: Nat, bought: Nat, testBought: Nat]]
  <2> DEFINE new == [tally[v] EXCEPT ![field] = @ + 1]
  <2>1. tally[v] \in [real: Nat, bot: Nat, test: Nat, bought: Nat, testBought: Nat]
    BY DEF EarnedInv, Shape
  <2>2. new \in [real: Nat, bot: Nat, test: Nat, bought: Nat, testBought: Nat]
    <3>1. CASE field = "real" BY <3>1, <2>1
    <3>2. CASE field = "bot" BY <3>2, <2>1
    <3>3. CASE field = "test" BY <3>3, <2>1
    <3>4. CASE field = "bought" BY <3>4, <2>1
    <3>5. CASE field = "testBought" BY <3>5, <2>1
    <3> QED BY <3>1, <3>2, <3>3, <3>4, <3>5
  <2>3. tally' = [tally EXCEPT ![v] = new] BY <1>1 DEF EarnedInv, Shape
  <2> HIDE DEF new
  <2> QED BY <2>2, <2>3 DEF EarnedInv, Shape
<1>3. \A w \in Variants : tally[w].real <= tally'[w].real /\ tally[w].bought <= tally'[w].bought
  BY <1>1 DEF EarnedInv, Shape
<1>4. Shape' BY <1>1, <1>2 DEF EarnedInv, Shape
<1>5. CountsHold'
  <2> SUFFICES ASSUME NEW r \in AutoRuns, NEW w \in Variants
               PROVE  /\ autoRun[r].stats[w].visits <= tally'[w].real
                      /\ autoRun[r].stats[w].conversions <= tally'[w].bought
    BY <1>1 DEF CountsHold
  <2>1. autoRun[r].stats[w] \in [visits: Nat, conversions: Nat] BY DEF EarnedInv, Shape
  <2> QED BY <1>2, <1>3, <2>1 DEF EarnedInv, Shape, CountsHold
<1> QED BY <1>4, <1>5 DEF EarnedInv

\* A step that leaves the tallies alone and gives one run a record that holds.
LEMMA RunKeepsEarned ==
    ASSUME EarnedInv, NEW r \in AutoRuns, NEW new, UNCHANGED tally,
           new \in [pc: {"idle", "count", "decide"}, todo: SUBSET Variants,
                    stats: [Variants -> [visits: Nat, conversions: Nat]]],
           \A v \in Variants : /\ new.stats[v].visits <= tally[v].real
                               /\ new.stats[v].conversions <= tally[v].bought,
           autoRun' = [autoRun EXCEPT ![r] = new],
           variant' \in [Variants -> [exists: BOOLEAN, active: BOOLEAN, winner: BOOLEAN]]
    PROVE  EarnedInv'
<1>1. Shape' BY DEF EarnedInv, Shape
<1>2. CountsHold' BY DEF EarnedInv, Shape, CountsHold
<1> QED BY <1>1, <1>2 DEF EarnedInv

LEMMA FreshRunHolds ==
    ASSUME Shape, NEW pc \in {"idle", "count", "decide"}, NEW S \in SUBSET Variants
    PROVE  /\ Run(pc, S) \in [pc: {"idle", "count", "decide"}, todo: SUBSET Variants,
                              stats: [Variants -> [visits: Nat, conversions: Nat]]]
           /\ \A v \in Variants : /\ Run(pc, S).stats[v].visits <= tally[v].real
                                  /\ Run(pc, S).stats[v].conversions <= tally[v].bought
<1>1. NoStats \in [visits: Nat, conversions: Nat]
  BY DEF NoStats
<1>2. Run(pc, S) \in [pc: {"idle", "count", "decide"}, todo: SUBSET Variants,
                      stats: [Variants -> [visits: Nat, conversions: Nat]]]
  BY <1>1 DEF Run
<1>3. \A v \in Variants : Run(pc, S).stats[v].visits = 0 /\ Run(pc, S).stats[v].conversions = 0
  BY DEF Run, NoStats
<1>4. \A v \in Variants : tally[v].real \in Nat /\ tally[v].bought \in Nat
  BY DEF Shape
<1> QED BY <1>2, <1>3, <1>4

LEMMA EditKeepsEarned ==
    ASSUME EarnedInv, NEW v \in Variants, NEW row,
           row \in [exists: BOOLEAN, active: BOOLEAN, winner: BOOLEAN], Edit(v, row)
    PROVE  EarnedInv'
BY DEF EarnedInv, Shape, CountsHold, Edit

\* The record of a run after it counted v.
Counted(r, v) == [pc    |-> IF autoRun[r].todo = {v} THEN "decide" ELSE "count",
                  todo  |-> autoRun[r].todo \ {v},
                  stats |-> [autoRun[r].stats EXCEPT ![v] = Count(v)]]

LEMMA CountKeepsEarned ==
    ASSUME EarnedInv, NEW r \in AutoRuns, CountVariant(r) PROVE EarnedInv'
<1>1. PICK v \in autoRun[r].todo : autoRun' = [autoRun EXCEPT ![r] = Counted(r, v)]
  BY DEF CountVariant, Counted
<1>2. /\ v \in Variants /\ autoRun[r].todo \in SUBSET Variants
      /\ autoRun[r].stats \in [Variants -> [visits: Nat, conversions: Nat]]
  BY DEF EarnedInv, Shape
<1>3. Count(v) \in [visits: Nat, conversions: Nat]
      /\ Count(v).visits = tally[v].real /\ Count(v).conversions = tally[v].bought
  BY <1>2 DEF Count, EarnedInv, Shape
<1>4. [autoRun[r].stats EXCEPT ![v] = Count(v)] \in [Variants -> [visits: Nat, conversions: Nat]]
  BY <1>2, <1>3
<1>5. Counted(r, v) \in [pc: {"idle", "count", "decide"}, todo: SUBSET Variants,
                         stats: [Variants -> [visits: Nat, conversions: Nat]]]
  BY <1>2, <1>4 DEF Counted
<1>6. ASSUME NEW w \in Variants
      PROVE  /\ Counted(r, v).stats[w].visits <= tally[w].real
             /\ Counted(r, v).stats[w].conversions <= tally[w].bought
  <2>1. CASE w = v
    <3>1. Counted(r, v).stats[w] = Count(v) BY <2>1, <1>2 DEF Counted
    <3>2. tally[w].real \in Nat /\ tally[w].bought \in Nat BY DEF EarnedInv, Shape
    <3> QED BY <3>1, <3>2, <2>1, <1>3
  <2>2. CASE w # v
    <3>1. Counted(r, v).stats[w] = autoRun[r].stats[w] BY <2>2, <1>2 DEF Counted
    <3> QED BY <3>1 DEF EarnedInv, CountsHold
  <2> QED BY <2>1, <2>2
<1>7. UNCHANGED <<variant, tally>> BY DEF CountVariant
<1>8. variant' \in [Variants -> [exists: BOOLEAN, active: BOOLEAN, winner: BOOLEAN]]
  BY <1>7 DEF EarnedInv, Shape
<1> QED BY <1>1, <1>5, <1>6, <1>7, <1>8, RunKeepsEarned

LEMMA EvaluateKeepsEarned ==
    ASSUME EarnedInv, NEW r \in AutoRuns, Evaluate(r) PROVE EarnedInv'
<1>1. Active \in SUBSET Variants BY DEF Active
<1>2. UNCHANGED <<variant, tally>> BY DEF Evaluate
<1>3. autoRun' = [autoRun EXCEPT ![r] = Run("count", Active)]
  BY DEF Evaluate
<1>4. variant' \in [Variants -> [exists: BOOLEAN, active: BOOLEAN, winner: BOOLEAN]]
  BY <1>2 DEF EarnedInv, Shape
<1>5. Shape BY DEF EarnedInv
<1> QED BY <1>1, <1>2, <1>3, <1>4, <1>5, FreshRunHolds, RunKeepsEarned

\* What a promotion of w makes of the variants.
Promoted(w) == [v \in Variants |->
                  IF v = w THEN [variant[v] EXCEPT !.winner = TRUE]
                           ELSE [variant[v] EXCEPT !.active = FALSE]]

LEMMA PromotedIsTyped ==
    ASSUME Shape, NEW w
    PROVE  Promoted(w) \in [Variants -> [exists: BOOLEAN, active: BOOLEAN, winner: BOOLEAN]]
<1>1. \A v \in Variants : variant[v] \in [exists: BOOLEAN, active: BOOLEAN, winner: BOOLEAN]
  BY DEF Shape
<1>2. \A v \in Variants :
        /\ [variant[v] EXCEPT !.winner = TRUE] \in [exists: BOOLEAN, active: BOOLEAN, winner: BOOLEAN]
        /\ [variant[v] EXCEPT !.active = FALSE] \in [exists: BOOLEAN, active: BOOLEAN, winner: BOOLEAN]
  BY <1>1
<1> QED BY <1>2 DEF Promoted

\* A run that ends, whatever it does to the variants.
LEMMA EndKeepsEarned ==
    ASSUME EarnedInv, NEW r \in AutoRuns, NoWinner(r) \/ Promote(r) PROVE EarnedInv'
<1>1. autoRun' = [autoRun EXCEPT ![r] = Run("idle", {})] /\ UNCHANGED tally
  BY DEF NoWinner, Promote, NoAutoRun
<1>2. variant' = variant \/ \E w \in Winners(autoRun[r].stats) : variant' = Promoted(w)
  BY DEF NoWinner, Promote, Promoted
<1>3. Shape BY DEF EarnedInv
<1>4. variant' \in [Variants -> [exists: BOOLEAN, active: BOOLEAN, winner: BOOLEAN]]
  BY <1>2, <1>3, PromotedIsTyped DEF Shape
<1> QED BY <1>1, <1>3, <1>4, FreshRunHolds, RunKeepsEarned

\* The three edits, as rows.
LEMMA EditsAreTyped ==
    ASSUME Shape, NEW v \in Variants, UpdateVariant(v) \/ CreateVariant(v) \/ DeleteVariant(v)
    PROVE  \E row \in [exists: BOOLEAN, active: BOOLEAN, winner: BOOLEAN] :
               /\ Edit(v, row)
               /\ row.winner => variant[v].winner
<1>1. variant[v] \in [exists: BOOLEAN, active: BOOLEAN, winner: BOOLEAN]
  BY DEF Shape
<1>2. CASE UpdateVariant(v)
  <2> DEFINE row == [variant[v] EXCEPT !.active = ~@]
  <2>1. row \in [exists: BOOLEAN, active: BOOLEAN, winner: BOOLEAN] BY <1>1
  <2>2. row.winner = variant[v].winner BY <1>1
  <2>3. Edit(v, row) BY <1>2 DEF UpdateVariant
  <2> HIDE DEF row
  <2> QED BY <2>1, <2>2, <2>3
<1>3. CASE CreateVariant(v)
  <2> DEFINE row == [exists |-> TRUE, active |-> TRUE, winner |-> FALSE]
  <2>1. row \in [exists: BOOLEAN, active: BOOLEAN, winner: BOOLEAN] OBVIOUS
  <2>2. ~row.winner OBVIOUS
  <2>3. Edit(v, row) BY <1>3 DEF CreateVariant
  <2> HIDE DEF row
  <2> QED BY <2>1, <2>2, <2>3
<1>4. CASE DeleteVariant(v)
  <2> DEFINE row == [exists |-> FALSE, active |-> FALSE, winner |-> variant[v].winner]
  <2>1. row \in [exists: BOOLEAN, active: BOOLEAN, winner: BOOLEAN] BY <1>1
  <2>2. row.winner = variant[v].winner BY <1>1
  <2>3. Edit(v, row) BY <1>4 DEF DeleteVariant
  <2> HIDE DEF row
  <2> QED BY <2>1, <2>2, <2>3
<1> QED BY <1>2, <1>3, <1>4

LEMMA TrafficRaises ==
    ASSUME NEW v \in Variants, Visit(v) \/ Convert(v)
    PROVE  \E field \in {"real", "bot", "test", "bought", "testBought"} : Raise(v, field)
BY DEF Visit, Convert

LEMMA EarnedStep == EarnedInv /\ [RotationNext]_rotationVars => EarnedInv'
<1> SUFFICES ASSUME EarnedInv, [RotationNext]_rotationVars PROVE EarnedInv' OBVIOUS
<1>1. ASSUME NEW v \in Variants, Visit(v) \/ Convert(v) PROVE EarnedInv'
  BY <1>1, TrafficRaises, RaiseKeepsEarned
<1>2. ASSUME NEW v \in Variants, UpdateVariant(v) \/ CreateVariant(v) \/ DeleteVariant(v)
      PROVE  EarnedInv'
  BY <1>2, EditsAreTyped, EditKeepsEarned DEF EarnedInv
<1>3. ASSUME NEW r \in AutoRuns, Evaluate(r) \/ CountVariant(r) \/ NoWinner(r) \/ Promote(r)
      PROVE  EarnedInv'
  BY <1>3, EvaluateKeepsEarned, CountKeepsEarned, EndKeepsEarned
<1>4. CASE UNCHANGED rotationVars
  BY <1>4 DEF rotationVars, EarnedInv, Shape, CountsHold
<1> QED BY <1>1, <1>2, <1>3, <1>4 DEF RotationNext

\* A winner among the counts has the visits and the conversions it takes, a rival, and
\* with the others that were seen the visits it takes together.
LEMMA WinnersHaveEnough ==
    ASSUME NEW stats, NEW w \in Winners(stats)
    PROVE  /\ w \in Eligible(stats) /\ Eligible(stats) # {w}
           /\ stats[w].visits >= MinVisits /\ stats[w].conversions >= MinConversions
           /\ Together(stats, Eligible(stats)) >= MinTotal
BY DEF Winners, Leads

\* What is counted together is a sum.
VisitsAt(counts, u) == counts[u].visits
Counting == INSTANCE FoldProofs WITH Op <- Plus, Base <- 0, Val <- VisitsAt, Choose <- AnyOf

TogetherUnfolds(counts, T) ==
    /\ Together(counts, {}) = 0
    /\ T # {} => /\ AnyOf(T) \in T
                 /\ Together(counts, T) = counts[AnyOf(T)].visits + Together(counts, T \ {AnyOf(T)})

LEMMA TogetherSteps ==
    ASSUME NEW counts, NEW T, IsFiniteSet(T) PROVE TogetherUnfolds(counts, T)
<1>1. \A U : Together(counts, U) = Counting!Fold(counts, U)
  BY DEF Together, MapThenSumSet, MapThenFoldSet, Plus, VisitsAt, AnyOf,
         Counting!Fold, Counting!FoldOn, Counting!IsFold
<1>2. Counting!Chooses(T) BY DEF Counting!Chooses, AnyOf
<1>3. Counting!Fold(counts, {}) = 0 /\ (T # {} => Counting!Fold(counts, T)
          = Plus(VisitsAt(counts, AnyOf(T)), Counting!Fold(counts, T \ {AnyOf(T)})))
  <2>1. Counting!IsFiniteSet(T) BY DEF IsFiniteSet, Counting!IsFiniteSet
  <2> QED BY <1>2, <2>1, Counting!FoldSteps
<1>4. T # {} => AnyOf(T) \in T BY DEF AnyOf
<1> QED BY <1>1, <1>3, <1>4 DEF Plus, VisitsAt, TogetherUnfolds

\* Counts that are nowhere smaller are not smaller together.
LEMMA TogetherGrows ==
    ASSUME NEW few, NEW many, NEW S, IsFiniteSet(S),
           \A u \in S : /\ few[u].visits \in Nat /\ many[u].visits \in Nat
                        /\ few[u].visits <= many[u].visits
    PROVE  /\ Together(few, S) \in Nat /\ Together(many, S) \in Nat
           /\ Together(few, S) <= Together(many, S)
<1> DEFINE holds(T) == /\ Together(few, T) \in Nat /\ Together(many, T) \in Nat
                       /\ Together(few, T) <= Together(many, T)
           B == {T \in SUBSET S : ~holds(T)}
<1> SUFFICES ASSUME B # {} PROVE FALSE OBVIOUS
<1>1. \E T \in B : \A U \in B : U \subseteq T => U = T
  <2>1. B \subseteq SUBSET S OBVIOUS
  <2> HIDE DEF B
  <2> QED BY <2>1, LeastPart
<1> PICK T \in B : \A U \in B : U \subseteq T => U = T BY <1>1
<1>2. IsFiniteSet(T) BY FS_Subset
<1>3. TogetherUnfolds(few, T) /\ TogetherUnfolds(many, T) BY <1>2, TogetherSteps
<1>4. T # {}
  <2>1. Together(few, {}) = 0 /\ Together(many, {}) = 0 BY <1>3 DEF TogetherUnfolds
  <2>2. holds({}) BY <2>1
  <2> HIDE DEF holds
  <2> QED BY <2>2
<1> DEFINE c == AnyOf(T)
<1>5. /\ c \in T
      /\ Together(few, T) = few[c].visits + Together(few, T \ {c})
      /\ Together(many, T) = many[c].visits + Together(many, T \ {c})
  BY <1>3, <1>4 DEF TogetherUnfolds
<1>6. holds(T \ {c}) BY <1>5, T \ {c} \notin B
<1>7. few[c].visits \in Nat /\ many[c].visits \in Nat /\ few[c].visits <= many[c].visits
  BY <1>5
<1>8. ~holds(T) OBVIOUS
<1> HIDE DEF c
<1> QED BY <1>5, <1>6, <1>7, <1>8

LEMMA OnlyPromotionsCrown ==
    ASSUME EarnedInv, [RotationNext]_rotationVars, NEW v \in Variants,
           ~variant[v].winner, variant'[v].winner
    PROVE  Earned(v)
<1>1. ASSUME NEW u \in Variants, Visit(u) \/ Convert(u) PROVE FALSE
  BY <1>1, TrafficRaises DEF Raise
<1>2. ASSUME NEW u \in Variants, UpdateVariant(u) \/ CreateVariant(u) \/ DeleteVariant(u)
      PROVE  FALSE
  <2>1. PICK row \in [exists: BOOLEAN, active: BOOLEAN, winner: BOOLEAN] :
          Edit(u, row) /\ (row.winner => variant[u].winner)
    BY <1>2, EditsAreTyped DEF EarnedInv
  <2> QED BY <2>1 DEF Edit, EarnedInv, Shape
<1>3. ASSUME NEW r \in AutoRuns, Evaluate(r) \/ CountVariant(r) \/ NoWinner(r) PROVE FALSE
  BY <1>3 DEF Evaluate, CountVariant, NoWinner
<1>4. ASSUME NEW r \in AutoRuns, Promote(r)
      PROVE  Earned(v)
  <2> DEFINE stats == autoRun[r].stats
             people == [u \in Variants |-> [visits |-> tally[u].real]]
             seen == Eligible(stats)
  <2>1. v \in Winners(autoRun[r].stats)
    <3>1. PICK w \in Winners(autoRun[r].stats) : variant' = Promoted(w) \/ variant' = variant
      BY <1>4 DEF Promote, Promoted
    <3>2. variant' = Promoted(w) BY <3>1
    <3>3. variant[v] \in [exists: BOOLEAN, active: BOOLEAN, winner: BOOLEAN]
      BY DEF EarnedInv, Shape
    <3>4. CASE v # w
      <4>1. variant'[v] = [variant[v] EXCEPT !.active = FALSE] BY <3>2, <3>4 DEF Promoted
      <4> QED BY <4>1, <3>3
    <3> QED BY <3>4
  <2>2. /\ v \in seen /\ seen # {v} /\ Together(stats, seen) >= MinTotal
        /\ stats[v].visits >= MinVisits /\ stats[v].conversions >= MinConversions
    BY <2>1, WinnersHaveEnough
  <2>3. \A u \in Variants : /\ stats[u] \in [visits: Nat, conversions: Nat]
                            /\ tally[u].real \in Nat /\ tally[u].bought \in Nat
                            /\ stats[u].visits <= tally[u].real
                            /\ stats[u].conversions <= tally[u].bought
    BY DEF EarnedInv, Shape, CountsHold
  <2>4. MinVisits \in Nat /\ MinConversions \in Nat /\ MinTotal \in Nat BY Scale
  <2>5. tally[v].real >= MinVisits /\ tally[v].bought >= MinConversions
    <3> HIDE DEF stats
    <3> QED BY <2>2, <2>3, <2>4
  <2>6. DOMAIN stats = Variants BY DEF EarnedInv, Shape
  <2>7. seen \subseteq Variants /\ \A u \in seen : stats[u].visits > 0
    BY <2>6 DEF Eligible
  <2>8. seen \in SUBSET {u \in Variants : tally[u].real > 0}
    <3> HIDE DEF stats, seen
    <3> QED BY <2>3, <2>7
  <2>9. IsFiniteSet(seen) BY <2>7, RotationAssumption, FS_Subset
  <2>10. \A u \in seen : /\ stats[u].visits \in Nat /\ people[u].visits \in Nat
                         /\ stats[u].visits <= people[u].visits
    BY <2>3, <2>7
  <2>11. /\ Together(stats, seen) \in Nat /\ Together(people, seen) \in Nat
         /\ Together(stats, seen) <= Together(people, seen)
    <3> HIDE DEF stats, seen, people
    <3> QED BY <2>9, <2>10, TogetherGrows
  <2>12. Together(people, seen) >= MinTotal
    <3> HIDE DEF stats, seen, people
    <3> QED BY <2>2, <2>4, <2>11
  <2> HIDE DEF stats, seen
  <2> QED BY <2>2, <2>5, <2>8, <2>12 DEF Earned
<1>5. CASE UNCHANGED rotationVars BY <1>5 DEF rotationVars
<1> QED BY <1>1, <1>2, <1>3, <1>4, <1>5 DEF RotationNext

-----------------------------------------------------------------------------
\* A variant becomes the winner only with enough real visits and enough conversions that
\* are not rehearsals, against a rival people saw and with enough visits together, at the
\* moment of the promotion, whatever was edited and whichever run decided
\* (auto-winner.service.ts evaluateAll, promoteWinner).
THEOREM PromotionsAreEarned == RotationSpec => PromotionIsEarned
<1>1. EarnedInv /\ [RotationNext]_rotationVars =>
        [\A v \in Variants : ~variant[v].winner /\ variant'[v].winner => Earned(v)]_rotationVars
  BY OnlyPromotionsCrown
<1> QED BY <1>1, EarnedStart, EarnedStep, PTL DEF RotationSpec, PromotionIsEarned

-----------------------------------------------------------------------------
\* A run that nobody disturbed counts and has counted active variants, and there is one.
Undisturbed(r) ==
    autoRun[r].pc # "idle" /\ r \notin disturbed =>
        /\ Active # {}
        /\ autoRun[r].todo \subseteq Active
        /\ \A v \in Variants : autoRun[r].stats[v].visits > 0 => v \in Active

ServingInv == Shape /\ \A r \in AutoRuns : Undisturbed(r)

LEMMA ServingStart == RotationInit => ServingInv
<1> SUFFICES ASSUME RotationInit PROVE ServingInv OBVIOUS
<1>1. Shape BY EarnedStart DEF EarnedInv
<1>2. ASSUME NEW r \in AutoRuns PROVE Undisturbed(r)
  <2>1. autoRun[r].pc = "idle" BY DEF RotationInit, NoAutoRun, Run
  <2> QED BY <2>1 DEF Undisturbed
<1> QED BY <1>1, <1>2 DEF ServingInv

\* A change of the variants concerns only runs that were under way, and disturbs them.
LEMMA ChangesDisturb ==
    ASSUME NEW r \in AutoRuns,
           \/ autoRun'[r].pc = "idle"
           \/ autoRun'[r] = autoRun[r] /\ (r \in Underfoot => r \in disturbed')
    PROVE  Undisturbed(r)'
BY DEF Undisturbed, Underfoot

LEMMA EvaluateServes ==
    ASSUME ServingInv, NEW r \in AutoRuns, Evaluate(r)
    PROVE  \A o \in AutoRuns : Undisturbed(o)'
<1>1. Active # {}
  <2>1. Cardinality(Active) >= 2 BY DEF Evaluate
  <2>2. Cardinality({}) = 0 BY FS_EmptySet
  <2> QED BY <2>1, <2>2
<1>2. Active' = Active BY DEF Evaluate, Active
<1> SUFFICES ASSUME NEW o \in AutoRuns PROVE Undisturbed(o)' OBVIOUS
<1>3. CASE o = r
  <2>1. autoRun'[o] = Run("count", Active)
    BY <1>3 DEF Evaluate, ServingInv, Shape
  <2>2. autoRun'[o].todo = Active /\ \A v \in Variants : autoRun'[o].stats[v].visits = 0
    BY <2>1 DEF Run, NoStats
  <2> QED BY <1>1, <1>2, <2>2 DEF Undisturbed
<1>4. CASE o # r
  <2>1. autoRun'[o] = autoRun[o] /\ (o \in disturbed' <=> o \in disturbed)
    BY <1>4 DEF Evaluate, ServingInv, Shape
  <2> QED BY <1>2, <2>1 DEF Undisturbed, ServingInv
<1> QED BY <1>3, <1>4

LEMMA CountServes ==
    ASSUME ServingInv, NEW r \in AutoRuns, CountVariant(r)
    PROVE  \A o \in AutoRuns : Undisturbed(o)'
<1>1. PICK v \in autoRun[r].todo : autoRun' = [autoRun EXCEPT ![r] = Counted(r, v)]
  BY DEF CountVariant, Counted
<1>2. Active' = Active /\ UNCHANGED disturbed BY DEF CountVariant, Active
<1> SUFFICES ASSUME NEW o \in AutoRuns PROVE Undisturbed(o)' OBVIOUS
<1>3. CASE o = r
  <2>1. /\ autoRun'[o].todo = autoRun[o].todo \ {v}
        /\ \A w \in Variants : w # v => autoRun'[o].stats[w] = autoRun[o].stats[w]
    BY <1>1, <1>3 DEF Counted, ServingInv, Shape
  <2>2. autoRun[o].pc # "idle" BY <1>3 DEF CountVariant
  <2> SUFFICES ASSUME o \notin disturbed
               PROVE  /\ Active # {} /\ autoRun'[o].todo \subseteq Active
                      /\ \A w \in Variants : autoRun'[o].stats[w].visits > 0 => w \in Active
    BY <1>2 DEF Undisturbed
  <2>3. Active # {} /\ autoRun[o].todo \subseteq Active
        /\ \A w \in Variants : autoRun[o].stats[w].visits > 0 => w \in Active
    BY <2>2 DEF ServingInv, Undisturbed
  <2>4. v \in Active BY <1>3, <2>3
  <2> QED BY <2>1, <2>3, <2>4
<1>4. CASE o # r
  <2>1. autoRun'[o] = autoRun[o] BY <1>1, <1>4 DEF ServingInv, Shape
  <2> QED BY <1>2, <2>1 DEF Undisturbed, ServingInv
<1> QED BY <1>3, <1>4

LEMMA EndServes ==
    ASSUME ServingInv, NEW r \in AutoRuns, NoWinner(r) \/ Promote(r)
    PROVE  \A o \in AutoRuns : Undisturbed(o)'
<1>1. /\ autoRun'[r].pc = "idle"
      /\ \A o \in AutoRuns : o # r => autoRun'[o] = autoRun[o]
  BY DEF NoWinner, Promote, ServingInv, Shape, NoAutoRun, Run
<1>2. CASE UNCHANGED <<variant, disturbed>>
  <2>1. Active' = Active BY <1>2 DEF Active
  <2> QED BY <1>1, <1>2, <2>1 DEF Undisturbed, ServingInv
<1>3. CASE disturbed' = disturbed \cup (Underfoot \ {r})
  <2> SUFFICES ASSUME NEW o \in AutoRuns PROVE Undisturbed(o)' OBVIOUS
  <2> QED BY <1>1, <1>3, ChangesDisturb
<1> QED BY <1>2, <1>3 DEF NoWinner, Promote

LEMMA ServingStep == EarnedInv /\ ServingInv /\ [RotationNext]_rotationVars => ServingInv'
<1> SUFFICES ASSUME EarnedInv, ServingInv, [RotationNext]_rotationVars PROVE ServingInv' OBVIOUS
<1>0. Shape' BY EarnedStep DEF EarnedInv
<1>1. ASSUME NEW v \in Variants, Visit(v) \/ Convert(v)
      PROVE  \A r \in AutoRuns : Undisturbed(r)'
  <2>1. UNCHANGED <<variant, autoRun, disturbed>> BY <1>1, TrafficRaises DEF Raise
  <2> QED BY <2>1 DEF Undisturbed, ServingInv, Active
<1>2. ASSUME NEW v \in Variants, UpdateVariant(v) \/ CreateVariant(v) \/ DeleteVariant(v)
      PROVE  \A r \in AutoRuns : Undisturbed(r)'
  <2>1. disturbed' = disturbed \cup Underfoot /\ UNCHANGED autoRun
    BY <1>2 DEF UpdateVariant, CreateVariant, DeleteVariant, Edit
  <2> SUFFICES ASSUME NEW r \in AutoRuns PROVE Undisturbed(r)' OBVIOUS
  <2> QED BY <2>1, ChangesDisturb
<1>3. ASSUME NEW r \in AutoRuns, Evaluate(r) \/ CountVariant(r) \/ NoWinner(r) \/ Promote(r)
      PROVE  \A o \in AutoRuns : Undisturbed(o)'
  BY <1>3, EvaluateServes, CountServes, EndServes
<1>4. ASSUME UNCHANGED rotationVars, NEW r \in AutoRuns PROVE Undisturbed(r)'
  <2>1. UNCHANGED <<variant, autoRun, disturbed>> BY <1>4 DEF rotationVars
  <2>2. Active' = Active BY <2>1 DEF Active
  <2>3. Undisturbed(r) BY DEF ServingInv
  <2> QED BY <2>1, <2>2, <2>3 DEF Undisturbed
<1>5. \A r \in AutoRuns : Undisturbed(r)'
  <2>1. CASE RotationNext BY <2>1, <1>1, <1>2, <1>3 DEF RotationNext
  <2> QED BY <2>1, <1>4
<1> QED BY <1>0, <1>5 DEF ServingInv

\* The step in which a run ends leaves an active variant.
LEMMA QuietEndServes ==
    ASSUME ServingInv, [RotationNext]_rotationVars, NEW r \in AutoRuns,
           autoRun[r].pc = "decide", autoRun'[r].pc = "idle", r \notin disturbed
    PROVE  Active' # {}
<1>0. Undisturbed(r) BY DEF ServingInv
<1>1. Active # {} /\ \A v \in Variants : autoRun[r].stats[v].visits > 0 => v \in Active
  BY <1>0 DEF Undisturbed
<1>2. ASSUME NEW v \in Variants, \/ Visit(v) \/ Convert(v) \/ UpdateVariant(v)
                                 \/ CreateVariant(v) \/ DeleteVariant(v)
      PROVE  FALSE
  BY <1>2, TrafficRaises DEF Raise, UpdateVariant, CreateVariant, DeleteVariant, Edit
<1>3. ASSUME NEW o \in AutoRuns, Evaluate(o) \/ CountVariant(o) PROVE FALSE
  <2>1. o # r
    BY <1>3 DEF Evaluate, CountVariant, ServingInv, Shape
  <2> QED BY <2>1, <1>3 DEF Evaluate, CountVariant, ServingInv, Shape
<1>4. ASSUME NEW o \in AutoRuns, NoWinner(o) PROVE Active' # {}
  BY <1>1, <1>4 DEF NoWinner, Active
<1>5. ASSUME NEW o \in AutoRuns, Promote(o) PROVE Active' # {}
  <2>1. o = r
    BY <1>5 DEF Promote, ServingInv, Shape
  <2>2. PICK w \in Winners(autoRun[r].stats) : variant' = Promoted(w) \/ variant' = variant
    BY <1>5, <2>1 DEF Promote, Promoted
  <2>3. w \in Variants /\ autoRun[r].stats[w].visits > 0
    <3>1. w \in Eligible(autoRun[r].stats) BY WinnersHaveEnough
    <3>2. DOMAIN autoRun[r].stats = Variants BY DEF ServingInv, Shape
    <3> QED BY <3>1, <3>2 DEF Eligible
  <2>4. w \in Active BY <1>1, <2>3
  <2>5. variant[w] \in [exists: BOOLEAN, active: BOOLEAN, winner: BOOLEAN]
    BY <2>3 DEF ServingInv, Shape
  <2>6. variant'[w] = [variant[w] EXCEPT !.winner = TRUE] \/ variant'[w] = variant[w]
    BY <2>2, <2>3 DEF Promoted
  <2>7. w \in Active' BY <2>3, <2>4, <2>5, <2>6 DEF Active
  <2> QED BY <2>7
<1>6. CASE UNCHANGED rotationVars BY <1>6 DEF rotationVars
<1> QED BY <1>2, <1>3, <1>4, <1>5, <1>6 DEF RotationNext

\* A promotion, or the decision that there is none, leaves the path a variant to send its
\* visitors to, unless another run or the operator changed the variants in between.
THEOREM QuietPathsKeepServing == RotationSpec => QuietPathKeepsServing
<1>1. ServingInv /\ [RotationNext]_rotationVars =>
        [\A r \in AutoRuns :
            autoRun[r].pc = "decide" /\ autoRun'[r].pc = "idle" /\ r \notin disturbed
               => Active' # {}]_rotationVars
  BY QuietEndServes
<1> QED
  BY <1>1, EarnedStart, EarnedStep, ServingStart, ServingStep, PTL
  DEF RotationSpec, QuietPathKeepsServing

-----------------------------------------------------------------------------
(***************************************************************************)
(* Proofs about TrackerScript, for any tabs, ad clicks and bounds.  The    *)
(* inductive invariants add what the local storage promises (the ad click  *)
(* it holds was registered) and what an open page that asked for nothing   *)
(* relies on (a visit is there).                                           *)
(***************************************************************************)
HasVisit(click) == \E k \in DOMAIN visits : visits[k] = click

StorageIsRegistered == xid # NoClick => HasVisit(xid)

\* What a page in a tab may rely on: a registration on its way back is the visit of the
\* page's own click; the click of a page that asks for nothing was registered, and there
\* is a visit to send its events under; queued events wait for something.
PageOK(t) ==
    /\ tab[t].asked = "registered" =>
          tab[t].visit \in DOMAIN visits /\ visits[tab[t].visit] = tab[t].click
    /\ tab[t].direct /\ tab[t].click # NoClick /\ tab[t].asked = "no"
          => HasVisit(tab[t].click)
    /\ tab[t].open /\ tab[t].direct /\ tab[t].asked = "no" /\ ~tab[t].bereft
          => cid # NoVisit
    /\ tab[t].queue > 0 => \/ Waiting(tab[t]) \/ tab[t].asked = "lost"
                            \/ tab[t].bereft \/ ~tab[t].direct

ScriptInv == ScriptTypeOK /\ StorageIsRegistered /\ \A t \in Tabs : PageOK(t)

-----------------------------------------------------------------------------
\* What a page may hold at each step.

LEMMA OpenedIsAPage ==
    ASSUME NEW direct \in BOOLEAN, NEW click \in Links, NEW asked \in {"no", "sent"}
    PROVE  Opened(direct, click, asked) \in Page
BY ScriptAssumption DEF Opened, Page, NoVisit

LEMMA MovedIsAPage ==
    ASSUME NEW p \in Page, NEW asked \in {"no", "registered"},
           NEW visit \in 0 .. MaxVisits, NEW queue \in 0 .. QueueLimit
    PROVE  Moved(p, asked, visit, queue) \in Page
BY DEF Moved, Page

\* The visits a step keeps are a prefix of those it leaves.
Kept == /\ Len(visits) <= Len(visits')
        /\ \A k \in DOMAIN visits : k \in DOMAIN visits' /\ visits'[k] = visits[k]

LEMMA VisitsAreKept ==
    ASSUME visits \in Seq(Links),
           visits' = visits \/ \E click \in Links : visits' = Append(visits, click)
    PROVE  Kept /\ visits' \in Seq(Links)
BY DEF Kept

LEMMA KeptVisitsServe ==
    ASSUME Kept, NEW click, HasVisit(click) PROVE HasVisit(click)'
BY DEF Kept, HasVisit

\* A page that a step leaves as it is, or takes the visit from.
LEMMA PageStays ==
    ASSUME Kept, NEW t \in Tabs, PageOK(t),
           \/ tab'[t] = tab[t]
           \/ tab[t] \in Page /\ tab'[t] = [tab[t] EXCEPT !.bereft = @ \/ tab[t].open],
           cid = NoVisit \/ cid' # NoVisit \/ (tab'[t].open => tab'[t].bereft)
    PROVE  PageOK(t)'
<1>1. /\ tab'[t].open = tab[t].open /\ tab'[t].direct = tab[t].direct
      /\ tab'[t].click = tab[t].click /\ tab'[t].asked = tab[t].asked
      /\ tab'[t].visit = tab[t].visit /\ tab'[t].queue = tab[t].queue
      /\ tab[t].bereft => tab'[t].bereft
  BY DEF Page
<1>2. tab[t].asked = "registered" =>
        tab[t].visit \in DOMAIN visits' /\ visits'[tab[t].visit] = tab[t].click
  BY DEF Kept, PageOK
<1>3. tab[t].direct /\ tab[t].click # NoClick /\ tab[t].asked = "no"
        => \E k \in DOMAIN visits' : visits'[k] = tab[t].click
  BY DEF Kept, PageOK, HasVisit
<1> QED BY <1>1, <1>2, <1>3 DEF PageOK, Waiting, HasVisit

LEMMA ScriptStart == ScriptInit => ScriptInv
<1> SUFFICES ASSUME ScriptInit PROVE ScriptInv OBVIOUS
<1>1. Closed \in Page BY ScriptAssumption DEF Closed, Page, Links, NoVisit
<1>2. ScriptTypeOK BY <1>1, ScriptAssumption DEF ScriptInit, ScriptTypeOK, Links, NoVisit
<1>3. ASSUME NEW t \in Tabs PROVE PageOK(t)
  <2>1. tab[t] = Closed BY DEF ScriptInit
  <2>2. /\ Closed.asked = "no" /\ ~Closed.open /\ Closed.click = NoClick
        /\ Closed.queue = 0
    BY DEF Closed
  <2> QED BY <2>1, <2>2 DEF PageOK
<1> QED BY <1>2, <1>3 DEF ScriptInv, StorageIsRegistered, ScriptInit

-----------------------------------------------------------------------------
\* Sending events touches only what was viewed and sent.
LEMMA ViewsAreTyped ==
    ASSUME ScriptTypeOK, NEW visit \in 1 .. Len(visits),
           AutoView(visit) \/ (Emit(visit) /\ UNCHANGED viewed) \/ UNCHANGED <<viewed, sent>>
    PROVE  viewed' \subseteq 1 .. Len(visits) /\ sent' \subseteq 1 .. Len(visits)
BY DEF ScriptTypeOK, AutoView, Emit

LEMMA LoadKeeps ==
    ASSUME ScriptInv, NEW t \in Tabs, NEW direct \in BOOLEAN, NEW source \in BOOLEAN,
           NEW click \in Links, NEW given \in 0 .. Len(visits),
           Load(t, direct, click, given, source)
    PROVE  ScriptInv'
<1> DEFINE old == IF given # NoVisit THEN given ELSE cid
           cleared == direct /\ click # NoClick /\ old # NoVisit /\ click # xid
           kept == IF cleared THEN NoVisit ELSE old
           asked == IF direct /\ kept = NoVisit THEN "sent" ELSE "no"
           page == Opened(direct, click, asked)
           others == IF cleared THEN Bereft(tab) ELSE tab
<1>1. /\ loads < MaxLoads /\ loads' = loads + 1 /\ cid' = kept
      /\ tab' = [others EXCEPT ![t] = page] /\ UNCHANGED <<xid, visits>>
      /\ (kept # NoVisit /\ AutoView(kept)) \/ UNCHANGED <<viewed, sent>>
  BY DEF Load
<1>2. page \in Page BY OpenedIsAPage
<1>3. others \in [Tabs -> Page]
  <2>1. \A o \in Tabs : [tab[o] EXCEPT !.bereft = @ \/ tab[o].open] \in Page
    BY DEF ScriptInv, ScriptTypeOK, Page
  <2> QED BY <2>1 DEF ScriptInv, ScriptTypeOK, Bereft
<1>4. kept \in 0 .. Len(visits) /\ Len(visits) \in Nat
  BY DEF ScriptInv, ScriptTypeOK, NoVisit
<1>5. tab' \in [Tabs -> Page] BY <1>1, <1>2, <1>3
<1>6. viewed' \subseteq 1 .. Len(visits) /\ sent' \subseteq 1 .. Len(visits)
  <2>1. CASE kept # NoVisit /\ AutoView(kept)
    <3>1. kept \in 1 .. Len(visits) BY <2>1, <1>4 DEF NoVisit
    <3> QED BY <3>1, <2>1, ViewsAreTyped DEF ScriptInv
  <2>2. CASE UNCHANGED <<viewed, sent>> BY <2>2 DEF ScriptInv, ScriptTypeOK
  <2> QED BY <1>1, <2>1, <2>2
<1>7. ScriptTypeOK'
  BY <1>1, <1>4, <1>5, <1>6, ScriptAssumption DEF ScriptInv, ScriptTypeOK
<1>8. Kept BY <1>1, VisitsAreKept DEF ScriptInv, ScriptTypeOK
<1>9. StorageIsRegistered'
  BY <1>1 DEF ScriptInv, StorageIsRegistered, HasVisit
<1>10. PageOK(t)'
  <2>1. tab'[t] = page BY <1>1, <1>3
  <2>2. asked = "no" /\ direct => kept # NoVisit OBVIOUS
  <2>3. asked = "no" /\ direct /\ click # NoClick => click = xid OBVIOUS
  <2>4. asked = "no" /\ direct /\ click # NoClick => HasVisit(click)
    BY <2>3 DEF ScriptInv, StorageIsRegistered
  <2>5. /\ page.direct = direct /\ page.click = click /\ page.asked = asked
        /\ page.queue = 0 /\ asked # "registered"
    BY DEF Opened
  <2> HIDE DEF page, asked, kept
  <2> QED BY <2>1, <2>2, <2>4, <2>5, <1>1 DEF PageOK, HasVisit
<1>11. ASSUME NEW o \in Tabs, o # t PROVE PageOK(o)'
  <2>1. tab[o] \in Page /\ DOMAIN tab = Tabs BY DEF ScriptInv, ScriptTypeOK
  <2>2. CASE cleared
    <3>1. tab'[o] = [tab[o] EXCEPT !.bereft = @ \/ tab[o].open]
      BY <1>1, <1>11, <2>1, <2>2 DEF Bereft
    <3>2. tab'[o].open => tab'[o].bereft BY <3>1, <2>1 DEF Page
    <3> QED BY <3>1, <3>2, <2>1, <1>8, PageStays DEF ScriptInv
  <2>3. CASE ~cleared
    <3>1. tab'[o] = tab[o] BY <1>1, <1>11, <2>1, <2>3
    <3>2. cid = NoVisit \/ cid' # NoVisit BY <1>1, <2>3
    <3> QED BY <3>1, <3>2, <1>8, PageStays DEF ScriptInv
  <2> QED BY <2>2, <2>3
<1> QED BY <1>7, <1>9, <1>10, <1>11 DEF ScriptInv

LEMMA RegisterVisitKeeps ==
    ASSUME ScriptInv, NEW t \in Tabs, RegisterVisit(t) PROVE ScriptInv'
<1> DEFINE page == Moved(tab[t], "registered", Len(visits) + 1, tab[t].queue)
<1>1. /\ Len(visits) < MaxVisits /\ visits' = Append(visits, tab[t].click)
      /\ tab' = [tab EXCEPT ![t] = page] /\ UNCHANGED <<cid, xid, viewed, sent, loads>>
  BY DEF RegisterVisit
<1>2. /\ visits \in Seq(Links) /\ tab \in [Tabs -> Page] /\ tab[t] \in Page
      /\ tab[t].click \in Links /\ tab[t].queue \in 0 .. QueueLimit
  BY DEF ScriptInv, ScriptTypeOK, Page
<1>3. Len(visits') = Len(visits) + 1 /\ visits'[Len(visits) + 1] = tab[t].click
      /\ visits' \in Seq(Links) /\ Len(visits) \in Nat
  BY <1>1, <1>2
<1>4. Kept BY <1>1, <1>2, VisitsAreKept
<1>5. page \in Page BY <1>1, <1>2, <1>3, MovedIsAPage, ScriptAssumption
<1>6. ScriptTypeOK'
  <2>1. tab' \in [Tabs -> Page] BY <1>1, <1>2, <1>5
  <2> HIDE DEF page
  <2> QED BY <2>1, <1>1, <1>3, ScriptAssumption DEF ScriptInv, ScriptTypeOK
<1>7. StorageIsRegistered'
  BY <1>1, <1>4 DEF ScriptInv, StorageIsRegistered, HasVisit, Kept
<1>8. PageOK(t)'
  <2>1. tab'[t] = page BY <1>1, <1>2
  <2>2. /\ page.asked = "registered" /\ page.visit = Len(visits) + 1
        /\ page.click = tab[t].click
    BY DEF Moved
  <2>3. Len(visits) + 1 \in DOMAIN visits' BY <1>3
  <2> HIDE DEF page
  <2> QED BY <2>1, <2>2, <2>3, <1>3 DEF PageOK, Waiting
<1>9. ASSUME NEW o \in Tabs, o # t PROVE PageOK(o)'
  <2>1. tab'[o] = tab[o] /\ cid' = cid BY <1>1, <1>2, <1>9
  <2> QED BY <2>1, <1>4, PageStays DEF ScriptInv
<1> QED BY <1>6, <1>7, <1>8, <1>9 DEF ScriptInv

LEMMA RedirectKeeps ==
    ASSUME ScriptInv, NEW click \in Links, Redirect(click) PROVE ScriptInv'
<1>1. /\ Len(visits) < MaxVisits /\ visits' = Append(visits, click)
      /\ UNCHANGED <<cid, xid, tab, viewed, sent, loads>>
  BY DEF Redirect
<1>2. visits \in Seq(Links) BY DEF ScriptInv, ScriptTypeOK
<1>3. Len(visits') = Len(visits) + 1 /\ visits' \in Seq(Links) /\ Len(visits) \in Nat
  BY <1>1, <1>2
<1>4. Kept BY <1>1, <1>2, VisitsAreKept
<1>5. ScriptTypeOK' BY <1>1, <1>3, ScriptAssumption DEF ScriptInv, ScriptTypeOK
<1>6. StorageIsRegistered'
  BY <1>1, <1>4 DEF ScriptInv, StorageIsRegistered, HasVisit, Kept
<1>7. ASSUME NEW o \in Tabs PROVE PageOK(o)'
  <2>1. tab'[o] = tab[o] /\ cid' = cid BY <1>1
  <2> QED BY <2>1, <1>4, PageStays DEF ScriptInv
<1> QED BY <1>5, <1>6, <1>7 DEF ScriptInv

LEMMA VisitLostKeeps ==
    ASSUME ScriptInv, NEW t \in Tabs, VisitLost(t) PROVE ScriptInv'
<1>1. /\ tab' = [tab EXCEPT ![t].asked = "lost"]
      /\ UNCHANGED <<cid, xid, visits, viewed, sent, loads>>
  BY DEF VisitLost
<1>2. tab \in [Tabs -> Page] BY DEF ScriptInv, ScriptTypeOK
<1>3. tab' \in [Tabs -> Page] /\ tab'[t].asked = "lost" BY <1>1, <1>2 DEF Page
<1>4. ScriptTypeOK' BY <1>1, <1>3 DEF ScriptInv, ScriptTypeOK
<1>5. Kept BY <1>1, VisitsAreKept DEF ScriptInv, ScriptTypeOK
<1>6. StorageIsRegistered' BY <1>1 DEF ScriptInv, StorageIsRegistered, HasVisit
<1>7. PageOK(t)' BY <1>3 DEF PageOK
<1>8. ASSUME NEW o \in Tabs, o # t PROVE PageOK(o)'
  <2>1. tab'[o] = tab[o] /\ cid' = cid BY <1>1, <1>2, <1>8
  <2> QED BY <2>1, <1>5, PageStays DEF ScriptInv
<1> QED BY <1>4, <1>6, <1>7, <1>8 DEF ScriptInv

LEMMA AnswerKeeps ==
    ASSUME ScriptInv, NEW t \in Tabs, NEW source \in BOOLEAN, Answer(t, source)
    PROVE  ScriptInv'
<1> DEFINE page == Moved(tab[t], "no", tab[t].visit, 0)
<1>1. /\ tab[t].asked = "registered" /\ cid' = tab[t].visit
      /\ xid' = IF tab[t].click # NoClick THEN tab[t].click ELSE xid
      /\ tab' = [tab EXCEPT ![t] = page] /\ UNCHANGED <<visits, loads>>
      /\ \/ AutoView(tab[t].visit) \/ (Emit(tab[t].visit) /\ UNCHANGED viewed)
         \/ UNCHANGED <<viewed, sent>>
  BY DEF Answer
<1>2. tab \in [Tabs -> Page] /\ tab[t] \in Page /\ tab[t].click \in Links
      /\ visits \in Seq(Links) /\ Len(visits) <= MaxVisits
  BY DEF ScriptInv, ScriptTypeOK, Page
<1>3. tab[t].visit \in DOMAIN visits /\ visits[tab[t].visit] = tab[t].click
  BY <1>1 DEF ScriptInv, PageOK
<1>4. tab[t].visit \in 1 .. Len(visits) /\ Len(visits) \in Nat /\ HasVisit(tab[t].click)
  BY <1>2, <1>3 DEF HasVisit
<1>5. tab[t].visit \in 0 .. MaxVisits /\ 0 \in 0 .. QueueLimit
  BY <1>2, <1>4, ScriptAssumption
<1>6. page \in Page BY <1>2, <1>5, MovedIsAPage
<1>7. viewed' \subseteq 1 .. Len(visits) /\ sent' \subseteq 1 .. Len(visits)
  BY <1>1, <1>4, ViewsAreTyped DEF ScriptInv
<1>8. ScriptTypeOK'
  <2>1. tab' \in [Tabs -> Page] BY <1>1, <1>2, <1>6
  <2>2. cid' \in 0 .. Len(visits) /\ xid' \in Links
    BY <1>1, <1>2, <1>4 DEF ScriptInv, ScriptTypeOK
  <2> HIDE DEF page
  <2> QED BY <2>1, <2>2, <1>1, <1>7 DEF ScriptInv, ScriptTypeOK
<1>9. Kept BY <1>1, <1>2, VisitsAreKept
<1>10. StorageIsRegistered'
  BY <1>1, <1>4 DEF ScriptInv, StorageIsRegistered, HasVisit
<1>11. PageOK(t)'
  <2>1. tab'[t] = page BY <1>1, <1>2
  <2>2. page.asked = "no" /\ page.click = tab[t].click /\ page.queue = 0
    BY DEF Moved
  <2>3. cid' # NoVisit BY <1>1, <1>4 DEF NoVisit
  <2>4. \E k \in DOMAIN visits' : visits'[k] = tab[t].click BY <1>1, <1>3
  <2> HIDE DEF page
  <2> QED BY <2>1, <2>2, <2>3, <2>4 DEF PageOK, HasVisit
<1>12. ASSUME NEW o \in Tabs, o # t PROVE PageOK(o)'
  <2>1. tab'[o] = tab[o] BY <1>1, <1>2, <1>12
  <2>2. cid' # NoVisit BY <1>1, <1>4 DEF NoVisit
  <2> QED BY <2>1, <2>2, <1>9, PageStays DEF ScriptInv
<1> QED BY <1>8, <1>10, <1>11, <1>12 DEF ScriptInv

LEMMA EventKeeps ==
    ASSUME ScriptInv, NEW t \in Tabs, Event(t) PROVE ScriptInv'
<1>1. tab[t].open /\ UNCHANGED <<cid, xid, visits, viewed, loads>> BY DEF Event
<1>2. tab \in [Tabs -> Page] BY DEF ScriptInv, ScriptTypeOK
<1>3. Kept BY <1>1, VisitsAreKept DEF ScriptInv, ScriptTypeOK
<1>4. StorageIsRegistered' BY <1>1 DEF ScriptInv, StorageIsRegistered, HasVisit
<1>5. CASE cid # NoVisit
  <2>1. tab' = tab /\ sent' = sent \cup {cid} BY <1>5 DEF Event, Emit
  <2>2. cid \in 1 .. Len(visits) BY <1>5 DEF ScriptInv, ScriptTypeOK, NoVisit
  <2>3. ScriptTypeOK' BY <2>1, <2>2, <1>1 DEF ScriptInv, ScriptTypeOK
  <2>4. ASSUME NEW o \in Tabs PROVE PageOK(o)'
    BY <2>1, <1>1, <1>3, PageStays DEF ScriptInv
  <2> QED BY <2>3, <2>4, <1>4 DEF ScriptInv
<1>6. CASE cid = NoVisit
  <2>1. /\ tab[t].queue < QueueLimit /\ sent' = sent
        /\ tab' = [tab EXCEPT ![t].queue = @ + 1]
    BY <1>6 DEF Event
  <2>2. tab' \in [Tabs -> Page] BY <2>1, <1>2, ScriptAssumption DEF Page
  <2>3. ScriptTypeOK' BY <2>1, <2>2, <1>1 DEF ScriptInv, ScriptTypeOK
  <2>4. PageOK(t)'
    <3>1. /\ tab'[t].open = tab[t].open /\ tab'[t].direct = tab[t].direct
          /\ tab'[t].click = tab[t].click /\ tab'[t].asked = tab[t].asked
          /\ tab'[t].visit = tab[t].visit /\ tab'[t].bereft = tab[t].bereft
      BY <2>1, <1>2 DEF Page
    <3>2. PageOK(t) BY DEF ScriptInv
    <3>3. tab[t].bereft \/ ~tab[t].direct \/ tab[t].asked \in {"sent", "registered", "lost"}
      BY <3>2, <1>1, <1>2, <1>6 DEF PageOK, Page
    <3> QED BY <3>1, <3>2, <3>3, <1>1 DEF PageOK, Waiting, HasVisit
  <2>5. ASSUME NEW o \in Tabs, o # t PROVE PageOK(o)'
    <3>1. tab'[o] = tab[o] BY <2>1, <2>5, <1>2
    <3> QED BY <3>1, <1>1, <1>3, PageStays DEF ScriptInv
  <2> QED BY <2>3, <2>4, <2>5, <1>4 DEF ScriptInv
<1> QED BY <1>5, <1>6

LEMMA ExpireKeeps == ASSUME ScriptInv, Expire PROVE ScriptInv'
<1>1. cid' = NoVisit /\ tab' = Bereft(tab) /\ UNCHANGED <<xid, visits, viewed, sent, loads>>
  BY DEF Expire
<1>2. tab \in [Tabs -> Page] BY DEF ScriptInv, ScriptTypeOK
<1>3. \A o \in Tabs : /\ tab'[o] = [tab[o] EXCEPT !.bereft = @ \/ tab[o].open]
                      /\ tab'[o] \in Page /\ (tab'[o].open => tab'[o].bereft)
  BY <1>1, <1>2 DEF Bereft, Page
<1>4. tab' \in [Tabs -> Page] BY <1>1, <1>2, <1>3 DEF Bereft
<1>5. ScriptTypeOK' BY <1>1, <1>4 DEF ScriptInv, ScriptTypeOK, NoVisit
<1>6. Kept BY <1>1, VisitsAreKept DEF ScriptInv, ScriptTypeOK
<1>7. StorageIsRegistered' BY <1>1 DEF ScriptInv, StorageIsRegistered, HasVisit
<1>8. ASSUME NEW o \in Tabs PROVE PageOK(o)'
  BY <1>2, <1>3, <1>6, PageStays DEF ScriptInv
<1> QED BY <1>5, <1>7, <1>8 DEF ScriptInv

-----------------------------------------------------------------------------
LEMMA ScriptStep == ScriptInv /\ [ScriptNext]_scriptVars => ScriptInv'
<1> SUFFICES ASSUME ScriptInv, [ScriptNext]_scriptVars PROVE ScriptInv' OBVIOUS
<1>1. ASSUME NEW t \in Tabs, NEW direct \in BOOLEAN, NEW source \in BOOLEAN,
             NEW click \in Links, NEW given \in 0 .. Len(visits),
             Load(t, direct, click, given, source)
      PROVE  ScriptInv'
  BY <1>1, LoadKeeps
<1>2. ASSUME NEW t \in Tabs, RegisterVisit(t) \/ VisitLost(t) \/ Event(t) PROVE ScriptInv'
  BY <1>2, RegisterVisitKeeps, VisitLostKeeps, EventKeeps
<1>3. ASSUME NEW t \in Tabs, NEW source \in BOOLEAN, Answer(t, source) PROVE ScriptInv'
  BY <1>3, AnswerKeeps
<1>4. ASSUME NEW click \in Links, Redirect(click) PROVE ScriptInv'
  BY <1>4, RedirectKeeps
<1>5. CASE Expire BY <1>5, ExpireKeeps
<1>6. CASE UNCHANGED scriptVars
  <2>1. UNCHANGED <<cid, xid, tab, visits, viewed, sent, loads>> BY <1>6 DEF scriptVars
  <2>2. Kept BY <2>1, VisitsAreKept DEF ScriptInv, ScriptTypeOK
  <2>3. ScriptTypeOK' BY <2>1 DEF ScriptInv, ScriptTypeOK
  <2>4. StorageIsRegistered' BY <2>1 DEF ScriptInv, StorageIsRegistered, HasVisit
  <2>5. ASSUME NEW o \in Tabs PROVE PageOK(o)' BY <2>1, <2>2, PageStays DEF ScriptInv
  <2> QED BY <2>3, <2>4, <2>5 DEF ScriptInv
<1>7. CASE ScriptNext BY <1>7, <1>1, <1>2, <1>3, <1>4, <1>5 DEF ScriptNext
<1> QED BY <1>6, <1>7

\* Every billed ad click of a page in direct mode that asks for nothing more was
\* registered: no cookie of an earlier click swallows it, in any order of the pages'
\* loads and the answers (tracker-script.service.ts init, adClickId).
THEOREM BilledClicksAreRegistered == ScriptSpec => []BilledClicksHaveVisits
<1>1. ScriptInv => BilledClicksHaveVisits
  BY DEF ScriptInv, PageOK, HasVisit, BilledClicksHaveVisits
<1> QED BY <1>1, ScriptStart, ScriptStep, PTL DEF ScriptSpec

\* Events are queued only while a registration may still answer, was lost, or while the
\* visit was taken from under the page, or in a page that never registers
\* (tracker-script.service.ts whenCidReady, flushPending).
THEOREM QueuesAreForAVisit == ScriptSpec => []QueuesWaitForAVisit
<1>1. ScriptInv => QueuesWaitForAVisit
  BY DEF ScriptInv, PageOK, QueuesWaitForAVisit
<1> QED BY <1>1, ScriptStart, ScriptStep, PTL DEF ScriptSpec

-----------------------------------------------------------------------------
(* The whole.  Whatever part a behaviour exercises, each part starts in    *)
(* one of its initial states and takes one of its steps or none.           *)

LEMMA EachPartStarts == Init => CachesInit /\ TrafficInit /\ RotationInit /\ ScriptInit
BY DEF Init, RestingCaches, RestingTraffic, RestingRotation

LEMMA EachPartSteps ==
    [Next]_trackingVars =>
        /\ [CachesNext]_cachesVars /\ [TrafficNext]_trafficVars
        /\ [RotationNext]_rotationVars /\ [ScriptNext]_scriptVars
BY DEF Next, trackingVars

\* Whatever part is exercised, each part behaves as its own specification says.
THEOREM PartsBehave == Spec => CachesSpec /\ TrafficSpec /\ RotationSpec /\ ScriptSpec
BY EachPartStarts, EachPartSteps, PTL DEF Spec, CachesSpec, TrafficSpec, RotationSpec, ScriptSpec

\* Nothing of any part leaves its type, for any values of the constants.
THEOREM CachesStayTyped == Spec => []CachesTypeOK
BY PartsBehave, CachesAreTyped, PTL

\* An answer of a cache that is not the row was overtaken by a write, or put there by a
\* failed read, no longer ago than the time to live and one query (getEffective).
THEOREM AnswersAreYoung == Spec => []StaleIsYoung
BY PartsBehave, StaleAnswersAreYoung, PTL

\* New visits are first ones, returns follow a row of their own campaign (recordClick).
THEOREM NewVisitsAreFirst == Spec => []NewMeansFirst
BY PartsBehave, NewVisitorsAreNew, PTL

\* Floods and only floods of a public address are scored as floods (evaluateVelocity).
THEOREM FloodScores == Spec => []FloodIsScored
BY PartsBehave, FloodsAreScored, PTL

\* Nobody becomes the winner of a rotation without earning it (evaluateAll).
THEOREM WinnersEarnIt == Spec => PromotionIsEarned
BY PartsBehave, PromotionsAreEarned, PTL

\* A promotion nobody disturbed leaves the path a variant to serve (promoteWinner).
THEOREM PathsKeepServing == Spec => QuietPathKeepsServing
BY PartsBehave, QuietPathsKeepServing, PTL

\* No cookie swallows a billed click (tracker-script.service.ts adClickId).
THEOREM BilledClicks == Spec => []BilledClicksHaveVisits
BY PartsBehave, BilledClicksAreRegistered, PTL

\* No page queues events for a visit that nothing will give it (whenCidReady).
THEOREM Queues == Spec => []QueuesWaitForAVisit
BY PartsBehave, QueuesAreForAVisit, PTL

-----------------------------------------------------------------------------
(* The questions.  One is asked at the start, of one part or the other,    *)
(* and stays; the part that is not asked anything holds one that is in the *)
(* set, or none.                                                           *)

LEMMA NothingIsAList == <<>> \in WeightedLists
<1>1. <<>> \in [1 .. 0 -> Weights] OBVIOUS
<1>2. 0 \in 0 .. MaxItems BY DecisionsAssumption
<1> QED BY <1>1, <1>2 DEF WeightedLists

Asked ==
    /\ question \in Questions
    /\ \/ affair.about = "nothing" \/ affair \in Returns \/ affair \in Households
       \/ affair.about = "payload" /\ affair.values \subseteq Values

LEMMA AskedAtStart == Init => Asked
<1> SUFFICES ASSUME Init PROVE Asked OBVIOUS
<1>1. (question \in Questions \/ RestingDecisions) /\ (RulesInit \/ RestingRules)
  BY DEF Init, DecisionsInit
<1>2. RestingDecisions => question \in Questions
  <2>1. [about |-> "pick", weights |-> <<>>] \in [about: {"pick"}, weights: WeightedLists]
    BY NothingIsAList
  <2> QED BY <2>1 DEF RestingDecisions, Questions
<1>3. affair \in [about: {"payload"}, values: Payloads]
        => affair.about = "payload" /\ affair.values \subseteq Values
  BY RulesAssumption DEF Payloads
<1>4. RestingRules => affair.about = "nothing" BY DEF RestingRules
<1> QED BY <1>1, <1>2, <1>3, <1>4 DEF Asked, RulesInit

LEMMA AskedStays == Asked /\ [Next]_trackingVars => Asked'
<1> SUFFICES ASSUME Asked, [Next]_trackingVars PROVE Asked' OBVIOUS
<1>1. question' = question /\ affair' = affair BY DEF Next, trackingVars
<1> QED BY <1>1 DEF Asked

LEMMA AskedIsAnswered ==
    Asked => RoutingIsFair /\ ParamsAreClean /\ PostbacksStayInBounds
             /\ ErasedStayAway /\ ErasureTakesOnePerson /\ WhatIsReadIsRemoved
<1> SUFFICES ASSUME Asked
             PROVE  RoutingIsFair /\ ParamsAreClean /\ PostbacksStayInBounds
                    /\ ErasedStayAway /\ ErasureTakesOnePerson /\ WhatIsReadIsRemoved
  OBVIOUS
<1>1. RoutingIsFair /\ ParamsAreClean /\ PostbacksStayInBounds
  BY RoutingAnswers, ParamAnswers, PostbackAnswers DEF Asked
<1>2. /\ affair.about # "return" => ErasedStayAway
      /\ affair.about # "visits" => ErasureTakesOnePerson
      /\ affair.about # "payload" => WhatIsReadIsRemoved
  BY DEF ErasedStayAway, ErasureTakesOnePerson, WhatIsReadIsRemoved
<1>3. affair \in Returns => affair.about = "return" /\ ErasedStayAway
  BY ReturnsAreReturns, ReturnAnswers
<1>4. affair \in Households => affair.about = "visits" /\ ErasureTakesOnePerson
  BY HouseholdsAnswer DEF Households
<1> QED BY <1>1, <1>2, <1>3, <1>4, PayloadAnswers DEF Asked

\* A draw is fair, for lists of weights of any length; a visitor is sent along a path of
\* his pool that has weight exactly when there is one, for any paths, conditions, weights,
\* variants and addresses (pickWeighted, selectPath, selectVariant, resolveRouting).
THEOREM RoutingObeys == Spec => []RoutingIsFair
BY AskedAtStart, AskedStays, AskedIsAnswered, PTL DEF Spec

\* No placeholder is kept in a mapped field or told a network but by mediago's fallback,
\* the click ids stand in for each other, and the mapping of the highest priority decides
\* (resolveParamsFromMappings, applyMappedCustomVariables, resolveMediagoTrackingId).
THEOREM NoPlaceholders == Spec => []ParamsAreClean
BY AskedAtStart, AskedStays, AskedIsAnswered, PTL DEF Spec

\* A conversion reaches the networks it may reach, and what is stored of an incoming
\* postback was proved, whatever the secrets are (canHandle, assertPostbackAuthorized).
THEOREM PostbacksAreBound == Spec => []PostbacksStayInBounds
BY AskedAtStart, AskedStays, AskedIsAnswered, PTL DEF Spec

\* Whoever was erased is refused, and nobody else is (isErasedPerson).
THEOREM ErasedAreRefused == Spec => []ErasedStayAway
BY AskedAtStart, AskedStays, AskedIsAnswered, PTL DEF Spec

\* An erasure takes the visits of one person (visitsOfPerson).
THEOREM OnePersonIsTaken == Spec => []ErasureTakesOnePerson
BY AskedAtStart, AskedStays, AskedIsAnswered, PTL DEF Spec

\* What a reading would find is removed, whatever else is in the payload (caviarder).
THEOREM WhatIsReadGoes == Spec => []WhatIsReadIsRemoved
BY AskedAtStart, AskedStays, AskedIsAnswered, PTL DEF Spec
=============================================================================
