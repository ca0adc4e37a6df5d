------------------------------- MODULE Caches -------------------------------
(***************************************************************************)
(* The two configuration caches of the server: the global settings, read   *)
(* by every click and every conversion (test mode, flood limits), and the  *)
(* event types that count as conversions, read by every report and by the  *)
(* auto-winner.  Both keep one value for a time to live and are emptied by *)
(* a write, the settings after it and the event types before it; a query   *)
(* in flight stores what it read when its answer arrives, whatever was     *)
(* written meanwhile.  Time is counted in ticks.  A hit changes nothing    *)
(* and is not a step: what it answers is the cached value.                 *)
(***************************************************************************)
EXTENDS Integers

CONSTANTS
    CachedValues,   \* values the row may hold
    DefaultValue,   \* what the environment says, or what boot seeds
    CacheTtl,       \* ticks a value stays in the cache
    Latency,        \* bound on the ticks a statement is under way
    Readers, Writers,
    MaxCacheFaults  \* bound on failed reads and restarts

ASSUME CachesAssumption ==
    /\ DefaultValue \in CachedValues
    /\ CacheTtl \in Nat \ {0} /\ Latency \in Nat /\ MaxCacheFaults \in Nat

VARIABLES
    kind,        \* which of the two caches this is
    stored,      \* the row
    cached,      \* [value, left]: left = 0 when there is no value to answer
    reading,     \* [Readers -> [pc, value, age]]
    writing,     \* [Writers -> [pc, value, age]]
    cacheFaults,
    sinceWrite,  \* history: ticks since the row last changed
    sinceError   \* history: ticks since a failed read was cached

cachesVars == <<kind, stored, cached, reading, writing, cacheFaults,
                sinceWrite, sinceError>>

Kinds == {"settings", "eventTypes"}
Horizon == CacheTtl + Latency + 1    \* histories are not counted further
NoTask == [pc |-> "idle", value |-> DefaultValue, age |-> 0]
CacheTask(steps) == [pc: steps, value: CachedValues, age: 0 .. Latency]

CachesInit ==
    /\ kind \in Kinds
    /\ stored \in CachedValues
    /\ cached = [value |-> stored, left |-> 0]
    /\ reading = [r \in Readers |-> NoTask]
    /\ writing = [w \in Writers |-> NoTask]
    /\ cacheFaults = 0
    /\ sinceWrite = Horizon /\ sinceError = Horizon

(* A server that nobody asks, where another part is looked at.             *)
RestingCaches == CachesInit /\ kind = "settings" /\ stored = DefaultValue

-----------------------------------------------------------------------------
(* Readers: getEffective, getConversionCountSlugs.                         *)

Ask(r) ==
    /\ reading[r].pc = "idle" /\ cached.left = 0
    /\ reading' = [reading EXCEPT ![r] = [NoTask EXCEPT !.pc = "asked"]]
    /\ UNCHANGED <<kind, stored, cached, writing, cacheFaults, sinceWrite, sinceError>>

Snapshot(r) ==
    /\ reading[r].pc = "asked"
    /\ reading' = [reading EXCEPT ![r] = [pc |-> "read", value |-> stored, age |-> @.age]]
    /\ UNCHANGED <<kind, stored, cached, writing, cacheFaults, sinceWrite, sinceError>>

Keep(value) == cached' = [value |-> value, left |-> CacheTtl]

Fill(r) ==
    /\ reading[r].pc = "read"
    /\ Keep(reading[r].value)
    /\ reading' = [reading EXCEPT ![r] = NoTask]
    /\ UNCHANGED <<kind, stored, writing, cacheFaults, sinceWrite, sinceError>>

(* The settings answer a failed query with the defaults and keep them; the *)
(* event types let it fail.                                                *)
ReadFails(r) ==
    /\ reading[r].pc # "idle" /\ cacheFaults < MaxCacheFaults
    /\ IF kind = "settings"
       THEN Keep(DefaultValue) /\ sinceError' = 0
       ELSE UNCHANGED <<cached, sinceError>>
    /\ reading' = [reading EXCEPT ![r] = NoTask]
    /\ cacheFaults' = cacheFaults + 1
    /\ UNCHANGED <<kind, stored, writing, sinceWrite>>

-----------------------------------------------------------------------------
(* Writers: SettingsService.update, and create, update and remove of an    *)
(* event type.                                                             *)

WriteBegin(w, value) ==
    /\ writing[w].pc = "idle"
    /\ writing' = [writing EXCEPT ![w] = [pc |-> "begun", value |-> value, age |-> 0]]
    /\ UNCHANGED <<kind, stored, cached, reading, cacheFaults, sinceWrite, sinceError>>

Step(w, from, to) ==
    /\ writing[w].pc = from
    /\ writing' = [writing EXCEPT ![w] =
                     IF to = "idle" THEN NoTask ELSE [@ EXCEPT !.pc = to]]

(* The row is written: the first step of the settings, the last of the     *)
(* event types.                                                            *)
Commit(w) ==
    /\ IF kind = "settings" THEN Step(w, "begun", "written")
                            ELSE Step(w, "emptied", "idle")
    /\ stored' = writing[w].value
    /\ sinceWrite' = 0
    /\ UNCHANGED <<kind, cached, reading, cacheFaults, sinceError>>

Invalidate(w) ==
    /\ IF kind = "settings" THEN Step(w, "written", "idle")
                            ELSE Step(w, "begun", "emptied")
    /\ cached' = [cached EXCEPT !.left = 0]
    /\ UNCHANGED <<kind, stored, reading, cacheFaults, sinceWrite, sinceError>>

(* A new process has an empty cache.  Booting puts the counting flag of    *)
(* the event types of the system back to the seed, but leaves a type that  *)
(* was switched off as it is.                                              *)
Restart ==
    /\ cacheFaults < MaxCacheFaults
    /\ cacheFaults' = cacheFaults + 1
    /\ cached' = [cached EXCEPT !.left = 0]
    /\ reading' = [r \in Readers |-> NoTask]
    /\ writing' = [w \in Writers |-> NoTask]
    /\ IF kind = "eventTypes"
       THEN stored' \in {DefaultValue, stored} /\ sinceWrite' = 0
       ELSE UNCHANGED <<stored, sinceWrite>>
    /\ UNCHANGED <<kind, sinceError>>

-----------------------------------------------------------------------------
Later(n) == IF n < Horizon THEN n + 1 ELSE n
Aged(tasks) ==
    [t \in DOMAIN tasks |->
        IF tasks[t].pc = "idle" THEN tasks[t] ELSE [tasks[t] EXCEPT !.age = @ + 1]]
Underway(tasks) == {t \in DOMAIN tasks : tasks[t].pc # "idle"}

(* Variant: a value in the cache is answered for ever.                     *)
TickForgetsTtl ==
    /\ \A r \in Underway(reading) : reading[r].age < Latency
    /\ \A w \in Underway(writing) : writing[w].age < Latency
    /\ reading' = Aged(reading) /\ writing' = Aged(writing)
    /\ sinceWrite' = Later(sinceWrite) /\ sinceError' = Later(sinceError)
    /\ UNCHANGED <<kind, stored, cached, cacheFaults>>

Tick ==
    /\ \A r \in Underway(reading) : reading[r].age < Latency
    /\ \A w \in Underway(writing) : writing[w].age < Latency
    /\ reading' = Aged(reading) /\ writing' = Aged(writing)
    /\ cached' = [cached EXCEPT !.left = IF @ > 0 THEN @ - 1 ELSE 0]
    /\ sinceWrite' = Later(sinceWrite) /\ sinceError' = Later(sinceError)
    /\ UNCHANGED <<kind, stored, cacheFaults>>

CachesNext ==
    \/ \E r \in Readers : Ask(r) \/ Snapshot(r) \/ Fill(r) \/ ReadFails(r)
    \/ \E w \in Writers : (\E v \in CachedValues : WriteBegin(w, v))
                          \/ Commit(w) \/ Invalidate(w)
    \/ Restart
    \/ Tick

CachesSpec == CachesInit /\ [][CachesNext]_cachesVars

-----------------------------------------------------------------------------
CachesTypeOK ==
    /\ kind \in Kinds
    /\ stored \in CachedValues
    /\ cached \in [value: CachedValues, left: 0 .. CacheTtl]
    /\ reading \in [Readers -> CacheTask({"idle", "asked", "read"})]
    /\ writing \in [Writers -> CacheTask({"idle", "begun", "written", "emptied"})]
    /\ cacheFaults \in 0 .. MaxCacheFaults
    /\ sinceWrite \in 0 .. Horizon /\ sinceError \in 0 .. Horizon

(* What a query has read and not yet stored is the row, or the row changed *)
(* while the query was under way.                                          *)
ReadsAreRecent ==
    \A r \in Readers :
        reading[r].pc = "read" /\ reading[r].value # stored
            => sinceWrite <= reading[r].age

(* The cache may answer something else than the row, after a write as      *)
(* after a failed read, but never for longer than its time to live and the *)
(* time one query takes: an answer with `left` ticks to live that differs  *)
(* from the row was overtaken by a write, or put there by an error, that   *)
(* recently.  A click stamped real while test mode is on is explained by   *)
(* one of the two (settings.service.ts getEffective, update;               *)
(* conversion-event-types.service.ts getConversionCountSlugs).             *)
StaleIsYoung ==
    cached.left > 0 /\ cached.value # stored =>
        \/ sinceWrite + cached.left <= CacheTtl + Latency
        \/ sinceError + cached.left <= CacheTtl
=============================================================================
