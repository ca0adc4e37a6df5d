-------------------------- MODULE OperationsProofs --------------------------
(***************************************************************************)
(* Proofs about the administration side (Operations), for any number of    *)
(* accounts, campaigns, landers, pages, sweeps, requests, hours and events. *)
(* Each desk has an inductive invariant of its own; a behaviour of the     *)
(* whole is one of every desk.                                             *)
(***************************************************************************)
EXTENDS Operations, ReportProofs, SequenceTheorems

(* The hours of the machine.  The statements at work decide what is        *)
(* counted next, so the inductive invariant says what each has read: the   *)
(* last hour it looked back at was over when it began.  What one begun     *)
(* within an hour may take from its count is in the history.               *)
Working(f) == refresh[f].at >= 0

\* The shape of the state, without the bounds that only keep TLC's instance small.
IsReading(done) ==
    /\ done.at \in 0 .. hour
    /\ DOMAIN done.rows \subseteq {done.at - 1, done.at} \cap Hours
    /\ \A h \in DOMAIN done.rows : done.rows[h] \in Nat

HoursShape ==
    /\ hour \in Hours
    /\ arrived \in [Hours -> Nat] /\ stored \in [Hours -> Nat] /\ counted \in [Hours -> Nat]
    /\ refresh = [f \in Refreshes |-> refresh[f]]
    /\ \A f \in Refreshes : refresh[f] = NoRefresh \/ IsReading(refresh[f])
    /\ refreshed \subseteq 0 .. hour

\* No figure is above the clicks that ever came.
FiguresAreOfClicks ==
    \A h \in Hours :
        /\ stored[h] <= arrived[h] /\ counted[h] <= arrived[h]
        /\ \A f \in Refreshes :
              Working(f) /\ h \in DOMAIN refresh[f].rows => refresh[f].rows[h] <= arrived[h]

\* What a statement at work read of the hour before its own is all there is of it.
LastHourIsRead ==
    \A f \in Refreshes, h \in Hours :
        Working(f) /\ h + 1 = refresh[f].at =>
            IF h \in DOMAIN refresh[f].rows THEN stored[h] <= refresh[f].rows[h] ELSE stored[h] = 0

FinalHours ==
    \A h \in Hours : h + 1 \in refreshed /\ h \notin overwritten => stored[h] <= counted[h]

HoursInv == HoursShape /\ FiguresAreOfClicks /\ LastHourIsRead /\ FinalHours

LEMMA HoursAreNat == MaxHour \in Nat /\ Hours = 0 .. MaxHour
BY MachineAssumption DEF Hours

LEMMA NoneAtWork == NoRefresh.at = -1 /\ ~(NoRefresh.at >= 0)
BY DEF NoRefresh

LEMMA HoursStart == HoursInit => HoursInv
<1> SUFFICES ASSUME HoursInit PROVE HoursInv OBVIOUS
<1> USE HoursAreNat DEF Hours
<1>1. \A f \in Refreshes : refresh[f] = NoRefresh /\ ~Working(f)
  BY NoneAtWork DEF HoursInit, Working
<1>2. HoursShape BY <1>1 DEF HoursInit, HoursShape, None0
<1> QED BY <1>1, <1>2 DEF HoursInv, HoursInit, FiguresAreOfClicks, LastHourIsRead, FinalHours, None0

-----------------------------------------------------------------------------
\* One lemma per action.

\* A statement at work has read in an hour that has come.
LEMMA ReadingIs ==
    ASSUME HoursInv, NEW f \in Refreshes, Working(f)
    PROVE  IsReading(refresh[f])
BY NoneAtWork DEF HoursInv, HoursShape, Working

LEMMA ArriveKeeps == ASSUME HoursInv, Arrive PROVE HoursInv'
<1>1. UNCHANGED <<hour, counted, refresh, refreshed, overwritten>> BY DEF Arrive
<1>0. \A f \in Refreshes : Working(f)' = Working(f) BY <1>1 DEF Working
<1>2. /\ hour \in Hours /\ counted \in [Hours -> Nat]
      /\ arrived \in [Hours -> Nat] /\ stored \in [Hours -> Nat]
  BY DEF HoursInv, HoursShape
<1>3. arrived' \in [Hours -> Nat] /\ stored' \in [Hours -> Nat]
  BY <1>2 DEF Arrive
<1>4. \A h \in Hours : /\ arrived'[h] = IF h = hour THEN arrived[h] + 1 ELSE arrived[h]
                       /\ stored'[h] = IF h = hour THEN stored[h] + 1 ELSE stored[h]
  BY <1>2 DEF Arrive
<1>5. HoursShape' BY <1>1, <1>2, <1>3 DEF HoursInv, HoursShape, IsReading
<1>6. ASSUME NEW h \in Hours
      PROVE  /\ stored'[h] <= arrived'[h] /\ counted[h] <= arrived'[h]
             /\ \A f \in Refreshes :
                  Working(f) /\ h \in DOMAIN refresh[f].rows => refresh[f].rows[h] <= arrived'[h]
  <2>1. stored[h] <= arrived[h] /\ counted[h] <= arrived[h] BY DEF HoursInv, FiguresAreOfClicks
  <2>2. stored[h] \in Nat /\ arrived[h] \in Nat /\ counted[h] \in Nat BY <1>2
  <2>3. arrived'[h] \in Nat /\ arrived[h] <= arrived'[h] /\ stored'[h] <= arrived'[h]
    BY <1>4, <2>1, <2>2
  <2>4. ASSUME NEW f \in Refreshes, Working(f), h \in DOMAIN refresh[f].rows
        PROVE  refresh[f].rows[h] <= arrived'[h]
    <3>1. refresh[f].rows[h] \in Nat BY <2>4, ReadingIs DEF IsReading
    <3>2. refresh[f].rows[h] <= arrived[h] BY <2>4 DEF HoursInv, FiguresAreOfClicks
    <3> QED BY <3>1, <3>2, <2>2, <2>3
  <2> QED BY <2>1, <2>2, <2>3, <2>4
<1>7. FiguresAreOfClicks' BY <1>0, <1>1, <1>6 DEF FiguresAreOfClicks
\* The hour of the click is not over: no statement at work or done looked back at it.
<1>8. ASSUME NEW h \in Hours, h < hour PROVE stored'[h] = stored[h]
  BY <1>2, <1>4, <1>8 DEF Hours
<1>9. LastHourIsRead'
  <2>1. ASSUME NEW f \in Refreshes, Working(f), NEW h \in Hours, h + 1 = refresh[f].at
        PROVE  h < hour
    BY <2>1, <1>2, HoursAreNat, ReadingIs DEF IsReading
  <2> QED BY <1>0, <1>1, <1>8, <2>1 DEF HoursInv, LastHourIsRead
<1>10. FinalHours'
  <2>1. ASSUME NEW h \in Hours, h + 1 \in refreshed PROVE h < hour
    BY <2>1, <1>2, HoursAreNat DEF HoursInv, HoursShape
  <2> QED BY <1>1, <1>8, <2>1 DEF HoursInv, FinalHours
<1> QED BY <1>5, <1>7, <1>9, <1>10 DEF HoursInv

LEMMA HourPassesKeeps == ASSUME HoursInv, HourPasses PROVE HoursInv'
<1> USE HoursAreNat DEF Hours
<1>1. UNCHANGED <<arrived, stored, counted, refresh, refreshed, overwritten>> BY DEF HourPasses
<1>2. hour' = hour + 1 /\ hour' \in Hours BY DEF HoursInv, HoursShape, HourPasses
<1>3. hour \in Int /\ 0 .. hour \subseteq 0 .. hour' BY <1>2 DEF HoursInv, HoursShape
<1>4. \A f \in Refreshes : refresh[f] = NoRefresh \/ IsReading(refresh[f])'
  BY <1>1, <1>3 DEF HoursInv, HoursShape, IsReading
<1>5. HoursShape' BY <1>1, <1>2, <1>3, <1>4 DEF HoursInv, HoursShape, IsReading
<1> QED BY <1>1, <1>5 DEF HoursInv, FiguresAreOfClicks, LastHourIsRead, FinalHours, Working

LEMMA DropCampaignKeeps == ASSUME HoursInv, DropCampaign PROVE HoursInv'
<1> USE HoursAreNat DEF Hours
<1>1. UNCHANGED <<hour, arrived, counted, refresh, refreshed, overwritten>> BY DEF DropCampaign
<1>0. \A f \in Refreshes : Working(f)' = Working(f) BY <1>1 DEF Working
<1>2. stored' \in [Hours -> Nat] /\ \A h \in Hours : stored'[h] <= stored[h]
  <2>1. PICK left \in [Hours -> 0 .. MaxPerHour] :
            (\A h \in Hours : left[h] <= stored[h]) /\ stored' = left
    BY DEF DropCampaign
  <2>2. 0 .. MaxPerHour \subseteq Nat BY MachineAssumption
  <2>3. left \in [Hours -> Nat] BY <2>2
  <2> QED BY <2>1, <2>3
<1>3. HoursShape' BY <1>1, <1>2 DEF HoursInv, HoursShape, IsReading
<1>4. \A h \in Hours : stored[h] \in Nat /\ arrived[h] \in Nat /\ counted[h] \in Nat
  BY DEF HoursInv, HoursShape
<1>5. FiguresAreOfClicks'
  <2>1. ASSUME NEW h \in Hours PROVE stored'[h] <= arrived[h]
    <3>1. stored'[h] \in Nat /\ stored'[h] <= stored[h] BY <1>2
    <3>2. stored[h] <= arrived[h] BY DEF HoursInv, FiguresAreOfClicks
    <3> QED BY <1>4, <3>1, <3>2
  <2>2. \A h \in Hours :
          /\ counted[h] <= arrived[h]
          /\ \A f \in Refreshes :
               Working(f) /\ h \in DOMAIN refresh[f].rows => refresh[f].rows[h] <= arrived[h]
    BY DEF HoursInv, FiguresAreOfClicks
  <2> QED BY <1>0, <1>1, <2>1, <2>2 DEF FiguresAreOfClicks
<1>6. LastHourIsRead'
  <2>1. ASSUME NEW f \in Refreshes, Working(f), NEW h \in Hours, h \in DOMAIN refresh[f].rows,
               stored[h] <= refresh[f].rows[h]
        PROVE  stored'[h] <= refresh[f].rows[h]
    <3>1. refresh[f].rows[h] \in Nat BY <2>1, ReadingIs DEF IsReading
    <3>2. stored'[h] \in Nat BY <1>2
    <3> QED BY <1>2, <1>4, <2>1, <3>1, <3>2
  <2>2. ASSUME NEW h \in Hours, stored[h] = 0 PROVE stored'[h] = 0
    BY <1>2, <1>4, <2>2
  <2> QED BY <1>0, <1>1, <2>1, <2>2 DEF HoursInv, LastHourIsRead
<1>7. FinalHours'
  <2>1. ASSUME NEW h \in Hours, h + 1 \in refreshed, h \notin overwritten PROVE stored'[h] <= counted[h]
    <3>1. stored'[h] \in Nat /\ stored'[h] <= stored[h] BY <1>2
    <3>2. stored[h] <= counted[h] BY <2>1 DEF HoursInv, FinalHours
    <3> QED BY <1>4, <3>1, <3>2
  <2> QED BY <1>1, <2>1 DEF FinalHours
<1> QED BY <1>3, <1>5, <1>6, <1>7 DEF HoursInv

LEMMA BeginRefreshKeeps == ASSUME HoursInv, NEW f \in Refreshes, BeginRefresh(f) PROVE HoursInv'
<1> USE HoursAreNat DEF Hours
<1>1. UNCHANGED <<hour, arrived, stored, counted, refreshed, overwritten>>
  BY DEF BeginRefresh, ReadsIn
<1> DEFINE read == Recounted({hour - 1, hour})
           begun == [rows |-> [h \in read |-> stored[h]], at |-> hour]
<1>2. refresh' = [refresh EXCEPT ![f] = begun] BY DEF BeginRefresh, ReadsIn
<1>3. begun.at = hour /\ DOMAIN begun.rows = read /\ \A h \in read : begun.rows[h] = stored[h]
  OBVIOUS
<1>4. read \subseteq {hour - 1, hour} \cap Hours
      /\ \A h \in Hours : h + 1 = hour => (h \in read <=> stored[h] > 0)
  BY DEF HoursInv, HoursShape, Recounted
<1>5. refresh = [g \in Refreshes |-> refresh[g]] BY DEF HoursInv, HoursShape
<1> HIDE DEF read, begun
<1>6. refresh' = [g \in Refreshes |-> IF g = f THEN begun ELSE refresh[g]] BY <1>2, <1>5
<1>7. \A g \in Refreshes : refresh'[g] = IF g = f THEN begun ELSE refresh[g] BY <1>6
<1>8. \A g \in Refreshes \ {f} : refresh'[g] = refresh[g] /\ Working(g)' = Working(g)
  BY <1>7 DEF Working
<1>9. refresh'[f] = begun BY <1>7
<1>10. HoursShape'
  <2>1. /\ hour \in Hours /\ refreshed \subseteq 0 .. hour /\ stored \in [Hours -> Nat]
        /\ arrived \in [Hours -> Nat] /\ counted \in [Hours -> Nat]
    BY DEF HoursInv, HoursShape
  <2>2. hour \in 0 .. hour /\ hour \in Int BY <2>1
  <2>3. \A h \in read : begun.rows[h] \in Nat BY <1>3, <1>4, <2>1
  <2>4. IsReading(begun) BY <1>3, <1>4, <2>2, <2>3 DEF IsReading
  <2>5. \A g \in Refreshes : refresh'[g] = NoRefresh \/ IsReading(refresh'[g])
    BY <1>7, <2>4 DEF HoursInv, HoursShape
  <2>6. refresh' = [g \in Refreshes |-> refresh'[g]] BY <1>6
  <2> QED BY <1>1, <2>1, <2>5, <2>6, <1>1 DEF HoursShape, IsReading
<1>11. FiguresAreOfClicks' BY <1>1, <1>3, <1>4, <1>8, <1>9 DEF HoursInv, FiguresAreOfClicks
<1>12. LastHourIsRead'
  <2>1. ASSUME NEW h \in Hours, h + 1 = begun.at
        PROVE  IF h \in DOMAIN begun.rows THEN stored[h] <= begun.rows[h] ELSE stored[h] = 0
    <3>1. stored[h] \in Nat BY DEF HoursInv, HoursShape
    <3> QED BY <2>1, <1>3, <1>4, <3>1
  <2> QED BY <1>1, <1>8, <1>9, <2>1 DEF HoursInv, LastHourIsRead
<1>13. FinalHours' BY <1>1 DEF HoursInv, FinalHours
<1> QED BY <1>10, <1>11, <1>12, <1>13 DEF HoursInv

\* A statement that ends leaves the others as they are.
LEMMA Ended ==
    ASSUME HoursInv, NEW f \in Refreshes, refresh' = [refresh EXCEPT ![f] = NoRefresh]
    PROVE  /\ refresh' = [g \in Refreshes |-> refresh'[g]]
           /\ ~Working(f)' /\ refresh'[f] = NoRefresh
           /\ \A g \in Refreshes \ {f} : refresh'[g] = refresh[g] /\ Working(g)' = Working(g)
<1>1. refresh = [g \in Refreshes |-> refresh[g]] BY DEF HoursInv, HoursShape
<1>2. refresh' = [g \in Refreshes |-> IF g = f THEN NoRefresh ELSE refresh[g]] BY <1>1
<1>3. \A g \in Refreshes : refresh'[g] = IF g = f THEN NoRefresh ELSE refresh[g] BY <1>2
<1> QED BY <1>2, <1>3, NoneAtWork DEF Working

LEMMA StoreCountsKeeps == ASSUME HoursInv, NEW f \in Refreshes, StoreCounts(f) PROVE HoursInv'
<1> USE HoursAreNat DEF Hours
<1> DEFINE done == refresh[f]
           late == {h \in DOMAIN done.rows : h = done.at /\ h + 1 \in refreshed}
<1>1. UNCHANGED <<hour, arrived, stored>> BY DEF StoreCounts
<1>2. IsReading(done) /\ Working(f)
  BY DEF StoreCounts, HoursInv, HoursShape, IsReading, Working
<1>3. /\ refreshed' = refreshed \cup {done.at}
      /\ overwritten' = (overwritten \ {done.at - 1}) \cup late
      /\ refresh' = [refresh EXCEPT ![f] = NoRefresh]
  BY DEF StoreCounts
<1>4. /\ ~Working(f)' /\ refresh'[f] = NoRefresh /\ refresh' = [g \in Refreshes |-> refresh'[g]]
      /\ \A g \in Refreshes \ {f} : refresh'[g] = refresh[g] /\ Working(g)' = Working(g)
  BY <1>3, Ended
<1>5. counted' = [h \in Hours |-> IF h \in DOMAIN done.rows THEN done.rows[h] ELSE counted[h]]
  BY DEF StoreCounts
<1>6. \A h \in Hours : counted'[h] = IF h \in DOMAIN done.rows THEN done.rows[h] ELSE counted[h]
  BY <1>5
<1>7. HoursShape'
  <2>1. counted' \in [Hours -> Nat] BY <1>2, <1>5 DEF HoursInv, HoursShape, IsReading
  <2>2. refreshed' \subseteq 0 .. hour BY <1>2, <1>3 DEF HoursInv, HoursShape, IsReading
  <2>3. \A g \in Refreshes : refresh'[g] = NoRefresh \/ IsReading(refresh'[g])
    BY <1>4 DEF HoursInv, HoursShape
  <2>4. hour \in Hours /\ arrived \in [Hours -> Nat] /\ stored \in [Hours -> Nat]
    BY DEF HoursInv, HoursShape
  <2> QED BY <1>1, <1>4, <2>1, <2>2, <2>3, <2>4 DEF HoursShape, IsReading
<1>8. FiguresAreOfClicks' BY <1>1, <1>2, <1>4, <1>6 DEF HoursInv, FiguresAreOfClicks
<1>9. LastHourIsRead' BY <1>1, <1>4 DEF HoursInv, LastHourIsRead
<1>10. FinalHours'
  <2> SUFFICES ASSUME NEW h \in Hours, h + 1 \in refreshed', h \notin overwritten'
               PROVE  stored[h] <= counted'[h]
    BY <1>1 DEF FinalHours
  <2>1. done.at \in Int /\ h \in Int BY <1>2 DEF IsReading, HoursInv, HoursShape
  <2>2. stored[h] \in Nat /\ counted[h] \in Nat BY DEF HoursInv, HoursShape
  <2>3. CASE h + 1 = done.at
    BY <1>2, <1>6, <2>1, <2>2, <2>3 DEF HoursInv, LastHourIsRead
  <2>4. CASE h + 1 # done.at
    <3>1. h + 1 \in refreshed /\ h \notin overwritten BY <1>3, <2>1, <2>4
    <3>2. h \notin DOMAIN done.rows
      <4>1. SUFFICES ASSUME h \in DOMAIN done.rows PROVE FALSE OBVIOUS
      <4>2. h = done.at BY <1>2, <2>1, <2>4, <4>1 DEF IsReading
      <4> QED BY <1>3, <3>1, <4>1, <4>2
    <3> QED BY <1>6, <3>1, <3>2 DEF HoursInv, FinalHours
  <2> QED BY <2>3, <2>4
<1> QED BY <1>7, <1>8, <1>9, <1>10 DEF HoursInv

LEMMA RefreshFailsKeeps == ASSUME HoursInv, NEW f \in Refreshes, RefreshFails(f) PROVE HoursInv'
<1>1. /\ UNCHANGED <<hour, arrived, stored, counted, refreshed, overwritten>>
      /\ refresh' = [refresh EXCEPT ![f] = NoRefresh]
  BY DEF RefreshFails
<1>2. /\ ~Working(f)' /\ refresh'[f] = NoRefresh /\ refresh' = [g \in Refreshes |-> refresh'[g]]
      /\ \A g \in Refreshes \ {f} : refresh'[g] = refresh[g] /\ Working(g)' = Working(g)
  BY <1>1, Ended
<1>3. HoursShape' BY <1>1, <1>2 DEF HoursInv, HoursShape, IsReading
<1> QED BY <1>1, <1>2, <1>3 DEF HoursInv, FiguresAreOfClicks, LastHourIsRead, FinalHours

LEMMA HoursStep == HoursInv /\ [MachineNext]_hoursVars => HoursInv'
<1> SUFFICES ASSUME HoursInv, [MachineNext]_hoursVars PROVE HoursInv' OBVIOUS
<1>1. CASE UNCHANGED hoursVars
  BY <1>1 DEF hoursVars, HoursInv, HoursShape, IsReading, FiguresAreOfClicks, LastHourIsRead,
     FinalHours, Working
<1>2. CASE MachineNext
  BY <1>2, ArriveKeeps, HourPassesKeeps, DropCampaignKeeps, BeginRefreshKeeps,
     StoreCountsKeeps, RefreshFailsKeeps DEF MachineNext
<1> QED BY <1>1, <1>2

-----------------------------------------------------------------------------
(* The tokens of the platforms.  The inductive invariant adds that a run   *)
(* about to store a token of an account nobody took one from holds the     *)
(* last that was issued.                                                   *)

IsConnection(k) == k \in [status: {k.status}, token: {k.token}, expired: {k.expired}]
IsRun(h) == h \in [pc: {h.pc}, all: {h.all}, account: {h.account}, queue: {h.queue},
                   expired: {h.expired}, token: {h.token}, left: {h.left},
                   rows: {h.rows}, sums: {h.sums}]

SyncShape ==
    /\ connection = [a \in Accounts |-> connection[a]]
    /\ \A a \in Accounts : IsConnection(connection[a])
    /\ latest = [a \in Accounts |-> latest[a]]
    /\ sync = [r \in SyncRuns |-> sync[r]]
    /\ \A r \in SyncRuns : IsRun(sync[r])

Storing(r, a) == At(r, "store") /\ sync[r].account = a

TokensInv ==
    /\ TokensAreKept
    /\ \A r \in SyncRuns, a \in Accounts \ lostToken :
          Storing(r, a) => sync[r].token = latest[a]

LEMMA IdleSyncIsRun == IsRun(IdleSync) /\ IdleSync.pc = "idle"
BY DEF IsRun, IdleSync

LEMMA SyncStart == SyncInit => SyncShape /\ TokensInv
<1> SUFFICES ASSUME SyncInit PROVE SyncShape /\ TokensInv OBVIOUS
<1>1. \A r \in SyncRuns : sync[r] = IdleSync BY DEF SyncInit
<1>2. \A a \in Accounts : connection[a] = [status |-> "active", token |-> 0, expired |-> TRUE]
                          /\ latest[a] = 0
  BY DEF SyncInit
<1>3. SyncShape
  <2>1. \A a \in Accounts : IsConnection(connection[a]) BY <1>2 DEF IsConnection
  <2> QED BY <1>1, <2>1, IdleSyncIsRun DEF SyncInit, SyncShape
<1>4. TokensInv BY <1>1, <1>2, IdleSyncIsRun DEF TokensInv, TokensAreKept, Storing, At
<1> QED BY <1>3, <1>4

\* Where a run has the platform's report, and not yet stored all of it.
Reported == {"mappings", "saving", "ads", "finish"}

\* What a step of a run does to the runs.
OnlyRun(r) ==
    /\ sync' = [o \in SyncRuns |-> sync'[o]]
    /\ IsRun(sync'[r])
    /\ \A o \in SyncRuns \ {r} : sync'[o] = sync[o]

LEMMA RunBecomes ==
    ASSUME SyncShape, NEW r \in SyncRuns, NEW h, IsRun(h), sync' = [sync EXCEPT ![r] = h]
    PROVE  OnlyRun(r) /\ sync'[r] = h
BY DEF SyncShape, OnlyRun

LEMMA RunGoes ==
    ASSUME SyncShape, NEW r \in SyncRuns, NEW pc, Goto(r, pc)
    PROVE  OnlyRun(r) /\ sync'[r] = [sync[r] EXCEPT !.pc = pc] /\ sync'[r].pc = pc
<1>1. IsRun(sync[r]) BY DEF SyncShape
<1>2. IsRun([sync[r] EXCEPT !.pc = pc]) /\ [sync[r] EXCEPT !.pc = pc].pc = pc BY <1>1 DEF IsRun
<1>3. sync' = [sync EXCEPT ![r] = [sync[r] EXCEPT !.pc = pc]] BY DEF Goto
<1> QED BY <1>2, <1>3, RunBecomes

LEMMA RunSteps ==
    ASSUME SyncShape, NEW r \in SyncRuns, SyncStep(r)
    PROVE  /\ OnlyRun(r)
           /\ sync'[r].pc = "store" => Refresh(r)
           /\ sync'[r].pc \in Reported => Fetch(r) \/ ReadMappings(r) \/ SaveSnapshot(r) \/ SaveAds(r)
<1> USE DEF Reported
<1> DEFINE h == sync[r]
<1>0. IsRun(h) BY DEF SyncShape
<1>1. CASE StartAll(r)
  <2> DEFINE all == {a \in Accounts : connection[a].status \notin {"disabled", "gone"}}
             new == [IdleSync EXCEPT !.pc = "next", !.all = TRUE, !.queue = all]
  <2>1. sync' = [sync EXCEPT ![r] = new] BY <1>1 DEF StartAll
  <2> HIDE DEF all
  <2>2. IsRun(new) /\ new.pc = "next" BY DEF IsRun, IdleSync
  <2> HIDE DEF new
  <2> QED BY <2>1, <2>2, RunBecomes
<1>2. CASE NextConnection(r)
  <2>1. CASE sync' = [sync EXCEPT ![r] = IdleSync] BY <2>1, IdleSyncIsRun, RunBecomes
  <2>2. ASSUME NEW a \in h.queue,
               sync' = [sync EXCEPT ![r].pc = "find", ![r].account = a, ![r].queue = @ \ {a}]
        PROVE  OnlyRun(r) /\ sync'[r].pc = "find"
    <3> DEFINE new == [h EXCEPT !.pc = "find", !.account = a, !.queue = @ \ {a}]
    <3>1. sync' = [sync EXCEPT ![r] = new] BY <2>2 DEF SyncShape
    <3>2. IsRun(new) /\ new.pc = "find" BY <1>0 DEF IsRun
    <3> HIDE DEF new
    <3> QED BY <3>1, <3>2, RunBecomes
  <2> QED BY <1>2, <2>1, <2>2 DEF NextConnection
<1>3. CASE Find(r)
  <2>1. CASE Goto(r, "failed")
    <3>1. OnlyRun(r) /\ sync'[r].pc = "failed" BY <2>1, RunGoes
    <3> QED BY <3>1
  <2>2. CASE ~Goto(r, "failed")
    <3> DEFINE next == CASE platform \in {"mediago", "openai"} -> "automap"
                         [] platform = "bing" -> "refresh"
                         [] OTHER -> "fetch"
               new == [h EXCEPT !.left = Own(h.account),
                                !.expired = platform = "bing" /\ Conn(r).expired, !.pc = next]
    <3>1. sync' = [sync EXCEPT ![r] = new] BY <1>3, <2>2 DEF Find, SyncShape
    <3>2. next \in {"automap", "refresh", "fetch"} OBVIOUS
    <3> HIDE DEF next
    <3>3. IsRun(new) /\ new.pc = next BY <1>0 DEF IsRun
    <3> HIDE DEF new
    <3> QED BY <3>1, <3>2, <3>3, RunBecomes
  <2> QED BY <2>1, <2>2
<1>4. CASE AutoMapLook(r) \/ AutoMapWrite(r)
  <2> DEFINE e == Min(h.left)
  <2>1. CASE Goto(r, "fetch") \/ Goto(r, "automapWrite")
    <3>1. PICK pc \in {"fetch", "automapWrite"} : Goto(r, pc) BY <2>1
    <3>2. OnlyRun(r) /\ sync'[r].pc = pc BY <3>1, RunGoes
    <3> QED BY <3>2
  <2>2. CASE sync' = [sync EXCEPT ![r].left = @ \ {e}] /\ At(r, "automap")
    <3> DEFINE new == [h EXCEPT !.left = @ \ {e}]
    <3>1. sync' = [sync EXCEPT ![r] = new] BY <2>2 DEF SyncShape
    <3>2. IsRun(new) /\ new.pc = "automap" BY <1>0, <2>2 DEF IsRun, At
    <3> HIDE DEF new
    <3> QED BY <3>1, <3>2, RunBecomes
  <2>3. CASE sync' = [sync EXCEPT ![r].left = @ \ {e}, ![r].pc = "automap"]
    <3> DEFINE new == [h EXCEPT !.left = @ \ {e}, !.pc = "automap"]
    <3>1. sync' = [sync EXCEPT ![r] = new] BY <2>3 DEF SyncShape
    <3>2. IsRun(new) /\ new.pc = "automap" BY <1>0 DEF IsRun
    <3> HIDE DEF new
    <3> QED BY <3>1, <3>2, RunBecomes
  <2> QED BY <1>4, <2>1, <2>2, <2>3 DEF AutoMapLook, AutoMapWrite
<1>5. CASE Refresh(r)
  <2>1. CASE Goto(r, "fetch")
    <3>1. OnlyRun(r) /\ sync'[r].pc = "fetch" BY <2>1, RunGoes
    <3> QED BY <3>1
  <2>2. CASE ~Goto(r, "fetch")
    <3> DEFINE new == [h EXCEPT !.expired = FALSE, !.token = latest'[h.account], !.pc = "store"]
    <3>1. sync' = [sync EXCEPT ![r] = new] BY <1>5, <2>2 DEF Refresh, SyncShape
    <3>2. IsRun(new) /\ new.pc = "store" BY <1>0 DEF IsRun
    <3> HIDE DEF new
    <3> QED BY <1>5, <3>1, <3>2, RunBecomes
  <2> QED BY <2>1, <2>2
<1>6. CASE Store(r)
  <2> DEFINE new == [h EXCEPT !.token = 0, !.pc = "fetch"]
  <2>1. sync' = [sync EXCEPT ![r] = new] BY <1>6 DEF Store, SyncShape
  <2>2. IsRun(new) /\ new.pc = "fetch" BY <1>0 DEF IsRun
  <2> HIDE DEF new
  <2> QED BY <2>1, <2>2, RunBecomes
<1>7. CASE Fetch(r)
  <2>1. PICK answer \in Answers(h.account) :
          sync' = [sync EXCEPT ![r].rows = {<<e, reported[e]>> : e \in answer},
                               ![r].left = {}, ![r].pc = "mappings"]
    BY <1>7 DEF Fetch
  <2> DEFINE rows == {<<e, reported[e]>> : e \in answer}
             new == [h EXCEPT !.rows = rows, !.left = {}, !.pc = "mappings"]
  <2>2. sync' = [sync EXCEPT ![r] = new] BY <2>1 DEF SyncShape
  <2> HIDE DEF rows
  <2>3. IsRun(new) /\ new.pc = "mappings" BY <1>0 DEF IsRun
  <2> HIDE DEF new
  <2> QED BY <1>7, <2>2, <2>3, RunBecomes
<1>8. CASE ReadMappings(r)
  <2> DEFINE sums == SumByTrackerCampaign(h.rows)
             new == [h EXCEPT !.sums = sums, !.rows = {}, !.pc = "saving"]
  <2>1. sync' = [sync EXCEPT ![r] = new] BY <1>8 DEF ReadMappings, SyncShape
  <2> HIDE DEF sums
  <2>2. IsRun(new) /\ new.pc = "saving" BY <1>0 DEF IsRun
  <2> HIDE DEF new
  <2> QED BY <1>8, <2>1, <2>2, RunBecomes
<1>9. CASE SaveSnapshot(r)
  <2>1. CASE DOMAIN h.sums = {}
    <3>1. PICK pc \in {"ads", "finish"} : Goto(r, pc)
      BY <1>9, <2>1 DEF SaveSnapshot
    <3> QED BY <1>9, <3>1, RunGoes
  <2>2. CASE DOMAIN h.sums # {}
    <3>1. PICK c \in DOMAIN h.sums :
            sync' = [sync EXCEPT ![r].sums = [o \in DOMAIN h.sums \ {c} |-> h.sums[o]]]
      BY <1>9, <2>2 DEF SaveSnapshot
    <3> DEFINE rest == [o \in DOMAIN h.sums \ {c} |-> h.sums[o]]
               new == [h EXCEPT !.sums = rest]
    <3>2. sync' = [sync EXCEPT ![r] = new] BY <3>1 DEF SyncShape
    <3> HIDE DEF rest
    <3>3. h.pc = "saving" BY <1>9 DEF SaveSnapshot, At
    <3>4. IsRun(new) /\ new.pc = "saving" BY <1>0, <3>3 DEF IsRun
    <3> HIDE DEF new
    <3> QED BY <1>9, <3>2, <3>4, RunBecomes
  <2> QED BY <2>1, <2>2
<1>10. CASE SaveAds(r)
  <2>1. Goto(r, "finish") BY <1>10 DEF SaveAds
  <2>2. OnlyRun(r) /\ sync'[r].pc = "finish" BY <2>1, RunGoes
  <2> QED BY <1>10, <2>2
<1>11. CASE Finish(r)
  <2>1. CASE h.all
    <3>1. sync' = [sync EXCEPT ![r] = [h EXCEPT !.pc = "next"]] BY <1>11, <2>1 DEF Finish, Done
    <3>2. Goto(r, "next") BY <3>1 DEF Goto, SyncShape
    <3>3. OnlyRun(r) /\ sync'[r].pc = "next" BY <3>2, RunGoes
    <3> QED BY <3>3
  <2>2. CASE ~h.all
    <3>1. sync' = [sync EXCEPT ![r] = IdleSync] BY <1>11, <2>2 DEF Finish, Done
    <3> QED BY <3>1, IdleSyncIsRun, RunBecomes
  <2> QED BY <2>1, <2>2
<1>12. CASE Throw(r)
  <2>1. PICK pc \in {"fetch", "failed"} : Goto(r, pc) BY <1>12 DEF Throw
  <2> QED BY <2>1, RunGoes
<1>13. CASE Handle(r) BY ZenonT(40), <1>13, IdleSyncIsRun, RunBecomes, RunGoes DEF Handle
<1>14. CASE \E a \in Accounts : StartOne(r, a)
  <2>1. PICK a \in Accounts : StartOne(r, a) BY <1>14
  <2> DEFINE new == [IdleSync EXCEPT !.pc = "find", !.account = a]
  <2>2. sync' = [sync EXCEPT ![r] = new] BY <2>1 DEF StartOne
  <2>3. IsRun(new) /\ new.pc = "find" BY DEF IsRun, IdleSync
  <2> HIDE DEF new
  <2> QED BY <2>2, <2>3, RunBecomes
<1> QED BY <1>1, <1>2, <1>3, <1>4, <1>5, <1>6, <1>7, <1>8, <1>9, <1>10, <1>11, <1>12, <1>13, <1>14
        DEF SyncStep

\* The shape outlives every step; a step on a connection's record is one of three.
SetsStatus(x, s) == connection' = [connection EXCEPT ![x].status = s]
SetsToken(x, t, e) == connection' = [connection EXCEPT ![x].token = t, ![x].expired = e]

ConnectionsShape ==
    /\ connection = [a \in Accounts |-> connection[a]]
    /\ \A a \in Accounts : IsConnection(connection[a])

LEMMA StatusIsSet ==
    ASSUME SyncShape, NEW x, NEW s, SetsStatus(x, s)
    PROVE  /\ ConnectionsShape'
           /\ \A a \in Accounts : /\ connection'[a].token = connection[a].token
                                  /\ a # x => connection'[a] = connection[a]
                                  /\ a = x => connection'[a].status = s
<1>1. connection' = [a \in Accounts |-> IF a = x THEN [connection[x] EXCEPT !.status = s]
                                        ELSE connection[a]]
  BY DEF SyncShape, SetsStatus
<1>2. \A a \in Accounts : IsConnection(connection[a]) BY DEF SyncShape
<1>3. \A a \in Accounts : IsConnection(connection'[a]) BY <1>1, <1>2 DEF IsConnection
<1>4. connection' = [a \in Accounts |-> connection'[a]] BY <1>1
<1>5. ConnectionsShape' BY <1>3, <1>4 DEF ConnectionsShape
<1> QED BY <1>1, <1>2, <1>5 DEF IsConnection

LEMMA TokenIsSet ==
    ASSUME SyncShape, NEW x, NEW t, NEW e, SetsToken(x, t, e)
    PROVE  /\ ConnectionsShape'
           /\ \A a \in Accounts : /\ connection'[a].status = connection[a].status
                                  /\ a # x => connection'[a] = connection[a]
                                  /\ a = x => connection'[a].token = t
<1>1. connection' = [a \in Accounts |-> IF a = x THEN [connection[x] EXCEPT !.token = t, !.expired = e]
                                        ELSE connection[a]]
  BY DEF SyncShape, SetsToken
<1>2. \A a \in Accounts : IsConnection(connection[a]) BY DEF SyncShape
<1>3. \A a \in Accounts : IsConnection(connection'[a]) BY <1>1, <1>2 DEF IsConnection
<1>4. connection' = [a \in Accounts |-> connection'[a]] BY <1>1
<1>5. ConnectionsShape' BY <1>3, <1>4 DEF ConnectionsShape
<1> QED BY <1>1, <1>2, <1>5 DEF IsConnection

LEMMA ExpiryIsSet ==
    ASSUME SyncShape, NEW x, NEW e, connection' = [connection EXCEPT ![x].expired = e]
    PROVE  /\ ConnectionsShape'
           /\ \A a \in Accounts : /\ connection'[a].status = connection[a].status
                                  /\ connection'[a].token = connection[a].token
<1>1. connection' = [a \in Accounts |-> IF a = x THEN [connection[x] EXCEPT !.expired = e]
                                        ELSE connection[a]]
  BY DEF SyncShape
<1>2. \A a \in Accounts : IsConnection(connection[a]) BY DEF SyncShape
<1>3. \A a \in Accounts : IsConnection(connection'[a]) BY <1>1, <1>2 DEF IsConnection
<1>4. connection' = [a \in Accounts |-> connection'[a]] BY <1>1
<1>5. ConnectionsShape' BY <1>3, <1>4 DEF ConnectionsShape
<1> QED BY <1>1, <1>2, <1>5 DEF IsConnection

\* Steps that neither issue nor store a token of an account that keeps it.
CarriesOn(a) ==
    /\ latest'[a] = latest[a] /\ connection'[a].token = connection[a].token
    /\ connection[a].status = "gone" => connection'[a].status = "gone"
    /\ \A r \in SyncRuns :
        /\ (sync'[r].pc = "store" /\ sync'[r].account = a) <=> Storing(r, a)
        /\ Storing(r, a) => sync'[r].token = sync[r].token

LEMMA TokensCarry ==
    ASSUME TokensInv, NEW a \in Accounts, a \notin lostToken, CarriesOn(a)
    PROVE  /\ \/ connection'[a].status = "gone" \/ connection'[a].token = latest'[a]
              \/ \E r \in SyncRuns : sync'[r].pc = "store" /\ sync'[r].account = a
                                     /\ sync'[r].token = latest'[a]
           /\ \A r \in SyncRuns : sync'[r].pc = "store" /\ sync'[r].account = a
                                    => sync'[r].token = latest'[a]
<1>1. \A r \in SyncRuns : Storing(r, a) => sync[r].token = latest[a] BY DEF TokensInv
<1>2. \/ connection[a].status = "gone" \/ connection[a].token = latest[a]
      \/ \E r \in SyncRuns : Storing(r, a) /\ sync[r].token = latest[a]
  BY DEF TokensInv, TokensAreKept, Present, Storing
<1> QED BY <1>1, <1>2 DEF CarriesOn

LEMMA TokensAssemble ==
    ASSUME \A a \in Accounts \ lostToken' :
              /\ \/ connection'[a].status = "gone" \/ connection'[a].token = latest'[a]
                 \/ \E r \in SyncRuns : sync'[r].pc = "store" /\ sync'[r].account = a
                                        /\ sync'[r].token = latest'[a]
              /\ \A r \in SyncRuns : sync'[r].pc = "store" /\ sync'[r].account = a
                                       => sync'[r].token = latest'[a]
    PROVE  TokensInv'
BY DEF TokensInv, TokensAreKept, Present, Storing, At

\* The steps of a run, by what they do to the tokens.
Elsewhere(r) ==
    \/ StartAll(r) \/ NextConnection(r) \/ Find(r) \/ AutoMapLook(r) \/ AutoMapWrite(r)
    \/ Fetch(r) \/ ReadMappings(r) \/ SaveSnapshot(r) \/ SaveAds(r) \/ Finish(r) \/ Handle(r)
    \/ \E a \in Accounts : StartOne(r, a)

LEMMA ElsewhereIs ==
    ASSUME SyncShape, NEW r \in SyncRuns, Elsewhere(r)
    PROVE  /\ sync[r].pc # "store" /\ sync'[r].pc # "store" /\ OnlyRun(r)
           /\ latest' = latest /\ lostToken' = lostToken
           /\ \/ connection' = connection
              \/ \E x, s : SetsStatus(x, s) /\ (x \in Accounts => connection[x].status # "gone")
<1>1. sync[r].pc # "store"
  BY DEF Elsewhere, StartAll, NextConnection, Find, AutoMapLook, AutoMapWrite, Fetch, ReadMappings,
         SaveSnapshot, SaveAds, Finish, Handle, StartOne, At
<1>2. ~Refresh(r) 
  BY DEF Elsewhere, Refresh, StartAll, NextConnection, Find, AutoMapLook, AutoMapWrite, Fetch,
         ReadMappings, SaveSnapshot, SaveAds, Finish, Handle, StartOne, At
<1>3. OnlyRun(r) /\ sync'[r].pc # "store" BY <1>2, RunSteps DEF Elsewhere, SyncStep
<1>4. latest' = latest /\ lostToken' = lostToken
  BY DEF Elsewhere, StartAll, NextConnection, Find, AutoMapLook, AutoMapWrite, Fetch, ReadMappings,
         SaveSnapshot, SaveAds, Finish, Handle, StartOne
<1>5. \/ connection' = connection
      \/ \E x, s : SetsStatus(x, s) /\ (x \in Accounts => connection[x].status # "gone")
  <2>1. CASE Finish(r) \/ Handle(r) BY <2>1 DEF Finish, Handle, Conn, SetsStatus
  <2>2. CASE ~(Finish(r) \/ Handle(r))
    BY <2>2 DEF Elsewhere, StartAll, NextConnection, Find, AutoMapLook, AutoMapWrite, Fetch,
                ReadMappings, SaveSnapshot, SaveAds, StartOne
  <2> QED BY <2>1, <2>2
<1> QED BY <1>1, <1>3, <1>4, <1>5

LEMMA ElsewhereKeeps ==
    ASSUME SyncShape, TokensInv, NEW r \in SyncRuns, Elsewhere(r)
    PROVE  ConnectionsShape' /\ TokensInv'
<1>1. /\ sync[r].pc # "store" /\ sync'[r].pc # "store" /\ OnlyRun(r)
      /\ latest' = latest /\ lostToken' = lostToken
  BY ElsewhereIs
<1>2. /\ ConnectionsShape'
      /\ \A a \in Accounts : /\ connection'[a].token = connection[a].token
                             /\ connection[a].status = "gone" => connection'[a].status = "gone"
  <2>1. CASE connection' = connection BY <2>1 DEF SyncShape, ConnectionsShape
  <2>2. ASSUME NEW x, NEW s, SetsStatus(x, s),
               x \in Accounts => connection[x].status # "gone"
        PROVE  <1>2!1 /\ <1>2!2
    <3>1. /\ ConnectionsShape'
          /\ \A a \in Accounts : /\ connection'[a].token = connection[a].token
                                 /\ a # x => connection'[a] = connection[a]
      BY <2>2, StatusIsSet
    <3> QED BY <2>2, <3>1
  <2> QED BY <2>1, <2>2, ElsewhereIs
<1>3. ASSUME NEW a \in Accounts PROVE CarriesOn(a)
  BY <1>1, <1>2 DEF CarriesOn, OnlyRun, Storing, At
<1>4. \A a \in Accounts \ lostToken :
              /\ \/ connection'[a].status = "gone" \/ connection'[a].token = latest'[a]
                 \/ \E o \in SyncRuns : sync'[o].pc = "store" /\ sync'[o].account = a
                                        /\ sync'[o].token = latest'[a]
              /\ \A o \in SyncRuns : sync'[o].pc = "store" /\ sync'[o].account = a
                                       => sync'[o].token = latest'[a]
  BY <1>3, TokensCarry
<1>5. TokensInv' BY <1>1, <1>4, TokensAssemble
<1> QED BY <1>2, <1>5

LEMMA ThrowKeeps ==
    ASSUME SyncShape, TokensInv, NEW r \in SyncRuns, Throw(r)
    PROVE  ConnectionsShape' /\ OnlyRun(r) /\ TokensInv'
<1>1. PICK pc \in {"fetch", "failed"} : Goto(r, pc) BY DEF Throw
<1>2. OnlyRun(r) /\ sync'[r].pc = pc BY <1>1, RunGoes
<1>3. connection' = connection /\ latest' = latest BY DEF Throw
<1>4. lostToken' = IF At(r, "store") THEN lostToken \cup {sync[r].account} ELSE lostToken
  BY DEF Throw
<1>5. ConnectionsShape' BY <1>3 DEF SyncShape, ConnectionsShape
<1>6. ASSUME NEW a \in Accounts \ lostToken'
      PROVE  a \in Accounts /\ a \notin lostToken /\ CarriesOn(a)
  <2>1. a \notin lostToken /\ ~Storing(r, a) BY <1>4, <1>6 DEF Storing
  <2>2. \A o \in SyncRuns \ {r} : sync'[o] = sync[o] BY <1>2 DEF OnlyRun
  <2> QED BY <1>2, <1>3, <2>1, <2>2 DEF CarriesOn, Storing, At
<1>7. \A a \in Accounts \ lostToken' :
              /\ \/ connection'[a].status = "gone" \/ connection'[a].token = latest'[a]
                 \/ \E o \in SyncRuns : sync'[o].pc = "store" /\ sync'[o].account = a
                                        /\ sync'[o].token = latest'[a]
              /\ \A o \in SyncRuns : sync'[o].pc = "store" /\ sync'[o].account = a
                                       => sync'[o].token = latest'[a]
  BY <1>6, TokensCarry
<1>8. TokensInv' BY <1>7, TokensAssemble
<1> QED BY <1>2, <1>5, <1>8

LEMMA StoreKeeps ==
    ASSUME SyncShape, TokensInv, NEW r \in SyncRuns, Store(r)
    PROVE  ConnectionsShape' /\ OnlyRun(r) /\ TokensInv'
<1>a. PICK x, t : x = sync[r].account /\ t = sync[r].token OBVIOUS
<1>1. sync' = [sync EXCEPT ![r] = [sync[r] EXCEPT !.token = 0, !.pc = "fetch"]] /\ At(r, "store")
  BY DEF Store, SyncShape
<1>2. IsRun([sync[r] EXCEPT !.token = 0, !.pc = "fetch"]) BY DEF SyncShape, IsRun
<1>3. OnlyRun(r) /\ sync'[r] = [sync[r] EXCEPT !.token = 0, !.pc = "fetch"]
  BY <1>1, <1>2, RunBecomes
<1>4. sync'[r].pc = "fetch" BY <1>3 DEF SyncShape, IsRun
<1>5. latest' = latest /\ lostToken' = lostToken BY DEF Store
<1>6. SetsToken(x, t, FALSE) BY <1>a DEF Store, SetsToken
<1>7. /\ ConnectionsShape'
      /\ \A a \in Accounts : /\ a # x => connection'[a] = connection[a]
                             /\ a = x => connection'[a].token = t
  BY ZenonT(40), <1>6, TokenIsSet
<1>8. \A o \in SyncRuns \ {r} : sync'[o] = sync[o] BY <1>3 DEF OnlyRun
<1>9. ASSUME NEW a \in Accounts \ lostToken'
      PROVE  /\ \/ connection'[a].status = "gone" \/ connection'[a].token = latest'[a]
                \/ \E o \in SyncRuns : sync'[o].pc = "store" /\ sync'[o].account = a
                                       /\ sync'[o].token = latest'[a]
             /\ \A o \in SyncRuns : sync'[o].pc = "store" /\ sync'[o].account = a
                                      => sync'[o].token = latest'[a]
  <2>1. CASE a = x
    <3>1. \A o \in SyncRuns : Storing(o, a) => sync[o].token = latest[a]
      BY <1>5, <1>9 DEF TokensInv
    <3>2. t = latest[a] BY <1>a, <1>1, <2>1, <3>1 DEF Storing
    <3> QED BY <1>4, <1>5, <1>7, <1>8, <2>1, <3>1, <3>2 DEF Storing, At
  <2>2. CASE a # x
    <3>1. CarriesOn(a) BY <1>a, <1>4, <1>5, <1>7, <1>8, <2>2 DEF CarriesOn, Storing, At
    <3> QED BY <1>5, <1>9, <3>1, TokensCarry
  <2> QED BY <2>1, <2>2
<1>10. TokensInv' BY <1>9, TokensAssemble
<1> QED BY <1>3, <1>7, <1>10

LEMMA RefreshKeeps ==
    ASSUME SyncShape, TokensInv, NEW r \in SyncRuns, Refresh(r)
    PROVE  ConnectionsShape' /\ OnlyRun(r) /\ TokensInv'
<1> DEFINE x == sync[r].account
<1>0. ConnectionsShape' /\ connection' = connection /\ At(r, "refresh")
  BY DEF Refresh, SyncShape, ConnectionsShape
<1>1. OnlyRun(r) BY RunSteps DEF SyncStep
<1>2. \A o \in SyncRuns \ {r} : sync'[o] = sync[o] BY <1>1 DEF OnlyRun
<1>3. ASSUME NEW a \in Accounts \ lostToken'
      PROVE  /\ \/ connection'[a].status = "gone" \/ connection'[a].token = latest'[a]
                \/ \E o \in SyncRuns : sync'[o].pc = "store" /\ sync'[o].account = a
                                       /\ sync'[o].token = latest'[a]
             /\ \A o \in SyncRuns : sync'[o].pc = "store" /\ sync'[o].account = a
                                      => sync'[o].token = latest'[a]
  <2>0. a \notin lostToken BY <1>3 DEF Refresh
  <2>1. CASE Goto(r, "fetch") /\ latest' = latest
    <3>1. sync'[r].pc = "fetch" BY <2>1, RunGoes
    <3>2. CarriesOn(a) BY <1>0, <1>2, <2>1, <3>1 DEF CarriesOn, Storing, At
    <3> QED BY <2>0, <3>2, TokensCarry
  <2>2. CASE ~(Goto(r, "fetch") /\ latest' = latest)
    <3>1. /\ latest' = [latest EXCEPT ![x] = @ + 1]
          /\ sync' = [sync EXCEPT ![r] = [sync[r] EXCEPT !.expired = FALSE,
                                           !.token = latest'[x], !.pc = "store"]]
      BY <2>2 DEF Refresh, SyncShape
    <3>2. lostToken' = IF \E o \in SyncRuns \ {r} : At(o, "store") /\ sync[o].account = x
                       THEN lostToken \cup {x} ELSE lostToken
      BY <2>2 DEF Refresh
    <3>3. sync'[r] = [sync[r] EXCEPT !.expired = FALSE, !.token = latest'[x], !.pc = "store"]
      BY <3>1 DEF SyncShape
    <3>4. sync'[r].account = x /\ sync'[r].token = latest'[x] /\ sync'[r].pc = "store"
      BY <3>3 DEF SyncShape, IsRun
    <3>5. CASE a = x
      <4>1. \A o \in SyncRuns \ {r} : ~Storing(o, a) BY <1>3, <3>2, <3>5 DEF Storing
      <4>2. \A o \in SyncRuns : sync'[o].pc = "store" /\ sync'[o].account = a => o = r
        BY <1>2, <4>1 DEF Storing, At
      <4> QED BY <3>4, <3>5, <4>2
    <3>6. CASE a # x
      <4>1. latest'[a] = latest[a] BY <3>1, <3>6 DEF SyncShape
      <4>2. CarriesOn(a) BY <1>0, <1>2, <3>4, <3>6, <4>1 DEF CarriesOn, Storing, At
      <4> QED BY <2>0, <4>2, TokensCarry
    <3> QED BY <3>5, <3>6
  <2> QED BY <2>1, <2>2
<1>4. TokensInv' BY <1>3, TokensAssemble
<1> QED BY <1>0, <1>1, <1>4

LEMMA RunKeeps ==
    ASSUME SyncShape, TokensInv, NEW r \in SyncRuns, SyncStep(r)
    PROVE  SyncShape' /\ TokensInv'
<1>1. ConnectionsShape' /\ OnlyRun(r) /\ TokensInv'
  <2>1. CASE Elsewhere(r) BY <2>1, ElsewhereIs, ElsewhereKeeps
  <2>2. CASE Refresh(r) BY <2>2, RefreshKeeps
  <2>3. CASE Store(r) BY <2>3, StoreKeeps
  <2>4. CASE Throw(r) BY <2>4, ThrowKeeps
  <2> QED BY <2>1, <2>2, <2>3, <2>4 DEF SyncStep, Elsewhere
<1>2. latest' = [a \in Accounts |-> latest'[a]]
  <2>1. CASE Refresh(r) BY <2>1 DEF Refresh, SyncShape
  <2>2. CASE Store(r) \/ Throw(r) BY <2>2 DEF Store, Throw, SyncShape
  <2>3. CASE Elsewhere(r) BY <2>3, ElsewhereIs DEF SyncShape
  <2> QED BY <2>1, <2>2, <2>3 DEF SyncStep, Elsewhere
<1>3. SyncShape'
  <2>1. \A o \in SyncRuns : IsRun(sync'[o]) BY <1>1 DEF OnlyRun, SyncShape
  <2> QED BY <1>1, <1>2, <2>1 DEF SyncShape, ConnectionsShape, OnlyRun
<1> QED BY <1>1, <1>3

\* What the operator and the platform do leaves the runs alone.
Meanwhile ==
    \/ \E a \in Accounts :
        \/ \E status \in {"active", "disabled", "gone"} : SetStatus(a, status)
        \/ EditCredentials(a) \/ Expire(a) \/ TestConnection(a)
    \/ \E e \in PlatformCampaigns :
        \/ \E c \in TrackerCampaigns : CreateMapping(e, c)
        \/ DeleteMapping(e) \/ Grow(e)
    \/ \E c \in TrackerCampaigns : ManualSpend(c)
    \/ Control

LEMMA OthersKeep ==
    ASSUME SyncShape, TokensInv, Meanwhile
    PROVE  SyncShape' /\ TokensInv'
<1>0. sync' = sync
  BY DEF Meanwhile, SetStatus, EditCredentials, Expire, TestConnection, CreateMapping,
         DeleteMapping, Grow, ManualSpend, Control
<1> USE <1>0
<1>1. ASSUME latest' = latest, lostToken' = lostToken, ConnectionsShape',
             \A a \in Accounts : /\ connection'[a].token = connection[a].token
                                 /\ connection[a].status = "gone" => connection'[a].status = "gone"
      PROVE  SyncShape' /\ TokensInv'
  <2>1. SyncShape' BY <1>1 DEF SyncShape, ConnectionsShape
  <2>2. \A a \in Accounts : CarriesOn(a) BY <1>1 DEF CarriesOn, Storing, At
  <2>3. \A a \in Accounts \ lostToken :
              /\ \/ connection'[a].status = "gone" \/ connection'[a].token = latest'[a]
                 \/ \E o \in SyncRuns : sync'[o].pc = "store" /\ sync'[o].account = a
                                        /\ sync'[o].token = latest'[a]
              /\ \A o \in SyncRuns : sync'[o].pc = "store" /\ sync'[o].account = a
                                       => sync'[o].token = latest'[a]
    BY <2>2, TokensCarry
  <2> QED BY <1>1, <2>1, <2>3, TokensAssemble
<1>2. ASSUME NEW x \in Accounts, NEW s, SetStatus(x, s) PROVE SyncShape' /\ TokensInv'
  <2>1. SetsStatus(x, s) /\ connection[x].status # "gone" BY <1>2 DEF SetStatus, SetsStatus, Present
  <2>2. /\ ConnectionsShape'
        /\ \A a \in Accounts : /\ connection'[a].token = connection[a].token
                               /\ a # x => connection'[a] = connection[a]
    BY <2>1, StatusIsSet
  <2>3. latest' = latest /\ lostToken' = lostToken BY <1>2 DEF SetStatus
  <2> QED BY <1>1, <2>1, <2>2, <2>3
<1>3. ASSUME NEW x \in Accounts, EditCredentials(x) PROVE SyncShape' /\ TokensInv'
  <2>1. latest' = [latest EXCEPT ![x] = @ + 1] BY <1>3 DEF EditCredentials
  <2>2. PICK t : t = latest'[x] OBVIOUS
  <2>3. SetsToken(x, t, TRUE) BY <1>3, <2>2 DEF EditCredentials, SetsToken
  <2>4. /\ ConnectionsShape'
        /\ \A a \in Accounts : /\ a # x => connection'[a] = connection[a]
                               /\ a = x => connection'[a].token = t
    BY ZenonT(40), <2>3, TokenIsSet
  <2>5. lostToken' = IF HoldsToken(x) THEN lostToken \cup {x} ELSE lostToken \ {x}
    BY <1>3 DEF EditCredentials
  <2>6. ASSUME NEW a \in Accounts \ lostToken'
        PROVE  /\ \/ connection'[a].status = "gone" \/ connection'[a].token = latest'[a]
                  \/ \E o \in SyncRuns : sync'[o].pc = "store" /\ sync'[o].account = a
                                         /\ sync'[o].token = latest'[a]
               /\ \A o \in SyncRuns : sync'[o].pc = "store" /\ sync'[o].account = a
                                        => sync'[o].token = latest'[a]
    <3>1. CASE a = x
      <4>1. ~HoldsToken(a) BY <2>5, <2>6, <3>1
      <4>2. \A o \in SyncRuns : ~(sync'[o].pc = "store" /\ sync'[o].account = a)
        BY <4>1 DEF HoldsToken
      <4> QED BY <2>2, <2>4, <3>1, <4>2
    <3>2. CASE a # x
      <4>1. a \notin lostToken BY <2>5, <2>6, <3>2
      <4>2. latest'[a] = latest[a] BY <2>1, <3>2 DEF SyncShape
      <4>3. CarriesOn(a) BY <2>4, <3>2, <4>2 DEF CarriesOn, Storing, At
      <4> QED BY <4>1, <4>3, TokensCarry
    <3> QED BY <3>1, <3>2
  <2>7. latest' = [a \in Accounts |-> latest'[a]] BY <2>1 DEF SyncShape
  <2>8. SyncShape' BY <2>4, <2>7 DEF SyncShape, ConnectionsShape
  <2> QED BY <2>6, <2>8, TokensAssemble
<1>4. ASSUME NEW x \in Accounts, Expire(x) PROVE SyncShape' /\ TokensInv'
  <2>1. connection' = [connection EXCEPT ![x].expired = TRUE] BY <1>4 DEF Expire
  <2>2. /\ ConnectionsShape'
        /\ \A a \in Accounts : /\ connection'[a].status = connection[a].status
                               /\ connection'[a].token = connection[a].token
    BY <2>1, ExpiryIsSet
  <2>3. latest' = latest /\ lostToken' = lostToken BY <1>4 DEF Expire
  <2> QED BY <1>1, <2>2, <2>3
<1>5. ASSUME NEW x \in Accounts, TestConnection(x) PROVE SyncShape' /\ TokensInv'
  <2>1. /\ latest' = [latest EXCEPT ![x] = @ + 1] /\ lostToken' = lostToken \cup {x}
        /\ connection' = connection
    BY <1>5 DEF TestConnection
  <2>2. \A a \in Accounts \ lostToken' : a \notin lostToken /\ latest'[a] = latest[a]
    BY <2>1 DEF SyncShape
  <2>3. \A a \in Accounts \ lostToken' : CarriesOn(a)
    BY <2>1, <2>2 DEF CarriesOn, Storing, At
  <2>4. \A a \in Accounts \ lostToken' :
              /\ \/ connection'[a].status = "gone" \/ connection'[a].token = latest'[a]
                 \/ \E o \in SyncRuns : sync'[o].pc = "store" /\ sync'[o].account = a
                                        /\ sync'[o].token = latest'[a]
              /\ \A o \in SyncRuns : sync'[o].pc = "store" /\ sync'[o].account = a
                                       => sync'[o].token = latest'[a]
    BY <2>2, <2>3, TokensCarry
  <2>5. latest' = [a \in Accounts |-> latest'[a]] BY <2>1 DEF SyncShape
  <2>6. SyncShape' BY <2>1, <2>5 DEF SyncShape
  <2> QED BY <2>4, <2>6, TokensAssemble
<1>6. CASE connection' = connection /\ latest' = latest /\ lostToken' = lostToken
  <2>1. ConnectionsShape' BY <1>6 DEF SyncShape, ConnectionsShape
  <2> QED BY <1>1, <1>6, <2>1
<1> QED
  BY <1>2, <1>3, <1>4, <1>5, <1>6
     DEF Meanwhile, CreateMapping, DeleteMapping, Grow, ManualSpend, Control

LEMMA RestartKeeps ==
    ASSUME SyncShape, TokensInv, SyncRestart
    PROVE  SyncShape' /\ TokensInv'
<1>1. /\ sync' = [r \in SyncRuns |-> IdleSync] /\ latest' = latest /\ connection' = connection
      /\ lostToken' = lostToken \cup {a \in Accounts : HoldsToken(a)}
  BY DEF SyncRestart
<1>2. \A r \in SyncRuns : IsRun(sync'[r]) /\ sync'[r].pc = "idle" BY <1>1, IdleSyncIsRun
<1>3. sync' = [r \in SyncRuns |-> sync'[r]] BY <1>1
<1>4. SyncShape' BY <1>1, <1>2, <1>3 DEF SyncShape
<1>5. \A a \in Accounts \ lostToken' : a \notin lostToken /\ CarriesOn(a)
  BY <1>1, <1>2 DEF CarriesOn, Storing, At, HoldsToken
<1>6. \A a \in Accounts \ lostToken' :
              /\ \/ connection'[a].status = "gone" \/ connection'[a].token = latest'[a]
                 \/ \E o \in SyncRuns : sync'[o].pc = "store" /\ sync'[o].account = a
                                        /\ sync'[o].token = latest'[a]
              /\ \A o \in SyncRuns : sync'[o].pc = "store" /\ sync'[o].account = a
                                       => sync'[o].token = latest'[a]
  BY <1>5, TokensCarry
<1> QED BY <1>4, <1>6, TokensAssemble

LEMMA SyncNextIs == SyncNext => (\E r \in SyncRuns : SyncStep(r)) \/ Meanwhile \/ SyncRestart
BY DEF SyncNext, Meanwhile

LEMMA TokensStep == SyncShape /\ TokensInv /\ [SyncNext]_syncVars => SyncShape' /\ TokensInv'
<1> SUFFICES ASSUME SyncShape, TokensInv, [SyncNext]_syncVars PROVE SyncShape' /\ TokensInv'
  OBVIOUS
<1>1. CASE UNCHANGED syncVars
  BY <1>1 DEF syncVars, SyncShape, TokensInv, TokensAreKept, Storing, At, Present
<1>2. CASE SyncNext BY <1>2, SyncNextIs, RunKeeps, OthersKeep, RestartKeeps
<1> QED BY <1>1, <1>2

-----------------------------------------------------------------------------
(* The spend.  What a run nobody disturbed has yet to store, or has stored, *)
(* of a tracker campaign is the sum of what is mapped to it.               *)

Mine(a, c) == {e \in Own(a) : mapping[e] = c}
RowsOf(E) == {<<e, reported[e]>> : e \in E}
Owed(a, c) == SpentIn(RowsOf(Mine(a, c)))

SumSoFar(r) ==
    LET a == sync[r].account IN
    /\ At(r, "mappings") => sync[r].rows = RowsOf(Own(a))
    /\ \A c \in TrackerCampaigns : Mine(a, c) # {} =>
        /\ At(r, "saving") => IF c \in DOMAIN sync[r].sums
                              THEN sync[r].sums[c] = Owed(a, c) ELSE spend[c] = Owed(a, c)
        /\ sync[r].pc \in {"ads", "finish"} => spend[c] = Owed(a, c)

SumsInv ==
    /\ spend = [c \in TrackerCampaigns |-> spend[c]]
    /\ \A r \in undisturbed \cap SyncRuns :
          Readable(sync[r].account) /\ platform # "taboola" => SumSoFar(r)
    /\ undisturbed \subseteq SyncRuns

LEMMA SumsInvImplies == SumsInv => SpendIsTheSum
BY DEF SumsInv, SumSoFar, SpendIsTheSum, Mine, Owed, RowsOf, At

LEMMA SumsStart == SyncInit => SumsInv
BY DEF SyncInit, SumsInv, NoRows

\* A report whose campaigns fit in the page that is read is whole.
LEMMA FirstPageIsAll ==
    ASSUME NEW a, Cardinality(Own(a)) <= FirstPage
    PROVE  FirstPageReport(a) = {Own(a)}
<1>1. IsFiniteSet(Own(a)) BY SyncAssumption, FS_Subset DEF Own
<1>2. Cardinality(Own(a)) \in Nat /\ FirstPage \in Nat BY <1>1, FS_CardinalityType, SyncAssumption
<1>3. ASSUME NEW e \in Own(a) PROVE Cardinality({d \in Own(a) : d < e}) < FirstPage
  <2> DEFINE below == {d \in Own(a) : d < e}
  <2>1. below \in SUBSET Own(a) /\ e \notin below
    BY SyncAssumption DEF Own
  <2> HIDE DEF below
  <2>2. /\ IsFiniteSet(below) /\ Cardinality(below) <= Cardinality(Own(a))
        /\ Cardinality(Own(a)) = Cardinality(below) => Own(a) = below
    BY <1>1, <2>1, FS_Subset
  <2>3. Cardinality(below) \in Nat BY <2>2, FS_CardinalityType
  <2>4. Cardinality(below) # Cardinality(Own(a)) BY <2>1, <2>2
  <2>5. Cardinality(below) < FirstPage BY <1>2, <2>2, <2>3, <2>4
  <2> QED BY <2>5 DEF below
<1>4. {e \in Own(a) : Cardinality({d \in Own(a) : d < e}) < FirstPage} = Own(a) BY <1>3
<1> QED BY <1>4 DEF FirstPageReport

LEMMA AnswersAreWhole ==
    ASSUME NEW a, Readable(a), platform # "taboola", NEW answer \in Answers(a)
    PROVE  answer = Own(a)
<1>1. CASE platform = "facebook"
  <2>1. Cardinality(Own(a)) <= FirstPage BY <1>1 DEF Readable
  <2>2. Answers(a) = FirstPageReport(a) BY <1>1 DEF Answers
  <2> QED BY <2>1, <2>2, FirstPageIsAll
<1>2. CASE platform # "facebook" BY <1>2 DEF Answers, WholeReport
<1> QED BY <1>1, <1>2

\* A run that is left alone by a step keeps what it has.
LEMMA SumCarries ==
    ASSUME NEW r \in SyncRuns, SumSoFar(r), sync'[r] = sync[r],
           UNCHANGED <<mapping, reported, spend>>
    PROVE  SumSoFar(r)'
BY DEF SumSoFar, At, Mine, Owed, RowsOf

LEMMA FetchSums ==
    ASSUME SyncShape, NEW r \in SyncRuns, Fetch(r), Readable(sync[r].account), platform # "taboola"
    PROVE  SumSoFar(r)'
<1>a. PICK a : a = sync[r].account OBVIOUS
<1>1. PICK answer \in Answers(a) :
        sync' = [sync EXCEPT ![r].rows = {<<e, reported[e]>> : e \in answer},
                             ![r].left = {}, ![r].pc = "mappings"]
  BY <1>a DEF Fetch
<1>2. answer = Own(a) BY <1>a, AnswersAreWhole
<1>3. sync' = [sync EXCEPT ![r].rows = RowsOf(Own(a)), ![r].left = {}, ![r].pc = "mappings"]
  BY <1>1, <1>2 DEF RowsOf
<1>4. sync'[r] = [sync[r] EXCEPT !.rows = RowsOf(Own(a)), !.left = {}, !.pc = "mappings"]
  BY <1>3 DEF SyncShape
<1>5. sync'[r].rows = RowsOf(Own(a)) /\ sync'[r].pc = "mappings" /\ sync'[r].account = a
  BY <1>a, <1>4 DEF SyncShape, IsRun
<1>6. reported' = reported BY DEF Fetch, OnWorld
<1>7. RowsOf(Own(a))' = RowsOf(Own(a)) BY <1>6 DEF RowsOf
<1> QED BY <1>5, <1>7 DEF SumSoFar, At

LEMMA ReadSums ==
    ASSUME SyncShape, NEW r \in SyncRuns, ReadMappings(r), SumSoFar(r)
    PROVE  SumSoFar(r)'
<1>a. PICK a : a = sync[r].account OBVIOUS
<1>1. At(r, "mappings") /\ UNCHANGED <<mapping, reported, spend>> BY DEF ReadMappings, OnWorld
<1> DEFINE sums == SumByTrackerCampaign(sync[r].rows)
<1>2. sync'[r] = [sync[r] EXCEPT !.sums = sums, !.rows = {}, !.pc = "saving"]
  BY DEF ReadMappings, SyncShape
<1> HIDE DEF sums
<1>3. sync'[r].sums = sums /\ sync'[r].pc = "saving" /\ sync'[r].account = a
  BY <1>a, <1>2 DEF SyncShape, IsRun
<1>4. sync[r].rows = RowsOf(Own(a)) BY <1>a, <1>1 DEF SumSoFar
<1>5. ASSUME NEW c \in TrackerCampaigns, Mine(a, c) # {}
      PROVE  c \in DOMAIN sums /\ sums[c] = Owed(a, c)
  <2>1. RowsFor(sync[r].rows, c) = RowsOf(Mine(a, c)) BY <1>4 DEF RowsFor, RowsOf, Mine
  <2>2. RowsOf(Mine(a, c)) # {} BY <1>5 DEF RowsOf
  <2>3. c \in Mapped(sync[r].rows) BY <2>1, <2>2 DEF Mapped
  <2>4. sums = [d \in Mapped(sync[r].rows) |-> SpentIn(RowsFor(sync[r].rows, d))]
    BY DEF sums, SumByTrackerCampaign
  <2> QED BY <2>1, <2>3, <2>4 DEF Owed
<1>6. \A c : Mine(a, c)' = Mine(a, c) /\ Owed(a, c)' = Owed(a, c)
  BY <1>1 DEF Mine, Owed, RowsOf
<1> QED BY <1>3, <1>5, <1>6 DEF SumSoFar, At

LEMMA SaveSums ==
    ASSUME SyncShape, SumsInv, NEW r \in SyncRuns, SaveSnapshot(r), SumSoFar(r)
    PROVE  SumSoFar(r)'
<1>a. PICK a : a = sync[r].account OBVIOUS
<1>1. At(r, "saving") /\ UNCHANGED <<mapping, reported>> BY DEF SaveSnapshot, OnWorld
<1>2. \A c : Mine(a, c)' = Mine(a, c) /\ Owed(a, c)' = Owed(a, c)
  BY <1>1 DEF Mine, Owed, RowsOf
<1>3. ASSUME NEW c \in TrackerCampaigns, Mine(a, c) # {}
      PROVE  IF c \in DOMAIN sync[r].sums THEN sync[r].sums[c] = Owed(a, c) ELSE spend[c] = Owed(a, c)
  BY <1>a, <1>1, <1>3 DEF SumSoFar
<1>4. CASE DOMAIN sync[r].sums = {}
  <2>1. PICK pc \in {"ads", "finish"} : Goto(r, pc) BY <1>4 DEF SaveSnapshot
  <2>2. sync'[r] = [sync[r] EXCEPT !.pc = pc] /\ sync'[r].pc = pc BY <2>1, RunGoes
  <2>3. sync'[r].account = a BY <1>a, <2>2 DEF SyncShape, IsRun
  <2>4. spend' = spend BY <1>4 DEF SaveSnapshot
  <2>5. \A c \in TrackerCampaigns : Mine(a, c) # {} => spend'[c] = Owed(a, c)
    BY <1>3, <1>4, <2>4
  <2> QED BY <1>2, <2>2, <2>3, <2>5 DEF SumSoFar, At
<1>5. CASE DOMAIN sync[r].sums # {}
  <2>1. PICK d \in DOMAIN sync[r].sums :
          /\ spend' = [spend EXCEPT ![d] = sync[r].sums[d]]
          /\ sync' = [sync EXCEPT ![r].sums = [o \in DOMAIN sync[r].sums \ {d} |-> sync[r].sums[o]]]
    BY <1>5 DEF SaveSnapshot
  <2> DEFINE rest == [o \in DOMAIN sync[r].sums \ {d} |-> sync[r].sums[o]]
  <2>2. sync'[r] = [sync[r] EXCEPT !.sums = rest] BY <2>1 DEF SyncShape
  <2>3. DOMAIN rest = DOMAIN sync[r].sums \ {d} /\ \A c \in DOMAIN rest : rest[c] = sync[r].sums[c]
    OBVIOUS
  <2> HIDE DEF rest
  <2>4. sync'[r].sums = rest /\ sync'[r].pc = "saving" /\ sync'[r].account = a
    BY <1>a, <1>1, <2>2 DEF SyncShape, IsRun, At
  <2>5. \A c \in TrackerCampaigns :
          /\ c = d => spend'[c] = sync[r].sums[d]
          /\ c # d => spend'[c] = spend[c]
    BY <2>1 DEF SumsInv
  <2>6. ASSUME NEW c \in TrackerCampaigns, Mine(a, c) # {}
        PROVE  IF c \in DOMAIN rest THEN rest[c] = Owed(a, c) ELSE spend'[c] = Owed(a, c)
    <3>1. CASE c = d BY <1>3, <2>1, <2>3, <2>5, <2>6, <3>1
    <3>2. CASE c # d BY <1>3, <2>3, <2>5, <2>6, <3>2
    <3> QED BY <3>1, <3>2
  <2> QED BY <1>2, <2>4, <2>6 DEF SumSoFar, At
<1> QED BY <1>4, <1>5

LEMMA AdsSums ==
    ASSUME SyncShape, NEW r \in SyncRuns, SaveAds(r), SumSoFar(r)
    PROVE  SumSoFar(r)'
<1>a. PICK a : a = sync[r].account OBVIOUS
<1>1. At(r, "ads") /\ Goto(r, "finish") /\ UNCHANGED <<mapping, reported, spend>>
  BY DEF SaveAds, OnWorld
<1>2. sync'[r] = [sync[r] EXCEPT !.pc = "finish"] /\ sync'[r].pc = "finish" BY <1>1, RunGoes
<1>3. sync'[r].account = a BY <1>a, <1>2 DEF SyncShape, IsRun
<1>4. \A c : Mine(a, c)' = Mine(a, c) /\ Owed(a, c)' = Owed(a, c)
  BY <1>1 DEF Mine, Owed, RowsOf
<1>5. \A c \in TrackerCampaigns : Mine(a, c) # {} => spend'[c] = Owed(a, c)
  BY <1>a, <1>1 DEF SumSoFar, At
<1> QED BY <1>2, <1>3, <1>4, <1>5 DEF SumSoFar, At

\* The account of a run does not change while it has a report.
LEMMA AccountStays ==
    ASSUME SyncShape, NEW r \in SyncRuns,
           Fetch(r) \/ ReadMappings(r) \/ SaveSnapshot(r) \/ SaveAds(r)
    PROVE  sync'[r].account = sync[r].account
<1>0. IsRun(sync[r]) BY DEF SyncShape
<1>1. CASE SaveAds(r) BY <1>1, <1>0 DEF SaveAds, Goto, SyncShape, IsRun
<1>2. CASE SaveSnapshot(r)
  <2>1. CASE DOMAIN sync[r].sums = {}
    <3>1. PICK pc \in {"ads", "finish"} : Goto(r, pc) BY <1>2, <2>1 DEF SaveSnapshot
    <3>2. sync'[r] = [sync[r] EXCEPT !.pc = pc] BY <3>1, RunGoes
    <3> QED BY <1>0, <3>2 DEF IsRun
  <2>2. CASE DOMAIN sync[r].sums # {}
    <3>1. PICK rest : sync' = [sync EXCEPT ![r].sums = rest] BY <1>2, <2>2 DEF SaveSnapshot
    <3>2. sync'[r] = [sync[r] EXCEPT !.sums = rest] BY <3>1 DEF SyncShape
    <3> QED BY <1>0, <3>2 DEF IsRun
  <2> QED BY <2>1, <2>2
<1>3. CASE Fetch(r) BY ZenonT(40), <1>3, <1>0 DEF Fetch, SyncShape, IsRun
<1>4. CASE ReadMappings(r) BY <1>4, <1>0 DEF ReadMappings, SyncShape, IsRun
<1> QED BY <1>1, <1>2, <1>3, <1>4

\* A step of a run leaves what the sums are about alone, or disturbs the others.
LEMMA RunDisturbs ==
    ASSUME SumsInv, NEW r \in SyncRuns, SyncStep(r)
    PROVE  /\ platform' = platform /\ reported' = reported
           /\ spend' = [c \in TrackerCampaigns |-> spend'[c]]
           /\ undisturbed' \subseteq undisturbed \cup {r}
           /\ \/ mapping' = mapping /\ spend' = spend
              \/ undisturbed' = undisturbed \cap {r}
<1>1. CASE SaveSnapshot(r)
  <2>1. spend' = [c \in TrackerCampaigns |-> spend'[c]]
    <3>1. CASE spend' = spend BY <3>1 DEF SumsInv
    <3>2. ASSUME NEW d, NEW n, spend' = [spend EXCEPT ![d] = n]
          PROVE  spend' = [c \in TrackerCampaigns |-> spend'[c]]
      BY <3>2 DEF SumsInv
    <3> QED BY <1>1, <3>1, <3>2 DEF SaveSnapshot
  <2> QED BY <1>1, <2>1 DEF SaveSnapshot, OnWorld
<1>2. CASE AutoMapWrite(r) BY <1>2 DEF AutoMapWrite, OnWorld, SumsInv
<1>3. CASE Find(r) BY <1>3 DEF Find, OnWorld, SumsInv
<1>4. CASE Throw(r) BY <1>4 DEF Throw, OnWorld, SumsInv
<1>5. CASE Finish(r) BY <1>5 DEF Finish, OnWorld, SumsInv
<1>6. CASE Refresh(r) BY <1>6 DEF Refresh, OnWorld, SumsInv
<1>7. CASE StartAll(r) \/ NextConnection(r) \/ AutoMapLook(r) \/ Store(r) \/ Fetch(r)
  BY <1>7 DEF StartAll, NextConnection, AutoMapLook, Store, Fetch, OnWorld, SumsInv
<1>8. CASE ReadMappings(r) \/ SaveAds(r) \/ Handle(r) \/ \E a \in Accounts : StartOne(r, a)
  BY <1>8 DEF ReadMappings, SaveAds, Handle, StartOne, OnWorld, SumsInv
<1> QED BY <1>1, <1>2, <1>3, <1>4, <1>5, <1>6, <1>7, <1>8 DEF SyncStep

LEMMA RunKeepsSums ==
    ASSUME SyncShape, SumsInv, NEW r \in SyncRuns, SyncStep(r)
    PROVE  SumsInv'
<1>1. /\ platform' = platform /\ reported' = reported
      /\ spend' = [c \in TrackerCampaigns |-> spend'[c]]
      /\ undisturbed' \subseteq undisturbed \cup {r}
      /\ \/ mapping' = mapping /\ spend' = spend
         \/ undisturbed' = undisturbed \cap {r}
  BY RunDisturbs
<1>2. OnlyRun(r) BY RunSteps
<1>3. ASSUME NEW o \in SyncRuns, o \in undisturbed', platform # "taboola",
             Readable(sync'[o].account)
      PROVE  SumSoFar(o)'
  <2>1. CASE o # r
    <3>1. mapping' = mapping /\ spend' = spend /\ o \in undisturbed BY <1>1, <1>3, <2>1
    <3>2. sync'[o] = sync[o] BY <1>2, <2>1 DEF OnlyRun
    <3>3. SumSoFar(o) BY <1>3, <3>1, <3>2 DEF SumsInv
    <3> QED BY <1>1, <3>1, <3>2, <3>3, SumCarries
  <2>2. CASE o = r /\ sync'[r].pc \notin Reported
    BY <2>2 DEF SumSoFar, Reported, At
  <2>3. CASE o = r /\ sync'[r].pc \in Reported
    <3>1. Fetch(r) \/ ReadMappings(r) \/ SaveSnapshot(r) \/ SaveAds(r) BY <2>3, RunSteps
    <3>2. Readable(sync[r].account) BY <1>3, <2>3, <3>1, AccountStays
    <3>3. CASE Fetch(r) BY <1>3, <2>3, <3>2, <3>3, FetchSums
    <3>4. CASE ReadMappings(r) \/ SaveSnapshot(r) \/ SaveAds(r)
      <4>1. r \in undisturbed
        BY <1>3, <2>3, <3>4 DEF ReadMappings, SaveSnapshot, SaveAds
      <4>2. SumSoFar(r) BY <1>3, <3>2, <4>1 DEF SumsInv
      <4> QED BY <2>3, <3>4, <4>2, ReadSums, SaveSums, AdsSums
    <3> QED BY <3>1, <3>3, <3>4
  <2> QED BY <2>1, <2>2, <2>3
<1>4. undisturbed' \subseteq SyncRuns BY <1>1 DEF SumsInv
<1>5. \A a : Readable(a)' = Readable(a) BY <1>1 DEF Readable
<1> QED BY <1>1, <1>3, <1>4, <1>5 DEF SumsInv

LEMMA OthersKeepSums ==
    ASSUME SumsInv, Meanwhile
    PROVE  SumsInv'
<1>1. CASE undisturbed' = {} /\ spend' = [c \in TrackerCampaigns |-> spend'[c]]
  BY <1>1 DEF SumsInv
<1>2. CASE UNCHANGED <<platform, mapping, reported, spend, sync, undisturbed>>
  <2>1. \A r \in SyncRuns : SumSoFar(r) => SumSoFar(r)' BY <1>2, SumCarries
  <2>2. \A a : Readable(a)' = Readable(a) BY <1>2 DEF Readable
  <2> QED BY <1>2, <2>1, <2>2 DEF SumsInv
<1>3. ASSUME NEW c \in TrackerCampaigns, ManualSpend(c) PROVE SumsInv'
  <2>1. spend' = [d \in TrackerCampaigns |-> spend'[d]] BY <1>3 DEF ManualSpend, SumsInv
  <2> QED BY <1>1, <1>3, <2>1 DEF ManualSpend
<1>4. ASSUME NEW e \in PlatformCampaigns, DeleteMapping(e) \/ Grow(e)
                                          \/ \E c \in TrackerCampaigns : CreateMapping(e, c)
      PROVE  SumsInv'
  BY <1>1, <1>4 DEF DeleteMapping, Grow, CreateMapping, SumsInv
<1>5. ASSUME NEW a \in Accounts, EditCredentials(a) \/ Expire(a) \/ TestConnection(a)
                                 \/ \E status \in {"active", "disabled", "gone"} : SetStatus(a, status)
      PROVE  SumsInv'
  BY <1>2, <1>5 DEF EditCredentials, Expire, TestConnection, SetStatus
<1>6. CASE Control BY <1>2, <1>6 DEF Control
<1> QED BY <1>3, <1>4, <1>5, <1>6 DEF Meanwhile

LEMMA SumsStep == SyncShape /\ SumsInv /\ [SyncNext]_syncVars => SumsInv'
<1> SUFFICES ASSUME SyncShape, SumsInv, [SyncNext]_syncVars PROVE SumsInv' OBVIOUS
<1>1. CASE UNCHANGED syncVars
  <2>1. UNCHANGED <<platform, mapping, reported, spend, sync, undisturbed>> BY <1>1 DEF syncVars
  <2>2. \A r \in SyncRuns : SumSoFar(r) => SumSoFar(r)' BY <2>1, SumCarries
  <2>3. \A a : Readable(a)' = Readable(a) BY <2>1 DEF Readable
  <2> QED BY <2>1, <2>2, <2>3 DEF SumsInv
<1>2. CASE SyncRestart BY <1>2 DEF SyncRestart, SumsInv
<1>3. CASE SyncNext BY <1>2, <1>3, SyncNextIs, RunKeepsSums, OthersKeepSums
<1> QED BY <1>1, <1>3

-----------------------------------------------------------------------------
(* The alerts.  The inductive invariant adds that a sweep about to create  *)
(* an alert about a page is the only one, unless the page is among those   *)
(* two sweeps were at, and that no alert about it is open; so for the rule. *)

Abouts == Pages \cup {"rule", "deleted rule", FirstPageOf}
AlertRows == [about: Abouts, status: {"open", "ack", "resolved"}]

IsSweep(s) ==
    /\ s \in [pc: {s.pc}, on: {s.on}, found: {s.found}, read: {s.read}]
    /\ DOMAIN s.read \subseteq Pages
    /\ s.pc \in {"update", "look", "create"} => s.on \in Pages

AlertsShape ==
    /\ health = [p \in Pages |-> health[p]]
    /\ alert \in Seq(AlertRows)
    /\ sweep = [w \in Sweeps |-> sweep[w]]
    /\ \A w \in Sweeps : IsSweep(sweep[w])

OpenAbout(x) == {i \in About(x) : alert[i].status = "open"}
Single(x) == \A i, j \in OpenAbout(x) : i = j
Creating(w, p) == sweep[w].pc = "create" /\ sweep[w].on = p

Heard(p) == health[p] \in Bad => BeingRaised(p) \/ Told(p) \/ p \in answered \/ p \in silenced
NoTwo(p) ==
    /\ Single(p)
    /\ \A w \in Sweeps : Creating(w, p) =>
          OpenAbout(p) = {} /\ \A o \in Sweeps : Creating(o, p) => o = w
RuleOnce == Single("rule") /\ (engine = "create" => OpenAbout("rule") = {})

AlertsInv ==
    /\ AlertsShape
    /\ \A p \in Pages : Heard(p) /\ (p \in doubled \/ NoTwo(p))
    /\ RuleOnce

LEMMA SingleIsOne ==
    ASSUME NEW S, \A i, j \in S : i = j
    PROVE  Cardinality(S) <= 1
<1>1. CASE S = {} BY <1>1, FS_EmptySet
<1>2. ASSUME NEW i \in S PROVE Cardinality(S) <= 1
  <2>1. S = {i} BY <1>2
  <2>2. Cardinality({i}) = 1 BY FS_Singleton, Zenon
  <2> QED BY <2>1, <2>2
<1> QED BY <1>1, <1>2

LEMMA AlertsInvImplies == AlertsInv => AlertsMatchHealth
<1> SUFFICES ASSUME AlertsInv PROVE AlertsMatchHealth OBVIOUS
<1>1. ASSUME NEW x, Single(x) PROVE Cardinality({i \in About(x) : alert[i].status = "open"}) <= 1
  <2>1. \A i, j \in {k \in About(x) : alert[k].status = "open"} : i = j
    BY <1>1 DEF Single, OpenAbout
  <2> QED BY <2>1, SingleIsOne
<1>2. Cardinality({i \in About("rule") : alert[i].status = "open"}) <= 1
  BY <1>1 DEF AlertsInv, RuleOnce
<1>3. ASSUME NEW p \in Pages
      PROVE  /\ Heard(p)
             /\ p \in doubled \/ Cardinality({i \in About(p) : alert[i].status = "open"}) <= 1
  BY <1>1 DEF AlertsInv, NoTwo
<1> QED BY <1>2, <1>3 DEF AlertsMatchHealth, Heard

LEMMA NoSweepIs == IsSweep(NoSweep) /\ NoSweep.pc = "idle"
BY DEF IsSweep, NoSweep

LEMMA AlertsStart == AlertsInit => AlertsInv
<1> SUFFICES ASSUME AlertsInit PROVE AlertsInv OBVIOUS
<1>1. \A w \in Sweeps : sweep[w] = NoSweep /\ sweep = [o \in Sweeps |-> sweep[o]]
  BY DEF AlertsInit
<1>2. alert \in Seq(AlertRows) /\ \A i \in DOMAIN alert : alert[i].status # "open"
  <2>1. CASE alert = <<>>
    <3>1. alert \in Seq(AlertRows) BY <2>1, EmptySeq
    <3>2. DOMAIN alert = {} BY <2>1
    <3> QED BY <3>1, <3>2
  <2>2. CASE alert = <<[about |-> FirstPageOf, status |-> "resolved"]>>
    <3>1. [about |-> FirstPageOf, status |-> "resolved"] \in AlertRows BY DEF AlertRows, Abouts
    <3>2. DOMAIN alert = {1} /\ alert[1].status = "resolved" BY <2>2
    <3> QED BY <2>2, <3>1, <3>2
  <2> QED BY <2>1, <2>2 DEF AlertsInit
<1>3. \A x : OpenAbout(x) = {} BY <1>2 DEF OpenAbout, About
<1>4. health = [p \in Pages |-> health[p]] /\ \A p \in Pages : health[p] \in Bad => p \in answered
  BY DEF AlertsInit, Bad
<1>5. sweep = [w \in Sweeps |-> sweep[w]] BY DEF AlertsInit
<1>6. AlertsShape BY <1>1, <1>2, <1>4, <1>5, NoSweepIs DEF AlertsShape
<1>7. \A p \in Pages : Heard(p) BY <1>4 DEF Heard
<1>8. \A p \in Pages : NoTwo(p) BY <1>1, <1>3, NoSweepIs DEF NoTwo, Single, Creating
<1>9. RuleOnce BY <1>3 DEF RuleOnce, Single
<1> QED BY <1>6, <1>7, <1>8, <1>9 DEF AlertsInv

\* What a step may do to the alerts: nothing, close or move some, or add one.
Narrowed ==
    /\ alert' \in Seq(AlertRows) /\ DOMAIN alert' = DOMAIN alert
    /\ \A i \in DOMAIN alert : alert'[i].status = "open" =>
          /\ alert[i].status = "open"
          /\ alert'[i].about = alert[i].about \/ alert'[i].about = "deleted rule"
Raised(x) ==
    /\ alert' \in Seq(AlertRows)
    /\ \E n : /\ DOMAIN alert' = DOMAIN alert \cup {n} /\ n \notin DOMAIN alert
              /\ alert'[n] = [about |-> x, status |-> "open"]
    /\ \A i \in DOMAIN alert : alert'[i] = alert[i]

LEMMA NarrowedOpen ==
    ASSUME Narrowed, NEW x, x # "deleted rule"
    PROVE  OpenAbout(x)' \subseteq OpenAbout(x)
BY DEF Narrowed, OpenAbout, About

LEMMA RaisedOpen ==
    ASSUME NEW x, Raised(x)
    PROVE  /\ \A y : y # x => OpenAbout(y)' = OpenAbout(y)
           /\ OpenAbout(x) = {} => Single(x)'
           /\ Told(x)' /\ \A y : Told(y) => Told(y)'
<1>1. PICK n : /\ DOMAIN alert' = DOMAIN alert \cup {n} /\ n \notin DOMAIN alert
               /\ alert'[n] = [about |-> x, status |-> "open"]
  BY DEF Raised
<1>2. \A i \in DOMAIN alert : alert'[i] = alert[i] BY DEF Raised
<1>3. alert'[n].about = x /\ alert'[n].status = "open" BY <1>1
<1>4. ASSUME NEW y, y # x PROVE OpenAbout(y)' = OpenAbout(y)
  BY <1>1, <1>2, <1>3, <1>4 DEF OpenAbout, About
<1>5. ASSUME OpenAbout(x) = {} PROVE Single(x)'
  <2>1. \A i \in OpenAbout(x)' : i = n BY <1>1, <1>2, <1>5 DEF OpenAbout, About
  <2> QED BY <2>1 DEF Single
<1>6. Told(x)' BY <1>1, <1>3 DEF Told, About, Pending
<1>7. ASSUME NEW y, Told(y) PROVE Told(y)'
  BY <1>1, <1>2, <1>7 DEF Told, About, Pending
<1> QED BY <1>4, <1>5, <1>6, <1>7

LEMMA RaiseDoes ==
    ASSUME alert \in Seq(AlertRows), NEW x \in Abouts, alert' = Raise(x)
    PROVE  alert' = alert \/ Raised(x)
<1>1. CASE ~(Len(alert) < MaxAlerts) BY <1>1 DEF Raise
<1>2. CASE Len(alert) < MaxAlerts
  <2> DEFINE new == [about |-> x, status |-> "open"]
  <2>1. alert' = Append(alert, new) BY <1>2 DEF Raise
  <2>2. new \in AlertRows BY DEF AlertRows
  <2>3. Len(alert) \in Nat /\ DOMAIN alert = 1 .. Len(alert) BY LenProperties
  <2> HIDE DEF new
  <2>4. /\ alert' \in Seq(AlertRows) /\ DOMAIN alert' = 1 .. Len(alert) + 1
        /\ alert'[Len(alert) + 1] = new /\ \A i \in 1 .. Len(alert) : alert'[i] = alert[i]
    BY <2>1, <2>2, <2>3
  <2>5. DOMAIN alert' = DOMAIN alert \cup {Len(alert) + 1} /\ Len(alert) + 1 \notin DOMAIN alert
    BY <2>3, <2>4
  <2> QED BY <2>3, <2>4, <2>5 DEF Raised, new
<1> QED BY <1>1, <1>2

\* A step of the sweep, seen from the other sweeps.
OnlySweep(w) ==
    /\ sweep' = [o \in Sweeps |-> sweep'[o]]
    /\ IsSweep(sweep'[w])
    /\ \A o \in Sweeps \ {w} : sweep'[o] = sweep[o]

LEMMA SweepBecomes ==
    ASSUME AlertsShape, NEW w \in Sweeps, NEW s, IsSweep(s), sweep' = [sweep EXCEPT ![w] = s]
    PROVE  OnlySweep(w) /\ sweep'[w] = s
BY DEF AlertsShape, OnlySweep

LEMMA NextPageIs ==
    ASSUME AlertsShape, NEW w \in Sweeps
    PROVE  IsSweep(NextPage(w)) /\ NextPage(w).pc = "probe"
<1>1. IsSweep(sweep[w]) BY DEF AlertsShape
<1> QED BY <1>1 DEF IsSweep, NextPage

\* A sweep that was raising no alert and raises none leaves the invariant alone.
Away(w) == sweep[w].pc \notin {"look", "create"} /\ sweep'[w].pc \notin {"look", "create"}

LEMMA AwayKeeps ==
    ASSUME AlertsInv, NEW w \in Sweeps, OnlySweep(w), Away(w),
           UNCHANGED <<health, alert, answered, silenced, doubled, engine>>
    PROVE  AlertsInv'
<1>1. AlertsShape' BY DEF AlertsInv, AlertsShape, OnlySweep
<1>2. \A o \in Sweeps \ {w} : sweep'[o] = sweep[o] BY DEF OnlySweep
<1>3. \A p \in Pages : /\ BeingRaised(p) => BeingRaised(p)'
                       /\ \A o \in Sweeps : Creating(o, p)' => Creating(o, p)
  BY <1>2 DEF Away, BeingRaised, Creating
<1>4. \A x : OpenAbout(x)' = OpenAbout(x) /\ Told(x)' = Told(x) /\ Single(x)' = Single(x)
  BY DEF OpenAbout, About, Told, Single
<1>5. \A p \in Pages : Heard(p)' BY <1>3, <1>4 DEF AlertsInv, Heard
<1>6. \A p \in Pages : p \in doubled' \/ NoTwo(p)'
  BY <1>3, <1>4 DEF AlertsInv, NoTwo
<1>7. RuleOnce' BY <1>4 DEF AlertsInv, RuleOnce
<1> QED BY <1>1, <1>5, <1>6, <1>7 DEF AlertsInv

LEMMA StartSweepKeeps ==
    ASSUME AlertsInv, NEW w \in Sweeps, StartSweep(w) PROVE AlertsInv'
<1> DEFINE read == [p \in {o \in Pages : page[o] # "gone"} |-> health[p]]
           new == [NoSweep EXCEPT !.pc = "probe", !.read = read]
<1>1. sweep' = [sweep EXCEPT ![w] = new] /\ sweep[w].pc = "idle" BY DEF StartSweep
<1>2. DOMAIN read \subseteq Pages OBVIOUS
<1> HIDE DEF read
<1>3. IsSweep(new) /\ new.pc = "probe" BY <1>2 DEF IsSweep, NoSweep
<1> HIDE DEF new
<1>4. OnlySweep(w) /\ sweep'[w] = new BY <1>1, <1>3, SweepBecomes DEF AlertsInv
<1>5. UNCHANGED <<health, alert, answered, silenced, doubled, engine>>
  BY DEF StartSweep, rulesVars
<1> QED BY <1>1, <1>3, <1>4, <1>5, AwayKeeps DEF Away

LEMMA ProbeKeeps ==
    ASSUME AlertsInv, NEW w \in Sweeps, Probe(w) PROVE AlertsInv'
<1>0. sweep[w].pc = "probe" /\ IsSweep(sweep[w]) BY DEF Probe, AlertsInv, AlertsShape
<1>1. UNCHANGED <<health, alert, answered, silenced, doubled, engine>>
  BY DEF Probe, rulesVars
<1>2. OnlySweep(w) /\ sweep'[w].pc \in {"idle", "update"}
  <2>1. CASE sweep' = [sweep EXCEPT ![w] = NoSweep]
    BY <2>1, NoSweepIs, SweepBecomes DEF AlertsInv
  <2>2. CASE sweep' # [sweep EXCEPT ![w] = NoSweep]
    <3>1. PICK p \in DOMAIN sweep[w].read :
            sweep' = [sweep EXCEPT ![w].pc = "update", ![w].on = p,
                        ![w].found = IF page[p] = "gone" THEN "unreachable" ELSE page[p]]
      BY <2>2 DEF Probe
    <3> DEFINE found == IF page[p] = "gone" THEN "unreachable" ELSE page[p]
               new == [sweep[w] EXCEPT !.pc = "update", !.on = p, !.found = found]
    <3>2. sweep' = [sweep EXCEPT ![w] = new] BY <3>1 DEF AlertsInv, AlertsShape
    <3> HIDE DEF found
    <3>3. IsSweep(new) /\ new.pc = "update" BY <1>0, <3>1 DEF IsSweep
    <3> HIDE DEF new
    <3> QED BY <3>2, <3>3, SweepBecomes DEF AlertsInv
  <2> QED BY <2>1, <2>2
<1> QED BY <1>0, <1>1, <1>2, AwayKeeps DEF Away

LEMMA UpdateHealthKeeps ==
    ASSUME AlertsInv, NEW w \in Sweeps, UpdateHealth(w) PROVE AlertsInv'
<1> DEFINE h == sweep[w]
           p == h.on
           found == h.found
           read == h.read[p]
<1>0. h.pc = "update" /\ IsSweep(h) /\ p \in Pages
  BY DEF UpdateHealth, AlertsInv, AlertsShape, IsSweep
<1>1. UNCHANGED <<alert, doubled, engine>> BY DEF UpdateHealth, rulesVars
<1>2. CASE page[p] = "gone"
  <2>1. /\ sweep' = [sweep EXCEPT ![w] = NoSweep]
        /\ UNCHANGED <<health, answered, silenced>>
    BY <1>2 DEF UpdateHealth
  <2>2. OnlySweep(w) /\ sweep'[w] = NoSweep BY <2>1, NoSweepIs, SweepBecomes DEF AlertsInv
  <2> QED BY <1>0, <1>1, <2>1, <2>2, NoSweepIs, AwayKeeps DEF Away
<1>3. CASE page[p] # "gone"
  <2>1. /\ health' = [health EXCEPT ![p] = found]
        /\ answered' = IF found # health[p] THEN answered \ {p} ELSE answered
        /\ silenced' = IF found \notin Bad THEN silenced \ {p}
                       ELSE IF read = found /\ health[p] # found THEN silenced \cup {p}
                       ELSE silenced
        /\ sweep' = [sweep EXCEPT ![w] = IF Turned(read, found)
                                         THEN [@ EXCEPT !.pc = "look"] ELSE NextPage(w)]
    BY <1>3 DEF UpdateHealth
  <2> DEFINE new == IF Turned(read, found) THEN [h EXCEPT !.pc = "look"] ELSE NextPage(w)
  <2>2. sweep' = [sweep EXCEPT ![w] = new] BY <2>1 DEF AlertsInv, AlertsShape
  <2>3. /\ IsSweep(new) /\ new.pc \in {"look", "probe"}
        /\ Turned(read, found) => new.pc = "look" /\ new.on = p
    <3>1. IsSweep([h EXCEPT !.pc = "look"]) /\ [h EXCEPT !.pc = "look"].pc = "look"
          /\ [h EXCEPT !.pc = "look"].on = p
      BY <1>0 DEF IsSweep
    <3> QED BY <3>1, NextPageIs DEF AlertsInv
  <2> HIDE DEF new
  <2>4. OnlySweep(w) /\ sweep'[w] = new BY <2>2, <2>3, SweepBecomes DEF AlertsInv
  <2>5. \A o \in Sweeps \ {w} : sweep'[o] = sweep[o] BY <2>4 DEF OnlySweep
  <2>6. health' = [q \in Pages |-> health'[q]] BY <2>1 DEF AlertsInv, AlertsShape
  <2>7. \A q \in Pages : health'[q] = IF q = p THEN found ELSE health[q]
    BY <2>1 DEF AlertsInv, AlertsShape
  <2>8. AlertsShape' BY <1>1, <2>4, <2>6 DEF AlertsInv, AlertsShape, OnlySweep
  <2>9. /\ \A x : OpenAbout(x)' = OpenAbout(x) /\ Told(x)' = Told(x) /\ Single(x)' = Single(x)
        /\ \A q \in Pages : /\ BeingRaised(q) => BeingRaised(q)'
                            /\ \A o \in Sweeps : Creating(o, q)' => Creating(o, q)
    <3>1. \A x : OpenAbout(x)' = OpenAbout(x) /\ Told(x)' = Told(x) /\ Single(x)' = Single(x)
      BY <1>1 DEF OpenAbout, About, Told, Single
    <3>2. ASSUME NEW q \in Pages
          PROVE  /\ BeingRaised(q) => BeingRaised(q)'
                 /\ \A o \in Sweeps : Creating(o, q)' => Creating(o, q)
      BY <1>0, <2>3, <2>4, <2>5 DEF BeingRaised, Creating
    <3> QED BY <3>1, <3>2
  <2>10. ASSUME NEW q \in Pages PROVE Heard(q)'
    <3>1. CASE q # p
      <4>1. health'[q] = health[q] BY <2>7, <3>1
      <4>2. (q \in answered => q \in answered') /\ (q \in silenced => q \in silenced')
        BY <2>1, <3>1
      <4> QED BY <2>9, <4>1, <4>2 DEF AlertsInv, Heard
    <3>2. CASE q = p /\ found \in Bad
      <4>1. CASE Turned(read, found)
        <5>1. sweep'[w].pc = "look" /\ sweep'[w].on = p BY <2>3, <2>4, <4>1
        <5> QED BY <3>2, <5>1 DEF Heard, BeingRaised
      <4>2. CASE ~Turned(read, found) /\ health[p] # found
        <5>1. read = found BY <3>2, <4>2 DEF Turned
        <5>2. p \in silenced' BY <2>1, <3>2, <4>2, <5>1
        <5> QED BY <3>2, <5>2 DEF Heard
      <4>3. CASE health[p] = found
        <5>1. answered' = answered /\ (p \in silenced => p \in silenced')
          BY <2>1, <3>2, <4>3
        <5>2. health'[p] = health[p] BY <1>0, <2>7, <4>3
        <5> QED BY <2>9, <3>2, <5>1, <5>2 DEF AlertsInv, Heard
      <4> QED BY <4>1, <4>2, <4>3
    <3>3. CASE q = p /\ found \notin Bad BY <2>7, <3>3 DEF Heard
    <3> QED BY <3>1, <3>2, <3>3
  <2>11. \A q \in Pages : q \in doubled' \/ NoTwo(q)'
    BY <1>1, <2>9 DEF AlertsInv, NoTwo
  <2>12. RuleOnce' BY <1>1, <2>9 DEF AlertsInv, RuleOnce
  <2> QED BY <2>8, <2>10, <2>11, <2>12 DEF AlertsInv
<1> QED BY <1>2, <1>3

LEMMA LookForOpenKeeps ==
    ASSUME AlertsInv, NEW w \in Sweeps, LookForOpen(w) PROVE AlertsInv'
<1> DEFINE h == sweep[w]
<1>a. PICK p : p = h.on OBVIOUS
<1> DEFINE new == IF Told(p) THEN NextPage(w) ELSE [h EXCEPT !.pc = "create"]
<1>0. h.pc = "look" /\ IsSweep(h) /\ p \in Pages
  BY <1>a DEF LookForOpen, AlertsInv, AlertsShape, IsSweep
<1>1. UNCHANGED <<health, alert, answered, silenced, engine>> BY DEF LookForOpen, rulesVars
<1>2. sweep' = [sweep EXCEPT ![w] = new] BY <1>a DEF LookForOpen, AlertsInv, AlertsShape
<1>3. /\ Told(p) => new.pc = "probe"
      /\ ~Told(p) => new.pc = "create" /\ new.on = p
  <2>1. IsSweep([h EXCEPT !.pc = "create"]) /\ [h EXCEPT !.pc = "create"].pc = "create"
        /\ [h EXCEPT !.pc = "create"].on = p
    BY <1>a, <1>0 DEF IsSweep
  <2> QED BY <2>1, NextPageIs DEF AlertsInv
<1>4. doubled' = IF ~Told(p) /\ \E o \in Sweeps \ {w} : sweep[o].pc = "create" /\ sweep[o].on = p
                 THEN doubled \cup {p} ELSE doubled
  BY <1>a DEF LookForOpen
<1> HIDE DEF new
<1>b. IsSweep(new)
  <2>1. IsSweep([h EXCEPT !.pc = "create"]) BY <1>0 DEF IsSweep
  <2> QED BY <2>1, NextPageIs DEF AlertsInv, new
<1>5. OnlySweep(w) /\ sweep'[w] = new BY <1>2, <1>b, SweepBecomes DEF AlertsInv
<1>6. \A o \in Sweeps \ {w} : sweep'[o] = sweep[o] BY <1>5 DEF OnlySweep
<1>7. AlertsShape' BY <1>1, <1>5 DEF AlertsInv, AlertsShape, OnlySweep
<1>8. \A x : OpenAbout(x)' = OpenAbout(x) /\ Told(x)' = Told(x) /\ Single(x)' = Single(x)
  BY <1>1 DEF OpenAbout, About, Told, Single
<1>9. RuleOnce' BY <1>1, <1>8 DEF AlertsInv, RuleOnce
<1>10. CASE Told(p)
  <2>1. \A q \in Pages : /\ BeingRaised(q) => BeingRaised(q)' \/ q = p
                         /\ \A o \in Sweeps : Creating(o, q)' => Creating(o, q)
    BY <1>a, <1>0, <1>3, <1>5, <1>6, <1>10 DEF BeingRaised, Creating
  <2>2. \A q \in Pages : Heard(q)' BY <1>1, <1>8, <1>10, <2>1 DEF AlertsInv, Heard
  <2>3. doubled' = doubled BY <1>4, <1>10
  <2>4. \A q \in Pages : q \in doubled' \/ NoTwo(q)' BY <1>8, <2>1, <2>3 DEF AlertsInv, NoTwo
  <2> QED BY <1>7, <1>9, <2>2, <2>4 DEF AlertsInv
<1>11. CASE ~Told(p)
  <2>1. sweep'[w].pc = "create" /\ sweep'[w].on = p BY <1>3, <1>5, <1>11
  <2>2. \A q \in Pages : BeingRaised(q) => BeingRaised(q)'
    BY <1>a, <1>6, <2>1 DEF BeingRaised
  <2>3. \A q \in Pages : Heard(q)' BY <1>1, <1>8, <2>2 DEF AlertsInv, Heard
  <2>4. OpenAbout(p) = {} BY <1>11 DEF OpenAbout, Told, Pending
  <2>5. \A q \in Pages \ {p}, o \in Sweeps : Creating(o, q)' => Creating(o, q)
    BY <1>6, <2>1 DEF Creating
  <2>6. \A q \in Pages \ {p} : q \in doubled' \/ NoTwo(q)'
    BY <1>4, <1>8, <2>5 DEF AlertsInv, NoTwo
  <2>7. ASSUME p \notin doubled' PROVE NoTwo(p)'
    <3>1. \A o \in Sweeps \ {w} : ~Creating(o, p) BY <1>4, <1>11, <2>7 DEF Creating
    <3>2. \A o \in Sweeps : Creating(o, p)' => o = w BY <1>6, <3>1 DEF Creating
    <3>3. Single(p)' BY <1>8, <2>4 DEF Single
    <3> QED BY <1>8, <2>4, <3>2, <3>3 DEF NoTwo
  <2> QED BY <1>7, <1>9, <2>3, <2>6, <2>7 DEF AlertsInv
<1> QED BY <1>10, <1>11

LEMMA CreateAlertKeeps ==
    ASSUME AlertsInv, NEW w \in Sweeps, CreateAlert(w) PROVE AlertsInv'
<1>a. PICK p : p = sweep[w].on OBVIOUS
<1>0. sweep[w].pc = "create" /\ p \in Pages /\ p # "rule"
  BY <1>a, RuleIsNoPage DEF CreateAlert, AlertsInv, AlertsShape, IsSweep
<1>1. /\ UNCHANGED <<health, answered, doubled, engine>> /\ alert' = Raise(p)
      /\ sweep' = [sweep EXCEPT ![w] = NextPage(w)]
      /\ silenced' = IF Len(alert) < MaxAlerts THEN silenced \ {p} ELSE silenced \cup {p}
  BY <1>a DEF CreateAlert, rulesVars
<1>2. OnlySweep(w) /\ sweep'[w].pc = "probe"
  <2> DEFINE new == NextPage(w)
  <2>1. IsSweep(new) /\ new.pc = "probe" BY NextPageIs DEF AlertsInv
  <2> HIDE DEF new
  <2> QED BY <1>1, <2>1, SweepBecomes DEF AlertsInv, new
<1>3. \A o \in Sweeps \ {w} : sweep'[o] = sweep[o] BY <1>2 DEF OnlySweep
<1>4. /\ \A q \in Pages : BeingRaised(q) => BeingRaised(q)' \/ q = p
      /\ \A q, o : o \in Sweeps => (Creating(o, q)' => Creating(o, q) /\ o # w)
  BY <1>a, <1>0, <1>2, <1>3 DEF BeingRaised, Creating
<1>5. alert \in Seq(AlertRows) /\ p \in Abouts BY <1>0 DEF AlertsInv, AlertsShape, Abouts
<1>6. CASE Len(alert) < MaxAlerts
  <2> DEFINE new == [about |-> p, status |-> "open"]
  <2>1. Raised(p)
    <3>1. alert' = alert \/ Raised(p) BY <1>1, <1>5, RaiseDoes
    <3>2. alert' = Append(alert, new) BY <1>1, <1>6 DEF Raise
    <3>3. alert' # alert
      <4>1. Len(alert) \in Nat BY <1>5, LenProperties
      <4>2. Len(alert') = Len(alert) + 1
        BY <1>5, <3>2 DEF AlertRows
      <4> QED BY <4>1, <4>2
    <3> QED BY <3>1, <3>3
  <2>2. /\ \A y : y # p => OpenAbout(y)' = OpenAbout(y)
        /\ OpenAbout(p) = {} => Single(p)'
        /\ Told(p)' /\ \A y : Told(y) => Told(y)'
    BY <2>1, RaisedOpen
  <2>3. AlertsShape' BY <1>1, <1>2, <2>1 DEF AlertsInv, AlertsShape, OnlySweep, Raised
  <2>4. \A q \in Pages : Heard(q)' BY <1>1, <1>4, <1>6, <2>2 DEF AlertsInv, Heard
  <2>5. ASSUME NEW q \in Pages, q \notin doubled, q # p PROVE NoTwo(q)'
    BY <1>4, <2>2, <2>5 DEF AlertsInv, NoTwo, Single
  <2>6. ASSUME p \notin doubled PROVE NoTwo(p)'
    <3>1. NoTwo(p) /\ Creating(w, p) BY <1>a, <1>0, <2>6 DEF AlertsInv, Creating
    <3>2. OpenAbout(p) = {} /\ \A o \in Sweeps : Creating(o, p) => o = w BY <3>1 DEF NoTwo
    <3>3. \A o \in Sweeps : ~Creating(o, p)' BY <1>4, <3>2
    <3> QED BY <2>2, <3>2, <3>3 DEF NoTwo
  <2>7. RuleOnce' BY <1>0, <1>1, <2>2 DEF AlertsInv, RuleOnce, Single
  <2> QED BY <1>1, <2>3, <2>4, <2>5, <2>6, <2>7 DEF AlertsInv
<1>7. CASE ~(Len(alert) < MaxAlerts)
  <2>1. alert' = alert BY <1>1, <1>7 DEF Raise
  <2>2. \A x : OpenAbout(x)' = OpenAbout(x) /\ Told(x)' = Told(x) /\ Single(x)' = Single(x)
    BY <2>1 DEF OpenAbout, About, Told, Single
  <2>3. AlertsShape' BY <1>1, <1>2, <2>1 DEF AlertsInv, AlertsShape, OnlySweep
  <2>4. \A q \in Pages : Heard(q)' BY <1>1, <1>4, <1>7, <2>2 DEF AlertsInv, Heard
  <2>5. \A q \in Pages : q \in doubled' \/ NoTwo(q)' BY <1>1, <1>4, <2>2 DEF AlertsInv, NoTwo
  <2>6. RuleOnce' BY <1>1, <2>2 DEF AlertsInv, RuleOnce
  <2> QED BY <2>3, <2>4, <2>5, <2>6 DEF AlertsInv
<1> QED BY <1>6, <1>7

LEMMA SweepFailsKeeps ==
    ASSUME AlertsInv, NEW w \in Sweeps, SweepFails(w) PROVE AlertsInv'
<1>1. /\ UNCHANGED <<health, alert, answered, doubled, engine>>
      /\ sweep' = [sweep EXCEPT ![w] = NoSweep]
      /\ silenced' = IF sweep[w].pc \in {"look", "create"} THEN silenced \cup {sweep[w].on}
                     ELSE silenced
  BY DEF SweepFails, rulesVars
<1>2. OnlySweep(w) /\ sweep'[w].pc = "idle" BY <1>1, NoSweepIs, SweepBecomes DEF AlertsInv
<1>3. \A o \in Sweeps \ {w} : sweep'[o] = sweep[o] BY <1>2 DEF OnlySweep
<1>4. \A q \in Pages : /\ BeingRaised(q) => BeingRaised(q)' \/ q \in silenced'
                       /\ q \in silenced => q \in silenced'
                       /\ \A o \in Sweeps : Creating(o, q)' => Creating(o, q)
  BY <1>1, <1>2, <1>3 DEF BeingRaised, Creating
<1>5. \A x : OpenAbout(x)' = OpenAbout(x) /\ Told(x)' = Told(x) /\ Single(x)' = Single(x)
  BY <1>1 DEF OpenAbout, About, Told, Single
<1>6. AlertsShape' BY <1>1, <1>2 DEF AlertsInv, AlertsShape, OnlySweep
<1>7. \A q \in Pages : Heard(q)' BY <1>1, <1>4, <1>5 DEF AlertsInv, Heard
<1>8. \A q \in Pages : q \in doubled' \/ NoTwo(q)' BY <1>1, <1>4, <1>5 DEF AlertsInv, NoTwo
<1>9. RuleOnce' BY <1>1, <1>5 DEF AlertsInv, RuleOnce
<1> QED BY <1>6, <1>7, <1>8, <1>9 DEF AlertsInv

\* What leaves the sweeps alone and adds no alert about a page.
LEMMA NarrowedKeeps ==
    ASSUME AlertsInv, alert' = alert \/ Narrowed,
           UNCHANGED <<health, sweep, silenced, doubled>>, answered \subseteq answered',
           \A p \in Pages : Told(p) => Told(p)' \/ p \in answered',
           engine' = "create" => engine = "create" \/ OpenAbout("rule") = {}
    PROVE  AlertsInv'
<1>1. \A x : x # "deleted rule" => OpenAbout(x)' \subseteq OpenAbout(x)
  <2>1. CASE alert' = alert BY <2>1 DEF OpenAbout, About
  <2>2. CASE Narrowed BY <2>2, NarrowedOpen
  <2> QED BY <2>1, <2>2
<1>2. AlertsShape' BY DEF AlertsInv, AlertsShape, Narrowed
<1>3. \A p \in Pages : BeingRaised(p)' = BeingRaised(p) /\ p # "deleted rule"
  BY RuleIsNoPage DEF BeingRaised
<1>4. \A p \in Pages : Heard(p)' BY <1>3 DEF AlertsInv, Heard
<1>5. ASSUME NEW p \in Pages, p \notin doubled' PROVE NoTwo(p)'
  <2>1. NoTwo(p) BY <1>5 DEF AlertsInv
  <2>2. OpenAbout(p)' \subseteq OpenAbout(p) BY <1>1, <1>3
  <2>3. \A o \in Sweeps : Creating(o, p)' <=> Creating(o, p) BY DEF Creating
  <2> QED BY <2>1, <2>2, <2>3 DEF NoTwo, Single
<1>6. RuleOnce'
  <2>1. OpenAbout("rule")' \subseteq OpenAbout("rule") BY <1>1
  <2> QED BY <2>1 DEF AlertsInv, RuleOnce, Single
<1> QED BY <1>2, <1>4, <1>5, <1>6 DEF AlertsInv

LEMMA EngineCreatesKeeps == ASSUME AlertsInv, EngineCreates PROVE AlertsInv'
<1>1. /\ UNCHANGED <<health, sweep, answered, silenced, doubled>> /\ engine = "create"
      /\ engine' = "idle" /\ (alert' = alert \/ alert' = Raise("rule"))
  BY DEF EngineCreates, sweepVars
<1>2. CASE alert' = alert
  <2>1. \A p \in Pages : Told(p) => Told(p)' BY <1>2 DEF Told, About
  <2> QED BY <1>1, <1>2, <2>1, NarrowedKeeps
<1>3. CASE Raised("rule")
  <2>1. /\ \A y : y # "rule" => OpenAbout(y)' = OpenAbout(y)
        /\ OpenAbout("rule") = {} => Single("rule")'
        /\ \A y : Told(y) => Told(y)'
    BY <1>3, RaisedOpen
  <2>2. AlertsShape' BY <1>1, <1>3 DEF AlertsInv, AlertsShape, Raised
  <2>3. \A p \in Pages : BeingRaised(p)' = BeingRaised(p) /\ p # "rule"
    BY <1>1, RuleIsNoPage DEF BeingRaised
  <2>4. \A p \in Pages : Heard(p)' BY <1>1, <2>1, <2>3 DEF AlertsInv, Heard
  <2>5. ASSUME NEW p \in Pages, p \notin doubled' PROVE NoTwo(p)'
    <3>1. NoTwo(p) BY <1>1, <2>5 DEF AlertsInv
    <3>2. \A o \in Sweeps : Creating(o, p)' <=> Creating(o, p) BY <1>1 DEF Creating
    <3> QED BY <2>1, <2>3, <3>1, <3>2 DEF NoTwo, Single
  <2>6. RuleOnce' BY <1>1, <2>1 DEF AlertsInv, RuleOnce
  <2> QED BY <2>2, <2>4, <2>5, <2>6 DEF AlertsInv
<1>4. alert' = alert \/ Raised("rule")
  <2>1. alert \in Seq(AlertRows) /\ "rule" \in Abouts BY DEF AlertsInv, AlertsShape, Abouts
  <2> QED BY <1>1, <2>1, RaiseDoes
<1> QED BY <1>2, <1>3, <1>4

LEMMA EditRuleKeeps == ASSUME AlertsInv, EditRule PROVE AlertsInv'
<1>1. UNCHANGED <<health, sweep, answered, silenced, doubled, engine>>
  BY DEF EditRule, sweepVars
<1>2. CASE alert' = alert
  <2>1. \A p \in Pages : Told(p) => Told(p)' BY <1>2 DEF Told, About
  <2> QED BY <1>1, <1>2, <2>1, NarrowedKeeps
<1>3. CASE alert' = [i \in DOMAIN alert |-> IF alert[i].about = "rule"
                                           THEN [alert[i] EXCEPT !.about = "deleted rule"]
                                           ELSE alert[i]]
  <2>1. alert \in Seq(AlertRows) BY DEF AlertsInv, AlertsShape
  <2>2. Len(alert) \in Nat /\ DOMAIN alert = 1 .. Len(alert) BY <2>1, LenProperties
  <2>3. \A i \in DOMAIN alert : alert[i] \in AlertRows BY <2>1, <2>2, ElementOfSeq
  <2>4. \A i \in DOMAIN alert :
          /\ alert'[i] \in AlertRows /\ alert'[i].status = alert[i].status
          /\ alert[i].about # "rule" => alert'[i].about = alert[i].about
          /\ alert[i].about = "rule" => alert'[i].about = "deleted rule"
    BY <1>3, <2>3 DEF AlertRows, Abouts
  <2>5. alert' = [i \in 1 .. Len(alert) |-> alert'[i]] /\ DOMAIN alert' = DOMAIN alert
    BY <1>3, <2>2
  <2>6. alert' \in Seq(AlertRows)
    <3>1. alert' \in [1 .. Len(alert) -> AlertRows] BY <2>2, <2>4, <2>5
    <3> QED BY <2>2, <3>1, SeqDef
  <2>7. Narrowed BY <2>4, <2>5, <2>6 DEF Narrowed
  <2>8. \A p \in Pages : Told(p) => Told(p)'
    BY <2>4, <2>5, RuleIsNoPage DEF Told, About, Pending
  <2> QED BY <1>1, <2>7, <2>8, NarrowedKeeps
<1> QED BY <1>2, <1>3 DEF EditRule

LEMMA StatusOfAlert ==
    ASSUME AlertsInv, NEW i \in DOMAIN alert, NEW s \in {"ack", "resolved"},
           alert' = [alert EXCEPT ![i].status = s]
    PROVE  /\ Narrowed
           /\ \A j \in DOMAIN alert : /\ alert'[j].about = alert[j].about
                                      /\ j # i => alert'[j] = alert[j]
           /\ alert'[i].status = s
<1>1. alert \in Seq(AlertRows) BY DEF AlertsInv, AlertsShape
<1>2. Len(alert) \in Nat /\ DOMAIN alert = 1 .. Len(alert) BY <1>1, LenProperties
<1>3. alert[i] \in AlertRows BY <1>1, <1>2, ElementOfSeq
<1> DEFINE new == [alert[i] EXCEPT !.status = s]
<1>4. new \in AlertRows /\ new.about = alert[i].about /\ new.status = s BY <1>3 DEF AlertRows
<1>5. alert' = [alert EXCEPT ![i] = new] OBVIOUS
<1> HIDE DEF new
<1>6. /\ alert' \in Seq(AlertRows) /\ Len(alert') = Len(alert)
      /\ \A j \in DOMAIN alert : alert'[j] = IF j = i THEN new ELSE alert[j]
  BY <1>1, <1>2, <1>4, <1>5, ExceptSeq
<1>7. DOMAIN alert' = DOMAIN alert BY <1>5
<1> QED BY <1>4, <1>6, <1>7 DEF Narrowed

LEMMA AlertsStep == AlertsInv /\ [AlertsNext]_alertsVars => AlertsInv'
<1> SUFFICES ASSUME AlertsInv, [AlertsNext]_alertsVars PROVE AlertsInv' OBVIOUS
<1>1. ASSUME UNCHANGED <<health, sweep, alert, answered, silenced, doubled>>,
             engine' = "create" => engine = "create" \/ OpenAbout("rule") = {}
      PROVE  AlertsInv'
  <2>1. \A p \in Pages : Told(p) => Told(p)' BY <1>1 DEF Told, About
  <2> QED BY <1>1, <2>1, NarrowedKeeps
<1>2. CASE UNCHANGED alertsVars BY <1>1, <1>2 DEF alertsVars
<1>3. ASSUME NEW w \in Sweeps, StartSweep(w) \/ Probe(w) \/ UpdateHealth(w) \/ LookForOpen(w)
                               \/ CreateAlert(w) \/ SweepFails(w)
      PROVE  AlertsInv'
  BY <1>3, StartSweepKeeps, ProbeKeeps, UpdateHealthKeeps, LookForOpenKeeps, CreateAlertKeeps,
     SweepFailsKeeps
<1>4. CASE (\E p \in Pages : PageChanges(p)) \/ FiguresChange \/ StartEngine
  BY <1>1, <1>4 DEF PageChanges, FiguresChange, StartEngine, sweepVars, rulesVars
<1>5. CASE EngineLooks
  <2>1. ~Told("rule") => OpenAbout("rule") = {} BY DEF Told, OpenAbout, Pending
  <2> QED BY <1>1, <1>5, <2>1 DEF EngineLooks, sweepVars
<1>6. ASSUME NEW i \in DOMAIN alert, Acknowledge(i) PROVE AlertsInv'
  <2>1. /\ alert' = [alert EXCEPT ![i].status = "ack"]
        /\ UNCHANGED <<health, sweep, answered, silenced, doubled, engine>>
    BY <1>6 DEF Acknowledge, sweepVars, rulesVars
  <2>2. /\ Narrowed
        /\ \A j \in DOMAIN alert : /\ alert'[j].about = alert[j].about
                                   /\ j # i => alert'[j] = alert[j]
        /\ alert'[i].status = "ack"
    BY <2>1, StatusOfAlert
  <2>3. \A p \in Pages : Told(p) => Told(p)' BY <2>2 DEF Told, About, Pending, Narrowed
  <2> QED BY <2>1, <2>2, <2>3, NarrowedKeeps
<1>7. ASSUME NEW i \in DOMAIN alert, Resolve(i) PROVE AlertsInv'
  <2>1. /\ alert' = [alert EXCEPT ![i].status = "resolved"]
        /\ UNCHANGED <<health, sweep, silenced, doubled, engine>>
        /\ answered' = IF alert[i].about \in Pages THEN answered \cup {alert[i].about}
                       ELSE answered
    BY <1>7 DEF Resolve, rulesVars
  <2>2. /\ Narrowed
        /\ \A j \in DOMAIN alert : /\ alert'[j].about = alert[j].about
                                   /\ j # i => alert'[j] = alert[j]
    BY <2>1, StatusOfAlert
  <2>3. ASSUME NEW p \in Pages, Told(p) PROVE Told(p)' \/ p \in answered'
    <3>1. PICK j \in DOMAIN alert : alert[j].about = p /\ Pending(alert[j])
      BY <2>3 DEF Told, About
    <3>2. CASE j = i BY <2>1, <3>1, <3>2
    <3>3. CASE j # i
      <4>1. j \in DOMAIN alert' /\ alert'[j] = alert[j] BY <2>2, <3>1, <3>3 DEF Narrowed
      <4> QED BY <3>1, <4>1 DEF Told, About, Pending
    <3> QED BY <3>2, <3>3
  <2>4. answered \subseteq answered' BY <2>1
  <2> QED BY <2>1, <2>2, <2>3, <2>4, NarrowedKeeps
<1> QED BY <1>2, <1>3, <1>4, <1>5, <1>6, <1>7, EngineCreatesKeeps, EditRuleKeeps DEF AlertsNext

-----------------------------------------------------------------------------
(* The screens.  The inductive invariant looks at one part at a time: no   *)
(* two requests run for it unless it raced, the one that does asks what    *)
(* the inputs ask, and without one it shows that.                          *)

IsRequest(r) ==
    /\ r \in [n: {r.n}, effect: {r.effect}, parts: {r.parts}, of: {r.of}, version: {r.version}]
    /\ r.version \in Nat
    /\ r.effect \in {"main", "edit", "reload"} => r.parts = {"table", "kpis"}
    /\ r.effect = "pick" => r.parts = {"kpis"}
    /\ r.effect = "drill" => r.parts = {"drilldown"}

IsAsked(a) == a \in [range: {a.range}, pick: {a.pick}]
IsTable(t) == t \in [version: {t.version}, mine: {t.mine}] /\ t.version \in Nat /\ t.mine \in Nat

ScreenShape ==
    /\ screen \in Screens \cup {NoScreen}
    /\ IsAsked(asked) /\ (screen.overview = FALSE => asked.pick = NoPick)
    /\ IsTable(table) /\ table.mine <= table.version /\ 1 <= table.version
    /\ shown = [p \in Parts |-> shown[p]]
    /\ \A r \in flight : IsRequest(r) /\ r.version <= table.version
    /\ screen.overview = FALSE =>
        \A r \in flight : r.effect \in {"main", "edit", "reload"}
    /\ screen.edits = "none" => \A r \in flight : r.effect \notin {"edit", "reload"}

ScreenErrors ==
    screen.overview = FALSE => failed \subseteq {"table", "kpis"} /\ (failed # {} => error = TRUE)

Claimed(p) == p = "drilldown" => asked.pick # NoPick
Fits(p, of) == IF p = "table" THEN of.range = asked.range ELSE of = asked
For(p) == {r \in flight : p \in r.parts}
Alone(p) == \A r, s \in For(p) : r = s
Asking(p) == \A r \in For(p) : Fits(p, r.of) /\ (r.version = 0 \/ table.mine <= r.version)
Showing(p) == Fits(p, shown[p].of) /\ table.mine <= shown[p].version
PartOK(p) ==
    p \notin raced =>
        /\ Alone(p)
        /\ Claimed(p) =>
            /\ Asking(p)
            /\ p \notin failed /\ (\A r \in For(p) : r.effect = "edit") => Showing(p)

ScreenInv ==
    /\ ScreenShape /\ ScreenErrors
    /\ screen # NoScreen => \A p \in Parts : PartOK(p)

IsBanner(b) ==
    b \in [pc: {"loading", "idle", "toggling", "rereading"}, loaded: BOOLEAN, enabled: BOOLEAN,
            error: BOOLEAN, landed: BOOLEAN]
BannerInv ==
    /\ IsBanner(banner) /\ testMode \in BOOLEAN /\ overtaken \in BOOLEAN
    /\ banner.pc = "idle" /\ banner.loaded = TRUE /\ banner.error = FALSE /\ overtaken = FALSE
        => banner.enabled = testMode
    /\ banner.pc = "toggling" /\ banner.landed = TRUE /\ overtaken = FALSE
        => banner.enabled = testMode

LEMMA ScreensAre ==
    ASSUME NEW s \in Screens \cup {NoScreen}
    PROVE  s.overview \in BOOLEAN /\ (s.overview = TRUE => s.edits = "none")
<1>1. \A x \in {ClicksPage, TrafficPage, RoutingPage, CampaignsPage, CampaignPage, LanderPage} :
        x.overview = FALSE
  BY DEF Screen, ClicksPage, TrafficPage, RoutingPage, CampaignsPage, CampaignPage, LanderPage
<1>2. \A x \in {SettingsPage, PathsPage, LandersPage, DomainsPage, IntegrationsPage, ConversionsPage} :
        x.overview = FALSE
  BY DEF Screen, SettingsPage, PathsPage, LandersPage, DomainsPage, IntegrationsPage,
         ConversionsPage
<1>3. \A x \in {RulesPage, AlertsPage, EventTypesPage, NetworksPage, OffersPage, LeadsPage} :
        x.overview = FALSE
  BY DEF Screen, RulesPage, AlertsPage, EventTypesPage, NetworksPage, OffersPage, LeadsPage
<1>4. \A x \in {IncomingPage, FunnelPage, PlacementsPage, InsightsPage, PerformancePage, NoScreen} :
        x.overview = FALSE
  BY DEF Screen, IncomingPage, FunnelPage, PlacementsPage, InsightsPage, PerformancePage, NoScreen
<1>5. OverviewPage.overview = TRUE /\ OverviewPage.edits = "none" BY DEF OverviewPage, Screen
<1> QED BY <1>1, <1>2, <1>3, <1>4, <1>5, Zenon DEF Screens

LEMMA ScreenInvImplies == ScreenInv /\ BannerInv => ScreensShowWhatWasAsked
<1> SUFFICES ASSUME ScreenInv, BannerInv PROVE ScreensShowWhatWasAsked OBVIOUS
<1>1. ASSUME NEW p \in Parts, screen # NoScreen, \A r \in flight : p \notin r.parts,
             p \notin raced \cup failed, p = "drilldown" => asked.pick # NoPick
      PROVE  /\ IF p = "table" THEN shown[p].of.range = asked.range ELSE shown[p].of = asked
             /\ table.mine <= shown[p].version
  <2>1. PartOK(p) /\ For(p) = {} BY <1>1 DEF ScreenInv, For
  <2> QED BY <1>1, <2>1 DEF PartOK, Claimed, Showing, Fits
<1>2. ASSUME ~screen.overview, failed # {} PROVE error
  <2>1. screen.overview = FALSE BY <1>2, ScreensAre DEF ScreenInv, ScreenShape
  <2> QED BY <1>2, <2>1 DEF ScreenInv, ScreenErrors
<1>3. ASSUME banner.pc = "idle", banner.loaded, ~banner.error, ~overtaken
      PROVE  banner.enabled = testMode
  BY <1>3 DEF BannerInv, IsBanner
<1> QED BY <1>1, <1>2, <1>3 DEF ScreensShowWhatWasAsked

LEMMA ScreenStart == ConsoleInit => ScreenInv /\ BannerInv
<1> SUFFICES ASSUME NEW s \in Screens \cup {NoScreen}, Mount(s), testMode \in BOOLEAN
             PROVE  ScreenInv /\ BannerInv
  BY DEF ConsoleInit
<1> DEFINE first == [n |-> 0, effect |-> "main", parts |-> {"table", "kpis"}, of |-> AskedFirst,
                     version |-> 0]
<1>1. flight \subseteq {first} /\ (s # NoScreen => flight = {first}) BY DEF Mount
<1>2. /\ IsRequest(first) /\ first.effect = "main" /\ first.parts = {"table", "kpis"}
      /\ first.of = AskedFirst /\ first.version = 0
  BY DEF IsRequest
<1> HIDE DEF first
<1>3. /\ screen = s /\ asked = AskedFirst /\ shown = [p \in Parts |-> Nothing]
      /\ table = [version |-> 1, mine |-> 1] /\ raced = {} /\ failed = {} /\ overtaken = FALSE
      /\ banner = [pc |-> IF s = NoScreen THEN "loading" ELSE "idle", loaded |-> FALSE,
                   enabled |-> FALSE, error |-> FALSE, landed |-> FALSE]
  BY DEF Mount
<1>4. IsAsked(asked) /\ asked.pick = NoPick BY <1>3 DEF AskedFirst, IsAsked
<1>5. IsTable(table) /\ table.mine = 1 /\ table.version = 1 BY <1>3 DEF IsTable
<1>6. ScreenShape BY <1>1, <1>2, <1>3, <1>4, <1>5 DEF ScreenShape
<1>7. ScreenErrors BY <1>3 DEF ScreenErrors
<1>8. ASSUME screen # NoScreen, NEW p \in Parts PROVE PartOK(p)
  <2>1. For(p) \subseteq {first} BY <1>1 DEF For
  <2>2. Alone(p) BY <2>1 DEF Alone
  <2>3. Asking(p) BY <1>2, <1>3, <2>1 DEF Asking, Fits
  <2>4. Claimed(p) => first \in For(p)
    BY <1>1, <1>2, <1>3, <1>4, <1>8 DEF Claimed, For, Parts
  <2>5. Claimed(p) => ~\A r \in For(p) : r.effect = "edit" BY <1>2, <2>4
  <2> QED BY <2>2, <2>3, <2>5 DEF PartOK
<1>9. BannerInv BY <1>3 DEF BannerInv, IsBanner
<1> QED BY <1>6, <1>7, <1>8, <1>9 DEF ScreenInv

\* A part keeps its invariant when neither its requests nor what it shows changed.
LEMMA PartKept ==
    ASSUME NEW p, PartOK(p), p \notin raced' => p \notin raced,
           For(p)' = For(p), table'.mine = table.mine, shown'[p] = shown[p],
           p \notin failed' => p \notin failed,
           Claimed(p)' => Claimed(p) /\ \A of : Fits(p, of)' = Fits(p, of)
    PROVE  PartOK(p)'
BY DEF PartOK, Alone, Asking, Showing

\* A part for which one load is sent, with what the inputs ask.
LEMMA PartSent ==
    ASSUME NEW p, NEW r, r.effect # "edit", r.of = asked', r.version = 0,
           p \notin raced' => For(p)' = {r}
    PROVE  PartOK(p)'
<1> SUFFICES ASSUME For(p)' = {r} PROVE PartOK(p)' BY DEF PartOK
<1>1. Alone(p)' BY DEF Alone
<1>2. Asking(p)' BY DEF Asking, Fits
<1>3. ~ \A s \in For(p)' : s.effect = "edit" OBVIOUS
<1> QED BY <1>1, <1>2, <1>3 DEF PartOK

LEMMA RequestIs ==
    ASSUME NEW effect, NEW parts, NEW inputs,
           effect \in {"main", "edit", "reload"} => parts = {"table", "kpis"},
           effect = "pick" => parts = {"kpis"}, effect = "drill" => parts = {"drilldown"}
    PROVE  /\ IsRequest(Request(effect, parts, inputs))
           /\ Request(effect, parts, inputs).effect = effect
           /\ Request(effect, parts, inputs).parts = parts
           /\ Request(effect, parts, inputs).of = inputs
           /\ Request(effect, parts, inputs).version = 0
BY DEF Request, IsRequest

\* A request that is sent runs alone for a part of it, or the part is marked.
LEMMA SentAlone ==
    ASSUME NEW requests, NEW others, Send(requests, others), NEW r \in requests, NEW p \in r.parts,
           \A s \in requests : p \in s.parts => s = r,
           screen.guarded => \A o \in others : o.effect # r.effect
                             \/ r.effect \notin {"main", "pick", "drill"}
    PROVE  p \notin raced' => For(p)' = {r}
<1> SUFFICES ASSUME p \notin raced' PROVE For(p)' = {r} OBVIOUS
<1>1. flight' = others \cup requests
      /\ raced' = (raced \ UNION {s.parts : s \in requests}) \cup UNION {Against(s, others) : s \in requests}
  BY DEF Send
<1>2. p \notin Against(r, others) BY <1>1
<1>3. \A o \in others : p \notin o.parts BY <1>2 DEF Against
<1> QED BY <1>1, <1>3 DEF For

\* A part no request is sent for.
LEMMA SentElsewhere ==
    ASSUME NEW requests, NEW others, Send(requests, others), others \subseteq flight, NEW p,
           \A s \in requests : p \notin s.parts
    PROVE  /\ For(p)' \subseteq For(p) /\ (p \notin raced' => p \notin raced)
           /\ (\A o \in flight : p \in o.parts => o \in others) => For(p)' = For(p)
<1>1. flight' = others \cup requests
      /\ raced' = (raced \ UNION {s.parts : s \in requests}) \cup UNION {Against(s, others) : s \in requests}
  BY DEF Send
<1> QED BY <1>1 DEF For

\* A part nothing is claimed of: its requests may only have been called off.
LEMMA PartUnclaimed ==
    ASSUME NEW p, PartOK(p), p \notin raced' => p \notin raced, For(p)' \subseteq For(p), ~Claimed(p)'
    PROVE  PartOK(p)'
BY DEF PartOK, Alone

LEMMA ScreenFacts ==
    ASSUME ScreenInv
    PROVE  /\ screen.overview \in BOOLEAN
           /\ screen.overview = TRUE => screen.edits = "none"
           /\ asked.pick # NoPick => screen.overview = TRUE
BY ScreensAre DEF ScreenInv, ScreenShape

LEMMA CleanedUp ==
    ASSUME NEW effects
    PROVE  /\ Cleanup(effects) \subseteq flight
           /\ screen.guarded => \A o \in Cleanup(effects) : o.effect \notin effects
           /\ \A o \in flight : o.effect \notin effects => o \in Cleanup(effects)
BY DEF Cleanup

\* The shape after loads are sent.
LEMMA SentShape ==
    ASSUME ScreenInv, NEW requests, NEW others, Send(requests, others), others \subseteq flight,
           UNCHANGED <<screen, shown, table>>, IsAsked(asked'),
           screen.overview = FALSE => asked'.pick = NoPick,
           \A r \in requests : /\ IsRequest(r) /\ r.version = 0
                               /\ r.effect \notin {"edit", "reload"}
                               /\ screen.overview = FALSE => r.effect = "main"
    PROVE  ScreenShape'
<1>1. flight' = others \cup requests BY DEF Send
<1>2. \A r \in flight' : IsRequest(r) /\ r.version <= table.version
  BY <1>1 DEF ScreenInv, ScreenShape, IsTable
<1>3. screen.overview = FALSE => \A r \in flight' : r.effect \in {"main", "edit", "reload"}
  BY <1>1 DEF ScreenInv, ScreenShape
<1>4. screen.edits = "none" => \A r \in flight' : r.effect \notin {"edit", "reload"}
  BY <1>1 DEF ScreenInv, ScreenShape
<1> QED BY <1>2, <1>3, <1>4 DEF ScreenInv, ScreenShape

LEMMA ChangeRangeKeeps ==
    ASSUME ScreenInv, NEW range, ChangeRange(range) PROVE ScreenInv'
<1> DEFINE inputs == [asked EXCEPT !.range = range]
           main == Request("main", {"table", "kpis"}, inputs)
           drill == Request("drill", {"drilldown"}, inputs)
           requests == {main} \cup (IF screen.overview /\ asked.pick # NoPick THEN {drill} ELSE {})
           others == Cleanup({"main", "drill"})
<1>1. /\ asked' = inputs /\ Send(requests, others)
      /\ UNCHANGED <<screen, shown, error, table, failed>>
  BY DEF ChangeRange
<1>2. /\ IsRequest(main) /\ main.effect = "main" /\ main.parts = {"table", "kpis"}
      /\ main.of = inputs /\ main.version = 0
  BY RequestIs
<1>3. /\ IsRequest(drill) /\ drill.effect = "drill" /\ drill.parts = {"drilldown"}
      /\ drill.of = inputs /\ drill.version = 0
  BY RequestIs
<1>4. IsAsked(inputs) /\ inputs.pick = asked.pick BY DEF ScreenInv, ScreenShape, IsAsked
<1>5. /\ others \subseteq flight
      /\ screen.guarded => \A o \in others : o.effect \notin {"main", "drill"}
  BY CleanedUp
<1> HIDE DEF inputs, main, drill, others
<1>6. /\ requests \subseteq {main, drill} /\ main \in requests
      /\ drill \in requests <=> screen.overview = TRUE /\ asked.pick # NoPick
  BY <1>2, <1>3, ScreenFacts
<1> HIDE DEF requests
<1>7. ScreenShape'
  <2>1. \A r \in requests : /\ IsRequest(r) /\ r.version = 0
                            /\ r.effect \notin {"edit", "reload"}
                            /\ screen.overview = FALSE => r.effect = "main"
    BY <1>2, <1>3, <1>6
  <2>2. screen.overview = FALSE => asked'.pick = NoPick
    BY <1>1, <1>4 DEF ScreenInv, ScreenShape
  <2> QED BY <1>1, <1>4, <1>5, <2>1, <2>2, SentShape
<1>8. ScreenErrors' BY <1>1 DEF ScreenInv, ScreenErrors
<1>9. ASSUME NEW p \in {"table", "kpis"} PROVE PartOK(p)'
  <2>1. p \in main.parts /\ \A s \in requests : p \in s.parts => s = main
    BY <1>2, <1>3, <1>6
  <2>2. screen.guarded => \A o \in others : o.effect # main.effect
                          \/ main.effect \notin {"main", "pick", "drill"}
    BY <1>2, <1>5
  <2>3. p \notin raced' => For(p)' = {main} BY <1>1, <1>6, <2>1, <2>2, SentAlone
  <2> QED BY <1>1, <1>2, <2>3, PartSent
<1>10. ASSUME screen # NoScreen PROVE PartOK("drilldown")'
  <2>1. CASE drill \in requests
    <3>1. "drilldown" \in drill.parts /\ \A s \in requests : "drilldown" \in s.parts => s = drill
      BY <1>2, <1>3, <1>6
    <3>2. screen.guarded => \A o \in others : o.effect # drill.effect
                            \/ drill.effect \notin {"main", "pick", "drill"}
      BY <1>3, <1>5
    <3>3. "drilldown" \notin raced' => For("drilldown")' = {drill}
      BY <1>1, <2>1, <3>1, <3>2, SentAlone
    <3> QED BY <1>1, <1>3, <3>3, PartSent
  <2>2. CASE drill \notin requests
    <3>1. \A s \in requests : "drilldown" \notin s.parts BY <1>2, <1>6, <2>2
    <3>2. For("drilldown")' \subseteq For("drilldown")
          /\ ("drilldown" \notin raced' => "drilldown" \notin raced)
      BY <1>1, <1>5, <3>1, SentElsewhere
    <3>3. asked.pick = NoPick BY <1>6, <2>2, ScreenFacts
    <3>4. ~Claimed("drilldown")' BY <1>1, <1>4, <3>3 DEF Claimed
    <3>5. PartOK("drilldown") BY <1>10 DEF ScreenInv, Parts
    <3> QED BY <3>2, <3>4, <3>5, PartUnclaimed
  <2> QED BY <2>1, <2>2
<1> QED BY <1>1, <1>7, <1>8, <1>9, <1>10 DEF ScreenInv, Parts

LEMMA PickCampaignKeeps ==
    ASSUME ScreenInv, NEW pick, PickCampaign(pick) PROVE ScreenInv'
<1> DEFINE inputs == [asked EXCEPT !.pick = pick]
           kpis == Request("pick", {"kpis"}, inputs)
           drill == Request("drill", {"drilldown"}, inputs)
           requests == {kpis} \cup (IF pick # NoPick THEN {drill} ELSE {})
           others == Cleanup({"pick", "drill"})
<1>1. /\ asked' = inputs /\ Send(requests, others) /\ screen.overview
      /\ UNCHANGED <<screen, shown, error, table, failed>>
  BY DEF PickCampaign
<1>2. /\ IsRequest(kpis) /\ kpis.effect = "pick" /\ kpis.parts = {"kpis"}
      /\ kpis.of = inputs /\ kpis.version = 0
  BY RequestIs
<1>3. /\ IsRequest(drill) /\ drill.effect = "drill" /\ drill.parts = {"drilldown"}
      /\ drill.of = inputs /\ drill.version = 0
  BY RequestIs
<1>4. IsAsked(inputs) /\ inputs.pick = pick /\ inputs.range = asked.range
  BY DEF ScreenInv, ScreenShape, IsAsked
<1>5. /\ others \subseteq flight
      /\ screen.guarded => \A o \in others : o.effect \notin {"pick", "drill"}
      /\ \A o \in flight : o.effect \notin {"pick", "drill"} => o \in others
  BY CleanedUp
<1> HIDE DEF inputs, kpis, drill, others
<1>6. /\ requests \subseteq {kpis, drill} /\ kpis \in requests
      /\ drill \in requests <=> pick # NoPick
  BY <1>2, <1>3
<1> HIDE DEF requests
<1>7. screen.overview = TRUE BY <1>1, ScreenFacts
<1>8. ScreenShape'
  <2>1. \A r \in requests : /\ IsRequest(r) /\ r.version = 0
                            /\ r.effect \notin {"edit", "reload"}
                            /\ screen.overview = FALSE => r.effect = "main"
    BY <1>2, <1>3, <1>6, <1>7
  <2> QED BY <1>1, <1>4, <1>5, <1>7, <2>1, SentShape
<1>9. ScreenErrors' BY <1>1 DEF ScreenInv, ScreenErrors
<1>10. PartOK("kpis")'
  <2>1. "kpis" \in kpis.parts /\ \A s \in requests : "kpis" \in s.parts => s = kpis
    BY <1>2, <1>3, <1>6
  <2>2. screen.guarded => \A o \in others : o.effect # kpis.effect
                          \/ kpis.effect \notin {"main", "pick", "drill"}
    BY <1>2, <1>5
  <2>3. "kpis" \notin raced' => For("kpis")' = {kpis} BY <1>1, <1>6, <2>1, <2>2, SentAlone
  <2> QED BY <1>1, <1>2, <2>3, PartSent
<1>11. ASSUME screen # NoScreen PROVE PartOK("table")'
  <2>1. \A s \in requests : "table" \notin s.parts BY <1>2, <1>3, <1>6
  <2>2. \A o \in flight : "table" \in o.parts => o \in others
    BY <1>5 DEF ScreenInv, ScreenShape, IsRequest
  <2>3. For("table")' = For("table") /\ ("table" \notin raced' => "table" \notin raced)
    BY <1>1, <1>5, <2>1, <2>2, SentElsewhere
  <2>4. \A of : Fits("table", of)' = Fits("table", of) BY <1>1, <1>4 DEF Fits
  <2>5. PartOK("table") /\ Claimed("table") BY <1>11 DEF ScreenInv, Parts, Claimed
  <2> QED BY <1>1, <2>3, <2>4, <2>5, PartKept
<1>12. ASSUME screen # NoScreen PROVE PartOK("drilldown")'
  <2>1. CASE drill \in requests
    <3>1. "drilldown" \in drill.parts /\ \A s \in requests : "drilldown" \in s.parts => s = drill
      BY <1>2, <1>3, <1>6
    <3>2. screen.guarded => \A o \in others : o.effect # drill.effect
                            \/ drill.effect \notin {"main", "pick", "drill"}
      BY <1>3, <1>5
    <3>3. "drilldown" \notin raced' => For("drilldown")' = {drill}
      BY <1>1, <2>1, <3>1, <3>2, SentAlone
    <3> QED BY <1>1, <1>3, <3>3, PartSent
  <2>2. CASE drill \notin requests
    <3>1. \A s \in requests : "drilldown" \notin s.parts BY <1>2, <1>6, <2>2
    <3>2. For("drilldown")' \subseteq For("drilldown")
          /\ ("drilldown" \notin raced' => "drilldown" \notin raced)
      BY <1>1, <1>5, <3>1, SentElsewhere
    <3>3. ~Claimed("drilldown")' BY <1>1, <1>4, <1>6, <2>2 DEF Claimed
    <3>4. PartOK("drilldown") BY <1>12 DEF ScreenInv, Parts
    <3> QED BY <3>2, <3>3, <3>4, PartUnclaimed
  <2> QED BY <2>1, <2>2
<1> QED BY <1>1, <1>8, <1>9, <1>10, <1>11, <1>12 DEF ScreenInv, Parts

LEMMA RefreshOverviewKeeps ==
    ASSUME ScreenInv, NEW everything \in BOOLEAN, RefreshOverview(everything) PROVE ScreenInv'
<1> DEFINE drilldown == IF asked.pick = NoPick THEN {} ELSE {"drilldown"}
           parts == IF everything \/ drilldown = {} THEN {"table", "kpis"} \cup drilldown ELSE drilldown
           r == Request("refresh", parts, asked)
<1>1. /\ asked' = asked /\ Send({r}, flight) /\ screen.overview
      /\ UNCHANGED <<screen, shown, error, table, failed>>
  BY DEF RefreshOverview
<1> HIDE DEF parts
<1>2. /\ IsRequest(r) /\ r.effect = "refresh" /\ r.parts = parts
      /\ r.of = asked /\ r.version = 0
  BY RequestIs
<1> HIDE DEF r
<1>3. screen.overview = TRUE BY <1>1, ScreenFacts
<1>4. IsAsked(asked') BY <1>1 DEF ScreenInv, ScreenShape
<1>5. ScreenShape'
  <2>1. \A o \in {r} : /\ IsRequest(o) /\ o.version = 0
                       /\ o.effect \notin {"edit", "reload"}
                       /\ screen.overview = FALSE => o.effect = "main"
    BY <1>2, <1>3
  <2> QED BY <1>1, <1>3, <1>4, <2>1, SentShape
<1>6. ScreenErrors' BY <1>1 DEF ScreenInv, ScreenErrors
<1>7. ASSUME NEW p \in Parts, screen # NoScreen PROVE PartOK(p)'
  <2>1. CASE p \in r.parts
    <3>1. screen.guarded => \A o \in flight : o.effect # r.effect
                            \/ r.effect \notin {"main", "pick", "drill"}
      BY <1>2
    <3>2. r \in {r} /\ \A s \in {r} : p \in s.parts => s = r OBVIOUS
    <3>3. p \notin raced' => For(p)' = {r} BY <1>1, <2>1, <3>1, <3>2, SentAlone
    <3> QED BY <1>1, <1>2, <3>3, PartSent
  <2>2. CASE p \notin r.parts
    <3>1. For(p)' = For(p) /\ (p \notin raced' => p \notin raced)
      BY <1>1, <2>2, SentElsewhere
    <3>2. Claimed(p)' = Claimed(p) /\ \A of : Fits(p, of)' = Fits(p, of)
      BY <1>1 DEF Fits, Claimed
    <3>3. PartOK(p) BY <1>7 DEF ScreenInv
    <3> QED BY <1>1, <3>1, <3>2, <3>3, PartKept
  <2> QED BY <2>1, <2>2
<1> QED BY <1>1, <1>5, <1>6, <1>7 DEF ScreenInv

\* An edit is sent: what is shown stays good if nothing else runs for the part.
LEMMA EditKeeps == ASSUME ScreenInv, Edit PROVE ScreenInv'
<1> DEFINE e == Request("edit", {"table", "kpis"}, asked)
<1>1. /\ flight' = flight \cup {e} /\ raced' = raced \cup Against(e, flight)
      /\ screen.edits # "none"
      /\ UNCHANGED <<screen, asked, shown, error, table, failed>>
  BY DEF Edit
<1>2. /\ IsRequest(e) /\ e.effect = "edit" /\ e.parts = {"table", "kpis"}
      /\ e.of = asked /\ e.version = 0
  BY RequestIs
<1> HIDE DEF e
<1>3. screen.overview = FALSE BY <1>1, ScreenFacts
<1>4. ScreenShape' BY <1>1, <1>2 DEF ScreenInv, ScreenShape, IsTable
<1>5. ScreenErrors' BY <1>1 DEF ScreenInv, ScreenErrors
<1>6. \A p, of : Fits(p, of)' = Fits(p, of) /\ Claimed(p)' = Claimed(p) /\ Showing(p)' = Showing(p)
  BY <1>1 DEF Fits, Claimed, Showing
<1>7. ASSUME NEW p \in Parts, PartOK(p), p \notin raced' PROVE PartOK(p)'
  <2>1. CASE p \in e.parts
    <3>1. \A o \in flight : p \notin o.parts BY <1>1, <1>2, <1>7, <2>1 DEF Against
    <3>2. For(p) = {} /\ For(p)' = {e} BY <1>1, <2>1, <3>1 DEF For
    <3>3. Alone(p)' BY <3>2 DEF Alone
    <3>4. Asking(p)' BY <1>1, <1>2, <3>2 DEF Asking, Fits
    <3>5. Claimed(p) /\ p \notin failed => Showing(p) BY <1>1, <1>7, <3>2 DEF PartOK
    <3> QED BY <1>1, <1>6, <3>3, <3>4, <3>5 DEF PartOK
  <2>2. CASE p \notin e.parts
    <3>1. For(p)' = For(p) BY <1>1, <2>2 DEF For
    <3> QED BY <1>1, <1>6, <1>7, <3>1, PartKept
  <2> QED BY <2>1, <2>2
<1>8. ASSUME NEW p \in Parts, screen # NoScreen PROVE PartOK(p)'
  <2>1. PartOK(p) BY <1>8 DEF ScreenInv
  <2>2. CASE p \in raced' BY <2>2 DEF PartOK
  <2> QED BY <1>7, <2>1, <2>2
<1> QED BY <1>1, <1>4, <1>5, <1>8 DEF ScreenInv

\* A request is served: it is newer than the last edit known here.
LEMMA ServeKeeps == ASSUME ScreenInv, NEW r \in flight, Serve(r) PROVE ScreenInv'
<1>1. PICK version : version = IF r.effect = "edit" THEN table.version + 1 ELSE table.version
  OBVIOUS
<1>2. PICK s : s = [r EXCEPT !.version = version] OBVIOUS
<1>3. /\ r.version = 0 /\ table' = [table EXCEPT !.version = version]
      /\ flight' = (flight \ {r}) \cup {s}
      /\ UNCHANGED <<screen, asked, shown, error, raced, failed>>
  BY <1>1, <1>2 DEF Serve
<1>4. IsTable(table) /\ table.mine <= table.version /\ 1 <= table.version /\ IsRequest(r)
  BY DEF ScreenInv, ScreenShape
<1>5. version \in Nat /\ table.version <= version BY <1>1, <1>4 DEF IsTable
<1>6. IsTable(table') /\ table'.version = version /\ table'.mine = table.mine
  BY <1>3, <1>4, <1>5 DEF IsTable
<1>7. /\ IsRequest(s) /\ s.effect = r.effect /\ s.parts = r.parts
      /\ s.of = r.of /\ s.version = version
  BY <1>2, <1>4, <1>5 DEF IsRequest
<1>8. ScreenShape'
  <2>1. table'.mine <= table'.version /\ 1 <= table'.version BY <1>4, <1>5, <1>6 DEF IsTable
  <2>2. \A o \in flight' : IsRequest(o) /\ o.version <= table'.version
    <3>1. ASSUME NEW o \in flight PROVE IsRequest(o) /\ o.version <= version
      BY <1>4, <1>5 DEF ScreenInv, ScreenShape, IsRequest, IsTable
    <3> QED BY <1>3, <1>5, <1>6, <1>7, <3>1
  <2>3. /\ screen.overview = FALSE =>
            \A o \in flight' : o.effect \in {"main", "edit", "reload"}
        /\ screen.edits = "none" => \A o \in flight' : o.effect \notin {"edit", "reload"}
    BY <1>3, <1>7 DEF ScreenInv, ScreenShape
  <2>4. /\ screen' \in Screens \cup {NoScreen} /\ IsAsked(asked')
        /\ screen'.overview = FALSE => asked'.pick = NoPick
        /\ shown' = [p \in Parts |-> shown'[p]]
    BY <1>3 DEF ScreenInv, ScreenShape
  <2> QED BY <1>3, <1>6, <2>1, <2>2, <2>3, <2>4 DEF ScreenShape
<1>9. ScreenErrors' BY <1>3 DEF ScreenInv, ScreenErrors
<1>10. \A p, of : Fits(p, of)' = Fits(p, of) /\ Claimed(p)' = Claimed(p) /\ Showing(p)' = Showing(p)
  BY <1>3, <1>6 DEF Fits, Claimed, Showing
<1>11. ASSUME NEW p \in Parts, PartOK(p), p \notin raced' PROVE PartOK(p)'
  <2>1. CASE p \in r.parts
    <3>1. For(p) = {r} BY <1>3, <1>11, <2>1 DEF PartOK, Alone, For
    <3>2. For(p)' = {s} BY <1>3, <1>7, <2>1, <3>1 DEF For
    <3>3. Alone(p)' BY <3>2 DEF Alone
    <3>4. Asking(p)' <=> Fits(p, s.of)' /\ (s.version = 0 \/ table'.mine <= s.version)
      BY <3>2 DEF Asking
    <3>5. Claimed(p) => Fits(p, r.of) BY <1>3, <1>11, <3>1 DEF PartOK, Asking
    <3>6. table'.mine <= s.version BY <1>4, <1>5, <1>6, <1>7 DEF IsTable
    <3>7. Claimed(p) => Asking(p)' BY <1>7, <1>10, <3>4, <3>5, <3>6
    <3>8. Claimed(p) /\ p \notin failed /\ r.effect = "edit" => Showing(p)
      BY <1>3, <1>11, <3>1 DEF PartOK
    <3> QED BY <1>3, <1>7, <1>10, <3>2, <3>3, <3>7, <3>8 DEF PartOK
  <2>2. CASE p \notin r.parts
    <3>1. For(p)' = For(p) BY <1>3, <1>7, <2>2 DEF For
    <3> QED BY <1>3, <1>6, <1>10, <1>11, <3>1, PartKept
  <2> QED BY <2>1, <2>2
<1>12. ASSUME NEW p \in Parts, screen # NoScreen PROVE PartOK(p)'
  <2>1. PartOK(p) BY <1>12 DEF ScreenInv
  <2>2. CASE p \in raced' BY <2>2 DEF PartOK
  <2> QED BY <1>11, <2>1, <2>2
<1> QED BY <1>3, <1>8, <1>9, <1>12 DEF ScreenInv

\* The shape after an answer was shown or given up, or another request took its place.
LEMMA AnsweredShape ==
    ASSUME ScreenInv, NEW r \in flight, flight' \subseteq (flight \ {r}) \cup {o \in flight' :
             IsRequest(o) /\ o.version = 0 /\ o.effect = "reload"},
           screen.edits = "none" => flight' \subseteq flight,
           UNCHANGED <<screen, asked>>, table'.version = table.version, IsTable(table'),
           table'.mine <= table.version, shown' = [p \in Parts |-> shown'[p]]
    PROVE  ScreenShape'
<1>1. IsTable(table) /\ 1 <= table.version BY DEF ScreenInv, ScreenShape
<1>2. \A o \in flight' : IsRequest(o) /\ o.version <= table'.version
  BY <1>1 DEF ScreenInv, ScreenShape, IsTable
<1>3. screen'.overview = FALSE => \A o \in flight' : o.effect \in {"main", "edit", "reload"}
  BY DEF ScreenInv, ScreenShape
<1>4. screen'.edits = "none" => \A o \in flight' : o.effect \notin {"edit", "reload"}
  BY DEF ScreenInv, ScreenShape
<1>5. /\ screen' \in Screens \cup {NoScreen} /\ IsAsked(asked')
      /\ screen'.overview = FALSE => asked'.pick = NoPick
  BY DEF ScreenInv, ScreenShape
<1> QED BY <1>1, <1>2, <1>3, <1>4, <1>5 DEF ScreenShape

\* The request of a part that did not race is the only one.
LEMMA OnlyOne ==
    ASSUME NEW r \in flight, NEW p \in r.parts, PartOK(p), p \notin raced
    PROVE  /\ For(p) = {r}
           /\ Claimed(p) => /\ Fits(p, r.of) /\ (r.version = 0 \/ table.mine <= r.version)
                            /\ p \notin failed /\ r.effect = "edit" => Showing(p)
<1>1. For(p) = {r} BY DEF PartOK, Alone, For
<1> QED BY <1>1 DEF PartOK, Asking

\* Nothing runs for a part any more: it must show what was asked, or have failed.
LEMMA PartSettled ==
    ASSUME NEW p, For(p)' = {}, Claimed(p)' /\ p \notin raced' \cup failed' => Showing(p)'
    PROVE  PartOK(p)'
BY DEF PartOK, Alone, Asking

LEMMA LoadAnsweredKeeps ==
    ASSUME ScreenInv, NEW r \in flight, LoadAnswered(r) PROVE ScreenInv'
<1>1. /\ r.version > 0 /\ r.effect # "edit" /\ Show(r)
      /\ flight' = flight \ {r} /\ failed' = failed \ r.parts
      /\ UNCHANGED <<screen, asked, table, raced>>
  BY DEF LoadAnswered
<1>2. \A p \in Parts : shown'[p] = IF p \in r.parts THEN [of |-> r.of, version |-> r.version]
                                                  ELSE shown[p]
  BY <1>1 DEF Show
<1>3. ScreenShape'
  <2>1. IsTable(table') /\ table'.mine <= table.version BY <1>1 DEF ScreenInv, ScreenShape
  <2>2. shown' = [p \in Parts |-> shown'[p]] BY <1>1 DEF Show
  <2> QED BY <1>1, <2>1, <2>2, AnsweredShape
<1>4. ScreenErrors'
  <2>1. screen.overview = FALSE => r.parts = {"table", "kpis"}
    BY <1>1 DEF ScreenInv, ScreenShape, IsRequest
  <2>2. screen.overview = FALSE => failed' = {} BY <1>1, <2>1 DEF ScreenInv, ScreenErrors
  <2> QED BY <1>1, <2>2 DEF ScreenErrors
<1>5. \A p, of : Fits(p, of)' = Fits(p, of) /\ Claimed(p)' = Claimed(p) BY <1>1 DEF Fits, Claimed
<1>6. ASSUME NEW p \in Parts, screen # NoScreen PROVE PartOK(p)'
  <2>1. PartOK(p) BY <1>6 DEF ScreenInv
  <2>2. CASE p \in r.parts /\ p \notin raced
    <3>1. For(p) = {r} /\ (Claimed(p) => Fits(p, r.of) /\ table.mine <= r.version)
      BY <1>1, <2>1, <2>2, OnlyOne DEF ScreenInv, ScreenShape, IsRequest
    <3>2. For(p)' = {} BY <1>1, <3>1 DEF For
    <3>3. shown'[p].of = r.of /\ shown'[p].version = r.version BY <1>2, <2>2
    <3>4. Claimed(p)' => Showing(p)' BY <1>1, <1>5, <3>1, <3>3 DEF Showing
    <3> QED BY <3>2, <3>4, PartSettled
  <2>3. CASE p \notin r.parts
    <3>1. For(p)' = For(p) /\ shown'[p] = shown[p] BY <1>1, <1>2, <2>3 DEF For
    <3> QED BY <1>1, <1>5, <2>1, <2>3, <3>1, PartKept
  <2>4. CASE p \in raced BY <1>1, <2>4 DEF PartOK
  <2> QED BY <2>2, <2>3, <2>4
<1> QED BY <1>1, <1>3, <1>4, <1>6 DEF ScreenInv

LEMMA EditAnsweredKeeps ==
    ASSUME ScreenInv, NEW r \in flight, EditAnswered(r) PROVE ScreenInv'
<1>1. /\ r.version > 0 /\ r.effect = "edit"
      /\ table' = [table EXCEPT !.mine = IF @ > r.version THEN @ ELSE r.version]
      /\ UNCHANGED <<screen, asked, error>>
  BY DEF EditAnswered
<1>2. /\ IsTable(table) /\ IsRequest(r) /\ table.mine <= table.version
      /\ r.version <= table.version /\ r.parts = {"table", "kpis"}
      /\ screen.edits # "none"
  BY <1>1 DEF ScreenInv, ScreenShape, IsRequest
<1>3. /\ IsTable(table') /\ table'.version = table.version /\ table'.mine <= table.version
      /\ table.mine <= r.version => table'.mine <= r.version
  BY <1>1, <1>2 DEF IsTable, IsRequest
<1>4. screen.overview = FALSE /\ asked.pick = NoPick
  BY <1>2, ScreenFacts
<1>5. \A p, of : Fits(p, of)' = Fits(p, of) /\ Claimed(p)' = Claimed(p) BY <1>1 DEF Fits, Claimed
<1>6. CASE screen.edits = "reload"
  <2> DEFINE sent == Request("reload", {"table", "kpis"}, r.of)
  <2>1. /\ IsRequest(sent) /\ sent.effect = "reload" /\ sent.parts = {"table", "kpis"}
        /\ sent.of = r.of /\ sent.version = 0
    BY RequestIs
  <2>2. PICK o : o = [sent EXCEPT !.n = r.n] OBVIOUS
  <2>3. /\ flight' = (flight \ {r}) \cup {o} /\ raced' = raced \cup Against(o, flight \ {r})
        /\ UNCHANGED <<shown, failed>>
    BY <1>6, <2>2 DEF EditAnswered
  <2> HIDE DEF sent
  <2>4. /\ IsRequest(o) /\ o.effect = "reload" /\ o.parts = {"table", "kpis"}
        /\ o.of = r.of /\ o.version = 0
    BY <2>1, <2>2 DEF IsRequest
  <2>5. ScreenShape'
    <3>1. shown' = [p \in Parts |-> shown'[p]] BY <2>3 DEF ScreenInv, ScreenShape
    <3> QED BY <1>1, <1>2, <1>3, <2>3, <2>4, <3>1, AnsweredShape
  <2>6. ScreenErrors' BY <1>1, <2>3 DEF ScreenInv, ScreenErrors
  <2>7. ASSUME NEW p \in {"table", "kpis"}, screen # NoScreen, p \notin raced' PROVE PartOK(p)'
    <3>1. PartOK(p) BY <2>7 DEF ScreenInv, Parts
    <3>2. \A x \in flight \ {r} : p \notin x.parts BY <2>3, <2>4, <2>7 DEF Against
    <3>3. For(p)' = {o} BY <2>3, <2>4, <2>7, <3>2 DEF For
    <3>4. Claimed(p) => Fits(p, r.of) BY <1>2, <2>3, <2>7, <3>1, OnlyOne
    <3>5. Alone(p)' BY <3>3 DEF Alone
    <3>6. Claimed(p)' => Asking(p)' BY <1>5, <2>4, <3>3, <3>4 DEF Asking
    <3>7. ~ \A x \in For(p)' : x.effect = "edit" BY <2>4, <3>3
    <3> QED BY <3>5, <3>6, <3>7 DEF PartOK
  <2>8. ASSUME screen # NoScreen PROVE PartOK("drilldown")'
    <3>1. PartOK("drilldown") BY <2>8 DEF ScreenInv, Parts
    <3>2. For("drilldown")' \subseteq For("drilldown") BY <2>3, <2>4 DEF For
    <3>3. ~Claimed("drilldown")' BY <1>1, <1>4 DEF Claimed
    <3> QED BY <2>3, <3>1, <3>2, <3>3, PartUnclaimed
  <2>9. ASSUME NEW p \in Parts, screen # NoScreen PROVE PartOK(p)'
    <3>1. CASE p \in raced' BY <3>1 DEF PartOK
    <3> QED BY <2>7, <2>8, <2>9, <3>1 DEF Parts
  <2> QED BY <1>1, <2>5, <2>6, <2>9 DEF ScreenInv
<1>7. CASE screen.edits # "reload"
  <2>1. /\ Show(r) /\ flight' = flight \ {r} /\ failed' = failed \ r.parts /\ raced' = raced
    BY <1>7 DEF EditAnswered
  <2>2. \A p \in Parts : shown'[p] = IF p \in r.parts THEN [of |-> r.of, version |-> r.version]
                                                    ELSE shown[p]
    BY <2>1 DEF Show
  <2>3. ScreenShape'
    <3>1. shown' = [p \in Parts |-> shown'[p]] BY <2>1 DEF Show
    <3> QED BY <1>1, <1>3, <2>1, <3>1, AnsweredShape
  <2>4. ScreenErrors' BY <1>1, <2>1 DEF ScreenInv, ScreenErrors
  <2>5. ASSUME NEW p \in {"table", "kpis"}, screen # NoScreen, p \notin raced PROVE PartOK(p)'
    <3>1. PartOK(p) BY <2>5 DEF ScreenInv, Parts
    <3>2. For(p) = {r} /\ (Claimed(p) => Fits(p, r.of) /\ table.mine <= r.version)
      BY <1>1, <1>2, <2>5, <3>1, OnlyOne DEF IsRequest
    <3>3. For(p)' = {} BY <2>1, <3>2 DEF For
    <3>4. shown'[p].of = r.of /\ shown'[p].version = r.version BY <1>2, <2>2, <2>5 DEF Parts
    <3>5. Claimed(p)' => Showing(p)' BY <1>3, <1>5, <3>2, <3>4 DEF Showing
    <3> QED BY <3>3, <3>5, PartSettled
  <2>6. ASSUME screen # NoScreen PROVE PartOK("drilldown")'
    <3>1. PartOK("drilldown") BY <2>6 DEF ScreenInv, Parts
    <3>2. For("drilldown")' \subseteq For("drilldown") BY <2>1 DEF For
    <3>3. ~Claimed("drilldown")' BY <1>1, <1>4 DEF Claimed
    <3> QED BY <2>1, <3>1, <3>2, <3>3, PartUnclaimed
  <2>7. ASSUME NEW p \in Parts, screen # NoScreen PROVE PartOK(p)'
    <3>1. CASE p \in raced BY <2>1, <3>1 DEF PartOK
    <3> QED BY <2>5, <2>6, <2>7, <3>1 DEF Parts
  <2> QED BY <1>1, <2>3, <2>4, <2>7 DEF ScreenInv
<1> QED BY <1>6, <1>7

LEMMA RequestFailsKeeps ==
    ASSUME ScreenInv, NEW r \in flight, RequestFails(r) PROVE ScreenInv'
<1>1. /\ flight' = flight \ {r} /\ UNCHANGED <<screen, asked, shown, table, raced>>
      /\ r.effect = "edit" => UNCHANGED <<error, failed>>
      /\ r.effect # "edit" => error' = TRUE /\ failed' = failed \cup r.parts
  BY DEF RequestFails
<1>2. ScreenShape'
  <2>1. /\ IsTable(table') /\ table'.mine <= table.version
        /\ shown' = [p \in Parts |-> shown'[p]]
    BY <1>1 DEF ScreenInv, ScreenShape
  <2> QED BY <1>1, <2>1, AnsweredShape
<1>3. ScreenErrors'
  <2>1. CASE r.effect = "edit" BY <1>1, <2>1 DEF ScreenInv, ScreenErrors
  <2>2. CASE r.effect # "edit"
    <3>1. screen.overview = FALSE => r.parts = {"table", "kpis"}
      BY <2>2 DEF ScreenInv, ScreenShape, IsRequest
    <3> QED BY <1>1, <2>2, <3>1 DEF ScreenInv, ScreenErrors
  <2> QED BY <2>1, <2>2
<1>4. /\ \A p, of : Fits(p, of)' = Fits(p, of) /\ Claimed(p)' = Claimed(p)
      /\ \A p : Showing(p)' = Showing(p)
  BY <1>1 DEF Fits, Claimed, Showing
<1>5. ASSUME NEW p \in Parts, screen # NoScreen PROVE PartOK(p)'
  <2>1. PartOK(p) BY <1>5 DEF ScreenInv
  <2>2. CASE p \in r.parts /\ p \notin raced
    <3>1. For(p) = {r} /\ (Claimed(p) /\ p \notin failed /\ r.effect = "edit" => Showing(p))
      BY <2>1, <2>2, OnlyOne
    <3>2. For(p)' = {} BY <1>1, <3>1 DEF For
    <3>3. p \notin failed' => p \notin failed /\ r.effect = "edit" BY <1>1, <2>2
    <3> QED BY <1>4, <3>1, <3>2, <3>3, PartSettled
  <2>3. CASE p \notin r.parts
    <3>1. For(p)' = For(p) BY <1>1, <2>3 DEF For
    <3>2. p \notin failed' => p \notin failed BY <1>1, <2>3
    <3> QED BY <1>1, <1>4, <2>1, <3>1, <3>2, PartKept
  <2>4. CASE p \in raced BY <1>1, <2>4 DEF PartOK
  <2> QED BY <2>2, <2>3, <2>4
<1> QED BY <1>1, <1>2, <1>3, <1>5 DEF ScreenInv

LEMMA ScreenStepKeeps == ScreenInv /\ BannerInv /\ ScreenStep => ScreenInv' /\ BannerInv'
<1> SUFFICES ASSUME ScreenInv, BannerInv, ScreenStep PROVE ScreenInv' /\ BannerInv' OBVIOUS
<1>1. BannerInv' BY DEF BannerInv, IsBanner, ScreenStep, bannerVars
<1>2. ScreenInv'
  BY ChangeRangeKeeps, PickCampaignKeeps, RefreshOverviewKeeps, EditKeeps, ServeKeeps,
     LoadAnsweredKeeps, EditAnsweredKeeps, RequestFailsKeeps DEF ScreenStep
<1> QED BY <1>1, <1>2

\* Nothing of a screen moves: neither does its invariant.
LEMMA ScreenRests ==
    ASSUME ScreenInv, UNCHANGED <<screen, asked, shown, flight, error, table, raced, failed>>
    PROVE  ScreenInv'
<1>1. ScreenShape' BY DEF ScreenInv, ScreenShape
<1>2. ScreenErrors' BY DEF ScreenInv, ScreenErrors
<1>3. ASSUME NEW p \in Parts, screen # NoScreen PROVE PartOK(p)'
  <2>1. PartOK(p) BY <1>3 DEF ScreenInv
  <2>2. For(p)' = For(p) BY DEF For
  <2>3. \A of : Fits(p, of)' = Fits(p, of) /\ Claimed(p)' = Claimed(p) BY DEF Fits, Claimed
  <2> QED BY <2>1, <2>2, <2>3, PartKept
<1> QED BY <1>1, <1>2, <1>3 DEF ScreenInv

LEMMA BannerStepKeeps == ScreenInv /\ BannerInv /\ BannerStep => ScreenInv' /\ BannerInv'
<1> SUFFICES ASSUME ScreenInv, BannerInv, BannerStep PROVE ScreenInv' /\ BannerInv' OBVIOUS
<1>1. ScreenInv' BY ScreenRests DEF BannerStep
<1>2. ASSUME BannerRead PROVE BannerInv' BY <1>2 DEF BannerInv, IsBanner, BannerRead
<1>3. ASSUME BannerReadFails PROVE BannerInv' BY <1>3 DEF BannerInv, IsBanner, BannerReadFails
<1>4. ASSUME Toggle PROVE BannerInv' BY <1>4 DEF BannerInv, IsBanner, Toggle
<1>5. ASSUME ToggleLands PROVE BannerInv' BY <1>5 DEF BannerInv, IsBanner, ToggleLands
<1>6. ASSUME ToggleAnswered PROVE BannerInv' BY <1>6 DEF BannerInv, IsBanner, ToggleAnswered
<1>7. ASSUME ToggleFails PROVE BannerInv' BY <1>7 DEF BannerInv, IsBanner, ToggleFails
<1>8. ASSUME ChangedElsewhere PROVE BannerInv' BY <1>8 DEF BannerInv, IsBanner, ChangedElsewhere
<1> QED BY <1>1, <1>2, <1>3, <1>4, <1>5, <1>6, <1>7, <1>8 DEF BannerStep

LEMMA ConsoleStepKeeps ==
    ScreenInv /\ BannerInv /\ [ConsoleNext]_consoleVars => ScreenInv' /\ BannerInv'
<1>1. ScreenInv /\ BannerInv /\ UNCHANGED consoleVars => ScreenInv' /\ BannerInv'
  <2>1. UNCHANGED consoleVars =>
            /\ UNCHANGED <<screen, asked, shown, flight, error, table, raced, failed>>
            /\ UNCHANGED <<banner, testMode, overtaken>>
    BY DEF consoleVars, screenVars, bannerVars
  <2>2. BannerInv /\ UNCHANGED consoleVars => BannerInv' BY <2>1 DEF BannerInv, IsBanner
  <2> QED BY <2>1, <2>2, ScreenRests
<1> QED BY <1>1, ScreenStepKeeps, BannerStepKeeps DEF ConsoleNext

-----------------------------------------------------------------------------
(* The links and the files of the catalogue.  A campaign's link and the    *)
(* files of a lander are right only when no request is under way, so the   *)
(* inductive invariant says who answers for them meanwhile: the request    *)
(* that is alone with its lander and still has to write, or the history    *)
(* of what disturbed it.  And a lander that may go without its campaign's  *)
(* link being looked at again is not the one that link needs.              *)
LanderOps == {"create", "update", "remove", "upload", "deploy"}

IsLander(h) ==
    h \in [state: {"unborn", "present", "gone"}, slug: Slugs, shop: Shops, status: {"draft", "ready"},
           raw: {"none", "no entry", "good"}, built: {"none", "untagged"} \cup Shops]
IsCampaign(h) ==
    h \in [state: {"present", "gone"}, link: Slugs \cup {NoLink},
           profile: {"none", "custom", "system"}, domain: {"none", "own"}]
IsCall(r) ==
    /\ r \in [op: {r.op}, pc: {r.pc}, lander: Landers \cup {NoLander}, shop: Shops, slug: Slugs,
              undisturbed: BOOLEAN]
    /\ r.lander \in Landers <=> r.op \in LanderOps

TablesShape ==
    /\ lander = [l \in Landers |-> lander[l]] /\ \A l \in Landers : IsLander(lander[l])
    /\ shop = [c \in Shops |-> shop[c]] /\ \A c \in Shops : IsCampaign(shop[c])
CatalogueShape ==
    /\ TablesShape
    /\ request = [q \in AdminRequests |-> request[q]] /\ \A q \in AdminRequests : IsCall(request[q])

\* A slug has one lander, and a lander has its campaign.
RowsAgree ==
    /\ \A l, m \in Landers : Born(l) /\ Born(m) /\ lander[l].slug = lander[m].slug => l = m
    /\ \A l \in Landers : Born(l) => Open(lander[l].shop)

\* A request nobody disturbed is the only one about its lander; of one that was
\* disturbed the history answers for the files.
Creates(r) == r.op = "create" /\ r.pc \in {"check", "row"}
RequestOK(q, r) ==
    /\ r.undisturbed = TRUE \/ Creates(r) => On(r.lander) = {q}
    /\ r.undisturbed = FALSE => r.lander \in unbuilt
    /\ Creates(r) => lander[r.lander].state = "unborn"
    /\ r.pc # "idle"
RequestsAgree ==
    \A q \in AdminRequests : request[q].lander \in Landers => RequestOK(q, request[q])

\* What a request read of its row, as long as it is alone with it.
Reading(r) ==
    \/ r.op \in {"create", "update"} /\ r.pc = "linkWrite"
    \/ r.op = "remove" /\ r.pc \in {"unlink", "unlinkWrite"}
Read(r) ==
    /\ r.shop = lander[r.lander].shop /\ r.slug = lander[r.lander].slug
    /\ Open(r.shop) => Born(r.lander)
ReadOK(r) == r.lander \in Landers /\ r.undisturbed = TRUE /\ Reading(r) => Read(r)
ReadsAreTrue == \A q \in AdminRequests : ReadOK(request[q])

\* The files that are built are those of the row, or about to be built again.
Rebuilds(r) == r.op = "update" /\ r.pc \in {"link", "linkWrite", "process"}
BuildOK(l) ==
    /\ lander[l].raw = "none" => lander[l].built = "none"
    /\ lander[l].state = "unborn" => lander[l].raw = "none"
    /\ l \notin unbuilt /\ Born(l) => \/ lander[l].built \in {"none", "untagged", lander[l].shop}
                                     \/ \E q \in On(l) : Rebuilds(request[q])
BuildsAgree == \A l \in Landers : BuildOK(l)

(* The links.  A campaign's link is live, or about to be written by a      *)
(* request that is alone with its lander; and no lander that is the live   *)
(* one may go without the link being looked at.                            *)
Writes(r, c) ==
    /\ r.op \in {"create", "update"} /\ r.pc \in {"link", "linkWrite"} /\ r.undisturbed = TRUE
    /\ r.lander \in Landers /\ Born(r.lander) /\ lander[r.lander].shop = c
Written(c) == \E q \in AdminRequests : Writes(request[q], c)
Live(l, c) == Born(l) /\ lander[l].shop = c /\ lander[l].slug = shop[c].link
Loosens(r) == r.undisturbed = FALSE \/ (r.op = "remove" /\ r.pc = "delete")
Exposed(l) == \E q \in On(l) : Loosens(request[q])

LinksLead ==
    \A c \in Shops \ loose : Open(c) /\ shop[c].link # NoLink =>
        Written(c) \/ \E l \in Landers : Live(l, c)
ExposedAreNotNeeded ==
    \A l \in Landers : \A c \in Shops \ loose :
        Exposed(l) /\ Live(l, c) => Written(c)

\* Nobody uses a parent that is about to be deleted, as far as the check can be trusted.
ParentsAreUnused ==
    /\ orphans = {}
    /\ \A q \in AdminRequests : request[q].pc = "delete" /\ request[q].undisturbed = TRUE =>
        /\ request[q].op = "remove network" => Users("network") = {}
        /\ request[q].op = "remove profile" => Users("profile") = {}

LinksInv ==
    /\ CatalogueShape /\ RowsAgree /\ RequestsAgree /\ ReadsAreTrue
    /\ BuildsAgree /\ LinksLead /\ ExposedAreNotNeeded /\ ParentsAreUnused

LEMMA LinksInvImplies == LinksInv => LinksAreLive
<1> SUFFICES ASSUME LinksInv PROVE LinksAreLive OBVIOUS
<1>1. ASSUME \A l \in Landers : Idle(l), NEW c \in Shops \ loose, Open(c), shop[c].link # NoLink
      PROVE  \E l \in Landers : Live(l, c)
  <2>1. ~Written(c) BY <1>1 DEF Written, Writes, Idle, On
  <2> QED BY <1>1, <2>1 DEF LinksInv, LinksLead
<1>2. ASSUME NEW l \in Landers \ unbuilt, Idle(l), Born(l)
      PROVE  lander[l].built \in {"none", "untagged", lander[l].shop}
  BY <1>2 DEF LinksInv, BuildsAgree, BuildOK, Idle
<1>3. orphans = {} BY DEF LinksInv, ParentsAreUnused
<1> QED BY <1>1, <1>2, <1>3 DEF LinksAreLive, Live

LEMMA NoRequestIs ==
    /\ IsCall(NoRequest) /\ NoRequest.lander = NoLander /\ NoRequest.lander \notin Landers
    /\ NoRequest.undisturbed = TRUE /\ NoRequest.op = "none" /\ NoRequest.pc = "idle"
<1>1. SomeShop \in Shops /\ SomeSlug \in Slugs
  BY CatalogueAssumption DEF SomeShop, SomeSlug
<1> QED BY <1>1, CatalogueAssumption DEF NoRequest, IsCall, LanderOps

LEMMA LinksStart == CatalogueInit => LinksInv
<1> SUFFICES ASSUME CatalogueInit PROVE LinksInv OBVIOUS
<1> USE CatalogueAssumption
<1>1. SomeShop \in Shops /\ SomeSlug \in Slugs BY DEF SomeShop, SomeSlug
<1>2. \A q \in AdminRequests : request[q] = NoRequest BY DEF CatalogueInit
<1>3. \A l \in Landers : On(l) = {} BY <1>2, NoRequestIs DEF On
<1>4. /\ \A l \in Landers : Born(l) <=> l = SomeLander
      /\ \A l \in Landers : /\ lander[l].slug = SomeSlug /\ lander[l].shop = SomeShop
                            /\ lander[l].raw = "none" => lander[l].built = "none"
                            /\ lander[l].state = "unborn" => lander[l].raw = "none"
                            /\ lander[l].built \in {"none", SomeShop}
  BY DEF CatalogueInit, Born
<1>5. \A c \in Shops : Open(c) BY DEF CatalogueInit, Open
<1>6. CatalogueShape
  <2>1. \A l \in Landers : IsLander(lander[l]) BY <1>1 DEF CatalogueInit, IsLander
  <2>2. \A c \in Shops : IsCampaign(shop[c]) BY <1>1 DEF CatalogueInit, IsCampaign
  <2>3. \A q \in AdminRequests : IsCall(request[q]) BY <1>2, NoRequestIs
  <2>4. lander = [l \in Landers |-> lander[l]] /\ shop = [c \in Shops |-> shop[c]]
        /\ request = [q \in AdminRequests |-> request[q]]
    BY DEF CatalogueInit
  <2> QED BY <2>1, <2>2, <2>3, <2>4 DEF CatalogueShape, TablesShape
<1>7. RowsAgree BY <1>1, <1>4, <1>5 DEF RowsAgree
<1>8. RequestsAgree /\ ReadsAreTrue BY <1>2, NoRequestIs DEF RequestsAgree, ReadsAreTrue, ReadOK
<1>9. BuildsAgree BY <1>4 DEF BuildsAgree, BuildOK
<1>12. LinksLead
  <2>1. SomeLander \in Landers BY DEF SomeLander
  <2>2. \A c \in Shops : shop[c].link = (IF c = SomeShop THEN SomeSlug ELSE NoLink)
    BY DEF CatalogueInit
  <2>3. \A c \in Shops : shop[c].link # NoLink => Live(SomeLander, c)
    BY <1>4, <2>1, <2>2 DEF Live
  <2> QED BY <2>1, <2>3 DEF LinksLead
<1>10. ExposedAreNotNeeded BY <1>3 DEF ExposedAreNotNeeded, Exposed
<1>11. ParentsAreUnused BY <1>2, NoRequestIs DEF CatalogueInit, ParentsAreUnused
<1> QED BY <1>6, <1>7, <1>8, <1>9, <1>10, <1>11, <1>12 DEF LinksInv

\* A statement of one request: it goes on as s.
Moves(q, s) == request' = [request EXCEPT ![q] = s]
SameBut(r, s, pc) ==
    /\ IsCall(s) /\ s.pc = pc /\ s.op = r.op /\ s.lander = r.lander
    /\ s.undisturbed = r.undisturbed /\ s.shop = r.shop /\ s.slug = r.slug
Continues(r, s) ==
    s = NoRequest
    \/ (IsCall(s) /\ s.op = r.op /\ s.lander = r.lander /\ s.undisturbed = r.undisturbed
        /\ s.pc # "idle")

LEMMA ThenIs ==
    ASSUME CatalogueShape, NEW q \in AdminRequests, NEW pc, Then(q, pc)
    PROVE  \E s : Moves(q, s) /\ SameBut(request[q], s, pc)
<1>1. PICK s : s = [request[q] EXCEPT !.pc = pc] OBVIOUS
<1>2. Moves(q, s) BY <1>1 DEF Then, Moves
<1>3. IsCall(request[q]) BY DEF CatalogueShape
<1>4. SameBut(request[q], s, pc) BY <1>1, <1>3 DEF SameBut, IsCall
<1> QED BY <1>2, <1>4

LEMMA EndIs ==
    ASSUME NEW q, End(q) PROVE Moves(q, NoRequest)
BY DEF End, Moves

LEMMA MovesIs ==
    ASSUME CatalogueShape, NEW q \in AdminRequests, NEW s, Moves(q, s)
    PROVE  /\ \A o \in AdminRequests : request'[o] = IF o = q THEN s ELSE request[o]
           /\ request' = [o \in AdminRequests |-> request'[o]]
           /\ \A l : On(l)' = IF s.lander = l THEN On(l) \cup {q} ELSE On(l) \ {q}
<1>1. /\ \A o \in AdminRequests : request'[o] = IF o = q THEN s ELSE request[o]
      /\ request' = [o \in AdminRequests |-> request'[o]]
  BY DEF CatalogueShape, Moves
<1> QED BY <1>1 DEF On

\* A request that is alone with its lander is the only one whose step can touch it.
LEMMA LanderRequest ==
    ASSUME LinksInv, NEW q \in AdminRequests, NEW r, r = request[q], r.lander \in Landers,
           NEW s, Moves(q, s), Continues(r, s), TablesShape', RowsAgree',
           \A m \in Landers : m # r.lander => lander'[m] = lander[m] /\ (m \in unbuilt' <=> m \in unbuilt),
           \A c \in Shops : Open(c)' = Open(c) /\ shop'[c].profile = shop[c].profile,
           UNCHANGED <<offer, orphans>>,
           r.undisturbed = FALSE /\ r.lander \in unbuilt => r.lander \in unbuilt',
           Creates(s) => Creates(r) /\ lander'[r.lander].state = lander[r.lander].state,
           s.undisturbed = TRUE /\ Reading(s) => Read(s)',
           BuildOK(r.lander)', LinksLead', ExposedAreNotNeeded'
    PROVE  LinksInv'
<1>1. /\ CatalogueShape /\ RequestsAgree /\ ReadsAreTrue /\ BuildsAgree /\ ParentsAreUnused
      /\ IsCall(r) /\ r.op \in LanderOps
  BY DEF LinksInv, CatalogueShape, IsCall
<1>2. /\ \A o \in AdminRequests : request'[o] = IF o = q THEN s ELSE request[o]
      /\ request' = [o \in AdminRequests |-> request'[o]]
      /\ \A l : On(l)' = IF s.lander = l THEN On(l) \cup {q} ELSE On(l) \ {q}
  BY <1>1, MovesIs
<1>3. IsCall(s) /\ (s.lander \in Landers => s.lander = r.lander /\ s.op = r.op /\ s.undisturbed = r.undisturbed
                                             /\ s.pc # "idle")
  BY NoRequestIs DEF Continues
<1>4. s.op \notin {"remove network", "remove profile"}
  BY <1>1, NoRequestIs DEF Continues, LanderOps
<1>5. CatalogueShape' BY <1>1, <1>2, <1>3 DEF CatalogueShape
<1>6. ASSUME NEW o \in AdminRequests, NEW h, h = request'[o], h.lander \in Landers
      PROVE  RequestOK(o, h)'
  <2>1. CASE o = q
    <3>1. h = s /\ s.lander = r.lander /\ s.op = r.op /\ s.undisturbed = r.undisturbed /\ s.pc # "idle"
      BY <1>2, <1>3, <1>6, <2>1
    <3>2. On(h.lander)' = On(r.lander) \cup {q} BY <1>2, <3>1
    <3>3. RequestOK(o, r) BY <1>1, <2>1 DEF RequestsAgree
    <3>4. h.undisturbed = TRUE \/ Creates(h) => On(h.lander)' = {o}
      BY <2>1, <3>1, <3>2, <3>3 DEF RequestOK
    <3>5. h.undisturbed = FALSE => h.lander \in unbuilt'
      BY <3>1, <3>3 DEF RequestOK
    <3>6. Creates(h) => lander'[h.lander].state = "unborn"
      BY <3>1, <3>3 DEF RequestOK
    <3> QED BY <3>1, <3>4, <3>5, <3>6 DEF RequestOK, Creates
  <2>2. CASE o # q
    <3>1. h = request[o] /\ o \in On(h.lander) /\ IsCall(h)
      BY <1>1, <1>2, <1>6, <2>2 DEF On, CatalogueShape
    <3>2. RequestOK(o, h) BY <1>1, <1>6, <3>1 DEF RequestsAgree
    <3>3. On(h.lander) = {o} => On(h.lander)' = {o} /\ h.lander # r.lander
      <4>1. r.lander = h.lander => q \in On(h.lander) BY DEF On
      <4> QED BY <1>2, <1>3, <1>6, <2>2, <3>1, <4>1
    <3>4. h.undisturbed = FALSE => h.lander \in unbuilt'
      <4>1. r.lander = h.lander => r.undisturbed = FALSE
        <5>1. r.lander = h.lander => q \in On(h.lander) /\ o \in On(r.lander) BY <3>1 DEF On
        <5>2. r.undisturbed = TRUE => On(r.lander) = {q}
          BY <1>1 DEF RequestsAgree, RequestOK
        <5> QED BY <1>1, <2>2, <5>1, <5>2 DEF IsCall
      <4> QED BY <1>6, <3>2, <4>1 DEF RequestOK
    <3> QED BY <1>6, <3>2, <3>3, <3>4 DEF RequestOK
  <2> QED BY <2>1, <2>2
<1>10. RequestsAgree' BY <1>6 DEF RequestsAgree
<1>7. ASSUME NEW o \in AdminRequests, NEW h, h = request'[o] PROVE ReadOK(h)'
  <2>1. CASE o = q BY <1>2, <1>7, <2>1 DEF ReadOK
  <2>2. CASE o # q
    <3>1. h = request[o] /\ ReadOK(h) BY <1>1, <1>2, <1>7, <2>2 DEF ReadsAreTrue
    <3>2. CASE h.lander \in Landers /\ h.undisturbed = TRUE
      <4>1. o \in On(h.lander) /\ On(h.lander) = {o}
        BY <1>1, <3>1, <3>2 DEF On, RequestsAgree, RequestOK
      <4>2. h.lander # r.lander
        <5>1. r.lander = h.lander => q \in On(h.lander) BY DEF On
        <5> QED BY <2>2, <4>1, <5>1
      <4>3. h.shop \in Shops BY <1>1, <3>1 DEF CatalogueShape, IsCall
      <4>4. Read(h) => Read(h)' BY <3>2, <4>2, <4>3 DEF Read, Born
      <4> QED BY <3>1, <4>4 DEF ReadOK
    <3> QED BY <3>2 DEF ReadOK
  <2> QED BY <2>1, <2>2
<1>11. ReadsAreTrue' BY <1>7 DEF ReadsAreTrue
<1>8. BuildsAgree'
  <2>1. SUFFICES ASSUME NEW m \in Landers, m # r.lander PROVE BuildOK(m)'
    BY DEF BuildsAgree
  <2>2. On(m)' = On(m) BY <1>2, <1>3, <2>1 DEF On
  <2>3. q \notin On(m) BY <2>1 DEF On
  <2>4. \A o \in On(m) : request'[o] = request[o] BY <1>2, <2>3 DEF On
  <2>5. BuildOK(m) BY <1>1 DEF BuildsAgree
  <2> QED BY <2>1, <2>2, <2>4, <2>5 DEF BuildOK, Born
<1>9. ParentsAreUnused'
  <2>1. Users("network")' = Users("network") /\ Users("profile")' = Users("profile")
    BY DEF Users
  <2> QED BY <1>1, <1>2, <1>4, <2>1 DEF ParentsAreUnused
<1> QED BY <1>5, <1>8, <1>9, <1>10, <1>11 DEF LinksInv

\* Nothing that a link hangs on went away without the history answering for it.
LEMMA LinksKept ==
    ASSUME LinksLead, ExposedAreNotNeeded, loose \subseteq loose',
           \A l \in Landers : /\ Born(l)' = Born(l) /\ lander'[l].shop = lander[l].shop
                              /\ lander'[l].slug = lander[l].slug,
           \A c \in Shops : (Open(c)' => Open(c)) /\ shop'[c].link = shop[c].link,
           \A c \in Shops \ loose' : Written(c) => Written(c)',
           \A l \in Landers, c \in Shops \ loose' :
               Exposed(l)' /\ Live(l, c) => Exposed(l) \/ Written(c)'
    PROVE  LinksLead' /\ ExposedAreNotNeeded'
<1>1. \A l \in Landers, c \in Shops : Live(l, c)' <=> Live(l, c) BY DEF Live
<1>2. LinksLead' BY <1>1 DEF LinksLead
<1>3. ExposedAreNotNeeded' BY <1>1 DEF ExposedAreNotNeeded
<1> QED BY <1>2, <1>3

LEMMA BuildKept ==
    ASSUME CatalogueShape, NEW l \in Landers, BuildOK(l),
           lander'[l].state = lander[l].state, lander'[l].built = lander[l].built,
           lander'[l].shop = lander[l].shop,
           lander'[l].raw = lander[l].raw \/ (Born(l) /\ lander'[l].raw # "none"),
           l \in unbuilt => l \in unbuilt',
           NEW q \in AdminRequests, NEW s, Moves(q, s),
           Rebuilds(request[q]) /\ request[q].lander = l
               => (Rebuilds(s) /\ s.lander = l) \/ ~Born(l) \/ l \in unbuilt
    PROVE  BuildOK(l)'
<1>1. /\ \A o \in AdminRequests : request'[o] = IF o = q THEN s ELSE request[o]
      /\ On(l)' = IF s.lander = l THEN On(l) \cup {q} ELSE On(l) \ {q}
  BY MovesIs
<1>2. ASSUME NEW o \in On(l), Rebuilds(request[o]), Born(l), l \notin unbuilt
      PROVE  \E p \in On(l)' : Rebuilds(request'[p])
  <2>1. CASE o = q BY <1>1, <1>2, <2>1 DEF On
  <2>2. CASE o # q
    <3>1. o \in On(l)' /\ request'[o] = request[o] BY <1>1, <2>2 DEF On
    <3> QED BY <1>2, <3>1
  <2> QED BY <2>1, <2>2
<1>3. Born(l)' = Born(l) BY DEF Born
<1>4. Born(l)' /\ l \notin unbuilt' =>
        \/ lander'[l].built \in {"none", "untagged", lander'[l].shop}
        \/ \E p \in On(l)' : Rebuilds(request'[p])
  BY <1>2, <1>3 DEF BuildOK
<1>5. (\E p \in On(l)' : Rebuilds(request'[p])) <=> (\E p \in On(l) : Rebuilds(request[p]))'
  BY DEF Rebuilds
<1>6. /\ lander'[l].raw = "none" => lander'[l].built = "none"
      /\ lander'[l].state = "unborn" => lander'[l].raw = "none"
  BY DEF BuildOK, Born
<1> QED BY <1>3, <1>4, <1>5, <1>6 DEF BuildOK

\* A statement that moves no row a link hangs on.
LEMMA QuietStep ==
    ASSUME LinksInv, NEW q \in AdminRequests, NEW r, r = request[q], r.lander \in Landers,
           NEW s, Moves(q, s), Continues(r, s), UNCHANGED <<shop, loose, offer, orphans>>,
           lander' = [l \in Landers |-> lander'[l]], IsLander(lander'[r.lander]),
           lander'[r.lander].state = lander[r.lander].state,
           lander'[r.lander].slug = lander[r.lander].slug,
           lander'[r.lander].shop = lander[r.lander].shop,
           \A m \in Landers : m # r.lander => lander'[m] = lander[m] /\ (m \in unbuilt' <=> m \in unbuilt),
           r.undisturbed = FALSE /\ r.lander \in unbuilt => r.lander \in unbuilt',
           Creates(s) => Creates(r), s.undisturbed = TRUE /\ Reading(s) => Read(s),
           BuildOK(r.lander)', \A c \in Shops : Writes(r, c) => Writes(s, c),
           s # NoRequest /\ Loosens(s)
               => Loosens(r) \/ \A c \in Shops \ loose : ~Live(r.lander, c)
    PROVE  LinksInv'
<1>1. /\ CatalogueShape /\ TablesShape /\ RowsAgree /\ LinksLead /\ ExposedAreNotNeeded
      /\ IsCall(r)
  BY DEF LinksInv, CatalogueShape
<1>2. /\ \A o \in AdminRequests : request'[o] = IF o = q THEN s ELSE request[o]
      /\ \A l : On(l)' = IF s.lander = l THEN On(l) \cup {q} ELSE On(l) \ {q}
  BY <1>1, MovesIs
<1>3. \A l \in Landers : /\ Born(l)' = Born(l) /\ lander'[l].shop = lander[l].shop
                         /\ lander'[l].slug = lander[l].slug
  BY DEF Born
<1>4. \A c : Open(c)' = Open(c) BY DEF Open
<1>5. TablesShape' BY <1>1 DEF TablesShape
<1>6. RowsAgree'
  <2>1. \A l, m \in Landers : Born(l)' /\ Born(m)' /\ lander'[l].slug = lander'[m].slug => l = m
    BY <1>1, <1>3 DEF RowsAgree
  <2>2. \A l \in Landers : Born(l)' => (shop'[lander'[l].shop].state = "present")
    BY <1>1, <1>3 DEF RowsAgree, Open
  <2> QED BY <2>1, <2>2 DEF RowsAgree, Open
<1>7. \A o, c : Writes(request[o], c)' <=> Writes(request'[o], c)
  BY <1>3 DEF Writes
<1>8. \A c \in Shops : Written(c) => Written(c)'
  <2>1. SUFFICES ASSUME NEW c \in Shops, NEW o \in AdminRequests, Writes(request[o], c)
                 PROVE  \E p \in AdminRequests : Writes(request'[p], c)
    BY <1>7 DEF Written
  <2>2. CASE o = q BY <1>2, <2>1, <2>2
  <2>3. CASE o # q BY <1>2, <2>1, <2>3
  <2> QED BY <2>2, <2>3
<1>9. ASSUME NEW l \in Landers, NEW c \in Shops \ loose, Exposed(l)', Live(l, c) PROVE Exposed(l)
  <2>1. PICK o \in On(l)' : Loosens(request'[o]) BY <1>9 DEF Exposed, Loosens
  <2>2. CASE o = q
    <3>1. s.lander = l /\ Loosens(s) /\ o \in AdminRequests BY <1>2, <2>1, <2>2 DEF On
    <3>2. s # NoRequest /\ r.lander = l BY <3>1, NoRequestIs DEF Continues
    <3>3. Loosens(r) BY <1>9, <3>1, <3>2
    <3> QED BY <2>2, <3>1, <3>2, <3>3 DEF Exposed, On
  <2>3. CASE o # q
    <3>1. o \in On(l) /\ request'[o] = request[o] BY <1>2, <2>1, <2>3 DEF On
    <3> QED BY <2>1, <3>1 DEF Exposed
  <2> QED BY <2>2, <2>3
<1>10. LinksLead' /\ ExposedAreNotNeeded' BY <1>1, <1>3, <1>4, <1>8, <1>9, LinksKept
<1>11. s.undisturbed = TRUE /\ Reading(s) => Read(s)'
  <2>1. s.undisturbed = TRUE /\ Reading(s) => s.lander = r.lander
    BY NoRequestIs DEF Continues, Reading
  <2> QED BY <1>3, <1>4, <2>1 DEF Read
<1>12. \A c \in Shops : Open(c)' = Open(c) /\ shop'[c].profile = shop[c].profile BY <1>4
<1>13. Creates(s) => Creates(r) /\ lander'[r.lander].state = lander[r.lander].state OBVIOUS
<1> QED BY <1>5, <1>6, <1>10, <1>11, <1>12, <1>13, LanderRequest

\* A statement that only looks.
LEMMA LookStep ==
    ASSUME LinksInv, NEW q \in AdminRequests, NEW r, r = request[q], r.lander \in Landers,
           NEW s, Moves(q, s), Continues(r, s),
           UNCHANGED <<lander, shop, loose, unbuilt, offer, orphans>>,
           Creates(s) => Creates(r), s.undisturbed = TRUE /\ Reading(s) => Read(s),
           Rebuilds(r) => (Rebuilds(s) /\ s.lander = r.lander) \/ ~Born(r.lander) \/ r.lander \in unbuilt,
           \A c \in Shops : Writes(r, c) => Writes(s, c),
           s # NoRequest /\ Loosens(s)
               => Loosens(r) \/ \A c \in Shops \ loose : ~Live(r.lander, c)
    PROVE  LinksInv'
<1>1. CatalogueShape /\ TablesShape /\ BuildOK(r.lander) BY DEF LinksInv, CatalogueShape, BuildsAgree
<1>2. BuildOK(r.lander)' BY <1>1, BuildKept
<1>3. lander' = [l \in Landers |-> lander'[l]] /\ IsLander(lander'[r.lander])
  BY <1>1 DEF TablesShape
<1> QED BY <1>2, <1>3, QuietStep

LEMMA LanderCall ==
    ASSUME LinksInv, NEW q \in AdminRequests, request[q].op \in LanderOps
    PROVE  request[q].lander \in Landers /\ IsCall(request[q]) /\ CatalogueShape /\ TablesShape
BY DEF LinksInv, CatalogueShape, IsCall

\* The request is given up before it wrote anything that counts.
LEMMA GivenUp ==
    ASSUME LinksInv, NEW q \in AdminRequests, request[q].op \in LanderOps, End(q),
           UNCHANGED <<lander, shop, loose, unbuilt, offer, orphans>>,
           Rebuilds(request[q]) => ~Born(request[q].lander) \/ request[q].lander \in unbuilt,
           \A c \in Shops : ~Writes(request[q], c)
    PROVE  LinksInv'
<1>1. PICK r : r = request[q] OBVIOUS
<1>2. r.lander \in Landers BY <1>1, LanderCall
<1>3. Moves(q, NoRequest) /\ Continues(r, NoRequest) BY EndIs DEF Continues
<1>4. ~Creates(NoRequest) /\ ~Reading(NoRequest) BY NoRequestIs DEF Creates, Reading
<1> QED BY <1>1, <1>2, <1>3, <1>4, LookStep

LEMMA CheckLanderKeeps ==
    ASSUME LinksInv, NEW q \in AdminRequests, CheckLander(q) PROVE LinksInv'
<1>1. /\ request[q].op \in {"create", "update"} /\ request[q].pc = "check"
      /\ Then(q, "row") \/ End(q)
      /\ UNCHANGED <<lander, shop, loose, unbuilt, offer, orphans>>
  BY DEF CheckLander, SameOthers
<1>2. PICK r : r = request[q] OBVIOUS
<1>3. r.op \in LanderOps /\ ~Rebuilds(r) /\ \A c : ~Writes(r, c)
  BY <1>1, <1>2 DEF LanderOps, Rebuilds, Writes
<1>4. CASE End(q) BY <1>1, <1>2, <1>3, <1>4, GivenUp
<1>5. CASE Then(q, "row")
  <2>1. CatalogueShape BY DEF LinksInv
  <2>2. PICK s : Moves(q, s) /\ SameBut(r, s, "row") BY <1>2, <1>5, <2>1, ThenIs
  <2>3. ~Reading(s) /\ (Creates(s) => Creates(r)) /\ (Loosens(s) => Loosens(r)) /\ Continues(r, s)
    BY <1>1, <1>2, <2>2 DEF Reading, Creates, Loosens, Continues, SameBut
  <2>4. r.lander \in Landers BY <1>2, <1>3, LanderCall
  <2> QED BY <1>1, <1>2, <1>3, <2>2, <2>3, <2>4, LookStep
<1> QED BY <1>1, <1>4, <1>5

LEMMA LinkReadKeeps ==
    ASSUME LinksInv, NEW q \in AdminRequests, LinkRead(q) PROVE LinksInv'
<1>1. PICK r, l : r = request[q] /\ l = r.lander OBVIOUS
<1>2. /\ r.op \in {"create", "update"} /\ r.pc = "link"
      /\ UNCHANGED <<lander, shop, loose, unbuilt, offer, orphans>>
  BY <1>1 DEF LinkRead, SameOthers
<1>3. l \in Landers /\ IsCall(r) /\ CatalogueShape /\ TablesShape
  BY <1>1, <1>2, LanderCall DEF LanderOps
<1>4. CASE Born(l)
  <2>1. PICK s : s = [r EXCEPT !.pc = "linkWrite", !.shop = lander[l].shop, !.slug = lander[l].slug]
    OBVIOUS
  <2>2. Moves(q, s) BY <1>1, <1>4, <2>1 DEF LinkRead, Moves
  <2>3. lander[l].shop \in Shops /\ lander[l].slug \in Slugs
    BY <1>3 DEF TablesShape, IsLander
  <2>4. /\ IsCall(s) /\ s.op = r.op /\ s.lander = l /\ s.undisturbed = r.undisturbed
        /\ s.pc = "linkWrite" /\ s.shop = lander[l].shop /\ s.slug = lander[l].slug
    BY <1>1, <1>3, <2>1, <2>3 DEF IsCall
  <2>5. Continues(r, s) BY <1>1, <2>4 DEF Continues
  <2>6. Read(s) BY <1>4, <2>4 DEF Read
  <2>7. ~Creates(s) BY <2>4 DEF Creates
  <2>8. Rebuilds(r) => Rebuilds(s) BY <2>4 DEF Rebuilds
  <2>9. \A c : Writes(r, c) => Writes(s, c) BY <1>1, <2>4 DEF Writes
  <2>10. Loosens(s) => Loosens(r) BY <1>2, <2>4 DEF Loosens
  <2> QED BY <1>1, <1>2, <1>3, <2>2, <2>4, <2>5, <2>6, <2>7, <2>8, <2>9, <2>10, LookStep
<1>5. CASE ~Born(l)
  <2>1. Then(q, "process") BY <1>1, <1>5 DEF LinkRead
  <2>2. PICK s : Moves(q, s) /\ SameBut(r, s, "process") BY <1>1, <1>3, <2>1, ThenIs
  <2>3. ~Reading(s) /\ ~Creates(s) /\ (Loosens(s) => Loosens(r)) /\ Continues(r, s)
    BY <1>1, <1>2, <2>2 DEF Reading, Creates, Loosens, Continues, SameBut
  <2>4. \A c : ~Writes(r, c) BY <1>1, <1>5 DEF Writes
  <2> QED BY <1>1, <1>2, <1>3, <1>5, <2>2, <2>3, <2>4, LookStep
<1> QED BY <1>4, <1>5

LEMMA DeployKeeps ==
    ASSUME LinksInv, NEW q \in AdminRequests, Deploy(q) PROVE LinksInv'
<1>1. PICK r : r = request[q] OBVIOUS
<1>2. /\ r.op = "deploy" /\ r.pc = "check"
      /\ Then(q, "process") \/ End(q)
      /\ UNCHANGED <<lander, shop, loose, unbuilt, offer, orphans>>
  BY <1>1 DEF Deploy, Doing, SameOthers
<1>3. r.op \in LanderOps /\ ~Rebuilds(r) /\ \A c : ~Writes(r, c)
  BY <1>2 DEF LanderOps, Rebuilds, Writes
<1>4. CASE End(q) BY <1>1, <1>2, <1>3, <1>4, GivenUp
<1>5. CASE Then(q, "process")
  <2>1. CatalogueShape BY DEF LinksInv
  <2>2. PICK s : Moves(q, s) /\ SameBut(r, s, "process") BY <1>1, <1>5, <2>1, ThenIs
  <2>3. ~Reading(s) /\ ~Creates(s) /\ (Loosens(s) => Loosens(r)) /\ Continues(r, s)
    BY <1>2, <2>2 DEF Reading, Creates, Loosens, Continues, SameBut
  <2>4. r.lander \in Landers BY <1>1, <1>3, LanderCall
  <2> QED BY <1>1, <1>2, <1>3, <2>2, <2>3, <2>4, LookStep
<1> QED BY <1>2, <1>4, <1>5

LEMMA ReadLanderKeeps ==
    ASSUME LinksInv, NEW q \in AdminRequests, ReadLander(q) PROVE LinksInv'
<1>1. PICK r, l : r = request[q] /\ l = r.lander OBVIOUS
<1>2. /\ r.op = "remove" /\ r.pc = "check"
      /\ UNCHANGED <<lander, shop, loose, unbuilt, offer, orphans>>
  BY <1>1 DEF ReadLander, Doing, SameOthers
<1>3. l \in Landers /\ IsCall(r) /\ CatalogueShape /\ TablesShape /\ r.op \in LanderOps
  BY <1>1, <1>2, LanderCall DEF LanderOps
<1>4. ~Rebuilds(r) /\ \A c : ~Writes(r, c) BY <1>2 DEF Rebuilds, Writes
<1>5. CASE ~Born(l)
  <2>1. End(q) BY <1>1, <1>5 DEF ReadLander
  <2> QED BY <1>1, <1>2, <1>3, <1>4, <2>1, GivenUp
<1>6. CASE Born(l)
  <2>1. PICK s : s = [r EXCEPT !.pc = "unlink", !.shop = lander[l].shop, !.slug = lander[l].slug]
    OBVIOUS
  <2>2. Moves(q, s) BY <1>1, <1>6, <2>1 DEF ReadLander, Moves
  <2>3. lander[l].shop \in Shops /\ lander[l].slug \in Slugs
    BY <1>3 DEF TablesShape, IsLander
  <2>4. /\ IsCall(s) /\ s.op = r.op /\ s.lander = l /\ s.undisturbed = r.undisturbed
        /\ s.pc = "unlink" /\ s.shop = lander[l].shop /\ s.slug = lander[l].slug
    BY <1>1, <1>3, <2>1, <2>3 DEF IsCall
  <2>5. Continues(r, s) BY <1>1, <2>4 DEF Continues
  <2>6. Read(s) BY <1>6, <2>4 DEF Read
  <2>7. ~Creates(s) BY <2>4 DEF Creates
  <2>8. Loosens(s) => Loosens(r) BY <1>2, <2>4 DEF Loosens
  <2> QED BY <1>1, <1>2, <1>3, <1>4, <2>2, <2>5, <2>6, <2>7, <2>8, LookStep
<1> QED BY <1>5, <1>6

\* A lander that is not the one its campaign links to may go.
LEMMA UnlinkKeeps ==
    ASSUME LinksInv, NEW q \in AdminRequests, Unlink(q) PROVE LinksInv'
<1>1. PICK r, l : r = request[q] /\ l = r.lander OBVIOUS
<1>2. /\ r.op = "remove" /\ r.pc = "unlink"
      /\ Then(q, IF Open(r.shop) /\ shop[r.shop].link = r.slug THEN "unlinkWrite" ELSE "delete")
      /\ UNCHANGED <<lander, shop, loose, unbuilt, offer, orphans>>
  BY <1>1 DEF Unlink, Doing, SameOthers
<1>3. l \in Landers /\ IsCall(r) /\ CatalogueShape /\ TablesShape /\ r.op \in LanderOps
  BY <1>1, <1>2, LanderCall DEF LanderOps
<1>4. ~Rebuilds(r) /\ \A c : ~Writes(r, c) BY <1>2 DEF Rebuilds, Writes
<1>5. r.undisturbed = TRUE => Read(r)
  BY <1>1, <1>2, <1>3 DEF LinksInv, ReadsAreTrue, ReadOK, Reading
<1>6. CASE Open(r.shop) /\ shop[r.shop].link = r.slug
  <2>1. Then(q, "unlinkWrite") BY <1>2, <1>6
  <2>2. PICK s : Moves(q, s) /\ SameBut(r, s, "unlinkWrite") BY <1>1, <1>3, <2>1, ThenIs
  <2>3. Continues(r, s) /\ ~Creates(s) /\ (Loosens(s) => Loosens(r))
    BY <1>2, <2>2 DEF SameBut, Continues, Creates, Loosens
  <2>4. s.undisturbed = TRUE => Read(s) BY <1>5, <2>2 DEF SameBut, Read
  <2> QED BY <1>1, <1>2, <1>3, <1>4, <2>2, <2>3, <2>4, LookStep
<1>7. CASE ~(Open(r.shop) /\ shop[r.shop].link = r.slug)
  <2>1. Then(q, "delete") BY <1>2, <1>7
  <2>2. PICK s : Moves(q, s) /\ SameBut(r, s, "delete") BY <1>1, <1>3, <2>1, ThenIs
  <2>3. Continues(r, s) /\ ~Creates(s) /\ ~Reading(s)
    BY <2>2 DEF SameBut, Continues, Creates, Reading
  <2>4. r.undisturbed = TRUE => \A c \in Shops : ~Live(l, c)
    BY <1>1, <1>3, <1>5, <1>7 DEF Live, Read, LinksInv, RowsAgree
  <2>5. Loosens(r) \/ \A c \in Shops \ loose : ~Live(r.lander, c)
    BY <1>1, <1>3, <2>4 DEF Loosens, IsCall
  <2> QED BY <1>1, <1>2, <1>3, <1>4, <2>2, <2>3, <2>5, LookStep
<1> QED BY <1>6, <1>7

\* The row of one lander is written anew.
LEMMA RowIs ==
    ASSUME TablesShape, NEW l \in Landers, NEW h, IsLander(h), lander' = [lander EXCEPT ![l] = h]
    PROVE  /\ lander' = [m \in Landers |-> lander'[m]] /\ lander'[l] = h
           /\ \A m \in Landers : m # l => lander'[m] = lander[m]
BY DEF TablesShape

LEMMA ProcessKeeps ==
    ASSUME LinksInv, NEW q \in AdminRequests, Process(q) PROVE LinksInv'
<1>1. PICK r, l : r = request[q] /\ l = r.lander OBVIOUS
<1>2. /\ r.op \in {"update", "upload", "deploy"} /\ r.pc = "process"
      /\ lander' = IF Born(l) THEN [lander EXCEPT ![l].built = Built(l)] ELSE lander
      /\ IF r.op = "upload" THEN Then(q, "ready") ELSE End(q)
      /\ unbuilt' = IF r.undisturbed THEN unbuilt \ {l} ELSE unbuilt \cup {l}
      /\ UNCHANGED <<shop, loose, offer, orphans>>
  BY <1>1 DEF Process, SameOthers
<1>3. l \in Landers /\ IsCall(r) /\ CatalogueShape /\ TablesShape
  BY <1>1, <1>2, LanderCall DEF LanderOps
<1>4. BuildOK(l) BY <1>3 DEF LinksInv, BuildsAgree
<1>5. IsLander(lander[l]) BY <1>3 DEF TablesShape
<1>6. /\ lander' = [m \in Landers |-> lander'[m]] /\ IsLander(lander'[l])
      /\ lander'[l].state = lander[l].state /\ lander'[l].slug = lander[l].slug
      /\ lander'[l].shop = lander[l].shop
      /\ \A m \in Landers : m # l => lander'[m] = lander[m]
      /\ BuildOK(l)'
  <2>1. CASE ~Born(l)
    <3>1. lander' = lander BY <1>2, <2>1
    <3>2. BuildOK(l)' BY <1>4, <2>1, <3>1 DEF BuildOK, Born
    <3> QED BY <1>3, <1>5, <3>1, <3>2 DEF TablesShape
  <2>2. CASE Born(l)
    <3>1. PICK h : h = [lander[l] EXCEPT !.built = Built(l)] OBVIOUS
    <3>2. Built(l) \in {"none", "untagged", lander[l].shop}
          /\ (lander[l].raw = "none" => Built(l) = "none")
      BY <1>4 DEF Built, BuildOK
    <3>3. /\ IsLander(h) /\ h.built = Built(l) /\ h.state = lander[l].state /\ h.raw = lander[l].raw
          /\ h.slug = lander[l].slug /\ h.shop = lander[l].shop
      BY <1>5, <3>1, <3>2 DEF IsLander
    <3>4. lander' = [lander EXCEPT ![l] = h] BY <1>2, <2>2, <3>1
    <3>5. lander'[l] = h BY <1>3, <3>3, <3>4, RowIs
    <3>6. BuildOK(l)' BY <2>2, <3>2, <3>3, <3>5 DEF BuildOK, Born
    <3> QED BY <1>3, <3>3, <3>4, <3>6, RowIs
  <2> QED BY <2>1, <2>2
<1>7. PICK s : /\ Moves(q, s) /\ Continues(r, s) /\ ~Creates(s) /\ ~Reading(s)
               /\ s # NoRequest => (Loosens(s) => Loosens(r))
  <2>1. CASE r.op = "upload"
    <3>1. Then(q, "ready") BY <1>2, <2>1
    <3>2. PICK s : Moves(q, s) /\ SameBut(r, s, "ready") BY <1>1, <1>3, <3>1, ThenIs
    <3> QED BY <2>1, <3>2 DEF Reading, Creates, Loosens, Continues, SameBut
  <2>2. CASE r.op # "upload"
    <3>1. Moves(q, NoRequest) BY <1>2, <2>2, EndIs
    <3> QED BY <3>1, NoRequestIs DEF Reading, Creates, Continues
  <2> QED BY <2>1, <2>2
<1>8. \A c : ~Writes(r, c) BY <1>2 DEF Writes
<1>9. /\ \A m \in Landers : m # l => (m \in unbuilt' <=> m \in unbuilt)
      /\ r.undisturbed = FALSE /\ l \in unbuilt => l \in unbuilt'
  BY <1>2
<1> QED BY ZenonT(40), <1>1, <1>2, <1>3, <1>6, <1>7, <1>8, <1>9, QuietStep

LEMMA UploadKeeps ==
    ASSUME LinksInv, NEW q \in AdminRequests, Upload(q) PROVE LinksInv'
<1>1. PICK r, l : r = request[q] /\ l = r.lander OBVIOUS
<1>2. /\ r.op = "upload" /\ r.pc = "check"
      /\ UNCHANGED <<shop, loose, unbuilt, offer, orphans>>
  BY <1>1 DEF Upload, Doing, SameOthers
<1>3. l \in Landers /\ IsCall(r) /\ CatalogueShape /\ TablesShape /\ r.op \in LanderOps
  BY <1>1, <1>2, LanderCall DEF LanderOps
<1>4. ~Rebuilds(r) /\ \A c : ~Writes(r, c) BY <1>2 DEF Rebuilds, Writes
<1>5. CASE ~Born(l)
  <2>1. End(q) /\ UNCHANGED lander BY <1>1, <1>5 DEF Upload
  <2> QED BY <1>1, <1>2, <1>3, <1>4, <2>1, GivenUp
<1>6. CASE Born(l)
  <2>1. PICK files \in {"no entry", "good"} :
          /\ lander' = [lander EXCEPT ![l].raw = files]
          /\ IF files = "good" THEN Then(q, "process") ELSE End(q)
    BY <1>1, <1>6 DEF Upload
  <2>2. PICK h : h = [lander[l] EXCEPT !.raw = files] OBVIOUS
  <2>3. /\ IsLander(h) /\ h.built = lander[l].built /\ h.state = lander[l].state /\ h.raw = files
        /\ h.slug = lander[l].slug /\ h.shop = lander[l].shop
    BY <1>3, <2>2 DEF IsLander, TablesShape
  <2>4. lander' = [lander EXCEPT ![l] = h] BY <2>1, <2>2
  <2>5. /\ lander' = [m \in Landers |-> lander'[m]] /\ lander'[l] = h
        /\ \A m \in Landers : m # l => lander'[m] = lander[m]
    BY <1>3, <2>3, <2>4, RowIs
  <2>6. PICK s : /\ Moves(q, s) /\ Continues(r, s) /\ ~Creates(s) /\ ~Reading(s)
                 /\ s # NoRequest => (Loosens(s) => Loosens(r))
    <3>1. CASE files = "good"
      <4>1. Then(q, "process") BY <2>1, <3>1
      <4>2. PICK s : Moves(q, s) /\ SameBut(r, s, "process") BY <1>1, <1>3, <4>1, ThenIs
      <4> QED BY <1>2, <4>2 DEF Reading, Creates, Loosens, Continues, SameBut
    <3>2. CASE files # "good"
      <4>1. Moves(q, NoRequest) BY <2>1, <3>2, EndIs
      <4> QED BY <4>1, NoRequestIs DEF Reading, Creates, Continues
    <3> QED BY <3>1, <3>2
  <2>7. BuildOK(l) BY <1>3 DEF LinksInv, BuildsAgree
  <2>9. /\ lander'[l].state = lander[l].state /\ lander'[l].built = lander[l].built
        /\ lander'[l].shop = lander[l].shop /\ lander'[l].raw # "none" /\ unbuilt' = unbuilt
    BY <1>2, <2>1, <2>3, <2>5
  <2>10. ~Rebuilds(request[q]) BY <1>1, <1>4
  <2>8. BuildOK(l)' BY <1>3, <1>6, <2>6, <2>7, <2>9, <2>10, BuildKept
  <2> QED BY <1>1, <1>2, <1>3, <1>4, <2>3, <2>5, <2>6, <2>8, QuietStep
<1> QED BY <1>5, <1>6

LEMMA MarkReadyKeeps ==
    ASSUME LinksInv, NEW q \in AdminRequests, MarkReady(q) PROVE LinksInv'
<1>1. PICK r, l : r = request[q] /\ l = r.lander OBVIOUS
<1>2. /\ r.op = "upload" /\ r.pc = "ready"
      /\ lander' = IF Born(l) THEN [lander EXCEPT ![l].status = "ready"] ELSE lander
      /\ End(q)
      /\ UNCHANGED <<shop, loose, unbuilt, offer, orphans>>
  BY <1>1 DEF MarkReady, Doing, SameOthers
<1>3. l \in Landers /\ IsCall(r) /\ CatalogueShape /\ TablesShape /\ r.op \in LanderOps
  BY <1>1, <1>2, LanderCall DEF LanderOps
<1>4. ~Rebuilds(r) /\ \A c : ~Writes(r, c) BY <1>2 DEF Rebuilds, Writes
<1>5. Moves(q, NoRequest) /\ Continues(r, NoRequest) /\ ~Creates(NoRequest) /\ ~Reading(NoRequest)
  BY <1>2, EndIs, NoRequestIs DEF Continues, Creates, Reading
<1>6. CASE ~Born(l)
  <2>1. UNCHANGED lander BY <1>2, <1>6
  <2> QED BY <1>1, <1>2, <1>3, <1>4, <2>1, GivenUp
<1>7. CASE Born(l)
  <2>2. PICK h : h = [lander[l] EXCEPT !.status = "ready"] OBVIOUS
  <2>3. /\ IsLander(h) /\ h.built = lander[l].built /\ h.state = lander[l].state
        /\ h.raw = lander[l].raw /\ h.slug = lander[l].slug /\ h.shop = lander[l].shop
    BY <1>3, <2>2 DEF IsLander, TablesShape
  <2>4. lander' = [lander EXCEPT ![l] = h] BY <1>2, <1>7, <2>2
  <2>5. /\ lander' = [m \in Landers |-> lander'[m]] /\ lander'[l] = h
        /\ \A m \in Landers : m # l => lander'[m] = lander[m]
    BY <1>3, <2>3, <2>4, RowIs
  <2>7. BuildOK(l) BY <1>3 DEF LinksInv, BuildsAgree
  <2>8. BuildOK(l)' BY <1>1, <1>2, <1>3, <1>4, <1>5, <2>3, <2>5, <2>7, BuildKept
  <2>9. /\ IsLander(lander'[r.lander]) /\ lander'[r.lander].state = lander[r.lander].state
        /\ lander'[r.lander].slug = lander[r.lander].slug
        /\ lander'[r.lander].shop = lander[r.lander].shop
        /\ lander' = [m \in Landers |-> lander'[m]]
        /\ \A m \in Landers : m # r.lander => lander'[m] = lander[m]
    BY <1>1, <2>3, <2>5
  <2>10. UNCHANGED <<shop, loose, unbuilt, offer, orphans>> BY <1>2
  <2>11. r = request[q] /\ r.lander \in Landers /\ BuildOK(r.lander)' BY <1>1, <1>3, <2>8
  <2> QED BY <1>4, <1>5, <2>9, <2>10, <2>11, QuietStep
<1> QED BY <1>6, <1>7

\* A step on the row of one lander leaves what the others' requests are about to
\* write; a request that is alone with its lander is not one of them.
LEMMA OthersStillWrite ==
    ASSUME LinksInv, NEW q \in AdminRequests, NEW r, r = request[q], r.lander \in Landers,
           NEW s, Moves(q, s), NEW c, ~Writes(r, c), Written(c),
           \A m \in Landers : m # r.lander => lander'[m] = lander[m]
    PROVE  Written(c)'
<1>1. CatalogueShape /\ RequestsAgree BY DEF LinksInv
<1>2. PICK o \in AdminRequests : Writes(request[o], c) BY DEF Written
<1>3. PICK h : h = request[o] OBVIOUS
<1>4. o # q BY <1>2
<1>5. request'[o] = h BY <1>1, <1>3, <1>4, MovesIs
<1>6. /\ Writes(h, c) /\ h.lander \in Landers /\ h.undisturbed = TRUE
  BY <1>2, <1>3 DEF Writes
<1>7. On(h.lander) = {o} BY <1>1, <1>3, <1>6 DEF RequestsAgree, RequestOK
<1>8. h.lander # r.lander
  <2>1. h.lander = r.lander => q \in On(h.lander) BY DEF On
  <2> QED BY <1>4, <1>7, <2>1
<1>9. Writes(h, c)' BY <1>6, <1>8 DEF Writes, Born
<1> QED BY <1>5, <1>9 DEF Written, Writes

LEMMA OthersStayExposed ==
    ASSUME LinksInv, NEW q \in AdminRequests, NEW r, r = request[q], r.lander \in Landers,
           NEW s, Moves(q, s), Continues(r, s), NEW l \in Landers, Exposed(l)',
           l = r.lander => s = NoRequest \/ ~Loosens(s)
    PROVE  Exposed(l)
<1>1. CatalogueShape BY DEF LinksInv
<1>2. /\ \A o \in AdminRequests : request'[o] = IF o = q THEN s ELSE request[o]
      /\ \A m : On(m)' = IF s.lander = m THEN On(m) \cup {q} ELSE On(m) \ {q}
  BY <1>1, MovesIs
<1>3. PICK o \in On(l)' : Loosens(request'[o]) BY DEF Exposed, Loosens
<1>4. o # q
  <2>1. ASSUME o = q PROVE FALSE
    <3>1. s.lander = l /\ Loosens(s) BY <1>2, <1>3, <2>1 DEF On
    <3>2. s # NoRequest /\ r.lander = l BY <3>1, NoRequestIs DEF Continues
    <3> QED BY <3>1, <3>2
  <2> QED BY <2>1
<1>5. o \in On(l) /\ request'[o] = request[o] BY <1>2, <1>3, <1>4 DEF On
<1> QED BY <1>3, <1>5 DEF Exposed

\* What the link of one campaign is written to.
LEMMA LinkWritten ==
    ASSUME LinksInv, NEW q \in AdminRequests, NEW r, r = request[q], r.lander \in Landers,
           NEW s, Moves(q, s), Continues(r, s), UNCHANGED <<lander, unbuilt, offer, orphans>>,
           NEW c \in Shops, NEW link \in Slugs \cup {NoLink}, shop' = [shop EXCEPT ![c].link = link],
           \A d \in Shops : d # c => (d \in loose' <=> d \in loose),
           ~Creates(s), ~Reading(s),
           Rebuilds(r) => (Rebuilds(s) /\ s.lander = r.lander) \/ ~Born(r.lander) \/ r.lander \in unbuilt,
           \A d \in Shops : d # c => ~Writes(r, d),
           \A d \in Shops \ loose : d # c /\ Live(r.lander, d) => s = NoRequest \/ ~Loosens(s) \/ Exposed(r.lander),
           c \notin loose' /\ Open(c) /\ link # NoLink => \E l \in Landers : Live(l, c)',
           \A l \in Landers : c \notin loose' /\ Exposed(l)' => ~Live(l, c)'
    PROVE  LinksInv'
<1>1. /\ CatalogueShape /\ TablesShape /\ RowsAgree /\ LinksLead /\ ExposedAreNotNeeded
      /\ BuildOK(r.lander)
  BY DEF LinksInv, CatalogueShape, BuildsAgree
<1>2. /\ shop' = [d \in Shops |-> shop'[d]] /\ \A d \in Shops : d # c => shop'[d] = shop[d]
      /\ shop'[c] = [shop[c] EXCEPT !.link = link]
  BY <1>1 DEF TablesShape
<1>3. IsCampaign(shop[c]) BY <1>1 DEF TablesShape
<1>4. /\ IsCampaign(shop'[c]) /\ shop'[c].state = shop[c].state /\ shop'[c].link = link
      /\ shop'[c].profile = shop[c].profile
  BY <1>2, <1>3 DEF IsCampaign
<1>5. \A d \in Shops : Open(d)' = Open(d) /\ shop'[d].profile = shop[d].profile
  BY <1>2, <1>4 DEF Open
<1>6. TablesShape' BY <1>1, <1>2, <1>4 DEF TablesShape
<1>7. RowsAgree'
  <2>1. \A l \in Landers : lander[l].shop \in Shops BY <1>1 DEF TablesShape, IsLander
  <2> QED BY <1>1, <1>5, <2>1 DEF RowsAgree, Born
<1>8. \A l \in Landers, d \in Shops : d # c => (Live(l, d)' <=> Live(l, d))
  BY <1>2 DEF Live, Born
<1>9. ASSUME NEW d \in Shops, d # c, Written(d) PROVE Written(d)'
  BY <1>9, OthersStillWrite
<1>10. LinksLead' BY <1>1, <1>4, <1>5, <1>8, <1>9, <1>2 DEF LinksLead
<1>11. ASSUME NEW l \in Landers, NEW d \in Shops \ loose', d # c, Exposed(l)', Live(l, d)'
       PROVE  Written(d)'
  <2>1. d \notin loose /\ Live(l, d) BY <1>8, <1>11
  <2>2. Exposed(l)
    <3>1. CASE l = r.lander /\ Exposed(r.lander) BY <3>1
    <3>2. CASE ~(l = r.lander /\ Exposed(r.lander))
      BY <1>11, <2>1, <3>2, OthersStayExposed
    <3> QED BY <3>1, <3>2
  <2> QED BY <1>1, <1>9, <1>11, <2>1, <2>2 DEF ExposedAreNotNeeded
<1>12. ExposedAreNotNeeded' BY <1>11 DEF ExposedAreNotNeeded
<1>13. BuildOK(r.lander)' BY <1>1, BuildKept
<1> QED BY <1>5, <1>6, <1>7, <1>10, <1>12, <1>13, LanderRequest

LEMMA UnlinkWriteKeeps ==
    ASSUME LinksInv, NEW q \in AdminRequests, UnlinkWrite(q) PROVE LinksInv'
<1>1. PICK r, l, c : r = request[q] /\ l = r.lander /\ c = r.shop OBVIOUS
<1>2. /\ r.op = "remove" /\ r.pc = "unlinkWrite"
      /\ UNCHANGED <<lander, loose, unbuilt, offer, orphans>>
  BY <1>1 DEF UnlinkWrite, Doing, SameOthers
<1>3. /\ l \in Landers /\ IsCall(r) /\ CatalogueShape /\ TablesShape /\ r.op \in LanderOps
      /\ c \in Shops
  BY <1>1, <1>2, LanderCall DEF LanderOps, IsCall
<1>4. ~Rebuilds(r) /\ \A d : ~Writes(r, d) BY <1>2 DEF Rebuilds, Writes
<1>5. CASE ~Open(c)
  <2>1. End(q) /\ UNCHANGED shop BY <1>1, <1>5 DEF UnlinkWrite
  <2> QED BY <1>1, <1>2, <1>3, <1>4, <2>1, GivenUp
<1>6. CASE Open(c)
  <2>1. Then(q, "delete") /\ shop' = [shop EXCEPT ![c].link = NoLink]
    BY <1>1, <1>6 DEF UnlinkWrite
  <2>2. PICK s : Moves(q, s) /\ SameBut(r, s, "delete") BY <1>1, <1>3, <2>1, ThenIs
  <2>3. Continues(r, s) /\ ~Creates(s) /\ ~Reading(s)
    BY <2>2 DEF SameBut, Continues, Creates, Reading
  <2>4. ASSUME NEW d \in Shops, d # c, Live(l, d) PROVE Exposed(l)
    <3>1. lander[l].shop # c BY <2>4 DEF Live
    <3>2. ~(r.undisturbed = TRUE)
      BY <1>1, <1>2, <1>3, <3>1 DEF LinksInv, ReadsAreTrue, ReadOK, Reading, Read
    <3>3. Loosens(r) /\ q \in On(l) BY <1>1, <1>3, <3>2 DEF IsCall, Loosens, On
    <3> QED BY <1>1, <3>3 DEF Exposed
  <2>5. ASSUME NEW m \in Landers PROVE ~Live(m, c)'
    <3>1. shop'[c].link = NoLink BY <1>3, <2>1 DEF TablesShape, IsCampaign
    <3>2. lander'[m].slug \in Slugs BY <1>2, <1>3 DEF TablesShape, IsLander
    <3> QED BY <3>1, <3>2, CatalogueAssumption DEF Live
  <2>6. \A d \in Shops : d # c => (d \in loose' <=> d \in loose) BY <1>2
  <2>7. NoLink \in Slugs \cup {NoLink} OBVIOUS
  <2> QED BY <1>1, <1>2, <1>3, <1>4, <2>1, <2>2, <2>3, <2>4, <2>5, <2>6, <2>7, LinkWritten
<1> QED BY <1>5, <1>6

LEMMA LinkWriteKeeps ==
    ASSUME LinksInv, NEW q \in AdminRequests, LinkWrite(q) PROVE LinksInv'
<1>1. PICK r, l, c : r = request[q] /\ l = r.lander /\ c = r.shop OBVIOUS
<1>2. /\ r.op \in {"create", "update"} /\ r.pc = "linkWrite"
      /\ UNCHANGED <<lander, unbuilt, offer, orphans>>
  BY <1>1 DEF LinkWrite, SameOthers
<1>3. /\ l \in Landers /\ IsCall(r) /\ CatalogueShape /\ TablesShape /\ r.op \in LanderOps
      /\ c \in Shops /\ r.slug \in Slugs
  BY <1>1, <1>2, LanderCall DEF LanderOps, IsCall
<1>4. r.undisturbed = TRUE => Read(r) /\ On(l) = {q}
  BY <1>1, <1>2, <1>3 DEF LinksInv, ReadsAreTrue, ReadOK, Reading, RequestsAgree, RequestOK
<1>5. r.undisturbed = FALSE => l \in unbuilt
  BY <1>1, <1>3 DEF LinksInv, RequestsAgree, RequestOK
<1>6. r.undisturbed \in BOOLEAN BY <1>3 DEF IsCall
<1>7. CASE ~Open(c)
  <2>1. End(q) /\ UNCHANGED <<shop, loose>> BY <1>1, <1>7 DEF LinkWrite
  <2>2. r.undisturbed = TRUE => ~Born(l)
    BY <1>1, <1>3, <1>4, <1>7 DEF LinksInv, RowsAgree, Read
  <2>3. ~Born(l) \/ l \in unbuilt BY <1>5, <1>6, <2>2
  <2>4. \A d : ~Writes(r, d) BY <1>1, <2>2 DEF Writes
  <2> QED BY <1>1, <1>2, <1>3, <2>1, <2>3, <2>4, GivenUp
<1>8. CASE Open(c)
  <2>1. /\ shop' = [shop EXCEPT ![c].link = r.slug]
        /\ loose' = IF r.undisturbed THEN loose \ {c} ELSE loose \cup {c}
        /\ IF r.op = "update" THEN Then(q, "process") ELSE End(q)
    BY <1>1, <1>8 DEF LinkWrite
  <2>2. PICK s : /\ Moves(q, s) /\ Continues(r, s) /\ ~Creates(s) /\ ~Reading(s)
                 /\ Rebuilds(r) => Rebuilds(s) /\ s.lander = l
                 /\ r.undisturbed = TRUE \/ s = NoRequest => ~Loosens(s)
    <3>1. CASE r.op = "update"
      <4>1. Then(q, "process") BY <2>1, <3>1
      <4>2. PICK s : Moves(q, s) /\ SameBut(r, s, "process") BY <1>1, <1>3, <4>1, ThenIs
      <4>3. Continues(r, s) /\ ~Creates(s) /\ ~Reading(s) /\ Rebuilds(s) /\ s.lander = l
        BY <1>1, <3>1, <4>2 DEF SameBut, Continues, Creates, Reading, Rebuilds
      <4>4. r.undisturbed = TRUE \/ s = NoRequest => ~Loosens(s)
        BY <3>1, <4>2, NoRequestIs DEF SameBut, Loosens
      <4> QED BY <4>2, <4>3, <4>4
    <3>2. CASE r.op # "update"
      <4>1. Moves(q, NoRequest) BY <2>1, <3>2, EndIs
      <4>2. ~Rebuilds(r) /\ ~Loosens(NoRequest) BY <3>2, NoRequestIs DEF Rebuilds, Loosens
      <4> QED BY <4>1, <4>2, NoRequestIs DEF Continues, Creates, Reading
    <3> QED BY <3>1, <3>2
  <2>3. \A d \in Shops : d # c => ~Writes(r, d)
    BY <1>1, <1>4 DEF Writes, Read
  <2>4. \A d \in Shops : d # c => (d \in loose' <=> d \in loose) BY <2>1
  <2>5. ~(r.undisturbed = TRUE) => Exposed(l)
    <3>1. q \in On(l) BY <1>1 DEF On
    <3> QED BY <1>1, <1>6, <3>1 DEF Exposed, Loosens
  <2>6. c \notin loose' => r.undisturbed = TRUE BY <1>3, <1>6, <2>1
  <2>7. shop'[c].link = r.slug BY <1>3, <2>1 DEF TablesShape, IsCampaign
  <2>8. r.undisturbed = TRUE => Live(l, c)'
    BY <1>1, <1>2, <1>4, <1>8, <2>7 DEF Live, Read, Born
  <2>9. ASSUME NEW m \in Landers, r.undisturbed = TRUE, Exposed(m)', Live(m, c)' PROVE FALSE
    <3>1. m = l BY <1>2, <1>3, <2>8, <2>9 DEF Live, Born, LinksInv, RowsAgree
    <3>2. On(l)' \subseteq {q} /\ request'[q] = s
      <4>1. On(l)' \subseteq On(l) \cup {q} BY <1>3, <2>2, MovesIs
      <4> QED BY <1>3, <1>4, <2>2, <2>9, <4>1, MovesIs
    <3>3. ~Loosens(s) BY <2>2, <2>9
    <3> QED BY <2>9, <3>1, <3>2, <3>3 DEF Exposed, Loosens
  <2>10. /\ c \notin loose' /\ Open(c) /\ r.slug # NoLink => \E m \in Landers : Live(m, c)'
         /\ \A m \in Landers : c \notin loose' /\ Exposed(m)' => ~Live(m, c)'
    BY <1>3, <2>6, <2>8, <2>9
  <2>11. s = NoRequest \/ ~Loosens(s) \/ Exposed(l) BY <1>6, <2>2, <2>5
  <2>12. r.slug \in Slugs \cup {NoLink} BY <1>3
  <2> QED BY <1>1, <1>2, <1>3, <2>1, <2>2, <2>3, <2>4, <2>10, <2>11, <2>12, LinkWritten
<1> QED BY <1>7, <1>8

LEMMA WriteRowKeeps ==
    ASSUME LinksInv, NEW q \in AdminRequests, WriteRow(q) PROVE LinksInv'
<1>1. PICK r, l, c, slug, old :
        r = request[q] /\ l = r.lander /\ c = r.shop /\ slug = r.slug /\ old = lander[l].shop
  OBVIOUS
<1>2. /\ r.op \in {"create", "update"} /\ r.pc = "row"
      /\ UNCHANGED <<shop, unbuilt, offer, orphans>>
  BY <1>1 DEF WriteRow, SameOthers
<1>3. /\ l \in Landers /\ IsCall(r) /\ CatalogueShape /\ TablesShape /\ r.op \in LanderOps
      /\ c \in Shops /\ slug \in Slugs /\ r.undisturbed \in BOOLEAN /\ q \in On(l)
  BY <1>1, <1>2, LanderCall DEF LanderOps, IsCall, On
<1>4. ~Rebuilds(r) /\ \A d : ~Writes(r, d) BY <1>2 DEF Rebuilds, Writes
<1>5. /\ RowsAgree /\ LinksLead /\ ExposedAreNotNeeded /\ BuildOK(l) /\ RequestOK(q, r)
  BY <1>1, <1>3 DEF LinksInv, BuildsAgree, RequestsAgree
<1>6. CASE ~Open(c) \/ TakenBy(slug, l) \/ (r.op = "update" /\ ~Born(l))
  <2>1. End(q) /\ UNCHANGED <<lander, loose>> BY <1>1, <1>6 DEF WriteRow
  <2> QED BY <1>1, <1>2, <1>3, <1>4, <2>1, GivenUp
<1>7. CASE ~(~Open(c) \/ TakenBy(slug, l) \/ (r.op = "update" /\ ~Born(l)))
  <2>1. /\ lander' = [lander EXCEPT ![l].state = "present", ![l].slug = slug, ![l].shop = c]
        /\ loose' = IF r.op = "update" /\ old # c /\ shop[old].link = lander[l].slug
                    THEN loose \cup {old} ELSE loose
        /\ Then(q, "link")
    BY <1>1, <1>7 DEF WriteRow
  <2>2. PICK s : Moves(q, s) /\ SameBut(r, s, "link") BY <1>1, <1>3, <2>1, ThenIs
  <2>3. /\ Continues(r, s) /\ ~Creates(s) /\ ~Reading(s) /\ (Loosens(s) => Loosens(r))
        /\ r.op = "update" => Rebuilds(s)
    BY <1>2, <2>2 DEF SameBut, Continues, Creates, Reading, Loosens, Rebuilds
  <2>4. PICK h : h = [lander[l] EXCEPT !.state = "present", !.slug = slug, !.shop = c] OBVIOUS
  <2>5. IsLander(lander[l]) BY <1>3 DEF TablesShape
  <2>6. /\ IsLander(h) /\ h.state = "present" /\ h.slug = slug /\ h.shop = c
        /\ h.raw = lander[l].raw /\ h.built = lander[l].built
    BY <1>3, <2>4, <2>5 DEF IsLander
  <2>7. lander' = [lander EXCEPT ![l] = h] BY <2>1, <2>4
  <2>8. /\ lander' = [m \in Landers |-> lander'[m]] /\ lander'[l] = h
        /\ \A m \in Landers : m # l => lander'[m] = lander[m]
    BY <1>3, <2>6, <2>7, RowIs
  <2>9. /\ \A m \in Landers : m # l => lander'[m].state = lander[m].state
        /\ lander'[l].state = "present" /\ lander'[l].slug = slug /\ lander'[l].shop = c
    BY <2>6, <2>8
  <2>10. TablesShape' BY <1>2, <1>3, <2>6, <2>8 DEF TablesShape
  <2>11. \A m \in Landers : m # l /\ Born(m) => lander[m].slug # slug
    BY <1>7 DEF TakenBy
  <2>12. RowsAgree'
    <3>1. \A m \in Landers : m # l => (Born(m)' <=> Born(m)) BY <2>8 DEF Born
    <3>2. \A m, n \in Landers : Born(m)' /\ Born(n)' /\ lander'[m].slug = lander'[n].slug => m = n
      BY <1>5, <2>8, <2>9, <2>11, <3>1 DEF RowsAgree
    <3>3. \A d : Open(d)' <=> Open(d) BY <1>2 DEF Open
    <3>4. \A m \in Landers : Born(m)' => Open(lander'[m].shop)
      BY <1>5, <1>7, <2>8, <2>9, <3>1 DEF RowsAgree
    <3>5. \A m \in Landers : Born(m)' => shop'[lander'[m].shop].state = "present"
      BY <1>2, <3>4 DEF Open
    <3> QED BY <3>2, <3>5 DEF RowsAgree, Open
  <2>13. BuildOK(l)'
    <3>1. \/ lander[l].built = "none"
          \/ Rebuilds(s) /\ q \in On(l)' /\ request'[q] = s
      <4>1. CASE r.op = "create"
        <5>1. Creates(r) BY <1>2, <4>1 DEF Creates
        <5> QED BY <1>1, <1>5, <5>1 DEF RequestOK, BuildOK
      <4>2. CASE r.op = "update"
        <5>1. s.lander = l BY <1>1, <2>2 DEF SameBut
        <5> QED BY <1>3, <2>2, <2>3, <4>2, <5>1, MovesIs
      <4> QED BY <1>2, <4>1, <4>2
    <3>2. \/ lander'[l].built = "none"
          \/ \E p \in On(l)' : Rebuilds(request'[p])
      BY <2>6, <2>8, <3>1
    <3>3. lander'[l].raw = "none" => lander'[l].built = "none"
      BY <1>5, <2>6, <2>8 DEF BuildOK
    <3> QED BY <2>9, <3>2, <3>3 DEF BuildOK, Rebuilds
  <2>14. \A d : Written(d) => Written(d)'
    BY <1>1, <1>3, <1>4, <2>2, <2>8, OthersStillWrite
  <2>15. \A m \in Landers, d \in Shops : m # l => (Live(m, d)' <=> Live(m, d))
    BY <1>2, <2>8 DEF Live, Born
  <2>16. r.undisturbed = TRUE => Written(c)'
    <3>1. s.undisturbed = r.undisturbed /\ s.lander = l /\ s.op = r.op /\ s.pc = "link"
      BY <1>1, <2>2 DEF SameBut
    <3>2. request'[q] = s BY <1>3, <2>2, MovesIs
    <3>3. r.undisturbed = TRUE => Writes(s, c)'
      BY <1>2, <1>3, <2>9, <3>1 DEF Writes, Born
    <3> QED BY <3>2, <3>3 DEF Written, Writes
  <2>17. r.undisturbed = FALSE => Exposed(l)
    BY <1>1, <1>3 DEF Exposed, Loosens
  <2>18. loose \subseteq loose' BY <2>1
  <2>19. ASSUME NEW d \in Shops \ loose', Live(l, d) PROVE d = c /\ r.op = "update"
    <3>1. Born(l) /\ old = d /\ shop[d].link = lander[l].slug BY <1>1, <2>19 DEF Live
    <3>2. r.op = "update"
      <4>1. r.op = "create" => Creates(r) BY <1>2 DEF Creates
      <4> QED BY <1>1, <1>2, <1>5, <3>1, <4>1 DEF RequestOK, Born
    <3> QED BY <2>1, <3>1, <3>2
  <2>20. \A d \in Shops \ loose' : Live(l, d) => Written(d)'
    <3> SUFFICES ASSUME NEW d \in Shops \ loose', Live(l, d) PROVE Written(d)' OBVIOUS
    <3>1. d = c BY <2>19
    <3>2. CASE r.undisturbed = TRUE BY <2>16, <3>1, <3>2
    <3>3. CASE r.undisturbed = FALSE
      <4>1. Written(d) BY <1>3, <1>5, <2>17, <2>18, <3>3 DEF ExposedAreNotNeeded
      <4> QED BY <2>14, <4>1
    <3> QED BY <1>3, <3>2, <3>3
  <2>21. ASSUME NEW d \in Shops \ loose', Open(d), shop[d].link # NoLink
         PROVE  Written(d)' \/ \E m \in Landers : Live(m, d)'
    <3>1. Written(d) \/ \E m \in Landers : Live(m, d) BY <1>5, <2>18, <2>21 DEF LinksLead
    <3> QED BY <2>14, <2>15, <2>20, <3>1
  <2>22. LinksLead' BY <1>2, <2>21 DEF LinksLead, Open
  <2>23. ASSUME NEW m \in Landers, NEW d \in Shops \ loose', Exposed(m)', Live(m, d)'
         PROVE  Written(d)'
    <3>1. CASE m # l
      <4>1. Live(m, d) BY <2>15, <2>23, <3>1
      <4>2. Exposed(m) BY <1>1, <1>3, <2>2, <2>3, <2>23, <3>1, OthersStayExposed
      <4>3. Written(d) BY <1>5, <2>18, <4>1, <4>2 DEF ExposedAreNotNeeded
      <4> QED BY <2>14, <4>3
    <3>2. CASE m = l /\ r.undisturbed = TRUE
      <4>1. d = c BY <2>9, <2>23, <3>2 DEF Live
      <4> QED BY <2>16, <3>2, <4>1
    <3>3. CASE m = l /\ r.undisturbed = FALSE
      <4>1. d = c /\ shop[c].link = slug BY <1>2, <2>9, <2>23, <3>3 DEF Live
      <4>2. Open(c) /\ slug # NoLink BY <1>3, <1>7, CatalogueAssumption
      <4>3. Written(c) \/ \E n \in Landers : Live(n, c)
        BY <1>3, <1>5, <2>18, <4>1, <4>2 DEF LinksLead
      <4>4. \A n \in Landers : Live(n, c) => n = l BY <2>11, <4>1 DEF Live
      <4> QED BY <2>14, <2>20, <4>1, <4>3, <4>4
    <3> QED BY <1>3, <3>1, <3>2, <3>3
  <2>24. ExposedAreNotNeeded' BY <2>23 DEF ExposedAreNotNeeded
  <2>25. \A d \in Shops : Open(d)' = Open(d) /\ shop'[d].profile = shop[d].profile
    BY <1>2 DEF Open
  <2> QED BY <1>1, <1>2, <1>3, <2>2, <2>3, <2>8, <2>10, <2>12, <2>13, <2>22, <2>24, <2>25, LanderRequest
<1> QED BY <1>6, <1>7

LEMMA DeleteLanderKeeps ==
    ASSUME LinksInv, NEW q \in AdminRequests, DeleteLander(q) PROVE LinksInv'
<1>1. PICK r, l : r = request[q] /\ l = r.lander OBVIOUS
<1>2. /\ r.op = "remove" /\ r.pc = "delete" /\ End(q)
      /\ UNCHANGED <<shop, loose, unbuilt, offer, orphans>>
  BY <1>1 DEF DeleteLander, Doing, SameOthers
<1>3. /\ l \in Landers /\ IsCall(r) /\ CatalogueShape /\ TablesShape /\ r.op \in LanderOps
      /\ q \in On(l)
  BY <1>1, <1>2, LanderCall DEF LanderOps, On
<1>4. ~Rebuilds(r) /\ \A d : ~Writes(r, d) BY <1>2 DEF Rebuilds, Writes
<1>5. Moves(q, NoRequest) /\ Continues(r, NoRequest) /\ ~Creates(NoRequest) /\ ~Reading(NoRequest)
  BY <1>2, EndIs, NoRequestIs DEF Continues, Creates, Reading
<1>6. RowsAgree /\ LinksLead /\ ExposedAreNotNeeded BY DEF LinksInv
<1>7. CASE ~Born(l)
  <2>1. UNCHANGED lander BY <1>1, <1>7 DEF DeleteLander
  <2> QED BY <1>1, <1>2, <1>3, <1>4, <2>1, GivenUp
<1>8. CASE Born(l)
  <2>1. PICK h : h = [lander[l] EXCEPT !.state = "gone", !.raw = "none", !.built = "none"] OBVIOUS
  <2>2. lander' = [lander EXCEPT ![l] = h] BY <1>1, <1>8, <2>1 DEF DeleteLander
  <2>3. IsLander(lander[l]) BY <1>3 DEF TablesShape
  <2>4. IsLander(h) /\ h.state = "gone" /\ h.raw = "none" /\ h.built = "none"
    BY <2>1, <2>3 DEF IsLander
  <2>5. /\ lander' = [m \in Landers |-> lander'[m]] /\ lander'[l] = h
        /\ \A m \in Landers : m # l => lander'[m] = lander[m]
    BY <1>3, <2>2, <2>4, RowIs
  <2>6. TablesShape' BY <1>2, <1>3, <2>4, <2>5 DEF TablesShape
  <2>7. ~Born(l)' BY <2>4, <2>5 DEF Born
  <2>8. \A m \in Landers : m # l => (Born(m)' <=> Born(m)) BY <2>5 DEF Born
  <2>9. RowsAgree' BY <1>2, <1>6, <2>5, <2>7, <2>8 DEF RowsAgree, Open
  <2>10. BuildOK(l)' BY <2>4, <2>5, <2>7 DEF BuildOK
  <2>11. \A m \in Landers, d \in Shops : Live(m, d)' <=> m # l /\ Live(m, d)
    BY <1>2, <2>5, <2>7, <2>8 DEF Live
  <2>12. \A d : Written(d) => Written(d)'
    BY <1>1, <1>3, <1>4, <1>5, <2>5, OthersStillWrite
  <2>13. Exposed(l) BY <1>1, <1>2, <1>3 DEF Exposed, Loosens
  <2>14. LinksLead'
    BY <1>2, <1>3, <1>6, <2>11, <2>12, <2>13 DEF LinksLead, ExposedAreNotNeeded, Open
  <2>15. \A m \in Landers : m # l /\ Exposed(m)' => Exposed(m)
    BY <1>1, <1>3, <1>5, OthersStayExposed
  <2>16. ExposedAreNotNeeded'
    BY <1>2, <1>6, <2>11, <2>12, <2>15 DEF ExposedAreNotNeeded
  <2>17. \A d \in Shops : Open(d)' = Open(d) /\ shop'[d].profile = shop[d].profile
    BY <1>2 DEF Open
  <2> QED BY <1>1, <1>2, <1>3, <1>5, <2>5, <2>6, <2>9, <2>10, <2>14, <2>16, <2>17, LanderRequest
<1> QED BY <1>7, <1>8

\* A step that leaves the landers, the links and every request about a lander alone.
LEMMA ParentRequest ==
    ASSUME LinksInv, UNCHANGED <<lander, loose, unbuilt>>,
           request' = [o \in AdminRequests |-> request'[o]],
           \A o \in AdminRequests :
               \/ request'[o] = request[o]
               \/ /\ IsCall(request'[o])
                  /\ request[o].lander \notin Landers /\ request'[o].lander \notin Landers,
           shop' = [c \in Shops |-> shop'[c]],
           \A c \in Shops : IsCampaign(shop'[c]) /\ shop'[c].state = shop[c].state
                            /\ shop'[c].link = shop[c].link,
           ParentsAreUnused'
    PROVE  LinksInv'
<1>1. /\ CatalogueShape /\ TablesShape /\ RowsAgree /\ RequestsAgree /\ ReadsAreTrue /\ BuildsAgree
      /\ LinksLead /\ ExposedAreNotNeeded
  BY DEF LinksInv, CatalogueShape
<1>2. CatalogueShape' BY <1>1 DEF CatalogueShape, TablesShape
<1>3. \A c \in Shops : Open(c)' <=> Open(c) BY DEF Open
<1>4. \A l \in Landers : lander[l].shop \in Shops BY <1>1 DEF TablesShape, IsLander
<1>5. RowsAgree' BY <1>1, <1>3, <1>4 DEF RowsAgree, Born
<1>6. \A l \in Landers : /\ On(l)' = On(l) /\ \A o \in On(l) : request'[o] = request[o]
  BY DEF On
<1>7. ASSUME NEW o \in AdminRequests, NEW h, h = request'[o], h.lander \in Landers
      PROVE  h = request[o]
  BY <1>7
<1>8. RequestsAgree'
  <2> SUFFICES ASSUME NEW o \in AdminRequests, NEW h, h = request'[o], h.lander \in Landers
               PROVE  RequestOK(o, h)'
    BY DEF RequestsAgree
  <2>1. RequestOK(o, h) BY <1>1, <1>7 DEF RequestsAgree
  <2> QED BY <1>6, <2>1 DEF RequestOK
<1>9. ReadsAreTrue'
  <2> SUFFICES ASSUME NEW o \in AdminRequests, NEW h, h = request'[o] PROVE ReadOK(h)'
    BY DEF ReadsAreTrue
  <2>1. CASE h.lander \in Landers
    <3>1. ReadOK(h) /\ h = request[o] BY <1>1, <1>7, <2>1 DEF ReadsAreTrue
    <3>2. h.shop \in Shops BY <1>1, <3>1 DEF CatalogueShape, IsCall
    <3> QED BY <1>3, <3>1, <3>2 DEF ReadOK, Read, Born
  <2>2. CASE h.lander \notin Landers BY <2>2 DEF ReadOK
  <2> QED BY <2>1, <2>2
<1>10. BuildsAgree' BY <1>1, <1>6 DEF BuildsAgree, BuildOK, Born
<1>11. ASSUME NEW c \in Shops, Written(c) PROVE Written(c)'
  <2>1. PICK o \in AdminRequests : Writes(request[o], c) BY <1>11 DEF Written
  <2>2. request'[o] = request[o] BY <2>1 DEF Writes
  <2> QED BY <2>1, <2>2 DEF Written, Writes, Born
<1>12. \A l \in Landers : Exposed(l)' => Exposed(l) BY <1>6 DEF Exposed, Loosens
<1>13. \A l \in Landers : Born(l)' = Born(l) BY DEF Born
<1>14. LinksLead' /\ ExposedAreNotNeeded' BY <1>1, <1>3, <1>11, <1>12, <1>13, LinksKept
<1> QED BY <1>2, <1>5, <1>8, <1>9, <1>10, <1>14 DEF LinksInv

\* A statement of one such request.
LEMMA ParentMoves ==
    ASSUME LinksInv, NEW q \in AdminRequests, request[q].op \notin LanderOps,
           NEW s, Moves(q, s), IsCall(s), s.lander \notin Landers,
           UNCHANGED <<lander, loose, unbuilt>>, shop' = [c \in Shops |-> shop'[c]],
           \A c \in Shops : IsCampaign(shop'[c]) /\ shop'[c].state = shop[c].state
                            /\ shop'[c].link = shop[c].link,
           orphans' = {},
           \A o \in AdminRequests \ {q} : request[o].pc = "delete" /\ request[o].undisturbed = TRUE =>
               /\ request[o].op = "remove network" => (Users("network") = {} => Users("network")' = {})
               /\ request[o].op = "remove profile" => (Users("profile") = {} => Users("profile")' = {}),
           s.pc = "delete" /\ s.undisturbed = TRUE =>
               /\ s.op = "remove network" => Users("network")' = {}
               /\ s.op = "remove profile" => Users("profile")' = {}
    PROVE  LinksInv'
<1>1. CatalogueShape /\ ParentsAreUnused BY DEF LinksInv
<1>2. /\ \A o \in AdminRequests : request'[o] = IF o = q THEN s ELSE request[o]
      /\ request' = [o \in AdminRequests |-> request'[o]]
  BY <1>1, MovesIs
<1>3. request[q].lander \notin Landers BY <1>1 DEF CatalogueShape, IsCall
<1>4. ParentsAreUnused' BY <1>1, <1>2 DEF ParentsAreUnused
<1> QED BY <1>2, <1>3, <1>4, ParentRequest

LEMMA ParentCall ==
    ASSUME LinksInv, NEW q \in AdminRequests, NEW pc
    PROVE  /\ CatalogueShape /\ TablesShape /\ ParentsAreUnused /\ orphans = {}
           /\ IsCall(request[q]) /\ request[q].shop \in Shops
           /\ shop = [c \in Shops |-> shop[c]] /\ \A c \in Shops : IsCampaign(shop[c])
           /\ request[q].op \notin LanderOps =>
                /\ IsCall(NoRequest) /\ NoRequest.lander \notin Landers /\ NoRequest.pc = "idle"
                /\ Then(q, pc) => \E s : Moves(q, s) /\ SameBut(request[q], s, pc) /\ s.lander \notin Landers
                /\ End(q) => Moves(q, NoRequest)
<1>1. CatalogueShape /\ TablesShape /\ ParentsAreUnused /\ IsCall(request[q])
  BY DEF LinksInv, CatalogueShape
<1>2. orphans = {} BY <1>1 DEF ParentsAreUnused
<1>3. request[q].shop \in Shops /\ (request[q].op \notin LanderOps => request[q].lander \notin Landers)
  BY <1>1 DEF IsCall
<1>4. shop = [c \in Shops |-> shop[c]] /\ \A c \in Shops : IsCampaign(shop[c])
  BY <1>1 DEF TablesShape
<1>5. Then(q, pc) => \E s : Moves(q, s) /\ SameBut(request[q], s, pc) BY <1>1, ThenIs
<1>6. End(q) => Moves(q, NoRequest) BY EndIs
<1>7. request[q].op \notin LanderOps /\ Then(q, pc)
        => \E s : Moves(q, s) /\ SameBut(request[q], s, pc) /\ s.lander \notin Landers
  BY <1>3, <1>5 DEF SameBut
<1> QED BY <1>1, <1>2, <1>3, <1>4, <1>6, <1>7, NoRequestIs

\* A parent is looked at before it is used or deleted.
LEMMA ParentLooks ==
    ASSUME LinksInv, NEW q \in AdminRequests, request[q].op \notin LanderOps, NEW pc,
           Then(q, pc) \/ End(q), UNCHANGED <<lander, shop, loose, unbuilt, offer, orphans>>,
           Then(q, pc) /\ pc = "delete" =>
               /\ request[q].op = "remove network" => Users("network") = {}
               /\ request[q].op = "remove profile" => Users("profile") = {}
    PROVE  LinksInv'
<1>1. Users("network")' = Users("network") /\ Users("profile")' = Users("profile")
  BY DEF Users, Open
<1>2. /\ CatalogueShape /\ orphans = {}
      /\ shop = [c \in Shops |-> shop[c]] /\ \A c \in Shops : IsCampaign(shop[c])
  BY ParentCall
<1>3. CASE End(q)
  <2>1. Moves(q, NoRequest) BY <1>3, EndIs
  <2> QED BY <1>1, <1>2, <2>1, NoRequestIs, ParentMoves
<1>4. CASE Then(q, pc)
  <2>1. PICK s : Moves(q, s) /\ SameBut(request[q], s, pc) /\ s.lander \notin Landers
    BY <1>4, ParentCall
  <2>2. IsCall(s) /\ s.pc = pc /\ s.op = request[q].op BY <2>1 DEF SameBut
  <2> QED BY <1>1, <1>2, <1>4, <2>1, <2>2, ParentMoves
<1> QED BY <1>3, <1>4

LEMMA ParentChecksKeep ==
    ASSUME LinksInv, NEW q \in AdminRequests, CheckAttach(q) \/ CheckUnused(q) \/ CheckOffer(q)
    PROVE  LinksInv'
<1>1. CASE CheckAttach(q)
  <2>1. /\ request[q].op \notin LanderOps
        /\ Then(q, "write") \/ End(q)
        /\ UNCHANGED <<lander, shop, loose, unbuilt, offer, orphans>>
    BY <1>1 DEF CheckAttach, SameOthers, LanderOps
  <2> QED BY <2>1, ParentLooks
<1>2. CASE CheckOffer(q)
  <2>1. /\ request[q].op \notin LanderOps
        /\ Then(q, "write") \/ End(q)
        /\ UNCHANGED <<lander, shop, loose, unbuilt, offer, orphans>>
    BY <1>2 DEF CheckOffer, Doing, SameOthers, LanderOps
  <2> QED BY <2>1, ParentLooks
<1>3. CASE CheckUnused(q)
  <2>1. /\ request[q].op \notin LanderOps
        /\ (Then(q, "delete") /\ Unused(request[q].op)) \/ End(q)
        /\ UNCHANGED <<lander, shop, loose, unbuilt, offer, orphans>>
    BY <1>3 DEF CheckUnused, SameOthers, LanderOps
  <2>2. CASE Then(q, "delete") /\ Unused(request[q].op)
    <3>1. /\ request[q].op = "remove network" => Users("network") = {}
          /\ request[q].op = "remove profile" => Users("profile") = {}
      BY <2>2 DEF Unused
    <3> QED BY <2>1, <2>2, <3>1, ParentLooks
  <2>3. CASE End(q)
    <3>1. Then(q, "idle") \/ End(q) BY <2>3
    <3> QED BY <2>1, <3>1, ParentLooks
  <2> QED BY <2>1, <2>2, <2>3
<1> QED BY <1>1, <1>2, <1>3

\* The columns of a campaign that name a parent.
LEMMA ProfileMoves ==
    ASSUME LinksInv, NEW to \in {"none", "custom", "system"}, NEW S,
           \A c \in Shops : shop'[c] = IF c \in S THEN [shop[c] EXCEPT !.profile = to] ELSE shop[c]
    PROVE  \A c \in Shops : /\ IsCampaign(shop'[c]) /\ shop'[c].state = shop[c].state
                            /\ shop'[c].link = shop[c].link
                            /\ shop'[c].profile = IF c \in S THEN to ELSE shop[c].profile
<1> SUFFICES ASSUME NEW c \in Shops
             PROVE  /\ IsCampaign(shop'[c]) /\ shop'[c].state = shop[c].state
                    /\ shop'[c].link = shop[c].link
                    /\ shop'[c].profile = IF c \in S THEN to ELSE shop[c].profile
  OBVIOUS
<1>1. IsCampaign(shop[c]) BY DEF LinksInv, CatalogueShape, TablesShape
<1>2. PICK h : h = [shop[c] EXCEPT !.profile = to] OBVIOUS
<1>3. /\ IsCampaign(h) /\ h.state = shop[c].state /\ h.link = shop[c].link /\ h.profile = to
  BY <1>1, <1>2 DEF IsCampaign
<1>4. shop'[c] = IF c \in S THEN h ELSE shop[c] BY <1>2
<1> QED BY <1>1, <1>3, <1>4

LEMMA DomainMoves ==
    ASSUME LinksInv, NEW to \in {"none", "own"}, NEW S,
           \A c \in Shops : shop'[c] = IF c \in S THEN [shop[c] EXCEPT !.domain = to] ELSE shop[c]
    PROVE  \A c \in Shops : /\ IsCampaign(shop'[c]) /\ shop'[c].state = shop[c].state
                            /\ shop'[c].link = shop[c].link /\ shop'[c].profile = shop[c].profile
<1> SUFFICES ASSUME NEW c \in Shops
             PROVE  /\ IsCampaign(shop'[c]) /\ shop'[c].state = shop[c].state
                    /\ shop'[c].link = shop[c].link /\ shop'[c].profile = shop[c].profile
  OBVIOUS
<1>1. IsCampaign(shop[c]) BY DEF LinksInv, CatalogueShape, TablesShape
<1>2. PICK h : h = [shop[c] EXCEPT !.domain = to] OBVIOUS
<1>3. /\ IsCampaign(h) /\ h.state = shop[c].state /\ h.link = shop[c].link
      /\ h.profile = shop[c].profile
  BY <1>1, <1>2 DEF IsCampaign
<1>4. shop'[c] = IF c \in S THEN h ELSE shop[c] BY <1>2
<1> QED BY <1>1, <1>3, <1>4

LEMMA DisturbedIs ==
    ASSUME LinksInv, NEW q \in AdminRequests, request[q].op \notin LanderOps, NEW op, op \notin LanderOps,
           request' = [Disturbed(op) EXCEPT ![q] = NoRequest]
    PROVE  /\ request' = [o \in AdminRequests |-> request'[o]]
           /\ \A o \in AdminRequests :
                /\ \/ request'[o] = request[o]
                   \/ /\ IsCall(request'[o])
                      /\ request[o].lander \notin Landers /\ request'[o].lander \notin Landers
                /\ o # q /\ request[o].op = op => request'[o].undisturbed = FALSE
                /\ o # q => request'[o].pc = request[o].pc /\ request'[o].op = request[o].op
                /\ o # q /\ request[o].op # op => request'[o] = request[o]
                /\ o = q => request'[o] = NoRequest
<1>1. request' = [o \in AdminRequests |-> request'[o]] BY DEF Disturbed
<1>2. SUFFICES ASSUME NEW o \in AdminRequests
             PROVE  /\ \/ request'[o] = request[o]
                       \/ /\ IsCall(request'[o])
                          /\ request[o].lander \notin Landers /\ request'[o].lander \notin Landers
                    /\ o # q /\ request[o].op = op => request'[o].undisturbed = FALSE
                    /\ o # q => request'[o].pc = request[o].pc /\ request'[o].op = request[o].op
                    /\ o # q /\ request[o].op # op => request'[o] = request[o]
                    /\ o = q => request'[o] = NoRequest
  BY <1>1
<1>3. IsCall(request[o]) BY DEF LinksInv, CatalogueShape
<1>4. CASE o = q
  <2>1. request'[o] = NoRequest BY <1>4 DEF Disturbed
  <2>2. request[o].lander \notin Landers BY <1>3, <1>4 DEF IsCall
  <2> QED BY <1>4, <2>1, <2>2, NoRequestIs
<1>5. CASE o # q /\ request[o].op = op
  <2>1. PICK h : h = [request[o] EXCEPT !.undisturbed = FALSE] OBVIOUS
  <2>2. request'[o] = h BY <1>5, <2>1 DEF Disturbed
  <2>3. /\ h.op = request[o].op /\ h.pc = request[o].pc /\ h.lander = request[o].lander
        /\ h.undisturbed = FALSE /\ IsCall(h)
    BY <1>3, <2>1 DEF IsCall
  <2>4. request[o].lander \notin Landers BY <1>3, <1>5 DEF IsCall
  <2> QED BY <1>5, <2>2, <2>3, <2>4
<1>6. CASE o # q /\ request[o].op # op
  <2>1. request'[o] = request[o] BY <1>6 DEF Disturbed
  <2> QED BY <1>6, <2>1
<1> QED BY <1>4, <1>5, <1>6

LEMMA WriteAttachKeeps ==
    ASSUME LinksInv, NEW q \in AdminRequests, WriteAttach(q) PROVE LinksInv'
<1>1. PICK c : c = request[q].shop OBVIOUS
<1>2. /\ request[q].op \in {"attach profile", "attach domain"} /\ request[q].pc = "write"
      /\ UNCHANGED <<lander, loose, unbuilt, offer, orphans>>
      /\ request[q].op \notin LanderOps
  BY DEF WriteAttach, SameOthers, LanderOps
<1>3. /\ ParentsAreUnused /\ CatalogueShape /\ orphans = {} /\ c \in Shops
      /\ shop = [d \in Shops |-> shop[d]] /\ \A d \in Shops : IsCampaign(shop[d])
  BY <1>1, ParentCall
<1>4. Users("network")' = Users("network") BY <1>2 DEF Users
<1>5. CASE request[q].op = "attach profile"
  <2>1. /\ request' = [Disturbed("remove profile") EXCEPT ![q] = NoRequest]
        /\ shop' = IF Open(c) /\ profiles.custom = "present"
                   THEN [shop EXCEPT ![c].profile = "custom"] ELSE shop
    BY <1>1, <1>5 DEF WriteAttach
  <2>2. PICK S : S = IF Open(c) /\ profiles.custom = "present" THEN {c} ELSE {} OBVIOUS
  <2>3. /\ shop' = [d \in Shops |-> shop'[d]]
        /\ \A d \in Shops : shop'[d] = IF d \in S THEN [shop[d] EXCEPT !.profile = "custom"] ELSE shop[d]
    BY <1>3, <2>1, <2>2
  <2>4. \A d \in Shops : /\ IsCampaign(shop'[d]) /\ shop'[d].state = shop[d].state
                         /\ shop'[d].link = shop[d].link
    BY <2>3, ProfileMoves
  <2>5. /\ request' = [o \in AdminRequests |-> request'[o]]
        /\ \A o \in AdminRequests :
                /\ \/ request'[o] = request[o]
                   \/ /\ IsCall(request'[o])
                      /\ request[o].lander \notin Landers /\ request'[o].lander \notin Landers
                /\ o # q /\ request[o].op = "remove profile" => request'[o].undisturbed = FALSE
                /\ o # q => request'[o].pc = request[o].pc /\ request'[o].op = request[o].op
                /\ o # q /\ request[o].op # "remove profile" => request'[o] = request[o]
                /\ o = q => request'[o] = NoRequest
    BY <1>2, <2>1, DisturbedIs DEF LanderOps
  <2>6. ParentsAreUnused'
    BY ZenonT(40), <1>2, <1>3, <1>4, <2>5, NoRequestIs DEF ParentsAreUnused
  <2> QED BY <1>2, <2>3, <2>4, <2>5, <2>6, ParentRequest
<1>6. CASE request[q].op = "attach domain"
  <2>1. /\ End(q)
        /\ shop' = IF Open(c) /\ domain # "gone" THEN [shop EXCEPT ![c].domain = "own"] ELSE shop
    BY <1>1, <1>6 DEF WriteAttach
  <2>2. PICK S : S = IF Open(c) /\ domain # "gone" THEN {c} ELSE {} OBVIOUS
  <2>3. /\ shop' = [d \in Shops |-> shop'[d]]
        /\ \A d \in Shops : shop'[d] = IF d \in S THEN [shop[d] EXCEPT !.domain = "own"] ELSE shop[d]
    BY <1>3, <2>1, <2>2
  <2>4. \A d \in Shops : /\ IsCampaign(shop'[d]) /\ shop'[d].state = shop[d].state
                         /\ shop'[d].link = shop[d].link /\ shop'[d].profile = shop[d].profile
    BY <2>3, DomainMoves
  <2>5. Users("profile")' = Users("profile") BY <2>4 DEF Users, Open
  <2>6. Moves(q, NoRequest) BY <2>1, EndIs
  <2> QED BY <1>2, <1>3, <1>4, <2>3, <2>4, <2>5, <2>6, NoRequestIs, ParentMoves
<1> QED BY <1>2, <1>5, <1>6

LEMMA WriteOfferKeeps ==
    ASSUME LinksInv, NEW q \in AdminRequests, WriteOffer(q) PROVE LinksInv'
<1>1. /\ request[q].op \notin LanderOps
      /\ request' = [Disturbed("remove network") EXCEPT ![q] = NoRequest]
      /\ UNCHANGED <<lander, shop, loose, unbuilt, orphans>>
  BY DEF WriteOffer, Doing, LanderOps
<1>2. /\ ParentsAreUnused /\ orphans = {}
      /\ shop = [d \in Shops |-> shop[d]] /\ \A d \in Shops : IsCampaign(shop[d])
  BY ParentCall
<1>3. /\ request' = [o \in AdminRequests |-> request'[o]]
      /\ \A o \in AdminRequests :
            /\ \/ request'[o] = request[o]
               \/ /\ IsCall(request'[o])
                  /\ request[o].lander \notin Landers /\ request'[o].lander \notin Landers
            /\ o # q /\ request[o].op = "remove network" => request'[o].undisturbed = FALSE
            /\ o # q => request'[o].pc = request[o].pc /\ request'[o].op = request[o].op
            /\ o # q /\ request[o].op # "remove network" => request'[o] = request[o]
            /\ o = q => request'[o] = NoRequest
  BY ZenonT(40), <1>1, DisturbedIs DEF LanderOps
<1>4. Users("profile")' = Users("profile") BY <1>1 DEF Users, Open
<1>5. ParentsAreUnused'
  <2> SUFFICES ASSUME NEW o \in AdminRequests, NEW h, h = request'[o],
                      h.pc = "delete", h.undisturbed = TRUE
               PROVE  /\ h.op = "remove network" => Users("network")' = {}
                      /\ h.op = "remove profile" => Users("profile")' = {}
    BY <1>1, <1>2 DEF ParentsAreUnused
  <2>1. o # q BY <1>3, NoRequestIs
  <2>2. h.op # "remove network" BY <1>3, <2>1
  <2>3. h = request[o] BY <1>3, <2>1, <2>2
  <2> QED BY <1>2, <1>4, <2>2, <2>3 DEF ParentsAreUnused
<1> QED BY <1>1, <1>2, <1>3, <1>5, ParentRequest

LEMMA DeleteParentKeeps ==
    ASSUME LinksInv, NEW q \in AdminRequests, DeleteParent(q) PROVE LinksInv'
<1>1. PICK r : r = request[q] OBVIOUS
<1>2. /\ r.op \in {"remove network", "remove profile"} /\ r.pc = "delete" /\ r.op \notin LanderOps
      /\ End(q) /\ UNCHANGED <<lander, loose, unbuilt>>
      /\ orphans' = IF r.undisturbed
                    THEN orphans \cup Users(IF r.op = "remove network" THEN "network" ELSE "profile")
                    ELSE orphans
  BY <1>1 DEF DeleteParent, LanderOps
<1>3. /\ ParentsAreUnused /\ orphans = {} /\ r.undisturbed \in BOOLEAN
      /\ shop = [d \in Shops |-> shop[d]] /\ \A d \in Shops : IsCampaign(shop[d])
  BY <1>1, ParentCall DEF IsCall
<1>4. r.undisturbed = TRUE => /\ r.op = "remove network" => Users("network") = {}
                              /\ r.op = "remove profile" => Users("profile") = {}
  BY <1>1, <1>2, <1>3 DEF ParentsAreUnused
<1>5. orphans' = {} BY <1>2, <1>3, <1>4
<1>6. Moves(q, NoRequest) BY <1>2, EndIs
<1>7. CASE r.op = "remove network"
  <2>1. /\ offer' = IF offer = "attached" THEN "detached" ELSE offer
        /\ UNCHANGED shop
    BY <1>1, <1>7 DEF DeleteParent
  <2>2. Users("profile")' = Users("profile") BY <2>1 DEF Users, Open
  <2>3. Users("network")' = {} BY <2>1 DEF Users
  <2> QED BY <1>1, <1>2, <1>3, <1>5, <1>6, <2>1, <2>2, <2>3, NoRequestIs, ParentMoves
<1>8. CASE r.op = "remove profile"
  <2>1. /\ UNCHANGED offer
        /\ shop' = [c \in Shops |-> IF shop[c].profile = "custom"
                                    THEN [shop[c] EXCEPT !.profile = "none"] ELSE shop[c]]
    BY <1>1, <1>2, <1>8 DEF DeleteParent
  <2>2. PICK S : S = {c \in Shops : shop[c].profile = "custom"} OBVIOUS
  <2>3. \A d \in Shops : shop'[d] = IF d \in S THEN [shop[d] EXCEPT !.profile = "none"] ELSE shop[d]
    BY <2>1, <2>2
  <2>4. \A d \in Shops : /\ IsCampaign(shop'[d]) /\ shop'[d].state = shop[d].state
                         /\ shop'[d].link = shop[d].link
                         /\ shop'[d].profile = IF d \in S THEN "none" ELSE shop[d].profile
    BY <2>3, ProfileMoves
  <2>5. Users("network")' = Users("network") BY <2>1 DEF Users
  <2>6. \A d \in Shops : shop'[d].profile # "custom" BY <2>2, <2>4
  <2>7. Users("profile")' = {} BY <2>6 DEF Users
  <2>8. shop' = [c \in Shops |-> shop'[c]] BY <2>1
  <2> QED BY <1>1, <1>2, <1>5, <1>6, <2>4, <2>5, <2>7, <2>8, NoRequestIs, ParentMoves
<1> QED BY <1>2, <1>7, <1>8

LEMMA EditsKeep ==
    ASSUME LinksInv, EditOffer \/ EditParents PROVE LinksInv'
<1>1. /\ ParentsAreUnused /\ orphans = {}
      /\ request = [o \in AdminRequests |-> request[o]]
      /\ shop = [d \in Shops |-> shop[d]] /\ \A d \in Shops : IsCampaign(shop[d])
  BY DEF LinksInv, ParentsAreUnused, CatalogueShape, TablesShape
<1>2. UNCHANGED <<lander, request, loose, unbuilt, orphans>> BY DEF EditOffer, EditParents
<1>3. /\ shop' = [c \in Shops |-> shop'[c]]
      /\ \A c \in Shops : /\ IsCampaign(shop'[c]) /\ shop'[c].state = shop[c].state
                          /\ shop'[c].link = shop[c].link /\ shop'[c].profile = shop[c].profile
  <2>1. CASE UNCHANGED shop BY <1>1, <2>1
  <2>2. CASE shop' = [c \in Shops |-> [shop[c] EXCEPT !.domain = "none"]]
    <3>1. \A d \in Shops : shop'[d] = IF d \in Shops THEN [shop[d] EXCEPT !.domain = "none"] ELSE shop[d]
      BY <2>2
    <3>2. \A c \in Shops : /\ IsCampaign(shop'[c]) /\ shop'[c].state = shop[c].state
                          /\ shop'[c].link = shop[c].link /\ shop'[c].profile = shop[c].profile
      BY <3>1, DomainMoves
    <3> QED BY <2>2, <3>2
  <2> QED BY <2>1, <2>2 DEF EditOffer, EditParents
<1>4. Users("profile")' = Users("profile") BY <1>3 DEF Users, Open
<1>5. Users("network") = {} => Users("network")' = {} BY DEF Users, EditOffer, EditParents
<1>6. ParentsAreUnused' BY <1>1, <1>2, <1>4, <1>5 DEF ParentsAreUnused
<1> QED BY <1>1, <1>2, <1>3, <1>6, ParentRequest

\* A request that is begun disturbs the others about its lander.
Begun(q, op, l, c, others) ==
    /\ request' = [o \in AdminRequests |-> request'[o]]
    /\ \A o \in AdminRequests : IsCall(request'[o])
    /\ /\ request'[q].op = op /\ request'[q].pc = "check"
       /\ request'[q].lander = l /\ request'[q].shop = c
       /\ others = {} => request'[q].undisturbed = TRUE
       /\ others # {} => request'[q].undisturbed = FALSE
    /\ \A o \in AdminRequests \ {q} :
        /\ request'[o].op = request[o].op /\ request'[o].pc = request[o].pc
        /\ request'[o].lander = request[o].lander
        /\ request'[o].shop = request[o].shop /\ request'[o].slug = request[o].slug
        /\ o \in others => request'[o].undisturbed = FALSE
        /\ o \notin others => request'[o] = request[o]

LEMMA BeginIs ==
    ASSUME LinksInv, NEW q \in AdminRequests, NEW op, NEW l \in Landers \cup {NoLander},
           NEW c \in Shops, NEW slug \in Slugs, Begin(q, op, l, c, slug),
           l \in Landers <=> op \in LanderOps,
           NEW others, l = NoLander => others = {}, l # NoLander => others = On(l)
    PROVE  Begun(q, op, l, c, others)
<1>1. /\ request' = [o \in AdminRequests |->
             IF o = q THEN [op |-> op, pc |-> "check", lander |-> l, shop |-> c, slug |-> slug,
                            undisturbed |-> others = {}]
             ELSE [request[o] EXCEPT !.undisturbed = @ /\ o \notin others]]
  BY DEF Begin
<1>2. /\ IsCall(request'[q])
      /\ request'[q].op = op /\ request'[q].pc = "check"
      /\ request'[q].lander = l /\ request'[q].shop = c
      /\ others = {} => request'[q].undisturbed = TRUE
      /\ others # {} => request'[q].undisturbed = FALSE
  <2>1. PICK u \in BOOLEAN : (others = {} => u = TRUE) /\ (others # {} => u = FALSE) OBVIOUS
  <2>2. PICK h : h = [op |-> op, pc |-> "check", lander |-> l, shop |-> c, slug |-> slug,
                      undisturbed |-> u]
    OBVIOUS
  <2>3. request'[q] = h
    <3>1. CASE others = {} BY <1>1, <2>1, <2>2, <3>1
    <3>2. CASE others # {} BY <1>1, <2>1, <2>2, <3>2
    <3> QED BY <3>1, <3>2
  <2>4. IsCall(h) BY <2>2 DEF IsCall
  <2> QED BY <2>1, <2>2, <2>3, <2>4
<1>3. ASSUME NEW o \in AdminRequests, o # q
      PROVE  /\ IsCall(request'[o])
             /\ request'[o].op = request[o].op /\ request'[o].pc = request[o].pc
             /\ request'[o].lander = request[o].lander
             /\ request'[o].shop = request[o].shop /\ request'[o].slug = request[o].slug
             /\ o \in others => request'[o].undisturbed = FALSE
             /\ o \notin others => request'[o] = request[o]
  <2>1. PICK h : h = [request[o] EXCEPT !.undisturbed = @ /\ o \notin others] OBVIOUS
  <2>2. request'[o] = h BY <1>1, <1>3, <2>1
  <2>3. IsCall(request[o]) BY DEF LinksInv, CatalogueShape
  <2>4. CASE o \in others
    <3>1. h = [request[o] EXCEPT !.undisturbed = FALSE] BY <2>1, <2>4
    <3>2. IsCall(h) BY <2>3, <3>1 DEF IsCall
    <3> QED BY <2>2, <2>3, <2>4, <3>1, <3>2 DEF IsCall
  <2>5. CASE o \notin others
    <3>1. h = [request[o] EXCEPT !.undisturbed = request[o].undisturbed]
      BY <2>1, <2>3, <2>5 DEF IsCall
    <3>2. h = request[o] BY <2>3, <3>1 DEF IsCall
    <3> QED BY <2>2, <2>3, <2>5, <3>2
  <2> QED BY <2>4, <2>5
<1>4. request' = [o \in AdminRequests |-> request'[o]] BY <1>1
<1> QED BY <1>2, <1>3, <1>4 DEF Begun

LEMMA BeginParentKeeps ==
    ASSUME LinksInv, NEW q \in AdminRequests, NEW op, op \notin LanderOps,
           NEW c \in Shops, NEW slug \in Slugs, Begin(q, op, NoLander, c, slug)
    PROVE  LinksInv'
<1>1. NoLander \notin Landers BY CatalogueAssumption
<1>2. /\ UNCHANGED <<lander, shop, loose, unbuilt, offer, orphans>>
      /\ request[q].pc = "idle"
  BY DEF Begin
<1>3. PICK others : others = {} OBVIOUS
<1>4. Begun(q, op, NoLander, c, others) BY <1>1, <1>3, BeginIs
<1>5. /\ request' = [o \in AdminRequests |-> request'[o]]
      /\ \A o \in AdminRequests :
            /\ IsCall(request'[o])
            /\ o = q => request'[o].pc = "check" /\ request'[o].lander = NoLander
            /\ o # q => request'[o] = request[o]
  BY <1>3, <1>4 DEF Begun
<1>6. request[q].lander \notin Landers
  BY <1>2 DEF LinksInv, RequestsAgree, RequestOK
<1>7. /\ ParentsAreUnused /\ shop = [d \in Shops |-> shop[d]] /\ \A d \in Shops : IsCampaign(shop[d])
  BY DEF LinksInv, CatalogueShape, TablesShape
<1>8. Users("network")' = Users("network") /\ Users("profile")' = Users("profile")
  BY <1>2 DEF Users, Open
<1>9. ParentsAreUnused' BY <1>2, <1>5, <1>7, <1>8 DEF ParentsAreUnused
<1> QED BY <1>1, <1>2, <1>5, <1>6, <1>7, <1>9, ParentRequest

LEMMA BeginLanderKeeps ==
    ASSUME LinksInv, NEW q \in AdminRequests, NEW op \in LanderOps, NEW l \in Landers,
           NEW c \in Shops, NEW slug \in Slugs, Begin(q, op, l, c, slug),
           (op = "create" /\ lander[l].state = "unborn" /\ On(l) = {}) \/ (op # "create" /\ Born(l))
    PROVE  LinksInv'
<1>1. NoLander \notin Landers BY CatalogueAssumption
<1>2. /\ UNCHANGED <<lander, shop, offer, orphans>>
      /\ request[q].pc = "idle"
  BY DEF Begin
<1>3. PICK others : others = On(l) OBVIOUS
<1>4. others = On(l) /\ l # NoLander BY <1>1, <1>3
<1>5. Begun(q, op, l, c, others) BY <1>4, BeginIs
<1>6. /\ CatalogueShape /\ TablesShape /\ ParentsAreUnused /\ RequestsAgree /\ BuildsAgree
      /\ LinksLead /\ ExposedAreNotNeeded /\ ReadsAreTrue /\ RowsAgree
  BY DEF LinksInv, CatalogueShape
<1>7. request[q].lander \notin Landers
  BY <1>2 DEF LinksInv, RequestsAgree, RequestOK
<1>8. \A m \in Landers : /\ m # l => On(m)' = On(m) /\ \A o \in On(m) : request'[o] = request[o]
                         /\ m = l => On(m)' = On(m) \cup {q}
                         /\ q \notin On(m)
  BY <1>4, <1>5, <1>7 DEF On, Begun
<1>9. /\ loose \subseteq loose' /\ unbuilt \subseteq unbuilt'
      /\ \A m \in Landers : m # l => (m \in unbuilt' <=> m \in unbuilt)
      /\ On(l) # {} => lander[l].shop \in loose' /\ l \in unbuilt'
  BY <1>1 DEF Begin
<1>10. CatalogueShape' BY <1>2, <1>5, <1>6 DEF CatalogueShape, TablesShape, Begun
<1>11. RowsAgree' BY <1>2, <1>6 DEF RowsAgree, Born, Open
<1>12. ASSUME NEW o \in AdminRequests, NEW h, h = request'[o], h.lander \in Landers
       PROVE  RequestOK(o, h)'
  <2>1. CASE o = q
    <3>1. /\ h.op = op /\ h.pc = "check" /\ h.lander = l /\ (On(l) # {} => h.undisturbed = FALSE)
          /\ On(h.lander)' = On(l) \cup {q}
      BY <1>4, <1>5, <1>8, <1>12, <2>1 DEF Begun
    <3>2. Creates(h) => On(l) = {} /\ lander[l].state = "unborn" BY <3>1 DEF Creates
    <3>3. h.undisturbed = TRUE \/ Creates(h) => On(h.lander)' = {o}
      BY <2>1, <3>1, <3>2
    <3>4. h.undisturbed = FALSE => h.lander \in unbuilt'
      <4>1. On(l) = {} => h.undisturbed = TRUE BY <1>4, <1>5, <1>12, <2>1 DEF Begun
      <4> QED BY <1>9, <3>1, <4>1
    <3>5. Creates(h) => lander'[h.lander].state = "unborn" BY <1>2, <3>1, <3>2
    <3> QED BY <3>1, <3>3, <3>4, <3>5 DEF RequestOK, Creates
  <2>2. CASE o # q /\ h.lander # l
    <3>1. h = request[o] BY <1>4, <1>5, <1>12, <2>2 DEF On, Begun
    <3>2. RequestOK(o, h) BY <1>6, <1>12, <3>1 DEF RequestsAgree
    <3> QED BY <1>2, <1>8, <1>9, <1>12, <2>2, <3>2 DEF RequestOK, Creates
  <2>3. CASE o # q /\ h.lander = l
    <3>1. o \in On(l) BY <1>5, <1>12, <2>3 DEF On, Begun
    <3>2. h.undisturbed = FALSE /\ h.op = request[o].op /\ h.pc = request[o].pc
      BY <1>4, <1>5, <1>12, <2>3, <3>1 DEF Begun
    <3>3. RequestOK(o, request[o]) /\ request[o].lander = l
      BY <1>6, <3>1 DEF RequestsAgree, On
    <3>4. ~Creates(h)
      <4>1. Creates(h) => Creates(request[o]) BY <3>2 DEF Creates
      <4> QED BY <3>1, <3>3, <4>1 DEF RequestOK, Born
    <3>5. h.pc # "idle" BY <3>2, <3>3 DEF RequestOK
    <3> QED BY <1>9, <2>3, <3>1, <3>2, <3>4, <3>5 DEF RequestOK, Creates
  <2> QED BY <2>1, <2>2, <2>3
<1>13. RequestsAgree' BY <1>12 DEF RequestsAgree
<1>14. ASSUME NEW o \in AdminRequests, NEW h, h = request'[o] PROVE ReadOK(h)'
  <2>1. CASE o = q
    <3>1. ~Reading(h) BY <1>5, <1>14, <2>1 DEF Reading, Begun
    <3> QED BY <3>1 DEF ReadOK, Reading
  <2>2. CASE o # q /\ o \notin others
    <3>1. ReadOK(h) BY <1>5, <1>6, <1>14, <2>2 DEF ReadsAreTrue, Begun
    <3> QED BY <1>2, <3>1 DEF ReadOK, Read, Reading, Born, Open
  <2>3. CASE o # q /\ o \in others
    <3>1. h.undisturbed = FALSE BY <1>5, <1>14, <2>3 DEF Begun
    <3> QED BY <3>1 DEF ReadOK
  <2> QED BY <2>1, <2>2, <2>3
<1>15. ReadsAreTrue' BY <1>14 DEF ReadsAreTrue
<1>16. ASSUME NEW m \in Landers PROVE BuildOK(m)'
  <2>1. BuildOK(m) BY <1>6 DEF BuildsAgree
  <2>2. CASE m # l
    BY <1>2, <1>8, <1>9, <2>1, <2>2 DEF BuildOK, Born
  <2>3. CASE m = l
    <3>1. CASE On(l) = {}
      BY <1>2, <1>9, <2>1, <2>3, <3>1 DEF BuildOK, Born
    <3>2. CASE On(l) # {}
      BY <1>2, <1>9, <2>1, <2>3, <3>2 DEF BuildOK, Born
    <3> QED BY <3>1, <3>2
  <2> QED BY <2>2, <2>3
<1>17. BuildsAgree' BY <1>16 DEF BuildsAgree
<1>18. ASSUME NEW d \in Shops \ loose', Written(d) PROVE Written(d)'
  <2>1. PICK o \in AdminRequests : Writes(request[o], d) BY <1>18 DEF Written
  <2>2. o # q BY <1>2, <2>1 DEF Writes
  <2>3. o \notin On(l) BY <1>9, <2>1 DEF Writes, On
  <2>4. request'[o] = request[o] BY <1>4, <1>5, <2>2, <2>3 DEF Begun
  <2> QED BY <1>2, <2>1, <2>4 DEF Written, Writes, Born
<1>19. ASSUME NEW m \in Landers, NEW d \in Shops \ loose', Exposed(m)', Live(m, d) PROVE Exposed(m)
  <2>1. CASE m # l BY <1>8, <1>19, <2>1 DEF Exposed, Loosens
  <2>2. CASE m = l
    <3>1. On(l) = {} BY <1>9, <1>19, <2>2 DEF Live
    <3>2. On(l)' = {q} BY <1>8, <3>1
    <3>3. request'[q].undisturbed = TRUE /\ request'[q].pc = "check" BY <1>4, <1>5, <3>1 DEF Begun
    <3>4. ~Loosens(request'[q]) BY <3>3 DEF Loosens
    <3> QED BY <1>19, <2>2, <3>2, <3>4 DEF Exposed, Loosens
  <2> QED BY <2>1, <2>2
<1>20. LinksLead' /\ ExposedAreNotNeeded'
  <2>1. \A m \in Landers : /\ Born(m)' = Born(m) /\ lander'[m].shop = lander[m].shop
                           /\ lander'[m].slug = lander[m].slug
    BY <1>2 DEF Born
  <2>2. \A d \in Shops : (Open(d)' => Open(d)) /\ shop'[d].link = shop[d].link
    BY <1>2 DEF Open
  <2> QED BY <1>6, <1>9, <1>18, <1>19, <2>1, <2>2, LinksKept
<1>21. ParentsAreUnused'
  <2>1. Users("network")' = Users("network") /\ Users("profile")' = Users("profile")
    BY <1>2 DEF Users, Open
  <2>2. ASSUME NEW o \in AdminRequests, NEW h, h = request'[o], h.pc = "delete", h.undisturbed = TRUE
        PROVE  request[o].pc = "delete" /\ request[o].undisturbed = TRUE /\ request[o].op = h.op
    BY <1>5, <2>2 DEF Begun
  <2>3. orphans' = {} BY <1>2, <1>6 DEF ParentsAreUnused
  <2> SUFFICES ASSUME NEW o \in AdminRequests, NEW h, h = request'[o],
                      h.pc = "delete", h.undisturbed = TRUE
               PROVE  /\ h.op = "remove network" => Users("network") = {}
                      /\ h.op = "remove profile" => Users("profile") = {}
    BY <2>1, <2>3 DEF ParentsAreUnused
  <2> QED BY <1>6, <2>2 DEF ParentsAreUnused
<1> QED BY <1>10, <1>11, <1>13, <1>15, <1>17, <1>20, <1>21 DEF LinksInv

\* A campaign goes with its landers; a link is written by hand.
LEMMA RemoveCampaignKeeps ==
    ASSUME LinksInv, NEW c \in Shops, RemoveCampaign(c) PROVE LinksInv'
<1>1. /\ UNCHANGED <<offer, request, loose, unbuilt, orphans>>
      /\ shop' = [shop EXCEPT ![c].state = "gone"]
      /\ lander' = [l \in Landers |-> IF Born(l) /\ lander[l].shop = c
                                      THEN [lander[l] EXCEPT !.state = "gone"] ELSE lander[l]]
  BY DEF RemoveCampaign
<1>2. /\ CatalogueShape /\ TablesShape /\ ParentsAreUnused /\ RequestsAgree /\ BuildsAgree
      /\ LinksLead /\ ExposedAreNotNeeded /\ ReadsAreTrue /\ RowsAgree
  BY DEF LinksInv, CatalogueShape
<1>3. ASSUME NEW l \in Landers
      PROVE  /\ IsLander(lander'[l]) /\ lander'[l].slug = lander[l].slug
             /\ lander'[l].shop = lander[l].shop /\ lander'[l].raw = lander[l].raw
             /\ lander'[l].built = lander[l].built
             /\ lander'[l].state = "unborn" <=> lander[l].state = "unborn"
             /\ lander'[l].state = "present" <=> Born(l) /\ lander[l].shop # c
             /\ lander[l].shop \in Shops
  <2>1. IsLander(lander[l]) BY <1>2 DEF TablesShape
  <2>2. CASE Born(l) /\ lander[l].shop = c
    <3>1. PICK h : h = [lander[l] EXCEPT !.state = "gone"] OBVIOUS
    <3>2. lander'[l] = h BY <1>1, <2>2, <3>1
    <3>3. /\ IsLander(h) /\ h.state = "gone" /\ h.slug = lander[l].slug /\ h.shop = lander[l].shop
          /\ h.raw = lander[l].raw /\ h.built = lander[l].built /\ lander[l].shop \in Shops
      BY <2>1, <3>1 DEF IsLander
    <3>4. lander[l].state = "present" BY <2>2 DEF Born
    <3> QED BY <2>2, <3>2, <3>3, <3>4
  <2>3. CASE ~(Born(l) /\ lander[l].shop = c)
    <3>1. lander'[l] = lander[l] BY <1>1, <2>3
    <3> QED BY <2>1, <2>3, <3>1 DEF IsLander, Born
  <2> QED BY <2>2, <2>3
<1>4. ASSUME NEW d \in Shops
      PROVE  /\ IsCampaign(shop'[d]) /\ shop'[d].link = shop[d].link
             /\ shop'[d].profile = shop[d].profile
             /\ shop'[d].state = "present" <=> Open(d) /\ d # c
  <2>1. IsCampaign(shop[d]) BY <1>2 DEF TablesShape
  <2>2. CASE d = c
    <3>1. PICK h : h = [shop[d] EXCEPT !.state = "gone"] OBVIOUS
    <3>2. shop'[d] = h BY <1>1, <1>2, <2>2, <3>1 DEF TablesShape
    <3>3. IsCampaign(h) /\ h.link = shop[d].link /\ h.profile = shop[d].profile /\ h.state = "gone"
      BY <2>1, <3>1 DEF IsCampaign
    <3> QED BY <2>2, <3>2, <3>3
  <2>3. CASE d # c
    <3>1. shop'[d] = shop[d] BY <1>1, <1>2, <2>3 DEF TablesShape
    <3> QED BY <2>1, <2>3, <3>1 DEF Open
  <2> QED BY <2>2, <2>3
<1>5. \A l \in Landers : Born(l)' <=> Born(l) /\ lander[l].shop # c BY <1>3 DEF Born
<1>6. \A d \in Shops : Open(d)' <=> Open(d) /\ d # c BY <1>4 DEF Open
<1>7. CatalogueShape'
  <2>1. lander' = [l \in Landers |-> lander'[l]] /\ shop' = [d \in Shops |-> shop'[d]]
    BY <1>1, <1>2 DEF TablesShape
  <2> QED BY <1>1, <1>2, <1>3, <1>4, <2>1 DEF CatalogueShape, TablesShape
<1>8. RowsAgree' BY <1>2, <1>3, <1>5, <1>6 DEF RowsAgree
<1>9. \A l : On(l)' = On(l) BY <1>1 DEF On
<1>10. RequestsAgree'
  <2> SUFFICES ASSUME NEW o \in AdminRequests, NEW h, h = request'[o], h.lander \in Landers
               PROVE  RequestOK(o, h)'
    BY DEF RequestsAgree
  <2>1. RequestOK(o, h) BY <1>1, <1>2 DEF RequestsAgree
  <2> QED BY <1>1, <1>3, <1>9, <2>1 DEF RequestOK, Creates
<1>11. ReadsAreTrue'
  <2> SUFFICES ASSUME NEW o \in AdminRequests, NEW h, h = request'[o] PROVE ReadOK(h)'
    BY DEF ReadsAreTrue
  <2>1. ReadOK(h) /\ h.shop \in Shops BY <1>1, <1>2 DEF ReadsAreTrue, CatalogueShape, IsCall
  <2>2. h.lander \in Landers /\ Read(h) => Read(h)' BY <1>3, <1>5, <1>6, <2>1 DEF Read
  <2> QED BY <2>1, <2>2 DEF ReadOK, Reading
<1>12. BuildsAgree'
  <2> SUFFICES ASSUME NEW l \in Landers PROVE BuildOK(l)' BY DEF BuildsAgree
  <2>1. BuildOK(l) BY <1>2 DEF BuildsAgree
  <2> QED BY <1>1, <1>3, <1>5, <1>9, <2>1 DEF BuildOK
<1>13. ASSUME NEW d \in Shops, d # c, Written(d) PROVE Written(d)'
  <2>1. PICK o \in AdminRequests : Writes(request[o], d) BY <1>13 DEF Written
  <2>2. PICK h : h = request[o] OBVIOUS
  <2>3. Writes(h, d)' BY <1>3, <1>5, <1>13, <2>1, <2>2 DEF Writes
  <2>4. request'[o] = h BY <1>1, <2>2
  <2> QED BY <2>3, <2>4 DEF Written, Writes
<1>14. \A l \in Landers, d \in Shops : Live(l, d)' <=> Live(l, d) /\ d # c
  BY <1>3, <1>4, <1>5 DEF Live
<1>15. LinksLead' BY <1>1, <1>2, <1>4, <1>6, <1>13, <1>14 DEF LinksLead
<1>16. \A l : Exposed(l)' <=> Exposed(l) BY <1>1, <1>9 DEF Exposed, Loosens
<1>17. ExposedAreNotNeeded' BY <1>1, <1>2, <1>13, <1>14, <1>16 DEF ExposedAreNotNeeded
<1>18. ParentsAreUnused'
  <2>1. Users("network")' = Users("network") BY <1>1 DEF Users
  <2>2. Users("profile")' \subseteq Users("profile") BY <1>4, <1>6 DEF Users
  <2> QED BY <1>1, <1>2, <2>1, <2>2 DEF ParentsAreUnused
<1> QED BY <1>7, <1>8, <1>10, <1>11, <1>12, <1>15, <1>17, <1>18 DEF LinksInv

LEMMA EditLinkKeeps ==
    ASSUME LinksInv, NEW c \in Shops, NEW slug \in Slugs, EditLink(c, slug) PROVE LinksInv'
<1>1. /\ UNCHANGED <<lander, offer, request, unbuilt, orphans>>
      /\ shop' = [shop EXCEPT ![c].link = slug] /\ loose' = loose \cup {c}
  BY DEF EditLink
<1>2. /\ CatalogueShape /\ TablesShape /\ ParentsAreUnused /\ RequestsAgree /\ BuildsAgree
      /\ LinksLead /\ ExposedAreNotNeeded /\ ReadsAreTrue /\ RowsAgree
  BY DEF LinksInv, CatalogueShape
<1>3. ASSUME NEW d \in Shops
      PROVE  /\ IsCampaign(shop'[d]) /\ shop'[d].state = shop[d].state
             /\ shop'[d].profile = shop[d].profile
             /\ d # c => shop'[d].link = shop[d].link
  <2>1. IsCampaign(shop[d]) BY <1>2 DEF TablesShape
  <2>2. PICK h : h = [shop[d] EXCEPT !.link = slug] OBVIOUS
  <2>3. IsCampaign(h) /\ h.state = shop[d].state /\ h.profile = shop[d].profile
    BY <2>1, <2>2 DEF IsCampaign
  <2>4. shop'[d] = IF d = c THEN h ELSE shop[d] BY <1>1, <1>2, <2>2 DEF TablesShape
  <2> QED BY <2>1, <2>3, <2>4
<1>4. /\ \A l : Born(l)' = Born(l) /\ On(l)' = On(l)
      /\ \A d \in Shops : Open(d)' <=> Open(d)
      /\ \A l \in Landers : lander[l].shop \in Shops
  <2>1. \A l : Born(l)' = Born(l) /\ On(l)' = On(l) BY <1>1 DEF Born, On
  <2>2. \A d \in Shops : Open(d)' <=> Open(d) BY <1>3 DEF Open
  <2>3. \A l \in Landers : lander[l].shop \in Shops BY <1>2 DEF TablesShape, IsLander
  <2> QED BY <2>1, <2>2, <2>3
<1>5. shop' = [d \in Shops |-> shop'[d]] BY <1>1, <1>2 DEF TablesShape
<1>6. CatalogueShape' BY <1>1, <1>2, <1>3, <1>5 DEF CatalogueShape, TablesShape
<1>7. RowsAgree' BY <1>1, <1>2, <1>4 DEF RowsAgree
<1>8. RequestsAgree' BY <1>1, <1>2, <1>4 DEF RequestsAgree, RequestOK, Creates
<1>9. ReadsAreTrue'
  <2> SUFFICES ASSUME NEW o \in AdminRequests, NEW h, h = request'[o] PROVE ReadOK(h)'
    BY DEF ReadsAreTrue
  <2>1. ReadOK(h) /\ h.shop \in Shops BY <1>1, <1>2 DEF ReadsAreTrue, CatalogueShape, IsCall
  <2> QED BY <1>1, <1>4, <2>1 DEF ReadOK, Read, Reading
<1>10. BuildsAgree' BY <1>1, <1>2, <1>4 DEF BuildsAgree, BuildOK, Rebuilds
<1>11. \A d : Written(d)' <=> Written(d) BY <1>1, <1>4 DEF Written, Writes
<1>12. \A l \in Landers, d \in Shops : d # c => (Live(l, d)' <=> Live(l, d))
  BY <1>1, <1>3, <1>4 DEF Live
<1>13. LinksLead' BY <1>1, <1>2, <1>3, <1>4, <1>11, <1>12 DEF LinksLead
<1>14. \A l : Exposed(l)' <=> Exposed(l) BY <1>1, <1>4 DEF Exposed, Loosens
<1>15. ExposedAreNotNeeded' BY <1>1, <1>2, <1>11, <1>12, <1>14 DEF ExposedAreNotNeeded
<1>16. ParentsAreUnused'
  <2>1. Users("network")' = Users("network") /\ Users("profile")' = Users("profile")
    BY <1>1, <1>3, <1>4 DEF Users
  <2> QED BY <1>1, <1>2, <2>1 DEF ParentsAreUnused
<1> QED BY <1>6, <1>7, <1>8, <1>9, <1>10, <1>13, <1>15, <1>16 DEF LinksInv

\* The server starts again: what the requests that are cut off leave is the history's.
LEMMA BootKeeps == ASSUME LinksInv, Boot PROVE LinksInv'
<1>1. /\ UNCHANGED <<lander, offer, orphans>>
      /\ request' = [q \in AdminRequests |-> NoRequest]
      /\ loose \subseteq loose' /\ unbuilt' = unbuilt \cup {l \in Landers : On(l) # {}}
      /\ \A l \in Landers : On(l) # {} => lander[l].shop \in loose'
      /\ shop' = [c \in Shops |-> IF shop[c].profile = "none"
                                  THEN [shop[c] EXCEPT !.profile = "system"] ELSE shop[c]]
  BY DEF Boot
<1>2. /\ CatalogueShape /\ TablesShape /\ ParentsAreUnused /\ BuildsAgree
      /\ LinksLead /\ RowsAgree
  BY DEF LinksInv, CatalogueShape
<1>3. PICK S : S = {c \in Shops : shop[c].profile = "none"} OBVIOUS
<1>4. \A c \in Shops : shop'[c] = IF c \in S THEN [shop[c] EXCEPT !.profile = "system"] ELSE shop[c]
  BY <1>1, <1>3
<1>5. \A c \in Shops : IsCampaign(shop'[c]) /\ shop'[c].state = shop[c].state
                       /\ shop'[c].link = shop[c].link
  BY <1>4, ProfileMoves
<1>6. \A q \in AdminRequests : request'[q] = NoRequest BY <1>1
<1>7. /\ (\A l : Born(l)' = Born(l)) /\ (\A l \in Landers : On(l)' = {})
      /\ \A c \in Shops : Open(c)' <=> Open(c)
      /\ \A l \in Landers : lander[l].shop \in Shops
  <2>1. \A l : Born(l)' = Born(l) BY <1>1 DEF Born
  <2>2. \A l \in Landers : On(l)' = {} BY <1>6, NoRequestIs DEF On
  <2>3. \A c \in Shops : Open(c)' <=> Open(c) BY <1>5 DEF Open
  <2>4. \A l \in Landers : lander[l].shop \in Shops BY <1>2 DEF TablesShape, IsLander
  <2> QED BY <2>1, <2>2, <2>3, <2>4
<1>8. CatalogueShape'
  <2>1. shop' = [c \in Shops |-> shop'[c]] /\ request' = [q \in AdminRequests |-> request'[q]]
    BY <1>1
  <2> QED BY <1>1, <1>2, <1>5, <1>6, <2>1, NoRequestIs DEF CatalogueShape, TablesShape
<1>9. RowsAgree' BY <1>1, <1>2, <1>7 DEF RowsAgree
<1>10. RequestsAgree' BY <1>6, NoRequestIs DEF RequestsAgree
<1>11. ReadsAreTrue' BY <1>6, NoRequestIs DEF ReadsAreTrue, ReadOK
<1>12. BuildsAgree'
  <2> SUFFICES ASSUME NEW l \in Landers PROVE BuildOK(l)' BY DEF BuildsAgree
  <2>1. BuildOK(l) BY <1>2 DEF BuildsAgree
  <2>2. l \notin unbuilt' => l \notin unbuilt /\ On(l) = {} BY <1>1
  <2> QED BY <1>1, <1>7, <2>1, <2>2 DEF BuildOK
<1>13. \A d \in Shops \ loose' : ~Written(d)
  <2> SUFFICES ASSUME NEW d \in Shops \ loose', NEW o \in AdminRequests, Writes(request[o], d)
               PROVE  FALSE
    BY DEF Written
  <2>1. PICK l : l = request[o].lander OBVIOUS
  <2>2. l \in Landers /\ lander[l].shop = d /\ o \in On(l) BY <2>1 DEF Writes, On
  <2> QED BY <1>1, <2>2
<1>14. \A l \in Landers, d \in Shops : Live(l, d)' <=> Live(l, d) BY <1>1, <1>5, <1>7 DEF Live
<1>15. LinksLead' BY <1>1, <1>2, <1>5, <1>7, <1>13, <1>14 DEF LinksLead
<1>16. ExposedAreNotNeeded' BY <1>7 DEF ExposedAreNotNeeded, Exposed
<1>17. ParentsAreUnused' BY <1>1, <1>2, <1>6, NoRequestIs DEF ParentsAreUnused
<1> QED BY <1>8, <1>9, <1>10, <1>11, <1>12, <1>15, <1>16, <1>17 DEF LinksInv

LEMMA LanderStepKeeps ==
    ASSUME LinksInv, NEW q \in AdminRequests, LanderStep(q) PROVE LinksInv'
BY CheckLanderKeeps, WriteRowKeeps, LinkReadKeeps, LinkWriteKeeps, ProcessKeeps, UploadKeeps,
   MarkReadyKeeps, DeployKeeps, ReadLanderKeeps, UnlinkKeeps, UnlinkWriteKeeps, DeleteLanderKeeps
   DEF LanderStep

LEMMA BeginKeeps ==
    ASSUME LinksInv, NEW q \in AdminRequests,
           \/ \E l \in Landers :
                \/ \E c \in Shops, s \in Slugs :
                    \/ lander[l].state = "unborn" /\ On(l) = {} /\ Begin(q, "create", l, c, s)
                    \/ Born(l) /\ Begin(q, "update", l, c, s)
                \/ \E op \in {"remove", "upload", "deploy"} :
                    Born(l) /\ Begin(q, op, l, lander[l].shop, lander[l].slug)
           \/ \E c \in Shops : \E op \in {"attach profile", "attach domain"} :
                Begin(q, op, NoLander, c, SomeSlug)
           \/ \E op \in {"remove network", "remove profile", "attach offer"} :
                Begin(q, op, NoLander, SomeShop, SomeSlug)
    PROVE  LinksInv'
<1>1. SomeShop \in Shops /\ SomeSlug \in Slugs
  BY CatalogueAssumption DEF SomeShop, SomeSlug
<1>2. \A l \in Landers : lander[l].shop \in Shops /\ lander[l].slug \in Slugs
  BY DEF LinksInv, CatalogueShape, TablesShape, IsLander
<1>3. ASSUME NEW l \in Landers, NEW c \in Shops, NEW s \in Slugs, lander[l].state = "unborn",
             On(l) = {}, Begin(q, "create", l, c, s)
      PROVE  LinksInv'
  <2>1. "create" \in LanderOps BY DEF LanderOps
  <2> QED BY <1>3, <2>1, BeginLanderKeeps
<1>4. ASSUME NEW l \in Landers, NEW c \in Shops, NEW s \in Slugs, Born(l), NEW op,
             op \in {"update", "remove", "upload", "deploy"}, Begin(q, op, l, c, s)
      PROVE  LinksInv'
  <2>1. op \in LanderOps /\ op # "create" BY <1>4 DEF LanderOps
  <2> QED BY <1>4, <2>1, BeginLanderKeeps
<1>5. ASSUME NEW c \in Shops, NEW s \in Slugs, NEW op,
             op \in {"attach profile", "attach domain", "remove network", "remove profile", "attach offer"},
             Begin(q, op, NoLander, c, s)
      PROVE  LinksInv'
  <2>1. op \notin LanderOps BY <1>5 DEF LanderOps
  <2> QED BY <1>5, <2>1, BeginParentKeeps
<1>6. CASE \E l \in Landers, c \in Shops, s \in Slugs :
              \/ lander[l].state = "unborn" /\ On(l) = {} /\ Begin(q, "create", l, c, s)
              \/ Born(l) /\ Begin(q, "update", l, c, s)
  BY <1>3, <1>4, <1>6
<1>7. CASE \E l \in Landers, op \in {"remove", "upload", "deploy"} :
              Born(l) /\ Begin(q, op, l, lander[l].shop, lander[l].slug)
  BY <1>2, <1>4, <1>7
<1>8. CASE \E c \in Shops : \E op \in {"attach profile", "attach domain"} :
              Begin(q, op, NoLander, c, SomeSlug)
  BY <1>1, <1>5, <1>8
<1>9. CASE \E op \in {"remove network", "remove profile", "attach offer"} :
              Begin(q, op, NoLander, SomeShop, SomeSlug)
  BY <1>1, <1>5, <1>9
<1> QED BY <1>6, <1>7, <1>8, <1>9

LEMMA LinksStep == LinksInv /\ [CatalogueNext]_catalogueVars => LinksInv'
<1> SUFFICES ASSUME LinksInv, [CatalogueNext]_catalogueVars PROVE LinksInv' OBVIOUS
<1>1. ASSUME NEW q \in AdminRequests, ParentStep(q) PROVE LinksInv'
  BY <1>1, ParentChecksKeep, WriteAttachKeeps, DeleteParentKeeps, WriteOfferKeeps DEF ParentStep
<1>2. ASSUME NEW q \in AdminRequests, LanderStep(q) PROVE LinksInv' BY <1>2, LanderStepKeeps
<1>3. ASSUME \E c \in Shops : RemoveCampaign(c) \/ \E s \in Slugs : EditLink(c, s) PROVE LinksInv'
  BY <1>3, RemoveCampaignKeeps, EditLinkKeeps
<1>4. ASSUME EditOffer \/ EditParents \/ Boot PROVE LinksInv' BY <1>4, EditsKeep, BootKeeps
<1>5. ASSUME UNCHANGED catalogueVars PROVE LinksInv'
  <2>1. UNCHANGED <<lander, shop, offer, request, loose, unbuilt, orphans>>
    BY <1>5 DEF catalogueVars
  <2>2. /\ ParentsAreUnused /\ request = [o \in AdminRequests |-> request[o]]
        /\ shop = [d \in Shops |-> shop[d]] /\ \A d \in Shops : IsCampaign(shop[d])
    BY DEF LinksInv, CatalogueShape, TablesShape
  <2>3. ParentsAreUnused' BY <2>1, <2>2 DEF ParentsAreUnused, Users, Open
  <2> QED BY <2>1, <2>2, <2>3, ParentRequest
<1> QED BY <1>1, <1>2, <1>3, <1>4, <1>5, BeginKeeps DEF CatalogueNext

-----------------------------------------------------------------------------
(* The desks.  Whatever desk is at work, the parts of the others rest.     *)

LEMMA EachDeskStarts ==
    Init => SyncInit /\ CatalogueInit /\ AlertsInit /\ HoursInit /\ ConsoleInit /\ Asked /\ Inquired
<1>1. Init => SyncInit /\ CatalogueInit /\ AlertsInit /\ HoursInit /\ ConsoleInit
  BY DEF Init, MachineInit, RestingMachine, RestingSync, RestingCatalogue, RestingAlerts, RestingConsole,
     ConsoleInit
<1>2. Init => ReportsInit \/ RestingReports \/ inquiry \in OutcomeLedgers
  BY DEF Init, MachineInit, RestingReports
<1> QED BY <1>1, <1>2, AskedStarts, InquiredStarts

LEMMA EachDeskSteps ==
    [Next]_operationsVars =>
        /\ [SyncNext]_syncVars /\ [CatalogueNext]_catalogueVars /\ [AlertsNext]_alertsVars
        /\ [MachineNext]_hoursVars /\ [ConsoleNext]_consoleVars /\ [ReportsNext]_inquiry
BY DEF Next, operationsVars, MachineNext

\* An hour's count is of clicks it had, and of all that are left once a statement begun in
\* the hour after succeeded and none begun within the hour has ended since, whatever
\* failed, overlapped or was deleted.
THEOREM OldHoursAreFinal == Spec => []HoursAreCounted
<1>1. HoursInv => HoursAreCounted
  BY DEF HoursInv, FiguresAreOfClicks, FinalHours, HoursAreCounted
<1> QED BY <1>1, HoursStart, HoursStep, EachDeskStarts, EachDeskSteps, PTL DEF Spec

\* However many runs overlap, fail or are cut off and whatever the operator changes
\* meanwhile, the refresh token the platform issued last is stored or about to be,
\* unless it was dropped at one of the moments the history names.
THEOREM RotatedTokensAreKept == Spec => []TokensAreKept
<1>1. TokensInv => TokensAreKept BY DEF TokensInv
<1> QED BY <1>1, SyncStart, TokensStep, EachDeskStarts, EachDeskSteps, PTL DEF Spec

\* When the synchronisation of a connection ends undisturbed, the row of every tracker
\* campaign is the sum of what is mapped to it, for any number of campaigns and runs.
THEOREM StoredSpendIsTheSum == Spec => []SpendIsTheSum
<1> QED BY SumsInvImplies, SumsStart, SumsStep, SyncStart, TokensStep, EachDeskStarts, EachDeskSteps,
           PTL DEF Spec

\* A page that turned bad has an alert nobody resolved since, or one is being raised,
\* unless the turn was told of by nobody; and one open alert at a time, as a rule has.
THEOREM AlertsFollowHealth == Spec => []AlertsMatchHealth
<1> QED BY AlertsInvImplies, AlertsStart, AlertsStep, EachDeskStarts, EachDeskSteps, PTL DEF Spec

\* Whatever the inputs are changed to and whatever answers come late, fail or are called
\* off, a settled part of a screen shows what its inputs ask, with the edits made on it,
\* unless it failed or raced; a failed load is told; a quiet banner shows the mode.
THEOREM ScreensFollowInputs == Spec => []ScreensShowWhatWasAsked
<1> QED BY ScreenInvImplies, ScreenStart, ConsoleStepKeeps, EachDeskStarts, EachDeskSteps, PTL DEF Spec

\* Whatever requests overlap, are given up or are cut off, a campaign's link leads to a
\* lander of its own once no request about a lander is under way, a lander's files carry
\* its own campaign's tag, and no parent in use is deleted, save where the history says.
THEOREM LinksAreKept == Spec => []LinksAreLive
<1> QED BY LinksInvImplies, LinksStart, LinksStep, EachDeskStarts, EachDeskSteps, PTL DEF Spec

\* However many campaigns share a landing page and whichever are listed, a visit is in one
\* row of the report, and that of the campaign the redirect recorded it under.
THEOREM VisitsAreAttributedOnce == Spec => []VisitsAreReportedOnce
<1>1. Asked /\ [ReportsNext]_inquiry => Asked' BY AskedStays
<1> QED BY <1>1, AskedImplies, EachDeskStarts, EachDeskSteps, PTL DEF Spec

\* However many visits, events, groups, questions and tallies there are, the figures of the
\* screens add up to each other, the funnel counts each visit once, the advice does not
\* contradict the rates it is drawn from, and what became of the leads adds up.
THEOREM FiguresDoAgree == Spec => []FiguresAgree
<1>1. Inquired /\ [ReportsNext]_inquiry => Inquired' BY InquiredStays
<1> QED BY <1>1, FiguresDo, EachDeskStarts, EachDeskSteps, PTL DEF Spec

=============================================================================
