---------------------------- MODULE PlatformSync ----------------------------
(***************************************************************************)
(* The synchronisation of what the ad platforms say was spent.  A run goes *)
(* over the connections (every 15 minutes, or on request for all or one):  *)
(* it maps the platform's campaigns, refreshes the credentials, asks for   *)
(* the report, and writes one row per tracker campaign, the sum of the     *)
(* platform campaigns mapped to it.  Runs may overlap, connections and     *)
(* mappings change meanwhile.  All accounts here are of one platform, and  *)
(* one day and hour stand for the rows of a report.                        *)
(***************************************************************************)
EXTENDS Integers, FiniteSets, FiniteSetsExt

CONSTANTS
    Accounts,       \* connections, of one platform
    PlatformCampaigns,  \* numbers, in the order of the reports
    OwnerOf(_),     \* the account of a platform campaign
    TrackerCampaigns,
    NameMatch(_),   \* matchTrackerCampaign: a tracker campaign or Unmapped
    SyncRuns,
    FirstPage,      \* rows of a Facebook campaign report that are read
    MaxRotations,   \* bound on the refresh tokens issued per account
    MaxSyncEvents   \* bound on edits, faults, tests and runs

ASSUME SyncAssumption ==
    IsFiniteSet(PlatformCampaigns) /\ PlatformCampaigns \subseteq Nat /\ FirstPage \in Nat

Unmapped == "unmapped"
None == -1     \* no row

Platforms == {"facebook", "openai", "mediago", "bing", "taboola"}

VARIABLES
    platform,
    connection,  \* [Accounts -> [status, token, expired]]
    latest,      \* external: the refresh token the platform issued last
    reported,    \* external: [PlatformCampaigns -> spend so far]
    mapping,     \* CampaignPlatformMapping
    spend,       \* CampaignSpendSnapshot: [TrackerCampaigns -> amount]
    adSpend,     \* AdSpendSnapshot: [PlatformCampaigns -> amount]
    sync,        \* [SyncRuns -> the run]
    control,     \* ControlActionLog of one pause or budget request
    syncEvents,
    undisturbed, \* history: runs since whose Find nobody changed their rows
    lostToken    \* history: accounts that dropped a token they were issued

syncVars == <<platform, connection, latest, reported, mapping, spend, adSpend,
              sync, control, syncEvents, undisturbed, lostToken>>

SomeAccount == CHOOSE a \in Accounts : TRUE
SomeCampaign == CHOOSE c \in TrackerCampaigns : TRUE
NoRows == [c \in TrackerCampaigns |-> None]
NoSums == [c \in {} |-> 0]
IdleSync == [pc |-> "idle", all |-> FALSE, account |-> SomeAccount, queue |-> {},
             expired |-> FALSE, token |-> 0, left |-> {}, rows |-> {}, sums |-> NoSums]

Own(a) == {e \in PlatformCampaigns : OwnerOf(e) = a}
Amounts == 0 .. 2 * Cardinality(PlatformCampaigns)

SyncInit ==
    /\ platform \in Platforms
    /\ connection = [a \in Accounts |-> [status |-> "active", token |-> 0, expired |-> TRUE]]
    /\ latest = [a \in Accounts |-> 0]
    /\ reported = [e \in PlatformCampaigns |-> e]
    /\ mapping = [e \in PlatformCampaigns |-> IF e = 1 THEN SomeCampaign ELSE Unmapped]
    /\ spend = NoRows
    /\ adSpend = [e \in PlatformCampaigns |-> None]
    /\ sync = [r \in SyncRuns |-> IdleSync]
    /\ control = "none"
    /\ syncEvents = 0
    /\ undisturbed = {} /\ lostToken = {}

RestingSync ==
    /\ SyncInit /\ platform = "facebook"

Event == syncEvents < MaxSyncEvents /\ syncEvents' = syncEvents + 1
Quiet == UNCHANGED syncEvents

At(r, pc) == sync[r].pc = pc
Goto(r, pc) == sync' = [sync EXCEPT ![r].pc = pc]
Conn(r) == connection[sync[r].account]
OnWorld == UNCHANGED <<platform, reported>>

-----------------------------------------------------------------------------
(* A run.                                                                  *)

(* syncAll lists the connections once, whatever happens to them later.     *)
StartAll(r) ==
    /\ At(r, "idle") /\ Event
    /\ sync' = [sync EXCEPT ![r] = [IdleSync EXCEPT
                  !.pc = "next", !.all = TRUE,
                  !.queue = {a \in Accounts : connection[a].status \notin {"disabled", "gone"}}]]
    /\ OnWorld
    /\ UNCHANGED <<connection, latest, mapping, spend, adSpend, control, undisturbed, lostToken>>

(* POST connections/:id/sync takes a disabled one too.                     *)
StartOne(r, a) ==
    /\ At(r, "idle") /\ Event
    /\ sync' = [sync EXCEPT ![r] = [IdleSync EXCEPT !.pc = "find", !.account = a]]
    /\ OnWorld
    /\ UNCHANGED <<connection, latest, mapping, spend, adSpend, control, undisturbed, lostToken>>

NextConnection(r) ==
    /\ At(r, "next") /\ Quiet
    /\ \/ /\ sync[r].queue = {}
          /\ sync' = [sync EXCEPT ![r] = IdleSync]
       \/ \E a \in sync[r].queue :
            sync' = [sync EXCEPT ![r].pc = "find", ![r].account = a, ![r].queue = @ \ {a}]
    /\ OnWorld
    /\ UNCHANGED <<connection, latest, mapping, spend, adSpend, control, undisturbed, lostToken>>

(* The run keeps the credentials of this read, and goes by them.           *)
Find(r) ==
    /\ At(r, "find") /\ Quiet
    /\ IF Conn(r).status = "gone"
       THEN Goto(r, "failed") /\ UNCHANGED undisturbed
       ELSE /\ sync' = [sync EXCEPT ![r].left = Own(sync[r].account),
                          ![r].expired = platform = "bing" /\ Conn(r).expired,
                          ![r].pc = CASE platform \in {"mediago", "openai"} -> "automap"
                                      [] platform = "bing" -> "refresh"
                                      [] OTHER -> "fetch"]
            /\ undisturbed' = undisturbed \cup {r}
    /\ OnWorld
    /\ UNCHANGED <<connection, latest, mapping, spend, adSpend, control, lostToken>>

(* autoMapMediagoCampaigns, autoMapOpenAiCampaigns: each campaign is       *)
(* looked up, and written when it had no mapping and a tracker campaign    *)
(* has exactly its id or name.                                             *)
AutoMapLook(r) ==
    /\ At(r, "automap") /\ Quiet
    /\ IF sync[r].left = {} THEN Goto(r, "fetch")
       ELSE LET e == Min(sync[r].left) IN
            IF mapping[e] = Unmapped /\ NameMatch(e) # Unmapped
            THEN Goto(r, "automapWrite")
            ELSE sync' = [sync EXCEPT ![r].left = @ \ {e}]
    /\ OnWorld
    /\ UNCHANGED <<connection, latest, mapping, spend, adSpend, control, undisturbed, lostToken>>

AutoMapWrite(r) ==
    /\ At(r, "automapWrite") /\ Quiet
    /\ LET e == Min(sync[r].left) IN
        /\ mapping' = [mapping EXCEPT ![e] = NameMatch(e)]
        /\ sync' = [sync EXCEPT ![r].left = @ \ {e}, ![r].pc = "automap"]
    /\ undisturbed' = undisturbed \cap {r}
    /\ OnWorld
    /\ UNCHANGED <<connection, latest, spend, adSpend, control, lostToken>>

(* Bing: a new pair of tokens when the access token the run read is about  *)
(* to expire, whatever was stored since.                                   *)
(* Another run that asked and has not stored yet will store an older one.  *)
Refresh(r) ==
    LET a == sync[r].account IN
    /\ At(r, "refresh") /\ Quiet
    /\ IF ~sync[r].expired THEN Goto(r, "fetch") /\ UNCHANGED <<latest, lostToken>>
       ELSE /\ latest[a] < MaxRotations
            /\ latest' = [latest EXCEPT ![a] = @ + 1]
            /\ sync' = [sync EXCEPT ![r].expired = FALSE,
                                    ![r].token = latest'[a], ![r].pc = "store"]
            /\ lostToken' = IF \E o \in SyncRuns \ {r} : At(o, "store") /\ sync[o].account = a
                            THEN lostToken \cup {a} ELSE lostToken
    /\ OnWorld
    /\ UNCHANGED <<connection, mapping, spend, adSpend, control, undisturbed>>

(* Variant: the credentials read before are spread over the refreshed ones. *)
StoreOldOver(r) ==
    /\ At(r, "store") /\ Conn(r).status # "gone" /\ Quiet
    /\ connection' = [connection EXCEPT ![sync[r].account].expired = FALSE]
    /\ Goto(r, "fetch")
    /\ OnWorld
    /\ UNCHANGED <<latest, mapping, spend, adSpend, control, undisturbed, lostToken>>

(* The pair is stored before the report is asked for.                      *)
Store(r) ==
    /\ At(r, "store") /\ Conn(r).status # "gone" /\ Quiet
    /\ connection' = [connection EXCEPT ![sync[r].account].token = sync[r].token,
                                        ![sync[r].account].expired = FALSE]
    /\ sync' = [sync EXCEPT ![r].token = 0, ![r].pc = "fetch"]
    /\ OnWorld
    /\ UNCHANGED <<latest, mapping, spend, adSpend, control, undisturbed, lostToken>>

(* What fetchMetrics of the platform's adapter answers, when it does not   *)
(* throw.  Facebook's campaign report is not paged; taboola, as outbrain   *)
(* and mgid, answers an outage with no rows; the others answer every row.  *)
FirstPageReport(a) == {{e \in Own(a) : Cardinality({d \in Own(a) : d < e}) < FirstPage}}
ReportOrNothing(a) == {Own(a), {}}
WholeReport(a) == {Own(a)}

Answers(a) ==
    CASE platform = "facebook" -> FirstPageReport(a)
      [] platform = "taboola" -> ReportOrNothing(a)
      [] OTHER -> WholeReport(a)

Fetch(r) ==
    /\ At(r, "fetch") /\ Quiet
    /\ \E answer \in Answers(sync[r].account) :
        sync' = [sync EXCEPT ![r].rows = {<<e, reported[e]>> : e \in answer},
                             ![r].left = {}, ![r].pc = "mappings"]
    /\ OnWorld
    /\ UNCHANGED <<connection, latest, mapping, spend, adSpend, control, undisturbed, lostToken>>

RowsFor(rows, c) == {row \in rows : mapping[row[1]] = c}

Mapped(rows) == {c \in TrackerCampaigns : RowsFor(rows, c) # {}}
SpentIn(rows) == MapThenSumSet(LAMBDA row : row[2], rows)

(* Variant: each platform campaign's row is saved over the one before.     *)
LastRowPerCampaign(rows) ==
    [c \in Mapped(rows) |->
        (CHOOSE row \in RowsFor(rows, c) : \A o \in RowsFor(rows, c) : o[1] <= row[1])[2]]

SumByTrackerCampaign(rows) == [c \in Mapped(rows) |-> SpentIn(RowsFor(rows, c))]

ReadMappings(r) ==
    /\ At(r, "mappings") /\ Quiet
    /\ sync' = [sync EXCEPT ![r].sums = SumByTrackerCampaign(sync[r].rows),
                            ![r].rows = {}, ![r].pc = "saving"]
    /\ OnWorld
    /\ UNCHANGED <<connection, latest, mapping, spend, adSpend, control, undisturbed, lostToken>>

SaveSnapshot(r) ==
    /\ At(r, "saving") /\ Quiet
    /\ IF DOMAIN sync[r].sums = {}
       THEN /\ Goto(r, IF platform = "facebook" THEN "ads" ELSE "finish")
            /\ UNCHANGED <<spend, undisturbed>>
       ELSE \E c \in DOMAIN sync[r].sums :
            /\ spend' = [spend EXCEPT ![c] = sync[r].sums[c]]
            /\ sync' = [sync EXCEPT ![r].sums =
                          [o \in DOMAIN sync[r].sums \ {c} |-> sync[r].sums[o]]]
            /\ undisturbed' = undisturbed \cap {r}
    /\ OnWorld
    /\ UNCHANGED <<connection, latest, mapping, adSpend, control, lostToken>>

(* Ad rows are stored for unmapped campaigns too, and paged; a failure     *)
(* keeps the rows stored so far and is swallowed.                          *)
SaveAds(r) ==
    /\ At(r, "ads") /\ Quiet
    /\ \E n \in 0 .. Cardinality(Own(sync[r].account)) :
        adSpend' = [e \in PlatformCampaigns |->
            IF e \in Own(sync[r].account)
               /\ Cardinality({d \in Own(sync[r].account) : d < e}) < n
            THEN reported[e] ELSE adSpend[e]]
    /\ Goto(r, "finish")
    /\ OnWorld
    /\ UNCHANGED <<connection, latest, mapping, spend, control, undisturbed, lostToken>>

Done(r) == IF sync[r].all THEN [sync[r] EXCEPT !.pc = "next"] ELSE IdleSync

(* The connection is active again, also one disabled meanwhile.            *)
Finish(r) ==
    /\ At(r, "finish") /\ Conn(r).status # "gone" /\ Quiet
    /\ connection' = [connection EXCEPT ![sync[r].account].status = "active"]
    /\ sync' = [sync EXCEPT ![r] = Done(r)]
    /\ undisturbed' = undisturbed \ {r}
    /\ OnWorld
    /\ UNCHANGED <<latest, mapping, spend, adSpend, control, lostToken>>

(* A statement or a call fails: OpenAI's mapping is a convenience and its  *)
(* failure is swallowed; any other ends this connection's turn.            *)
Throw(r) ==
    /\ \/ sync[r].pc \in {"automap", "automapWrite", "refresh", "store", "fetch", "saving"}
          /\ Event
       \/ sync[r].pc \in {"store", "finish"} /\ Conn(r).status = "gone" /\ Quiet
    /\ IF platform = "openai" /\ sync[r].pc \in {"automap", "automapWrite"}
       THEN Goto(r, "fetch") /\ UNCHANGED undisturbed
       ELSE Goto(r, "failed") /\ undisturbed' = undisturbed \ {r}
    /\ lostToken' = IF At(r, "store") THEN lostToken \cup {sync[r].account} ELSE lostToken
    /\ OnWorld
    /\ UNCHANGED <<connection, latest, mapping, spend, adSpend, control>>

Handle(r) ==
    /\ At(r, "failed") /\ Quiet
    /\ IF sync[r].all /\ Conn(r).status # "gone"
       THEN /\ connection' = [connection EXCEPT ![sync[r].account].status = "error"]
            /\ Goto(r, "next")
       ELSE sync' = [sync EXCEPT ![r] = IdleSync] /\ UNCHANGED connection
    /\ OnWorld
    /\ UNCHANGED <<latest, mapping, spend, adSpend, control, undisturbed, lostToken>>

SyncStep(r) ==
    \/ StartAll(r) \/ NextConnection(r) \/ Find(r) \/ AutoMapLook(r) \/ AutoMapWrite(r)
    \/ Refresh(r) \/ Store(r) \/ Fetch(r) \/ ReadMappings(r) \/ SaveSnapshot(r)
    \/ SaveAds(r) \/ Finish(r) \/ Throw(r) \/ Handle(r)
    \/ \E a \in Accounts : StartOne(r, a)

-----------------------------------------------------------------------------
(* What the operator and the platform do meanwhile.                        *)

Present(a) == connection[a].status # "gone"
HoldsToken(a) == \E r \in SyncRuns : sync[r].account = a /\ sync[r].pc = "store"

SetStatus(a, status) ==
    /\ Present(a) /\ connection[a].status # status /\ Event
    /\ connection' = [connection EXCEPT ![a].status = status]
    /\ UNCHANGED <<platform, reported, latest, mapping, spend, adSpend, sync,
                   control, undisturbed, lostToken>>

(* New credentials are written whole; a refresh under way is written over  *)
(* them.                                                                   *)
EditCredentials(a) ==
    /\ Present(a) /\ latest[a] < MaxRotations /\ Event
    /\ latest' = [latest EXCEPT ![a] = @ + 1]
    /\ connection' = [connection EXCEPT ![a].token = latest'[a], ![a].expired = TRUE]
    /\ lostToken' = IF HoldsToken(a) THEN lostToken \cup {a} ELSE lostToken \ {a}
    /\ UNCHANGED <<platform, reported, mapping, spend, adSpend, sync, control, undisturbed>>

Expire(a) ==
    /\ platform = "bing" /\ ~connection[a].expired /\ Event
    /\ connection' = [connection EXCEPT ![a].expired = TRUE]
    /\ UNCHANGED <<platform, reported, latest, mapping, spend, adSpend, sync,
                   control, undisturbed, lostToken>>

(* POST connections/:id/test asks Microsoft for a token to see whether it  *)
(* is given one, and drops the refresh token that comes with it.           *)
TestConnection(a) ==
    /\ platform = "bing" /\ Present(a) /\ connection[a].expired
    /\ latest[a] < MaxRotations /\ Event
    /\ latest' = [latest EXCEPT ![a] = @ + 1]
    /\ lostToken' = lostToken \cup {a}
    /\ UNCHANGED <<platform, reported, connection, mapping, spend, adSpend, sync,
                   control, undisturbed>>

CreateMapping(e, c) ==
    /\ mapping[e] # c /\ Event
    /\ mapping' = [mapping EXCEPT ![e] = c]
    /\ undisturbed' = {}
    /\ UNCHANGED <<platform, reported, connection, latest, spend, adSpend, sync,
                   control, lostToken>>

DeleteMapping(e) ==
    /\ mapping[e] # Unmapped /\ Event
    /\ mapping' = [mapping EXCEPT ![e] = Unmapped]
    /\ undisturbed' = {}
    /\ UNCHANGED <<platform, reported, connection, latest, spend, adSpend, sync,
                   control, lostToken>>

(* upsertManualSpend, importSpendCsv.                                      *)
ManualSpend(c) ==
    /\ Event
    /\ spend' = [spend EXCEPT ![c] = 0]
    /\ undisturbed' = {}
    /\ UNCHANGED <<platform, reported, connection, latest, mapping, adSpend, sync,
                   control, lostToken>>

Grow(e) ==
    /\ reported[e] = e /\ Event
    /\ reported' = [reported EXCEPT ![e] = 2 * e]
    /\ undisturbed' = {}
    /\ UNCHANGED <<platform, connection, latest, mapping, spend, adSpend, sync,
                   control, lostToken>>

(* runMediagoControl: the log is written before the platform is asked; an  *)
(* answer closes it, an exception leaves it pending.                       *)
Control ==
    /\ platform = "mediago"
    /\ \/ /\ control # "pending" /\ Event
          /\ \E e \in PlatformCampaigns : mapping[e] # Unmapped
          /\ \E a \in Accounts : connection[a].status = "active"
          /\ control' = "pending"
       \/ control = "pending" /\ control' \in {"success", "failed"} /\ Quiet
    /\ UNCHANGED <<platform, reported, connection, latest, mapping, spend, adSpend,
                   sync, undisturbed, lostToken>>

SyncRestart ==
    /\ \E r \in SyncRuns : ~At(r, "idle")
    /\ Event
    /\ sync' = [r \in SyncRuns |-> IdleSync]
    /\ lostToken' = lostToken \cup {a \in Accounts : HoldsToken(a)}
    /\ undisturbed' = {}
    /\ UNCHANGED <<platform, reported, connection, latest, mapping, spend, adSpend, control>>

SyncNext ==
    \/ \E r \in SyncRuns : SyncStep(r)
    \/ \E a \in Accounts :
        \/ \E status \in {"active", "disabled", "gone"} : SetStatus(a, status)
        \/ EditCredentials(a) \/ Expire(a) \/ TestConnection(a)
    \/ \E e \in PlatformCampaigns :
        \/ \E c \in TrackerCampaigns : CreateMapping(e, c)
        \/ DeleteMapping(e) \/ Grow(e)
    \/ \E c \in TrackerCampaigns : ManualSpend(c)
    \/ Control
    \/ SyncRestart

-----------------------------------------------------------------------------
SyncTypeOK ==
    /\ platform \in Platforms
    /\ connection \in [Accounts -> [status: {"active", "error", "disabled", "gone"},
                                    token: 0 .. MaxRotations, expired: BOOLEAN]]
    /\ latest \in [Accounts -> 0 .. MaxRotations]
    /\ mapping \in [PlatformCampaigns -> TrackerCampaigns \cup {Unmapped}]
    /\ spend \in [TrackerCampaigns -> Amounts \cup {None}]
    /\ adSpend \in [PlatformCampaigns -> Amounts \cup {None}]
    /\ \A r \in SyncRuns :
        sync[r].pc \in {"idle", "next", "find", "automap", "automapWrite", "refresh", "store",
                        "fetch", "mappings", "saving", "ads", "finish", "failed"}
    /\ control \in {"none", "pending", "success", "failed"}
    /\ syncEvents \in 0 .. MaxSyncEvents

Readable(a) == platform # "facebook" \/ Cardinality(Own(a)) <= FirstPage

(* When the synchronisation of a connection ends and nobody else changed   *)
(* the mappings, the rows or the report since it began, the row of every   *)
(* tracker campaign is the sum of what the connection's platform campaigns *)
(* mapped to it have spent, those mapped on the way included               *)
(* (platform-sync.service.ts sumByTrackerCampaign, syncConnection).  Not   *)
(* claimed of a Facebook account whose campaign report has a second page,  *)
(* nor of the outage a quiet adapter reports as an empty day.              *)
SpendIsTheSum ==
    \A r \in undisturbed : \A c \in TrackerCampaigns :
        LET a == sync[r].account
            mine == {e \in Own(a) : mapping[e] = c}
        IN  At(r, "finish") /\ Readable(a) /\ platform # "taboola" /\ mine # {}
              => spend[c] = SpentIn({<<e, reported[e]>> : e \in mine})

(* The refresh token the platform issued last is the one stored, or a run  *)
(* is about to store it.  It is dropped only by a crash or an error right  *)
(* between the two, by a second refresh or new credentials at the same     *)
(* moment, or by a test of the connection (syncConnection "a rotated       *)
(* refresh token must not be lost", bing.adapter.ts refreshCredentials).   *)
TokensAreKept ==
    \A a \in Accounts :
        \/ a \in lostToken \/ ~Present(a)
        \/ connection[a].token = latest[a]
        \/ \E r \in SyncRuns : At(r, "store") /\ sync[r].account = a /\ sync[r].token = latest[a]
=============================================================================
