----------------------------- MODULE Postbacks -----------------------------
(***************************************************************************)
(* Delivery of conversions to the ad networks: the first run scheduled by   *)
(* the intake, the sweep that retries every five minutes, the retry an       *)
(* operator asks for.  All of them run processConversion, which sends to     *)
(* each network of the campaign, logs each answer and settles the row at     *)
(* the end.  Nothing stops two of them from overlapping.  Time is abstracted *)
(* to whether a row has been idle for its backoff.                           *)
(***************************************************************************)
EXTENDS Integers, FiniteSets

CONSTANTS
    MaxConversions,  \* bound: how many conversions arrive; their ids follow createdAt
    Configured,      \* conversions whose campaign has a postback configuration
    Networks,
    Handles,         \* [Conversions -> SUBSET Networks] event gate and canHandle
    MaxAttempts,     \* MAX_POSTBACK_ATTEMPTS
    Batch,           \* take: how many rows one sweep reads
    Tasks, Roles,    \* [Tasks -> SUBSET Operation]
    MaxRetries,      \* bound on the retries asked by hand
    MaxFaults        \* bound on the failures

Conversions == 1 .. MaxConversions
Operation == {"first", "sweep", "retry"}

ASSUME PostbacksAssumption ==
    /\ MaxConversions \in Nat /\ MaxAttempts \in Nat \ {0}
    /\ Batch \in Nat /\ MaxRetries \in Nat /\ MaxFaults \in Nat
    /\ Configured \subseteq Conversions
    /\ Handles \in [Conversions -> SUBSET Networks]
    /\ IsFiniteSet(Tasks) /\ Roles \in [Tasks -> SUBSET Operation]

VARIABLES
    stored,     \* conversions 1..stored exist
    scheduled,  \* waiting in a setImmediate of the process
    status,     \* [Conversions -> Status]
    attempts,   \* [Conversions -> Nat]  postback_attempts
    rested,     \* idle since lastPostbackAt for at least the backoff
    logs,       \* postback_logs: <<conversion, network, success>>
    accepted,   \* outside: <<conversion, network>>, the network took it
    task,
    retries, faults

table == <<stored, status, attempts>>
vars  == <<table, scheduled, rested, logs, accepted, task, retries, faults>>

Status == {"pending", "sent", "failed", "skipped"}
Unfinished == {"pending", "failed"}

TaskRecord ==
    [job: Operation, pc: {"idle", "claim", "read", "send", "log"},
     c: 0 .. MaxConversions,          \* the conversion being processed, 0 for none
     todo: SUBSET Conversions,        \* rows the sweep still has to look at
     seen: [Conversions -> Nat],      \* their attempts when it read them
     left: SUBSET Networks,           \* strategies not tried yet
     net: Networks \cup {"none"}, ok: BOOLEAN,   \* the answer about to be logged
     bad: BOOLEAN]                    \* ~allSuccess

Idle ==
    [job |-> "first", pc |-> "idle", c |-> 0, todo |-> {},
     seen |-> [c \in Conversions |-> 0], left |-> {},
     net |-> "none", ok |-> FALSE, bad |-> FALSE]

Becomes(t, r) == task' = [task EXCEPT ![t] = r]
Free(t, o)    == task[t].pc = "idle" /\ o \in Roles[t]
At(t, p)      == task[t].pc = p

Init ==
    /\ stored = 0 /\ scheduled = {}
    /\ status = [c \in Conversions |-> "pending"]
    /\ attempts = [c \in Conversions |-> 0]
    /\ rested = {} /\ logs = {} /\ accepted = {}
    /\ task = [t \in Tasks |-> Idle]
    /\ retries = 0 /\ faults = 0

\* conversions.create: the row is pending, its first run waits for the event loop.
Arrive ==
    /\ stored < MaxConversions
    /\ stored' = stored + 1
    /\ scheduled' = scheduled \cup {stored + 1}
    /\ UNCHANGED <<status, attempts, rested, logs, accepted, task, retries, faults>>

\* The backoff of an unfinished row runs out.
Rest(c) ==
    /\ c <= stored /\ c \notin rested
    /\ status[c] \in Unfinished
    /\ rested' = rested \cup {c}
    /\ UNCHANGED <<table, scheduled, logs, accepted, task, retries, faults>>

(***************************************************************************)
(* The three ways into processConversion.                                  *)
(***************************************************************************)
Process(t, job, c) == Becomes(t, [Idle EXCEPT !.job = job, !.pc = "read", !.c = c])

FirstBegin(t) ==
    /\ Free(t, "first")
    /\ \E c \in scheduled :
         /\ scheduled' = scheduled \ {c}
         /\ Process(t, "first", c)
    /\ UNCHANGED <<table, rested, logs, accepted, retries, faults>>

\* retryConversion: no look at who is already at work on the row.
RetryBegin(t) ==
    /\ Free(t, "retry")
    /\ retries < MaxRetries
    /\ retries' = retries + 1
    /\ \E c \in 1 .. stored :
         /\ status' = [status EXCEPT ![c] = "pending"]
         /\ Process(t, "retry", c)
    /\ UNCHANGED <<stored, attempts, scheduled, rested, logs, accepted, faults>>

Oldest(S, n) == {c \in S : Cardinality({d \in S : d < c}) < n}

\* retryUnfinished reads the oldest unfinished rows, and only then looks
\* which of them have waited long enough.
SweepBegin(t) ==
    /\ Free(t, "sweep")
    /\ LET rows == Oldest({c \in 1 .. stored : status[c] \in Unfinished
                                                /\ attempts[c] < MaxAttempts}, Batch)
           due  == rows \cap rested
       IN
       /\ due # {}
       /\ Becomes(t, [Idle EXCEPT !.job = "sweep", !.pc = "claim", !.todo = due,
                                !.seen = [c \in Conversions |-> IF c \in due THEN attempts[c] ELSE 0]])
    /\ UNCHANGED <<table, scheduled, rested, logs, accepted, retries, faults>>

\* What the sweep does after a row; every other job is over.
After(t) ==
    Becomes(t, IF task[t].todo = {} THEN Idle
               ELSE [Idle EXCEPT !.job = "sweep", !.pc = "claim",
                                 !.todo = task[t].todo, !.seen = task[t].seen])

\* Variant: the claim looks at nothing.
SweepClaimAny(t) ==
    /\ At(t, "claim")
    /\ \E c \in task[t].todo :
         /\ \A d \in task[t].todo : c <= d
         /\ rested' = rested \ {c}
         /\ Becomes(t, [task[t] EXCEPT !.pc = "read", !.c = c, !.todo = @ \ {c}])
    /\ UNCHANGED <<table, scheduled, logs, accepted, retries, faults>>

\* The claim: UPDATE lastPostbackAt WHERE postback_attempts is still the one read.
SweepClaim(t) ==
    /\ At(t, "claim")
    /\ \E c \in task[t].todo :
         /\ \A d \in task[t].todo : c <= d
         /\ IF attempts[c] = task[t].seen[c]
              THEN /\ rested' = rested \ {c}
                   /\ Becomes(t, [task[t] EXCEPT !.pc = "read", !.c = c, !.todo = @ \ {c}])
              ELSE /\ rested' = rested
                   /\ Becomes(t, IF task[t].todo = {c} THEN Idle
                                 ELSE [task[t] EXCEPT !.todo = @ \ {c}])
    /\ UNCHANGED <<table, scheduled, logs, accepted, retries, faults>>

(***************************************************************************)
(* processConversion.                                                      *)
(***************************************************************************)
\* A campaign without a postback configuration: return, the row stays as it is.
ReadRow(t) ==
    /\ At(t, "read")
    /\ IF task[t].c \in Configured
         THEN Becomes(t, [task[t] EXCEPT !.pc = "send", !.left = Handles[task[t].c],
                                         !.bad = FALSE])
         ELSE After(t)
    /\ UNCHANGED <<table, scheduled, rested, logs, accepted, retries, faults>>

\* The call to one network (in any order).  A success is its own answer; a
\* failure or an exception leaves open whether the network took the event.
Send(t) ==
    /\ At(t, "send")
    /\ \E n \in task[t].left, ok \in BOOLEAN, took \in BOOLEAN :
         /\ ok => took
         /\ accepted' = IF took THEN accepted \cup {<<task[t].c, n>>} ELSE accepted
         /\ Becomes(t, [task[t] EXCEPT !.pc = "log", !.left = @ \ {n}, !.net = n, !.ok = ok])
    /\ UNCHANGED <<table, scheduled, rested, logs, retries, faults>>

\* Variant: the last answer decides.
LogLastWins(t) ==
    /\ At(t, "log")
    /\ logs' = logs \cup {<<task[t].c, task[t].net, task[t].ok>>}
    /\ Becomes(t, [task[t] EXCEPT !.pc = "send", !.bad = ~task[t].ok])
    /\ UNCHANGED <<table, scheduled, rested, accepted, retries, faults>>

Log(t) ==
    /\ At(t, "log")
    /\ logs' = logs \cup {<<task[t].c, task[t].net, task[t].ok>>}
    /\ Becomes(t, [task[t] EXCEPT !.pc = "send", !.bad = @ \/ ~task[t].ok])
    /\ UNCHANGED <<table, scheduled, rested, accepted, retries, faults>>

\* Variant: a run that failed is settled without counting as an attempt.
FinishUncounted(t) ==
    /\ At(t, "send") /\ task[t].left = {}
    /\ LET c == task[t].c IN
       /\ status' = [status EXCEPT ![c] = IF Handles[c] = {} THEN "skipped"
                                          ELSE IF task[t].bad THEN "failed" ELSE "sent"]
       /\ attempts' = [attempts EXCEPT ![c] = IF task[t].bad THEN @ ELSE @ + 1]
       /\ rested' = rested \ {c}
    /\ After(t)
    /\ UNCHANGED <<stored, scheduled, logs, accepted, retries, faults>>

\* Variant: an attempt is counted for every network instead of every run.
FinishPerNetwork(t) ==
    /\ At(t, "send") /\ task[t].left = {}
    /\ LET c == task[t].c IN
       /\ status' = [status EXCEPT ![c] = IF Handles[c] = {} THEN "skipped"
                                          ELSE IF task[t].bad THEN "failed" ELSE "sent"]
       /\ attempts' = [attempts EXCEPT ![c] = @ + Cardinality(Handles[c])]
       /\ rested' = rested \ {c}
    /\ After(t)
    /\ UNCHANGED <<stored, scheduled, logs, accepted, retries, faults>>

\* The row is settled, whatever became of it in the meantime.
Finish(t) ==
    /\ At(t, "send") /\ task[t].left = {}
    /\ LET c == task[t].c IN
       /\ status' = [status EXCEPT ![c] = IF Handles[c] = {} THEN "skipped"
                                          ELSE IF task[t].bad THEN "failed" ELSE "sent"]
       /\ attempts' = [attempts EXCEPT ![c] = @ + 1]
       /\ rested' = rested \ {c}
    /\ After(t)
    /\ UNCHANGED <<stored, scheduled, logs, accepted, retries, faults>>

(***************************************************************************)
(* Failures: a restart of the process forgets every run; a statement of     *)
(* processConversion that throws ends this run, the sweep goes on with its  *)
(* next row; a claim that throws ends the sweep.                            *)
(***************************************************************************)
Restart ==
    /\ faults < MaxFaults
    /\ scheduled # {} \/ \E t \in Tasks : task[t].pc # "idle"
    /\ faults' = faults + 1
    /\ scheduled' = {}
    /\ task' = [t \in Tasks |-> Idle]
    /\ UNCHANGED <<table, rested, logs, accepted, retries>>

Throws(t) ==
    /\ faults < MaxFaults
    /\ faults' = faults + 1
    /\ \/ /\ At(t, "read") \/ At(t, "log") \/ (At(t, "send") /\ task[t].left = {})
          /\ After(t)
       \/ At(t, "claim") /\ Becomes(t, Idle)
    /\ UNCHANGED <<table, scheduled, rested, logs, accepted, retries>>

-----------------------------------------------------------------------------
Work(t) ==
    \/ SweepClaim(t)
    \/ ReadRow(t) \/ Send(t) \/ Log(t) \/ Finish(t)

Next ==
    \/ Arrive \/ Restart
    \/ \E c \in Conversions : Rest(c)
    \/ \E t \in Tasks : FirstBegin(t) \/ RetryBegin(t) \/ SweepBegin(t) \/ Work(t) \/ Throws(t)

Spec == Init /\ [][Next]_vars

(* The event loop runs what is queued, the sweep fires every five minutes,  *)
(* backoffs run out.  No promise about the networks, nor about operators.   *)
Fairness ==
    /\ \A t \in Tasks : WF_vars(Work(t)) /\ WF_vars(FirstBegin(t)) /\ WF_vars(SweepBegin(t))
    /\ \A c \in Conversions : WF_vars(Rest(c))

FairSpec == Spec /\ Fairness

-----------------------------------------------------------------------------
\* A run at work has a conversion, and an answer to log comes from a network.
HasItsRow(r) ==
    /\ r.pc \in {"read", "send", "log"} => r.c \in Conversions
    /\ r.pc = "log" => r.net \in Networks

TypeOK ==
    /\ stored \in 0 .. MaxConversions
    /\ scheduled \subseteq Conversions /\ rested \subseteq Conversions
    /\ status \in [Conversions -> Status]
    /\ attempts \in [Conversions -> Nat]
    /\ logs \subseteq Conversions \X Networks \X BOOLEAN
    /\ accepted \subseteq Conversions \X Networks
    /\ task \in [Tasks -> TaskRecord] /\ \A t \in Tasks : HasItsRow(task[t])
    /\ retries \in 0 .. MaxRetries /\ faults \in 0 .. MaxFaults

\* "sent" is the truth: every network of the campaign took the conversion,
\* however many runs overlapped, failed or were cut in between.
SentMeansAccepted ==
    \A c \in Conversions : status[c] = "sent" =>
        Handles[c] # {} /\ \A n \in Handles[c] : <<c, n>> \in accepted

\* A failed conversion has a log that explains it: a network that throws is
\* logged like one that refuses (processConversion, the catch around send).
FailureIsExplained ==
    \A c \in Conversions : status[c] = "failed" => \E n \in Networks : <<c, n, FALSE>> \in logs

\* What the claim is for: a sweep takes up no row that was settled, or that used
\* up its attempts, since it read it - also when sweeps and retries overlap.
TakesUpOnlyUnfinished ==
    [][\A t \in Tasks : At(t, "claim") /\ task'[t].pc = "read" =>
          LET c == task'[t].c IN status[c] \in Unfinished /\ attempts[c] < MaxAttempts]_vars

\* The budget of attempts: the sweeps and the first run that are at work when the
\* last attempt is counted may each add one, every retry by hand adds one, and
\* nothing else does - also when they overlap and the rows they read are stale.
AttemptsAreBounded ==
    \A c \in Conversions :
        attempts[c] <= MaxAttempts + retries + Cardinality({t \in Tasks : "sweep" \in Roles[t]})

(* Why these hold: what a run knows of the networks it has tried, and what   *)
(* the sweep knows of the rows it has not come to yet.                       *)
Tried(r) == (Handles[r.c] \ r.left) \ (IF r.pc = "log" THEN {r.net} ELSE {})

RunInv(r) ==
    /\ r.pc \in {"send", "log"} =>
         /\ r.bad => \E n \in Networks : <<r.c, n, FALSE>> \in logs
         /\ ~r.bad => \A n \in Tried(r) : <<r.c, n>> \in accepted
    /\ r.pc = "log" /\ r.ok => <<r.c, r.net>> \in accepted

\* A row nobody has worked on since the sweep read it is still unfinished.
SweepInv(r) ==
    \A c \in r.todo :
        /\ r.seen[c] <= attempts[c] /\ r.seen[c] < MaxAttempts
        /\ r.seen[c] = attempts[c] => status[c] \in Unfinished

\* What every run believes of the rows and the networks is true.
DeliveryInv ==
    /\ SentMeansAccepted /\ FailureIsExplained
    /\ \A t \in Tasks : RunInv(task[t]) /\ SweepInv(task[t])

\* No conversion is left behind: it ends settled, or its attempts are used up
\* and it waits for an operator (retryUnfinished: "deliveries that never
\* completed" are retried), also when the process restarted meanwhile.
RetriesEnd ==
    \A c \in Configured :
        c <= stored ~> status[c] \in {"sent", "skipped"} \/ attempts[c] >= MaxAttempts

\* Two sweeps, or a sweep and a manual retry, are never both at work on the same
\* conversion (the comment above the claim in retryUnfinished).
OneRunAtATime ==
    \A t, u \in Tasks :
        /\ t # u /\ {task[t].job, task[u].job} \subseteq {"sweep", "retry"}
        /\ task[t].pc \in {"send", "log"} /\ task[u].pc \in {"send", "log"}
        => task[t].c # task[u].c
=============================================================================
