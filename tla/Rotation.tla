------------------------------ MODULE Rotation ------------------------------
(***************************************************************************)
(* The variants of one traffic path and the job that ends their rotation.  *)
(* Visitors and conversions raise the tallies; the operator edits the      *)
(* variants; the auto-winner, hourly and on demand, lists the active       *)
(* variants, counts each with queries of its own and promotes a winner     *)
(* without looking at the variants again.  Rates are compared as integer   *)
(* fractions.                                                              *)
(***************************************************************************)
EXTENDS Integers, FiniteSets, FiniteSetsExt

CONSTANTS
    Variants,
    AutoRuns,        \* evaluations: the cron's and the operator's
    MinVisits,       \* AutoWinnerConfig, scaled down
    MinTotal,
    MinMargin,       \* percent of the runner-up's rate
    MinConversions,
    ZNum, ZDen,      \* minZScore = ZNum / ZDen
    MaxTraffic,      \* bound on the visits and conversions of all variants
    MaxEdits         \* bound on the operator's edits

ASSUME RotationAssumption ==
    /\ {MinVisits, MinTotal, MinMargin, MinConversions, ZNum, ZDen} \subseteq Nat \ {0}
    /\ MaxTraffic \in Nat /\ MaxEdits \in Nat /\ IsFiniteSet(Variants)

VARIABLES
    variant,   \* [Variants -> [exists, active, winner: BOOLEAN]]
    tally,     \* [Variants -> Tally]: the clicks and conversions of each
    autoRun,   \* [AutoRuns -> [pc, todo, stats]]
    edits,
    disturbed  \* history: runs whose variants were changed since they listed them

rotationVars == <<variant, tally, autoRun, edits, disturbed>>

(* real: neither bot nor test; bought counts the conversions that are not  *)
(* tests, those of bots included.                                          *)
Tally == [real: 0 .. MaxTraffic, bot: 0 .. MaxTraffic, test: 0 .. MaxTraffic,
          bought: 0 .. MaxTraffic, testBought: 0 .. MaxTraffic]
NoTally == [real |-> 0, bot |-> 0, test |-> 0, bought |-> 0, testBought |-> 0]
Stats == [visits: 0 .. MaxTraffic, conversions: 0 .. MaxTraffic]
NoStats == [visits |-> 0, conversions |-> 0]
Run(pc, todo) == [pc |-> pc, todo |-> todo, stats |-> [v \in Variants |-> NoStats]]
NoAutoRun == Run("idle", {})

Active == {v \in Variants : variant[v].exists /\ variant[v].active}

RotationInit ==
    /\ \E on \in SUBSET Variants :
         variant = [v \in Variants |->
                       [exists |-> TRUE, active |-> v \in on, winner |-> FALSE]]
    /\ tally = [v \in Variants |-> NoTally]
    /\ autoRun = [r \in AutoRuns |-> NoAutoRun]
    /\ edits = 0
    /\ disturbed = {}

RestingRotation == RotationInit /\ Active = {}

-----------------------------------------------------------------------------
(* The decision: computeWinner over stats[v], v \in listed.                *)

Better(a, b) == a.conversions * b.visits > b.conversions * a.visits

(* margin >= MinMargin, in percent of the runner-up's rate *)
ClearsMargin(a, b) ==
    IF b.conversions = 0 THEN 100 >= MinMargin
    ELSE (a.conversions * b.visits - b.conversions * a.visits) * 100
            >= MinMargin * b.conversions * a.visits

(* z >= minZScore: the square of the pooled two-proportion z is            *)
(* gap^2 * n / (n1 * n2 * c * (n - c)).                                    *)
Significant(a, b) ==
    LET n == a.visits + b.visits
        c == a.conversions + b.conversions
        gap == a.conversions * b.visits - b.conversions * a.visits
    IN  /\ c > 0 /\ c < n /\ gap > 0
        /\ gap * gap * n * ZDen * ZDen
              >= ZNum * ZNum * a.visits * b.visits * c * (n - c)

Eligible(stats) == {v \in DOMAIN stats : stats[v].visits > 0}
Together(counts, among) == MapThenSumSet(LAMBDA u : counts[u].visits, among)

(* One of the best, before one of the best of the rest.                    *)
Leads(v, w, stats) ==
    /\ v # w
    /\ \A u \in Eligible(stats) : ~Better(stats[u], stats[v])
    /\ \A u \in Eligible(stats) \ {v} : ~Better(stats[u], stats[w])

Winners(stats) ==
    {v \in Eligible(stats) :
        /\ Together(stats, Eligible(stats)) >= MinTotal
        /\ stats[v].visits >= MinVisits
        /\ stats[v].conversions >= MinConversions
        /\ \E w \in Eligible(stats) :
              /\ Leads(v, w, stats)
              /\ ClearsMargin(stats[v], stats[w])
              /\ Significant(stats[v], stats[w])}

-----------------------------------------------------------------------------
(* Traffic.                                                                *)

Traffic(v) == MapThenSumSet(LAMBDA field : tally[v][field], DOMAIN NoTally)

Raise(v, field) ==
    /\ MapThenSumSet(Traffic, Variants) < MaxTraffic
    /\ tally' = [tally EXCEPT ![v][field] = @ + 1]
    /\ UNCHANGED <<variant, autoRun, edits, disturbed>>

Visit(v) == v \in Active /\ \E who \in {"real", "bot", "test"} : Raise(v, who)

Convert(v) ==
    \/ tally[v].bought < tally[v].real + tally[v].bot /\ Raise(v, "bought")
    \/ tally[v].testBought < tally[v].test /\ Raise(v, "testBought")

-----------------------------------------------------------------------------
(* The operator: updateVariant, createVariant, deleteVariant.              *)

Underfoot == {r \in AutoRuns : autoRun[r].pc # "idle"}

Edit(v, row) ==
    /\ edits < MaxEdits
    /\ variant' = [variant EXCEPT ![v] = row]
    /\ edits' = edits + 1
    /\ disturbed' = disturbed \cup Underfoot
    /\ UNCHANGED <<tally, autoRun>>

UpdateVariant(v) ==
    /\ variant[v].exists
    /\ Edit(v, [variant[v] EXCEPT !.active = ~@])

CreateVariant(v) ==
    /\ ~variant[v].exists /\ tally[v] = NoTally
    /\ Edit(v, [exists |-> TRUE, active |-> TRUE, winner |-> FALSE])

DeleteVariant(v) ==
    /\ variant[v].exists
    /\ Edit(v, [exists |-> FALSE, active |-> FALSE, winner |-> variant[v].winner])

-----------------------------------------------------------------------------
(* The auto-winner.                                                        *)

(* Variant: variants that are switched off are evaluated as well.          *)
EvaluateAnyVariant(r) ==
    /\ autoRun[r].pc = "idle"
    /\ Cardinality({v \in Variants : variant[v].exists}) >= 2
    /\ autoRun' = [autoRun EXCEPT ![r] =
         Run("count", {v \in Variants : variant[v].exists})]
    /\ disturbed' = disturbed \ {r}
    /\ UNCHANGED <<variant, tally, edits>>

(* A path with fewer than two active variants is passed over.              *)
Evaluate(r) ==
    /\ autoRun[r].pc = "idle"
    /\ Cardinality(Active) >= 2
    /\ autoRun' = [autoRun EXCEPT ![r] = Run("count", Active)]
    /\ disturbed' = disturbed \ {r}
    /\ UNCHANGED <<variant, tally, edits>>

(* Variant: rehearsals are counted.                                        *)
CountTests(v) ==
    [visits      |-> Min({MaxTraffic, tally[v].real + tally[v].test}),
     conversions |-> Min({MaxTraffic, tally[v].bought + tally[v].testBought})]

Count(v) == [visits |-> tally[v].real, conversions |-> tally[v].bought]

CountVariant(r) ==
    /\ autoRun[r].pc = "count"
    /\ \E v \in autoRun[r].todo :
         autoRun' = [autoRun EXCEPT ![r] =
           [pc |-> IF @.todo = {v} THEN "decide" ELSE "count",
            todo |-> @.todo \ {v}, stats |-> [@.stats EXCEPT ![v] = Count(v)]]]
    /\ UNCHANGED <<variant, tally, edits, disturbed>>

NoWinner(r) ==
    /\ autoRun[r].pc = "decide" /\ Winners(autoRun[r].stats) = {}
    /\ autoRun' = [autoRun EXCEPT ![r] = NoAutoRun]
    /\ UNCHANGED <<variant, tally, edits, disturbed>>

(* promoteWinner, one transaction: the winner is marked, its `active` left *)
(* as it is, and every other variant of the path is switched off.  The     *)
(* update of a variant that is gone fails and undoes all.                  *)
Promote(r) ==
    /\ autoRun[r].pc = "decide"
    /\ \E w \in Winners(autoRun[r].stats) :
         IF variant[w].exists
         THEN /\ variant' = [v \in Variants |->
                   IF v = w THEN [variant[v] EXCEPT !.winner = TRUE]
                            ELSE [variant[v] EXCEPT !.active = FALSE]]
              /\ disturbed' = disturbed \cup (Underfoot \ {r})
         ELSE UNCHANGED <<variant, disturbed>>
    /\ autoRun' = [autoRun EXCEPT ![r] = NoAutoRun]
    /\ UNCHANGED <<tally, edits>>

RotationNext ==
    \/ \E v \in Variants : \/ Visit(v) \/ Convert(v) \/ UpdateVariant(v)
                           \/ CreateVariant(v) \/ DeleteVariant(v)
    \/ \E r \in AutoRuns : Evaluate(r) \/ CountVariant(r) \/ NoWinner(r) \/ Promote(r)

RotationSpec == RotationInit /\ [][RotationNext]_rotationVars

-----------------------------------------------------------------------------
RotationTypeOK ==
    /\ variant \in [Variants -> [exists: BOOLEAN, active: BOOLEAN, winner: BOOLEAN]]
    /\ tally \in [Variants -> Tally]
    /\ autoRun \in [AutoRuns -> [pc: {"idle", "count", "decide"},
                                 todo: SUBSET Variants, stats: [Variants -> Stats]]]
    /\ edits \in 0 .. MaxEdits /\ disturbed \subseteq AutoRuns

Earned(v) ==
    /\ tally[v].real >= MinVisits
    /\ tally[v].bought >= MinConversions
    /\ LET people == [u \in Variants |-> [visits |-> tally[u].real]] IN
       \E seen \in SUBSET {u \in Variants : tally[u].real > 0} :
          /\ v \in seen /\ seen # {v}
          /\ Together(people, seen) >= MinTotal

(* Nothing decides the traffic of every future visitor but real people: a  *)
(* variant becomes the winner only with enough visits that are neither     *)
(* bots nor rehearsals and enough conversions that are not rehearsals,     *)
(* against at least one other variant that real people saw, and when those *)
(* compared have enough of their visits together (auto-winner.service.ts   *)
(* evaluateAll, auto-winner.ts computeWinner).                             *)
PromotionIsEarned ==
    [][\A v \in Variants :
          ~variant[v].winner /\ variant'[v].winner => Earned(v)]_rotationVars

(* A promotion decided on variants that nobody changed since the run       *)
(* listed them leaves the path a variant to send its visitors to.  A run   *)
(* another run or an operator has disturbed gives no such promise: the     *)
(* winner may have been switched off meanwhile (promoteWinner).            *)
QuietPathKeepsServing ==
    [][\A r \in AutoRuns :
          autoRun[r].pc = "decide" /\ autoRun'[r].pc = "idle" /\ r \notin disturbed
             => Active' # {}]_rotationVars
=============================================================================
