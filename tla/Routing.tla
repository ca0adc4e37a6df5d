------------------------------ MODULE Routing ------------------------------
(***************************************************************************)
(* The pure decisions behind one click: which path and variant serve it,   *)
(* which campaign it belongs to, and how likely it is a bot.  A random     *)
(* number of the code is the whole part of rng() * total; every operator   *)
(* is the code's algorithm, and what it should compute stands beside it.   *)
(***************************************************************************)
EXTENDS Integers, FiniteSets, FiniteSetsExt, Sequences, SequencesExt

-----------------------------------------------------------------------------
(* Bot scores: bot-detector.ts, velocity.ts.                               *)

SignalScore ==
    [missing_user_agent |-> 70, short_user_agent |-> 40, ua_pattern |-> 80,
     suspicious_ua |-> 25, missing_accept_language |-> 15, proxy |-> 30,
     hosting |-> 35, missing_sec_fetch_headers |-> 10]

Capped(score) == IF score > 100 THEN 100 ELSE score

Points(signal, signals) == IF signal \in signals THEN SignalScore[signal] ELSE 0

DetectBot(signals) ==
    Capped(Points("missing_user_agent", signals) + Points("short_user_agent", signals)
           + Points("ua_pattern", signals) + Points("suspicious_ua", signals)
           + Points("missing_accept_language", signals) + Points("proxy", signals)
           + Points("hosting", signals) + Points("missing_sec_fetch_headers", signals))

IsBotScore(score) == score >= 50

(* parseVelocityConfig: nothing below one turns the check off.             *)
DefaultMaxClicks == 20
VelocityLimit(configured) == IF configured > 0 THEN configured ELSE DefaultMaxClicks

(* 30 points at the limit, 30 more for each time it is exceeded, 60 at     *)
(* most.                                                                   *)
ClickVelocity(count, limit) ==
    IF count < limit THEN 0
    ELSE Min({60, 30 + ((count - limit) * 30) \div limit})

-----------------------------------------------------------------------------
(* Paths: routing.ts.  A condition is [dimension, operator, values]; the   *)
(* context is a function from dimensions, "" where nothing is known.       *)

Meets(condition, ctx) ==
    LET contained == ctx[condition.dimension] # ""
                     /\ ctx[condition.dimension] \in condition.values
    IN  IF condition.operator = "not_in" THEN ~contained ELSE contained

EvaluateConditions(conditions, ctx) == \A k \in conditions : Meets(k, ctx)

(* A choice is made among items[k], k \in among: an index, 0 for none.      *)
TotalWeight(items, among) == MapThenSumSet(LAMBDA k : items[k].weight, among)

(* Variant: an item is passed only once the target is below zero or at it. *)
PickWeightedLate(items, among, target) ==
    LET pool == {k \in among : items[k].weight > 0}
        passed == {k \in pool : TotalWeight(items, {j \in pool : j <= k}) >= target}
    IN  IF pool = {} THEN 0 ELSE IF passed = {} THEN Max(pool) ELSE Min(passed)

(* The loop subtracts the weights from the target until it is negative:    *)
(* the first item whose weights so far exceed it.                          *)
PickWeighted(items, among, target) ==
    LET pool == {k \in among : items[k].weight > 0}
        passed == {k \in pool : TotalWeight(items, {j \in pool : j <= k}) > target}
    IN  IF pool = {} THEN 0 ELSE IF passed = {} THEN Max(pool) ELSE Min(passed)

SelectPath(paths, ctx, target) ==
    LET active == {k \in DOMAIN paths : paths[k].active}
        targeted == {k \in active : /\ paths[k].conditions # {}
                                    /\ EvaluateConditions(paths[k].conditions, ctx)}
        defaults == {k \in active : paths[k].conditions = {}}
    IN  PickWeighted(paths, IF targeted # {} THEN targeted ELSE defaults, target)

SelectVariant(variants, target) ==
    PickWeighted(variants, {k \in DOMAIN variants : variants[k].active}, target)

(* Where the visitor is sent, and the path and variant that are recorded;  *)
(* "" stands for no url and no id.                                         *)
ResolveRouting(campaignUrl, paths, ctx, pathTarget, variantTarget) ==
    LET path == SelectPath(paths, ctx, pathTarget)
        variants == IF path = 0 THEN <<>> ELSE paths[path].variants
        variant == SelectVariant(variants, variantTarget)
    IN  [destination |->
            IF variant # 0 /\ variants[variant].url # "" THEN variants[variant].url
            ELSE IF path # 0 /\ paths[path].url # "" THEN paths[path].url
            ELSE campaignUrl,
         path    |-> IF path = 0 THEN "" ELSE paths[path].id,
         variant |-> IF variant = 0 THEN "" ELSE variants[variant].id]
=============================================================================
