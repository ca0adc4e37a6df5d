------------------------------ MODULE Decisions ------------------------------
(***************************************************************************)
(* The pure functions of modules Routing and Params, asked one question    *)
(* each from a bounded set of inputs, and what they should answer.         *)
(***************************************************************************)
EXTENDS Routing, Params

CONSTANTS Weights, MaxItems, Urls, Events, Secrets

VARIABLE question

ASSUME DecisionsAssumption == Weights \subseteq Nat /\ MaxItems \in Nat

Item(n, w, on) == [id |-> n, weight |-> w, active |-> on]
WeightedLists == UNION {[1 .. n -> Weights] : n \in 0 .. MaxItems}
Items(weights) == [k \in DOMAIN weights |-> Item(k, weights[k], TRUE)]

Condition(operator, values) ==
    [dimension |-> "country", operator |-> operator, values |-> values]
ConditionSets == {{}, {Condition("in", {"FR"})}, {Condition("not_in", {"FR"})}}
RoutedPath(id, w, on, conditions, url, variants) ==
    [id |-> id, weight |-> w, active |-> on, conditions |-> conditions, url |-> url,
     variants |-> variants]
TwoPaths(w, on, shown, k, j, u, v) ==
    <<RoutedPath("p", w, on, k, u, <<[id |-> "v", weight |-> w, active |-> shown, url |-> v]>>),
      RoutedPath("q", 1, TRUE, j, "", <<>>)>>
RoutedPaths ==
    {TwoPaths(w, on, shown, k, j, u, v) :
        w \in Weights, on \in BOOLEAN, shown \in BOOLEAN,
        k \in ConditionSets, j \in ConditionSets, u \in Urls, v \in Urls}

(* A query gives each of its keys its own value, a placeholder or nothing. *)
Keys == {"click_id", "subid", "ext", "kw", "var1"}
Queries == {[k \in Keys |-> IF k \in given THEN k ELSE IF k \in macros THEN Macro ELSE Absent] :
               given \in SUBSET Keys, macros \in SUBSET Keys}
Sources == << [field |-> "tracking_id", keys |-> <<"click_id", "subid">>, priority |-> 1],
              [field |-> "external_click_id", keys |-> <<"ext">>, priority |-> 2],
              [field |-> "ad_id", keys |-> <<"ext">>, priority |-> 2],
              [field |-> "cv1", keys |-> <<"kw">>, priority |-> 1],
              [field |-> "cv1", keys |-> <<"subid">>, priority |-> 0] >>
Fields ==
    {"tracking_id", "external_click_id", "gclid", "fbclid", "subid", "cv1", "ad_id",
     "campaign_external_id", "adset_id", "adset_name", "utm_adset", "publisher_name", "ad_title",
     "content_name", "site_id", "platform", "utm_content", "asset_id"}
Aliases == [cv1 |-> <<"var1", "cv1">>, cv2 |-> <<"var2">>]

(* Two visits, of which the second may come while a postback is checked.   *)
TrackedClicks == [{"k1", "k2"} -> [tracking: {"t", "u"}, secret: Secrets \cup {Absent}]]
IncomingPostbacks ==
    [cid: {Absent, "k1", "k2", "k3"}, tracking: {Absent, "t"}, event: {"lead", "lead_sold"},
     provided: Secrets \cup {Absent}, ip: {"here", "there", Absent}, allowlist: SUBSET {"here"}]

Questions ==
    [about: {"pick"}, weights: WeightedLists]
    \cup [about: {"route"}, paths: RoutedPaths, country: {"FR", "DE", ""}]
    \cup [about: {"params"}, tkCid: {Absent, Macro, "cid"}, query: Queries]
    \cup [about: {"postback"}, event: Events, method: Networks \cup {Absent},
          enabled: SUBSET Networks]
    \cup [about: {"auth"}, clicks: TrackedClicks, late: BOOLEAN, postback: IncomingPostbacks]

DecisionsInit == question \in Questions
RestingDecisions == question = [about |-> "pick", weights |-> <<>>]

-----------------------------------------------------------------------------
(* Rotation is fair and routing obeys its rules.  Of the numbers a draw    *)
(* may give, as many choose an item as its weight says, and none an item   *)
(* without weight.  The pool of a visitor is the active paths whose        *)
(* conditions he meets, if there are any, and those without conditions     *)
(* otherwise: he is sent along a path of the pool that has weight exactly  *)
(* when there is one (a pool without weight sends him to the campaign's    *)
(* own address, though other paths would have served him), shown one of    *)
(* its active variants with weight exactly when it has one, and sent to    *)
(* the nearest address there is (routing.ts pickWeighted, selectPath,      *)
(* selectVariant, resolveRouting).                                         *)
RoutingIsFair ==
    CASE question.about = "pick" ->
           LET items == Items(question.weights)
               all == DOMAIN items
               total == TotalWeight(items, all)
           IN  /\ \A k \in all :
                    Cardinality({n \in 0 .. total - 1 : PickWeighted(items, all, n) = k})
                        = items[k].weight
               /\ total = 0 => PickWeighted(items, all, 0) = 0
      [] question.about = "route" ->
           LET paths == question.paths
               ctx == [country |-> question.country]
               active == {k \in DOMAIN paths : paths[k].active}
               met == {k \in active : paths[k].conditions # {}
                                      /\ EvaluateConditions(paths[k].conditions, ctx)}
               pool == IF met # {} THEN met ELSE {k \in active : paths[k].conditions = {}}
               drawn == {k \in pool : paths[k].weight > 0}
           IN  \A n \in 0 .. TotalWeight(paths, active) :
                 LET got == ResolveRouting("home", paths, ctx, n, 0)
                 IN  \/ drawn = {} /\ got = [path |-> "", variant |-> "", destination |-> "home"]
                     \/ \E k \in drawn :
                          LET path == paths[k]
                              shown == {v \in DOMAIN path.variants :
                                          path.variants[v].active /\ path.variants[v].weight > 0}
                              nearest == IF path.url # "" THEN path.url ELSE "home"
                          IN  /\ got.path = path.id
                              /\ \/ shown = {} /\ got.variant = "" /\ got.destination = nearest
                                 \/ \E v \in shown :
                                      /\ got.variant = path.variants[v].id
                                      /\ got.destination = IF path.variants[v].url # ""
                                                           THEN path.variants[v].url ELSE nearest
      [] OTHER -> TRUE

(* A click keeps no placeholder as a value of a mapped field, however the  *)
(* fields stand in for each other; no network is told a placeholder for    *)
(* the click id but mediago, which falls back on the query as it came; the *)
(* two click ids are the same unless the query gives both; and a custom    *)
(* variable is what the mapping of the source with the highest priority    *)
(* says, then what the query names, a placeholder there included, then     *)
(* what the network's own parameters say (param-mapping.ts                 *)
(* resolveParamsFromMappings, voluum-fields.ts, mediago-postback.ts).      *)
ParamsAreClean ==
    question.about = "params" =>
        LET q == question.query
            r == ResolveParams(q, Sources, question.tkCid, Fields)
            told == NetworkClickId(r, q)
            cvs == CustomVariables(q, Aliases, NativeFallbacks(r), [cv1 |-> r["cv1"]])
        IN  /\ \A f \in Fields : r[f] # Macro
            /\ \A n \in DOMAIN told : told[n] = Macro => n = "mediago" /\ told["outbrain"] = Absent
            /\ told["outbrain"] # Absent => told["google"] # Absent /\ told["mediago"] = told["outbrain"]
            /\ IF q["ext"] = "ext" THEN r["external_click_id"] = "ext"
               ELSE r["external_click_id"] = r["tracking_id"]
            /\ r["external_click_id"] = Absent => r["tracking_id"] = Absent
            /\ cvs.cv1 = IF q["subid"] = "subid" THEN "subid"
                         ELSE IF q["kw"] = "kw" THEN "kw" ELSE Or(q["var1"], r["ad_id"])

(* A conversion reaches at most the network its source names, an event     *)
(* that is nobody's business reaches none, one that is Meta's alone no     *)
(* other; and what is stored of an incoming postback was proved by the     *)
(* secret of the very campaign it is stored under, however it names its    *)
(* visit, or came from a listed address, or had nothing to be proved with  *)
(* and tells no buyer's answer.  Not claimed when the visit it names came  *)
(* between the check and the storing: the click is looked up twice         *)
(* (postback-event-gate.ts, the strategies' canHandle, conversions.service *)
(* assertPostbackAuthorized "Same resolution as create()").                *)
PostbacksStayInBounds ==
    CASE question.about = "postback" ->
           LET fired == FiredNetworks(question.event, question.method, question.enabled)
           IN  /\ question.method # Absent => fired \subseteq {question.method}
               /\ question.event \in NeverForwardedEvents => fired = {}
               /\ question.event \in FacebookOnlyEvents => fired \subseteq {"facebook"}
               /\ fired \subseteq question.enabled
      [] question.about = "auth" ->
           LET p == question.postback
               after == question.clicks
               before == IF question.late THEN [k \in {"k1"} |-> after[k]] ELSE after
               found(clicks) == FindClick(clicks, p.cid, p.tracking)
           IN  found(before) = found(after) =>
                 \A k \in TriggerByClickId(before, after, p) :
                    \/ after[k].secret # Absent /\ after[k].secret = p.provided
                    \/ p.ip \in p.allowlist
                    \/ /\ after[k].secret = Absent /\ p.allowlist = {}
                       /\ p.event \notin LeadOutcomeEvents
      [] OTHER -> TRUE
=============================================================================
