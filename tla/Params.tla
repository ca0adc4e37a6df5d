------------------------------- MODULE Params -------------------------------
(***************************************************************************)
(* What a click keeps of its query, and what its conversions tell the      *)
(* networks: pure functions.  A query and a row are functions from names,  *)
(* in lower case, to values; "" stands for a value that is not there, and  *)
(* Macro for a placeholder the ad network failed to replace.               *)
(***************************************************************************)
EXTENDS Integers, Sequences, FiniteSets, FiniteSetsExt

(* Variant: the macro of one network only is recognised.                   *)
SanitizeNothing(v) == v

Absent == ""
Macro == "{macro}"
IsUnreplacedMacro(v) == v = Macro
SanitizeParam(v) == IF IsUnreplacedMacro(v) THEN Absent ELSE v

Or(first, second) == IF first # Absent THEN first ELSE second
FirstOf(values) ==
    LET there == {k \in DOMAIN values : values[k] # Absent}
    IN  IF there = {} THEN Absent ELSE values[Min(there)]

(* The value of the first name that has one.                               *)
Pick(q, names) == FirstOf([k \in DOMAIN names |-> IF names[k] \in DOMAIN q THEN q[names[k]] ELSE Absent])

-----------------------------------------------------------------------------
(* Mappings of a traffic source: [field, keys, priority], tried in the     *)
(* order of their priority, the given order where it is the same.          *)
TriedBefore(mappings, j, k) ==
    \/ mappings[j].priority < mappings[k].priority
    \/ mappings[j].priority = mappings[k].priority /\ j < k

(* The first mapping of a field that finds a value decides.                *)
FieldValue(q, field, mappings) ==
    LET finds == {k \in DOMAIN mappings : mappings[k].field = field /\ Pick(q, mappings[k].keys) # Absent}
        first == CHOOSE k \in finds : \A j \in finds \ {k} : TriedBefore(mappings, k, j)
    IN  IF finds = {} THEN Absent ELSE Pick(q, mappings[first].keys)

Clean(q) == [n \in DOMAIN q |-> SanitizeParam(q[n])]

(* resolveParamsFromMappings, for the fields in `fields`, which hold the   *)
(* ones that stand in for each other.                                      *)
ResolveParams(q, mappings, tkCid, fields) ==
    LET found == [f \in fields |-> FieldValue(Clean(q), f, mappings)]
        tracking == Or(found["tracking_id"], found["external_click_id"])
        external == Or(found["external_click_id"], tracking)
        gclid == FirstOf(<<found["gclid"], found["fbclid"], tracking,
                           SanitizeParam(tkCid), found["subid"]>>)
    IN  [found EXCEPT !["tracking_id"] = tracking, !["external_click_id"] = external,
                      !["gclid"] = gclid]

-----------------------------------------------------------------------------
(* Custom variables: the explicit names of the query, macros included;     *)
(* then what the network's own parameters say; over both, what the         *)
(* mappings of the source say.                                             *)

ExtractCustomVariables(q, aliases) == [cv \in DOMAIN aliases |-> Pick(q, aliases[cv])]

NativeFallbacks(r) ==
    [cv1 |-> r["ad_id"],
     cv2 |-> FirstOf(<<r["campaign_external_id"], r["adset_id"], r["adset_name"],
                       r["utm_adset"]>>),
     cv3 |-> r["publisher_name"], cv4 |-> r["ad_title"], cv5 |-> r["content_name"],
     cv6 |-> r["site_id"], cv7 |-> Or(r["platform"], r["utm_content"]),
     cv8 |-> r["asset_id"]]

ApplyNativeParamFallbacks(cvs, native) ==
    [cv \in DOMAIN cvs |->
        IF cv \in DOMAIN native THEN Or(cvs[cv], native[cv]) ELSE cvs[cv]]

ApplyMappedCustomVariables(cvs, resolved) ==
    [cv \in DOMAIN cvs |->
        IF cv \in DOMAIN resolved THEN Or(resolved[cv], cvs[cv]) ELSE cvs[cv]]

CustomVariables(q, aliases, native, resolved) ==
    ApplyMappedCustomVariables(
        ApplyNativeParamFallbacks(ExtractCustomVariables(q, aliases), native), resolved)

-----------------------------------------------------------------------------
(* Outgoing postbacks: which networks a conversion may go to.              *)

Networks == {"mediago", "facebook", "google", "outbrain", "openai"}
FacebookOnlyEvents == {"quiz_started", "quiz_q2", "quiz_question_1", "lead_sold"}
NeverForwardedEvents == {"lead_rejected", "lead_returned", "page_engagement"}

ShouldFireNetworkPostback(event, network) ==
    event \notin NeverForwardedEvents
    /\ (event \in FacebookOnlyEvents => network = "facebook")

(* canHandle: enabled on the campaign, and not the business of another     *)
(* method; outbrain has no switch, its profile must name it.               *)
CanHandle(network, method, enabled) ==
    /\ method \in {Absent, network}
    /\ network = "outbrain" => method = "outbrain"
    /\ network \in enabled

(* The click id a network is told, of the row and, for mediago, of the     *)
(* query as it came.  Without one nothing is sent.                         *)
ResolveMediagoTrackingId(r, q) ==
    FirstOf(<<r["tracking_id"], r["external_click_id"],
              Pick(q, <<"trackingid", "tracking_id", "click_id", "subid">>)>>)

NetworkClickId(r, q) ==
    [mediago |-> ResolveMediagoTrackingId(r, q), google |-> r["gclid"],
     outbrain |-> r["tracking_id"]]

(* Variant: the gate of the event is not asked.                            *)
FiredUngated(event, method, enabled) ==
    {n \in Networks : CanHandle(n, method, enabled)}

FiredNetworks(event, method, enabled) ==
    {n \in Networks : ShouldFireNetworkPostback(event, n) /\ CanHandle(n, method, enabled)}

-----------------------------------------------------------------------------
(* Incoming postbacks: the secret, then the allowlist, then nothing to     *)
(* compare with.                                                           *)
IsPostbackAuthorized(expected, provided, ip, allowlist) ==
    \/ expected # Absent /\ provided = expected
    \/ ip # Absent /\ ip \in allowlist
    \/ expected = Absent /\ allowlist = {}

(* findClick: by the click id if the postback gives one, otherwise the     *)
(* newest visit with its tracking id; "k2" came after "k1".                *)
FindClick(clicks, cid, tracking) ==
    LET tracked == {k \in DOMAIN clicks : tracking # Absent /\ clicks[k].tracking = tracking}
    IN  IF cid # Absent THEN {cid} \cap DOMAIN clicks
        ELSE IF "k2" \in tracked THEN {"k2"} ELSE tracked

LeadOutcomeEvents == {"lead_sold", "lead_rejected", "lead_returned"}

(* assertPostbackAuthorized: the secret is that of the campaign of the     *)
(* click found.  Without anything to compare with, what a buyer says       *)
(* became of a lead is refused.                                            *)
AssertPostbackAuthorized(clicks, p) ==
    LET found == FindClick(clicks, p.cid, p.tracking)
        secrets == {clicks[k].secret : k \in found}
        expected == IF secrets = {} THEN Absent ELSE CHOOSE s \in secrets : TRUE
    IN  IF expected = Absent /\ p.allowlist = {} THEN p.event \notin LeadOutcomeEvents
        ELSE IsPostbackAuthorized(expected, p.provided, p.ip, p.allowlist)

(* triggerByClickId: authorised on the clicks there are, then stored on    *)
(* the click found again among those there are by then; {}: refused.       *)
TriggerByClickId(before, after, p) ==
    IF AssertPostbackAuthorized(before, p) THEN FindClick(after, p.cid, p.tracking) ELSE {}
=============================================================================
