------------------------------ MODULE Traffic ------------------------------
(***************************************************************************)
(* The redirect and the direct visit: what recordClick reads, decides and  *)
(* writes for one click while others are under way, and the enrichment     *)
(* that follows it.  A click is answered from the campaign as it was read, *)
(* the settings as they were cached, the number of clicks of its address,  *)
(* whatever the browser, and the earlier visits of its campaign; each is a *)
(* query of its own, and the row is inserted last.  All clicks fall inside one velocity window.  *)
(* The settings may answer an old value (module Caches), so here they      *)
(* answer any of the configured ones.                                      *)
(***************************************************************************)
EXTENDS Routing

CONSTANTS
    Clicks,       \* requests
    Campaigns,
    Cookies,      \* values of tk-vid
    Ips,          \* addresses a click may come from
    Public,       \* those that are neither private nor loopback
    Agents,       \* user agents
    BaseSignals,  \* sets of bot signals a request may show
    IpSignals,    \* sets of signals the lookup may add: proxy, hosting
    Limits        \* values of fraudVelocityMaxClicks the settings may answer

ASSUME TrafficAssumption ==
    /\ Public \subseteq Ips
    /\ BaseSignals \subseteq SUBSET DOMAIN SignalScore
    /\ IpSignals \subseteq SUBSET {"proxy", "hosting"}
    /\ Limits \subseteq Nat

VARIABLES
    request,   \* [Clicks -> what the request carries, fixed when it arrives]
    handling,  \* [Clicks -> where recordClick is and what it has read]
    clickRow,  \* [Clicks -> the row, or NoRow]
    arrivedAt, \* history: [Clicks -> rows that were there when the request came]
    createdAt  \* history: the rows, in the order of their insertion

trafficVars == <<request, handling, clickRow, arrivedAt, createdAt>>

NoCookie == "no cookie"
NoIp == "no address"
NoAgent == "no user agent"
ASSUME AbsenceAssumption == NoCookie \notin Cookies /\ NoIp \notin Ips /\ NoAgent \notin Agents

(* fingerprintVisitorId: a hash of campaign, address and user agent.       *)
Fingerprint(campaign, ip, agent) == <<campaign, ip, agent>>
VisitorIds == {<<k>> : k \in Cookies}
              \cup (Campaigns \X (Ips \cup {NoIp}) \X (Agents \cup {NoAgent}))

(* Without a user agent its absence is the only signal there is.           *)
Request ==
    LET with(agents, signals) ==
            [campaign: Campaigns, cookie: Cookies \cup {NoCookie}, ip: Ips \cup {NoIp},
             agent: agents, signals: signals]
    IN  with(Agents, BaseSignals) \cup with({NoAgent}, {{"missing_user_agent"}})

Stages == {"idle", "velocity", "visitor", "insert", "lookup", "enrich", "done"}
Handling == [pc: Stages, score: 0 .. 100, limit: Limits, isNew: BOOLEAN, flood: BOOLEAN]
NotHandled == [pc |-> "idle", score |-> 0, limit |-> CHOOSE n \in Limits : TRUE,
               isNew |-> FALSE, flood |-> FALSE]

NoRow == [visitor |-> <<>>]
Row == [visitor: VisitorIds, fingerprint: BOOLEAN, isNew: BOOLEAN,
        score: 0 .. 100, isBot: BOOLEAN, enriched: BOOLEAN]

Stored == {c \in Clicks : clickRow[c] # NoRow}

VisitorOf(q) == IF q.cookie # NoCookie THEN <<q.cookie>>
                ELSE Fingerprint(q.campaign, q.ip, q.agent)

TrafficInit ==
    /\ request \in [Clicks -> Request]
    /\ handling = [c \in Clicks |-> NotHandled]
    /\ clickRow = [c \in Clicks |-> NoRow]
    /\ arrivedAt = [c \in Clicks |-> {}]
    /\ createdAt = <<>>

RestingTraffic == request = [c \in Clicks |-> CHOOSE q \in Request : TRUE] /\ TrafficInit

Move(c, from, new) ==
    /\ handling[c].pc = from
    /\ handling' = [handling EXCEPT ![c] = new]

-----------------------------------------------------------------------------
(* recordClick, up to the settings: the campaign is found, the request     *)
(* parsed, and the flood limit answered by the settings.                   *)
Arrive(c) ==
    /\ \E n \in Limits :
         Move(c, "idle", [NotHandled EXCEPT !.pc = "velocity",
                             !.score = DetectBot(request[c].signals), !.limit = n])
    /\ arrivedAt' = [arrivedAt EXCEPT ![c] = Stored]
    /\ UNCHANGED <<request, clickRow, createdAt>>

SameAddress(c) == {d \in Stored : request[d].ip = request[c].ip}

(* Variant: the limit itself is still let through.                         *)
VelocityAboveLimit(c) ==
    LET h == handling[c]
        n == Cardinality(SameAddress(c))
        added == IF request[c].ip \in Public /\ n > VelocityLimit(h.limit)
                 THEN ClickVelocity(n, VelocityLimit(h.limit)) ELSE 0
    IN  Move(c, "velocity", [h EXCEPT !.pc = "visitor", !.flood = added > 0,
                                      !.score = Capped(h.score + added)])
    /\ UNCHANGED <<request, clickRow, arrivedAt, createdAt>>

(* evaluateVelocity, mergeBotSignals: no points for a request without a    *)
(* public address.                                                         *)
Velocity(c) ==
    LET h == handling[c]
        added == IF request[c].ip \in Public
                 THEN ClickVelocity(Cardinality(SameAddress(c)), VelocityLimit(h.limit)) ELSE 0
    IN  Move(c, "velocity", [h EXCEPT !.pc = "visitor", !.flood = added > 0,
                                      !.score = Capped(h.score + added)])
    /\ UNCHANGED <<request, clickRow, arrivedAt, createdAt>>

(* From the same address, if there is one, with the same user agent: one   *)
(* that is missing asks for none in particular.                            *)
FromSameBrowser(d, c) ==
    /\ request[c].ip # NoIp /\ request[d].ip = request[c].ip
    /\ request[c].agent \in {NoAgent, request[d].agent}

(* Variant: visits of any campaign count.                                  *)
KnowsAnywhere(d, c) ==
    \/ VisitorOf(request[d]) = VisitorOf(request[c])
    \/ FromSameBrowser(d, c)

(* A row of the same campaign by the same visitor or from the same browser.*)
Knows(d, c) ==
    /\ request[d].campaign = request[c].campaign
    /\ \/ VisitorOf(request[d]) = VisitorOf(request[c])
       \/ FromSameBrowser(d, c)

ResolveVisitor(c) ==
    /\ Move(c, "visitor", [handling[c] EXCEPT !.pc = "insert",
              !.isNew = ~ \E d \in Stored : Knows(d, c)])
    /\ UNCHANGED <<request, clickRow, arrivedAt, createdAt>>

Insert(c) ==
    /\ Move(c, "insert", [handling[c] EXCEPT !.pc = "lookup"])
    /\ clickRow' = [clickRow EXCEPT ![c] =
          [visitor     |-> VisitorOf(request[c]),
           fingerprint |-> request[c].cookie = NoCookie,
           isNew       |-> handling[c].isNew,
           score       |-> handling[c].score,
           isBot       |-> IsBotScore(handling[c].score),
           enriched    |-> FALSE]]
    /\ createdAt' = Append(createdAt, c)
    /\ UNCHANGED <<request, arrivedAt>>

-----------------------------------------------------------------------------
(* enrichClick: a lookup that may fail, and does not happen without an     *)
(* address or for most private ones, then a verdict computed anew from the *)
(* request and the lookup, written over the one of the redirect.           *)

Lookup(c) ==
    /\ \/ Move(c, "lookup", [handling[c] EXCEPT !.pc = "done"])
       \/ \E seen \in IpSignals :
            /\ request[c].ip # NoIp
            /\ Move(c, "lookup", [handling[c] EXCEPT !.pc = "enrich",
                                     !.score = DetectBot(request[c].signals \cup seen)])
    /\ UNCHANGED <<request, clickRow, arrivedAt, createdAt>>

Enrich(c) ==
    /\ Move(c, "enrich", [handling[c] EXCEPT !.pc = "done"])
    /\ clickRow' = [clickRow EXCEPT ![c].score = handling[c].score,
                                    ![c].isBot = IsBotScore(handling[c].score),
                                    ![c].enriched = TRUE]
    /\ UNCHANGED <<request, arrivedAt, createdAt>>

TrafficNext ==
    \E c \in Clicks : Arrive(c) \/ Velocity(c) \/ ResolveVisitor(c) \/ Insert(c)
                      \/ Lookup(c) \/ Enrich(c)

TrafficSpec == TrafficInit /\ [][TrafficNext]_trafficVars

-----------------------------------------------------------------------------
TrafficTypeOK ==
    /\ request \in [Clicks -> Request]
    /\ handling \in [Clicks -> Handling]
    /\ clickRow \in [Clicks -> Row \cup {NoRow}]
    /\ arrivedAt \in [Clicks -> SUBSET Clicks]
    /\ createdAt \in Seq(Clicks)

(* A flood is scored as one, and only a flood: the click of a public      *)
(* address that had reached its limit before the request came, whatever    *)
(* the browsers, carries at least the 30 points of the velocity check; a   *)
(* click carries such points only when that many rows of its public        *)
(* address were there when it was inserted, and every other one just what  *)
(* its own request shows.  Clicks under way at once do not see each other. *)
(* The enrichment writes a verdict of its own, without the points of the   *)
(* flood, but never a lower one than the request itself shows              *)
(* (clicks.service.ts evaluateVelocity, ip-enrichment.service.ts           *)
(* enrichClick).                                                           *)
FloodIsScored ==
    \A c \in Stored :
        LET from(rows) == {d \in rows : request[d].ip = request[c].ip}
            limit == VelocityLimit(handling[c].limit)
            public == request[c].ip \in Public
            shown == DetectBot(request[c].signals)
        IN  /\ public /\ Cardinality(from(arrivedAt[c])) >= limit /\ ~clickRow[c].enriched
                  => clickRow[c].score >= 30
            /\ handling[c].flood => public /\ Cardinality(from(Stored \ {c})) >= limit
            /\ ~handling[c].flood /\ ~clickRow[c].enriched => clickRow[c].score = shown
            /\ clickRow[c].score >= shown

(* The count of new visitors is right up to requests that overlap: a click *)
(* marked new has no row that knows it from before the request came, and   *)
(* a click marked as a return follows a row of its own campaign that knows *)
(* it (clicks.service.ts resolveVisitor).                                  *)
NewMeansFirst ==
    \A i \in DOMAIN createdAt :
        LET c == createdAt[i]
        IN  IF clickRow[c].isNew
            THEN \A d \in arrivedAt[c] : ~ (request[d].campaign = request[c].campaign
                                            /\ clickRow[d].visitor = clickRow[c].visitor)
            ELSE \E j \in 1 .. i - 1 :
                    /\ request[createdAt[j]].campaign = request[c].campaign
                    /\ \/ clickRow[createdAt[j]].visitor = clickRow[c].visitor
                       \/ FromSameBrowser(createdAt[j], c)
=============================================================================
