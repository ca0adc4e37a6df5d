---------------------------- MODULE TrackerScript ----------------------------
(***************************************************************************)
(* tracker.js in one browser: pages of one landing site, open in several   *)
(* tabs, share the visit cookie and the local storage; each page has a     *)
(* queue of its own for the events that happen before the visit is known.  *)
(* The server registers a visit for each request that reaches it.          *)
(***************************************************************************)
EXTENDS Integers, Sequences

CONSTANTS
    Tabs,
    AdClicks,     \* click ids of the ad platforms, one per billed click
    QueueLimit,   \* events a page keeps while it has no visit
    MaxVisits,    \* bound on the visits
    MaxLoads      \* bound on the pages opened

ASSUME ScriptAssumption ==
    {QueueLimit, MaxVisits, MaxLoads} \subseteq Nat

NoClick == "no ad click"
NoVisit == 0
ASSUME NoClickAssumption == NoClick \notin AdClicks

VARIABLES
    cid,      \* the cookie tk-cid: the number of a visit, NoVisit without one
    xid,      \* local storage tk-xid: the ad click last registered
    tab,      \* [Tabs -> Page]
    visits,   \* the server: the ad click each visit was registered with
    viewed,   \* local storage tk-vc-sent: visits whose view was sent
    sent,     \* the server: the visits an event was sent for
    loads

scriptVars == <<cid, xid, tab, visits, viewed, sent, loads>>

Links == AdClicks \cup {NoClick}
(* asked: the registration of the page and, once registered, its visit;    *)
(* bereft: the visit was cleared, or expired, after the page was opened.   *)
Page == [open: BOOLEAN, direct: BOOLEAN, click: Links,
         asked: {"no", "sent", "registered", "lost"}, visit: 0 .. MaxVisits,
         queue: 0 .. QueueLimit, bereft: BOOLEAN]
Closed == [open |-> FALSE, direct |-> TRUE, click |-> NoClick, asked |-> "no",
           visit |-> NoVisit, queue |-> 0, bereft |-> FALSE]
Opened(direct, click, asked) ==
    [open |-> TRUE, direct |-> direct, click |-> click, asked |-> asked,
     visit |-> NoVisit, queue |-> 0, bereft |-> FALSE]
(* A page that its registration has brought this far.                      *)
Moved(p, asked, visit, queue) ==
    [open |-> p.open, direct |-> p.direct, click |-> p.click, asked |-> asked,
     visit |-> visit, queue |-> queue, bereft |-> p.bereft]
Waiting(p) == p.asked \in {"sent", "registered"}

ScriptInit ==
    /\ cid = NoVisit /\ xid = NoClick
    /\ tab = [t \in Tabs |-> Closed]
    /\ visits = <<>> /\ viewed = {} /\ sent = {} /\ loads = 0

-----------------------------------------------------------------------------
(* clearCid, seen by the pages that are open.                              *)
Bereft(tabs) == [t \in DOMAIN tabs |->
                    [tabs[t] EXCEPT !.bereft = @ \/ tabs[t].open]]

Emit(visit) == sent' = sent \cup {visit}

(* maybeAutoViewContent of a source that wants it: once for each visit.    *)
AutoView(visit) ==
    IF visit \in viewed THEN UNCHANGED <<viewed, sent>>
    ELSE viewed' = viewed \cup {visit} /\ Emit(visit)

(* Variant: a visit that is there is kept, whatever click brought the page *)
(* (the merge of 05/10/2026).                                              *)
LoadMerges(t, direct, click, given, source) ==
    LET kept == IF given # NoVisit THEN given ELSE cid
        ask == direct /\ kept = NoVisit
        page == Opened(direct, click, IF ask THEN "sent" ELSE "no")
    IN  /\ loads < MaxLoads
        /\ loads' = loads + 1
        /\ cid' = kept
        /\ tab' = [tab EXCEPT ![t] = page]
        /\ IF kept # NoVisit /\ source THEN AutoView(kept)
           ELSE UNCHANGED <<viewed, sent>>
        /\ UNCHANGED <<xid, visits>>

(* init: the visit named by the address is taken first; a new ad click     *)
(* clears the visit that is there; without a visit one is asked for.       *)
Load(t, direct, click, given, source) ==
    LET old == IF given # NoVisit THEN given ELSE cid
        cleared == direct /\ click # NoClick /\ old # NoVisit /\ click # xid
        kept == IF cleared THEN NoVisit ELSE old
        ask == direct /\ kept = NoVisit
        page == Opened(direct, click, IF ask THEN "sent" ELSE "no")
    IN  /\ loads < MaxLoads
        /\ loads' = loads + 1
        /\ cid' = kept
        /\ tab' = [(IF cleared THEN Bereft(tab) ELSE tab) EXCEPT ![t] = page]
        /\ IF kept # NoVisit /\ source THEN AutoView(kept)
           ELSE UNCHANGED <<viewed, sent>>
        /\ UNCHANGED <<xid, visits>>

(* registerVisit records a click for every request that reaches the        *)
(* server.  Not every request does, and not every answer comes back.       *)
RegisterVisit(t) ==
    /\ tab[t].asked = "sent" /\ Len(visits) < MaxVisits
    /\ visits' = Append(visits, tab[t].click)
    /\ tab' = [tab EXCEPT ![t] = Moved(@, "registered", Len(visits) + 1, @.queue)]
    /\ UNCHANGED <<cid, xid, viewed, sent, loads>>

(* A redirect of the tracker registers a visit as well, and names it in    *)
(* the address of the page it sends the visitor to.                        *)
Redirect(click) ==
    /\ Len(visits) < MaxVisits
    /\ visits' = Append(visits, click)
    /\ UNCHANGED <<cid, xid, tab, viewed, sent, loads>>

VisitLost(t) ==
    /\ Waiting(tab[t])
    /\ tab' = [tab EXCEPT ![t].asked = "lost"]
    /\ UNCHANGED <<cid, xid, visits, viewed, sent, loads>>

(* Variant: the queue is not flushed.                                      *)
AnswerKeepsQueue(t, source) ==
    LET page == tab[t]
    IN  /\ page.asked = "registered"
        /\ xid' = IF page.click # NoClick THEN page.click ELSE xid
        /\ cid' = page.visit
        /\ tab' = [tab EXCEPT ![t].asked = "no"]
        /\ IF source THEN AutoView(page.visit)
           ELSE UNCHANGED <<viewed, sent>>
        /\ UNCHANGED <<visits, loads>>

(* The answer: the ad click is noted, the visit saved, whatever visit has  *)
(* been saved meanwhile, and the queue of this page sent under it.         *)
Answer(t, source) ==
    LET page == tab[t]
    IN  /\ page.asked = "registered"
        /\ xid' = IF page.click # NoClick THEN page.click ELSE xid
        /\ cid' = page.visit
        /\ tab' = [tab EXCEPT ![t] = Moved(page, "no", page.visit, 0)]
        /\ IF source THEN AutoView(page.visit)
           ELSE IF page.queue > 0 THEN Emit(page.visit) /\ UNCHANGED viewed
           ELSE UNCHANGED <<viewed, sent>>
        /\ UNCHANGED <<visits, loads>>

(* trackConversion, trackStep: through whenCidReady.  A full queue drops   *)
(* the event.                                                              *)
Event(t) ==
    /\ tab[t].open
    /\ IF cid # NoVisit THEN Emit(cid) /\ UNCHANGED tab
       ELSE /\ tab[t].queue < QueueLimit
            /\ tab' = [tab EXCEPT ![t].queue = @ + 1]
            /\ UNCHANGED sent
    /\ UNCHANGED <<cid, xid, visits, viewed, loads>>

(* After a day the cookie and the stored copy expire together.             *)
Expire ==
    /\ cid # NoVisit
    /\ cid' = NoVisit
    /\ tab' = Bereft(tab)
    /\ UNCHANGED <<xid, visits, viewed, sent, loads>>

ScriptNext ==
    \/ \E t \in Tabs :
         \/ \E direct, source \in BOOLEAN, click \in Links, given \in 0 .. Len(visits) :
               Load(t, direct, click, given, source)
         \/ RegisterVisit(t) \/ VisitLost(t) \/ Event(t)
         \/ \E source \in BOOLEAN : Answer(t, source)
    \/ \E click \in Links : Redirect(click)
    \/ Expire

ScriptSpec == ScriptInit /\ [][ScriptNext]_scriptVars

-----------------------------------------------------------------------------
ScriptTypeOK ==
    /\ visits \in Seq(Links) /\ Len(visits) <= MaxVisits
    /\ cid \in 0 .. Len(visits)
    /\ xid \in Links
    /\ tab \in [Tabs -> Page]
    /\ viewed \subseteq 1 .. Len(visits)
    /\ sent \subseteq 1 .. Len(visits)
    /\ loads \in 0 .. MaxLoads

(* Every billed ad click that reached a page in direct mode has a visit of *)
(* its own on the server, unless its request is under way or was lost: a   *)
(* cookie left by an earlier click never swallows it, in whatever order    *)
(* tabs load and answers arrive (tracker-script.service.ts adClickId,      *)
(* init).                                                                  *)
BilledClicksHaveVisits ==
    \A t \in Tabs :
        tab[t].direct /\ tab[t].click # NoClick /\ tab[t].asked = "no"
            => \E k \in DOMAIN visits : visits[k] = tab[t].click

(* An event that waits in a page waits for something: the page's own       *)
(* registration is under way, or was lost, or the visit was taken from     *)
(* under the page, or the page is one that never registers                 *)
(* (tracker-script.service.ts whenCidReady, flushPending).                 *)
QueuesWaitForAVisit ==
    \A t \in Tabs :
        tab[t].queue > 0 => \/ Waiting(tab[t]) \/ tab[t].asked = "lost"
                            \/ tab[t].bereft \/ ~tab[t].direct
=============================================================================
