----------------------------- MODULE Catalogue -----------------------------
(***************************************************************************)
(* What the operator administers: campaigns, their landers with the files, *)
(* networks with offers, traffic source profiles and tracking domains.     *)
(* Every request is a few statements in a row with no transaction round    *)
(* them, and two requests may interleave at each.  A campaign points at    *)
(* its lander by slug, in a column no foreign key guards.                  *)
(***************************************************************************)
EXTENDS Naturals, FiniteSets

CONSTANTS
    Landers, Shops,  \* lander rows, campaigns
    Slugs,
    AdminRequests,
    MaxAdminEvents   \* bound on requests begun and on restarts

NoLink == "none"
NoLander == "no lander"

ASSUME CatalogueAssumption ==
    /\ Landers # {} /\ Shops # {} /\ Slugs # {}
    /\ NoLink \notin Slugs /\ NoLander \notin Landers

VARIABLES
    lander,     \* [Landers -> [state, slug, shop, status, raw, built]]
    shop,       \* [Shops -> [state, link, profile, domain]]
    network,    \* an affiliate network: "seed", "edited" or "gone"
    offer,      \* its offer: "attached", "detached" or "gone"
    profiles,   \* [system: "seed" or "edited", custom: "present" or "gone"]
    domain,     \* "pending", "verified", "failed" or "gone"
    request,    \* [AdminRequests -> the request]
    adminEvents,
    loose,      \* history: campaigns whose link nobody answers for
    unbuilt,    \* history: landers whose files nobody answers for
    orphans     \* history: users of a parent deleted as unused

catalogueVars == <<lander, shop, network, offer, profiles, domain, request,
                   adminEvents, loose, unbuilt, orphans>>

SomeLander == CHOOSE l \in Landers : TRUE
SomeShop == CHOOSE c \in Shops : TRUE
SomeSlug == CHOOSE s \in Slugs : TRUE
NoRequest == [op |-> "none", pc |-> "idle", lander |-> NoLander, shop |-> SomeShop,
              slug |-> SomeSlug, undisturbed |-> TRUE]

CatalogueInit ==
    /\ lander = [l \in Landers |->
         IF l = SomeLander
         THEN [state |-> "present", slug |-> SomeSlug, shop |-> SomeShop, status |-> "ready",
               raw |-> "good", built |-> SomeShop]
         ELSE [state |-> "unborn", slug |-> SomeSlug, shop |-> SomeShop, status |-> "draft",
               raw |-> "none", built |-> "none"]]
    /\ shop = [c \in Shops |-> [state |-> "present",
                                link |-> IF c = SomeShop THEN SomeSlug ELSE NoLink,
                                profile |-> IF c = SomeShop THEN "custom" ELSE "system",
                                domain |-> "none"]]
    /\ network = "seed" /\ offer = "attached"
    /\ profiles = [system |-> "seed", custom |-> "present"]
    /\ domain = "pending"
    /\ request = [q \in AdminRequests |-> NoRequest]
    /\ adminEvents = 0
    /\ loose = {} /\ unbuilt = {} /\ orphans = {}

RestingCatalogue == CatalogueInit

Born(l) == lander[l].state = "present"
Open(c) == shop[c].state = "present"
TakenBy(s, l) == \E o \in Landers \ {l} : Born(o) /\ lander[o].slug = s
Doing(q, op, pc) == request[q].op = op /\ request[q].pc = pc
On(l) == {q \in AdminRequests : request[q].lander = l}

Then(q, pc) == request' = [request EXCEPT ![q].pc = pc]
End(q) == request' = [request EXCEPT ![q] = NoRequest]
SameOthers == UNCHANGED <<network, offer, profiles, domain, orphans, adminEvents>>

Tick1 == adminEvents < MaxAdminEvents /\ adminEvents' = adminEvents + 1

(* A request about a lander another request is working on: what comes of   *)
(* the link and the files is that of the later one, by statement.          *)
Begin(q, op, l, c, s) ==
    /\ request[q].pc = "idle" /\ Tick1
    /\ LET others == IF l = NoLander THEN {} ELSE On(l) IN
        /\ request' = [o \in AdminRequests |->
             IF o = q THEN [op |-> op, pc |-> "check", lander |-> l, shop |-> c, slug |-> s,
                            undisturbed |-> others = {}]
             ELSE [request[o] EXCEPT !.undisturbed = @ /\ o \notin others]]
        /\ IF others # {}
           THEN /\ loose' = loose \cup {c, lander[l].shop} \cup {request[o].shop : o \in others}
                /\ unbuilt' = unbuilt \cup {l}
           ELSE UNCHANGED <<loose, unbuilt>>
    /\ UNCHANGED <<lander, shop, network, offer, profiles, domain, orphans>>

-----------------------------------------------------------------------------
(* Landers: create and update write the row, point the campaign at it, and *)
(* build the files again.                                                  *)

CheckLander(q) ==
    LET l == request[q].lander
        c == request[q].shop
        s == request[q].slug
    IN
    /\ request[q].op \in {"create", "update"} /\ request[q].pc = "check"
    /\ IF Open(c) /\ ~TakenBy(s, l) /\ (request[q].op = "update" => Born(l))
       THEN Then(q, "row") ELSE End(q)
    /\ UNCHANGED <<lander, shop, loose, unbuilt>> /\ SameOthers

(* The unique index and the foreign key decide, whatever the check saw.    *)
(* A lander moved away leaves its slug with the campaign it belonged to.   *)
WriteRow(q) ==
    LET l == request[q].lander
        c == request[q].shop
        s == request[q].slug
        old == lander[l].shop
    IN
    /\ request[q].op \in {"create", "update"} /\ request[q].pc = "row"
    /\ IF ~Open(c) \/ TakenBy(s, l) \/ (request[q].op = "update" /\ ~Born(l))
       THEN End(q) /\ UNCHANGED <<lander, loose>>
       ELSE /\ lander' = [lander EXCEPT ![l].state = "present", ![l].slug = s, ![l].shop = c]
            /\ loose' = IF request[q].op = "update" /\ old # c /\ shop[old].link = lander[l].slug
                        THEN loose \cup {old} ELSE loose
            /\ Then(q, "link")
    /\ UNCHANGED <<shop, unbuilt>> /\ SameOthers

(* linkCampaign reads the lander again; the campaign it then writes may    *)
(* be gone, which ends the request.                                        *)
LinkRead(q) ==
    LET l == request[q].lander IN
    /\ request[q].op \in {"create", "update"} /\ request[q].pc = "link"
    /\ IF Born(l)
       THEN request' = [request EXCEPT ![q].pc = "linkWrite", ![q].shop = lander[l].shop,
                                       ![q].slug = lander[l].slug]
       ELSE Then(q, "process")
    /\ UNCHANGED <<lander, shop, loose, unbuilt>> /\ SameOthers

LinkWrite(q) ==
    LET c == request[q].shop IN
    /\ request[q].op \in {"create", "update"} /\ request[q].pc = "linkWrite"
    /\ IF Open(c)
       THEN /\ shop' = [shop EXCEPT ![c].link = request[q].slug]
            /\ loose' = IF request[q].undisturbed THEN loose \ {c} ELSE loose \cup {c}
            /\ IF request[q].op = "update" THEN Then(q, "process") ELSE End(q)
       ELSE End(q) /\ UNCHANGED <<shop, loose>>
    /\ UNCHANGED <<lander, unbuilt>> /\ SameOthers

(* processFiles: the raw files again, with the tag of the campaign the     *)
(* lander belongs to in the entry file.                                    *)
Built(l) ==
    CASE lander[l].raw = "none" -> lander[l].built
      [] lander[l].raw = "no entry" -> "untagged"
      [] OTHER -> lander[l].shop

Process(q) ==
    LET l == request[q].lander IN
    /\ request[q].op \in {"update", "upload", "deploy"} /\ request[q].pc = "process"
    /\ lander' = IF Born(l) THEN [lander EXCEPT ![l].built = Built(l)] ELSE lander
    /\ IF request[q].op = "upload" THEN Then(q, "ready") ELSE End(q)
    /\ unbuilt' = IF request[q].undisturbed THEN unbuilt \ {l} ELSE unbuilt \cup {l}
    /\ UNCHANGED <<shop, loose>> /\ SameOthers

(* uploadZip, uploadFiles: the old files are gone before the new ones are  *)
(* looked at; an upload without the entry file is refused, and stays.      *)
Upload(q) ==
    LET l == request[q].lander IN
    /\ Doing(q, "upload", "check")
    /\ IF ~Born(l) THEN End(q) /\ UNCHANGED lander
       ELSE \E files \in {"no entry", "good"} :
            /\ lander' = [lander EXCEPT ![l].raw = files]
            /\ IF files = "good" THEN Then(q, "process") ELSE End(q)
    /\ UNCHANGED <<shop, loose, unbuilt>> /\ SameOthers

MarkReady(q) ==
    LET l == request[q].lander IN
    /\ Doing(q, "upload", "ready")
    /\ lander' = IF Born(l) THEN [lander EXCEPT ![l].status = "ready"] ELSE lander
    /\ End(q)
    /\ UNCHANGED <<shop, loose, unbuilt>> /\ SameOthers

(* POST landers/:id/reprocess, and the bundle, which builds first.       *)
Deploy(q) ==
    /\ Doing(q, "deploy", "check")
    /\ IF Born(request[q].lander) THEN Then(q, "process") ELSE End(q)
    /\ UNCHANGED <<lander, shop, loose, unbuilt>> /\ SameOthers

-----------------------------------------------------------------------------
(* A lander is removed: unlinked if it is the one linked, then the row,    *)
(* then the files.                                                         *)

ReadLander(q) ==
    LET l == request[q].lander IN
    /\ Doing(q, "remove", "check")
    /\ IF Born(l)
       THEN request' = [request EXCEPT ![q].pc = "unlink", ![q].shop = lander[l].shop,
                                       ![q].slug = lander[l].slug]
       ELSE End(q)
    /\ UNCHANGED <<lander, shop, loose, unbuilt>> /\ SameOthers

(* Variant: landerId is taken for the lander's id.                         *)
UnlinkById(q) ==
    /\ Doing(q, "remove", "unlink")
    /\ Then(q, IF shop[request[q].shop].link = request[q].lander THEN "unlinkWrite" ELSE "delete")
    /\ UNCHANGED <<lander, shop, loose, unbuilt>> /\ SameOthers

Unlink(q) ==
    /\ Doing(q, "remove", "unlink")
    /\ Then(q, IF Open(request[q].shop) /\ shop[request[q].shop].link = request[q].slug
               THEN "unlinkWrite" ELSE "delete")
    /\ UNCHANGED <<lander, shop, loose, unbuilt>> /\ SameOthers

UnlinkWrite(q) ==
    LET c == request[q].shop IN
    /\ Doing(q, "remove", "unlinkWrite")
    /\ IF Open(c) THEN shop' = [shop EXCEPT ![c].link = NoLink] /\ Then(q, "delete")
       ELSE End(q) /\ UNCHANGED shop
    /\ UNCHANGED <<lander, loose, unbuilt>> /\ SameOthers

DeleteLander(q) ==
    LET l == request[q].lander IN
    /\ Doing(q, "remove", "delete")
    /\ lander' = IF Born(l)
                 THEN [lander EXCEPT ![l].state = "gone", ![l].raw = "none", ![l].built = "none"]
                 ELSE lander
    /\ End(q)
    /\ UNCHANGED <<shop, loose, unbuilt>> /\ SameOthers

LanderStep(q) ==
    \/ CheckLander(q) \/ WriteRow(q) \/ LinkRead(q) \/ LinkWrite(q) \/ Process(q)
    \/ Upload(q) \/ MarkReady(q) \/ Deploy(q)
    \/ ReadLander(q) \/ Unlink(q) \/ UnlinkWrite(q) \/ DeleteLander(q)

-----------------------------------------------------------------------------
(* Campaigns.                                                              *)

(* The landers go with it, their files stay on the disk.                   *)
RemoveCampaign(c) ==
    /\ Open(c) /\ Tick1
    /\ shop' = [shop EXCEPT ![c].state = "gone"]
    /\ lander' = [l \in Landers |-> IF Born(l) /\ lander[l].shop = c
                                    THEN [lander[l] EXCEPT !.state = "gone"] ELSE lander[l]]
    /\ UNCHANGED <<network, offer, profiles, domain, request, loose, unbuilt, orphans>>

(* PATCH campaigns/:id writes any lander slug the form carries.            *)
EditLink(c, s) ==
    /\ Open(c) /\ Tick1
    /\ shop' = [shop EXCEPT ![c].link = s]
    /\ loose' = loose \cup {c}
    /\ UNCHANGED <<lander, network, offer, profiles, domain, request, unbuilt, orphans>>

(* A profile or a domain is looked at, and connected by the next statement. *)
CheckAttach(q) ==
    /\ request[q].op \in {"attach profile", "attach domain"} /\ request[q].pc = "check"
    /\ IF Open(request[q].shop)
          /\ IF request[q].op = "attach profile" THEN profiles.custom = "present"
             ELSE domain = "verified"
       THEN Then(q, "write") ELSE End(q)
    /\ UNCHANGED <<lander, shop, loose, unbuilt>> /\ SameOthers

Disturbed(op) ==
    [q \in AdminRequests |-> IF request[q].op = op
                             THEN [request[q] EXCEPT !.undisturbed = FALSE] ELSE request[q]]

WriteAttach(q) ==
    LET c == request[q].shop IN
    /\ request[q].op \in {"attach profile", "attach domain"} /\ request[q].pc = "write"
    /\ IF request[q].op = "attach profile"
       THEN /\ request' = [Disturbed("remove profile") EXCEPT ![q] = NoRequest]
            /\ shop' = IF Open(c) /\ profiles.custom = "present"
                       THEN [shop EXCEPT ![c].profile = "custom"] ELSE shop
       ELSE /\ End(q)
            /\ shop' = IF Open(c) /\ domain # "gone"
                       THEN [shop EXCEPT ![c].domain = "own"] ELSE shop
    /\ UNCHANGED <<lander, loose, unbuilt>> /\ SameOthers

-----------------------------------------------------------------------------
(* Parents: a network with offers and a profile with campaigns are not     *)
(* deleted; the check and the deletion are two statements, and the foreign *)
(* keys set a user's column to null.  A domain is deleted unasked.         *)

Users(what) ==
    IF what = "network" THEN (IF offer = "attached" THEN {"offer"} ELSE {})
    ELSE {c \in Shops : Open(c) /\ shop[c].profile = "custom"}

Unused(op) ==
    IF op = "remove network" THEN network # "gone" /\ Users("network") = {}
    ELSE profiles.custom = "present" /\ Users("profile") = {}

CheckUnused(q) ==
    /\ request[q].op \in {"remove network", "remove profile"} /\ request[q].pc = "check"
    /\ IF Unused(request[q].op) THEN Then(q, "delete") ELSE End(q)
    /\ UNCHANGED <<lander, shop, loose, unbuilt>> /\ SameOthers

DeleteParent(q) ==
    /\ request[q].op \in {"remove network", "remove profile"} /\ request[q].pc = "delete"
    /\ End(q)
    /\ orphans' = IF request[q].undisturbed
                  THEN orphans \cup Users(IF request[q].op = "remove network"
                                          THEN "network" ELSE "profile")
                  ELSE orphans
    /\ IF request[q].op = "remove network"
       THEN /\ network' = "gone"
            /\ offer' = IF offer = "attached" THEN "detached" ELSE offer
            /\ UNCHANGED <<shop, profiles>>
       ELSE /\ profiles' = [profiles EXCEPT !.custom = "gone"]
            /\ shop' = [c \in Shops |-> IF shop[c].profile = "custom"
                                        THEN [shop[c] EXCEPT !.profile = "none"] ELSE shop[c]]
            /\ UNCHANGED <<network, offer>>
    /\ UNCHANGED <<lander, domain, adminEvents, loose, unbuilt>>

(* offers.update after assertNetworkExists, offers.remove.                 *)
CheckOffer(q) ==
    /\ Doing(q, "attach offer", "check")
    /\ IF offer # "gone" /\ network # "gone" THEN Then(q, "write") ELSE End(q)
    /\ UNCHANGED <<lander, shop, loose, unbuilt>> /\ SameOthers

WriteOffer(q) ==
    /\ Doing(q, "attach offer", "write")
    /\ offer' = IF offer # "gone" /\ network # "gone" THEN "attached" ELSE offer
    /\ request' = [Disturbed("remove network") EXCEPT ![q] = NoRequest]
    /\ UNCHANGED <<lander, shop, network, profiles, domain, adminEvents, loose, unbuilt, orphans>>

EditOffer ==
    /\ offer # "gone" /\ Tick1
    /\ offer' \in {"detached", "gone"} \ {offer}
    /\ UNCHANGED <<lander, shop, network, profiles, domain, request, loose, unbuilt, orphans>>

EditParents ==
    /\ Tick1
    /\ \/ network = "seed" /\ network' = "edited" /\ UNCHANGED <<profiles, domain, shop>>
       \/ profiles.system = "seed" /\ profiles' = [profiles EXCEPT !.system = "edited"]
          /\ UNCHANGED <<network, domain, shop>>
       \/ domain # "gone" /\ domain' \in {"verified", "failed"}   \* verify asks the DNS
          /\ UNCHANGED <<network, profiles, shop>>
       \/ domain # "gone" /\ domain' = "gone"
          /\ shop' = [c \in Shops |-> [shop[c] EXCEPT !.domain = "none"]]
          /\ UNCHANGED <<network, profiles>>
    /\ UNCHANGED <<lander, offer, request, loose, unbuilt, orphans>>

ParentStep(q) ==
    \/ CheckAttach(q) \/ WriteAttach(q) \/ CheckUnused(q) \/ DeleteParent(q)
    \/ CheckOffer(q) \/ WriteOffer(q)

(* The server starts again: requests are cut off, the system profiles are  *)
(* written over what was edited, a preset network is only put back, and a  *)
(* campaign without a profile gets the one of its source.                  *)
Boot ==
    /\ Tick1
    /\ request' = [q \in AdminRequests |-> NoRequest]
    /\ loose' = loose \cup {request[q].shop : q \in {o \in AdminRequests : request[o].lander # NoLander}}
                      \cup {lander[l].shop : l \in {m \in Landers : On(m) # {}}}
    /\ unbuilt' = unbuilt \cup {l \in Landers : On(l) # {}}
    /\ network' = IF network = "gone" THEN "seed" ELSE network
    /\ profiles' = [profiles EXCEPT !.system = "seed"]
    /\ shop' = [c \in Shops |-> IF shop[c].profile = "none"
                                THEN [shop[c] EXCEPT !.profile = "system"] ELSE shop[c]]
    /\ UNCHANGED <<lander, offer, domain, orphans>>

CatalogueNext ==
    \/ \E q \in AdminRequests :
        \/ \E l \in Landers :
            \/ \E c \in Shops, s \in Slugs :
                \/ lander[l].state = "unborn" /\ On(l) = {} /\ Begin(q, "create", l, c, s)
                \/ Born(l) /\ Begin(q, "update", l, c, s)
            \/ \E op \in {"remove", "upload", "deploy"} :
                Born(l) /\ Begin(q, op, l, lander[l].shop, lander[l].slug)
        \/ \E c \in Shops : \E op \in {"attach profile", "attach domain"} :
                Begin(q, op, NoLander, c, SomeSlug)
        \/ \E op \in {"remove network", "remove profile", "attach offer"} :
                Begin(q, op, NoLander, SomeShop, SomeSlug)
        \/ LanderStep(q) \/ ParentStep(q)
    \/ \E c \in Shops : RemoveCampaign(c) \/ \E s \in Slugs : EditLink(c, s)
    \/ EditOffer \/ EditParents \/ Boot

-----------------------------------------------------------------------------
CatalogueTypeOK ==
    /\ \A l \in Landers :
        /\ lander[l].state \in {"unborn", "present", "gone"}
        /\ lander[l].slug \in Slugs /\ lander[l].shop \in Shops
        /\ lander[l].status \in {"draft", "ready"}
        /\ lander[l].raw \in {"none", "no entry", "good"}
        /\ lander[l].built \in {"none", "untagged"} \cup Shops
    /\ \A c \in Shops :
        /\ shop[c].link \in Slugs \cup {NoLink}
        /\ shop[c].profile \in {"none", "custom", "system"}
    /\ loose \subseteq Shops /\ unbuilt \subseteq Landers
    /\ adminEvents \in 0 .. MaxAdminEvents

Idle(l) == On(l) = {}

(* A campaign's landerId is empty or the slug of a lander of its own, when *)
(* no request about a lander is under way.  It dangles only where the code *)
(* lets it: a lander moved to another campaign, a slug written by hand,    *)
(* two requests about one lander at once, a crash in the middle of one     *)
(* (landers.service.ts linkCampaign, unlinkCampaign).  The built files of  *)
(* a lander carry the tag of its own campaign, so that its visits are not  *)
(* counted for another.  And a network with offers or a profile with       *)
(* campaigns is not deleted, unless one was attached after the check.      *)
LinksAreLive ==
    /\ (\A l \in Landers : Idle(l)) =>
        \A c \in Shops \ loose : Open(c) /\ shop[c].link # NoLink =>
            \E l \in Landers : Born(l) /\ lander[l].shop = c /\ lander[l].slug = shop[c].link
    /\ \A l \in Landers \ unbuilt :
        Idle(l) /\ Born(l) => lander[l].built \in {"none", "untagged", lander[l].shop}
    /\ orphans = {}
=============================================================================
