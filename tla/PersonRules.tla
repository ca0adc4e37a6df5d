---------------------------- MODULE PersonRules ----------------------------
(***************************************************************************)
(* The pure functions of modules Persons and Contacts, asked one question  *)
(* each from a bounded set of inputs, and what they should answer.         *)
(***************************************************************************)
EXTENDS Persons, Contacts

CONSTANT Beside   \* values that may be in a payload beside another

VARIABLE affair

-----------------------------------------------------------------------------
(* Returns.  A number of each plan, written in every way it is written,    *)
(* and an address with its tag and without; the second number is French.   *)
Nine(name)  == [name |-> name, many |-> 9, first |-> 6]
Ten(name)   == [name |-> name, many |-> 10, first |-> 8]

WrittenAs(country, name) ==
    CASE country = "FR" -> {Number(None, "0", Nine(name)), Number("33", None, Nine(name)),
                            Number("33", "0", Nine(name)), Number("33", "(0)", Nine(name))}
      [] country = "IT" -> {Number(None, "0", Nine(name)), Number("39", "0", Nine(name))}
      [] country = "ES" -> {Number(None, None, Nine(name)), Number("34", None, Nine(name))}
      [] country = "US" -> {Number(None, None, Ten(name)), Number("1", None, Ten(name))}

Other == Number("33", None, Nine("b"))
Plain(home) == {c \in WrittenAs(home, "a") : ~(c.code = "33" /\ c.zero # None)}
AtMost(n, s) == {t \in SUBSET s : Cardinality(t) <= n}

ErasuresAt(home) ==
    [declared: AtMost(1, Plain(home) \cup {Other, Email("e", None), Email("e", "tag")}),
     country: {home, None}, group: {1}, found: AtMost(2, Plain(home) \cup {Other, Email("e", None)})]
ErasuresBefore(home) ==
    [declared: {{}}, country: {home}, group: {0, 2}, found: {{Other}}]
    \cup [declared: {{}}, country: {None}, group: {2}, found: {{}}]
    \cup [declared: {{Email("e", "tag")}}, country: {None}, group: {2}, found: {Plain(home)}]

ReturnsTo(home) ==
    [about: {"return"}, home: {home}, country: {home, None},
     erasures: {{e, b} : e \in ErasuresAt(home), b \in ErasuresBefore(home)},
     declared: AtMost(2, WrittenAs(home, "a") \cup {Other, Email("e", None)}) \ {{}},
     found: {{}, {Other}, {Email("e", "tag")}}]
Returns == UNION {ReturnsTo(home) : home \in DOMAIN Plans}

(* Whoever was erased and declares again the contact that he had declared  *)
(* is refused, however he writes it, as long as its country is known; and  *)
(* nobody is refused for a contact that was found in a text of somebody    *)
(* else: one side must have declared it, unless another contact sent with  *)
(* it, not another form of it, was erased in the same request              *)
(* (leads.service.ts isErasedPerson, lead-fields.ts formesDuNumero).       *)
ErasedStayAway ==
    affair.about = "return" =>
        LET list == UNION {Remember(e) : e \in affair.erasures}
            refused == IsErasedPerson(affair.declared, affair.found, affair.country, list)
            sent == affair.declared \cup affair.found
            known(c, country) == c.kind = "email" \/ c.code # None \/ affair.home \in {country, "US"}
            same(c, d) == \/ c.kind = "email" /\ d.kind = "email" /\ c.box = d.box
                          \/ c.kind = "phone" /\ d.kind = "phone" /\ c.digits.name = d.digits.name
            within(c, contacts) == \E d \in contacts : same(c, d)
            read(c, e) == known(c, affair.country) /\ \E d \in e.found : same(c, d) /\ known(d, e.country)
        IN  /\ \A e \in affair.erasures : \A c \in affair.declared, d \in e.declared :
                 same(c, d) /\ known(c, affair.country) /\ known(d, e.country) => refused
            /\ \A e \in affair.erasures : \A c \in affair.declared, d \in sent :
                 ~same(c, d) /\ read(c, e) /\ read(d, e) => refused
            /\ refused =>
                 \E e \in affair.erasures :
                    \/ \E c \in sent : within(c, e.declared)
                    \/ e.group = 0 /\ \E c \in affair.declared : within(c, e.found)
                    \/ \E c \in affair.declared, d \in sent :
                         ~same(c, d) /\ within(c, e.found) /\ within(d, e.found)

-----------------------------------------------------------------------------
(* Visits.  Ann asks; Bob is of her household, Eve of her office.  A visit *)
(* shows some of the details of its person and has a cookie, the shared    *)
(* computer's or another, or the fingerprint of a device.                  *)
People == [Ann |-> [first |-> "ann", last |-> "d", phone |-> "p", email |-> "ann@"],
           Bob |-> [first |-> "bob", last |-> "d", phone |-> "p", email |-> "bob@"],
           Eve |-> [first |-> "eve", last |-> "x", phone |-> "p", email |-> "eve@"]]

VisitOf(who, shows, visitor, fingerprint) ==
    [who |-> who, hasLead |-> shows # {},
     lead |-> [d \in Details |-> IF d \in shows THEN People[who][d] ELSE None],
     visitor |-> [id |-> visitor, hashed |-> 0], fingerprint |-> fingerprint]

Purged(visit) == [visit EXCEPT !.lead = [d \in Details |-> None], !.hasLead = TRUE]
NightPassed(visit) == [visit EXCEPT !.visitor = Pseudonym(@)]

Devices == {<<"shared", "no">>, <<"shared", "unknown">>, <<"fp", "yes">>, <<"fp", "unknown">>}

AskedVisits == {VisitOf("Ann", shows, d[1], d[2]) : shows \in SUBSET Details, d \in Devices \ {<<"fp", "yes">>}}
SeenVisits == {VisitOf(who, shows, d[1], d[2]) : who \in DOMAIN People, shows \in SUBSET Details,
                                                d \in Devices \cup {<<"other", "no">>}}
LaterVisits ==
    SeenVisits \cup {Purged(v) : v \in SeenVisits}
        \cup {NightPassed(v) : v \in {w \in SeenVisits : w.visitor.id # "other"}}
ThirdVisits ==
    {VisitOf("Ann", {"email", "last"}, "else", "no"), VisitOf("Bob", {"phone"}, "else", "no"),
     VisitOf("Eve", {"phone", "first"}, "else", "no"), VisitOf("Eve", {}, "else", "no")}
Households == [about: {"visits"}, asked: AskedVisits, second: LaterVisits, third: ThirdVisits]

(* An erasure takes the visits of one person: of somebody else's, at most  *)
(* one in the same browser that left nothing, or shows no more than what   *)
(* two people may share, and elsewhere one that shows two such details;    *)
(* elsewhere it takes nothing for one detail alone, nor where somebody     *)
(* else shows the number; it takes her own that repeat her address, or one *)
(* of her details in her own browser; and the pseudonym that a night puts  *)
(* on the visitor changes nothing (lead-sql.ts visitsOfPerson,             *)
(* leads.service.ts personVisits).                                         *)
ErasureTakesOnePerson ==
    affair.about = "visits" =>
        LET asked == affair.asked
            others == {affair.second, affair.third}
            taken == VisitsOfPerson(asked, others)
            atNight(a, b) == VisitsOfPerson(IF a THEN NightPassed(asked) ELSE asked,
                                            {IF b THEN NightPassed(affair.second) ELSE affair.second, affair.third})
            browser(c) == asked.visitor.id = "shared" /\ c.visitor.id = "shared"
            known(v) == v.fingerprint # "unknown"
        IN  /\ \A c \in taken : c.who # "Ann" =>
                 \/ ~c.hasLead /\ browser(c)
                 \/ browser(c) /\ (c.lead["phone"] # None \/ (c.who = "Bob" /\ c.lead["last"] # None))
                 \/ c.who = "Bob" /\ None \notin {c.lead["phone"], c.lead["last"]}
            /\ \A c \in taken : c.who # "Ann" =>
                 \A d \in {"first", "email"} : None \in {asked.lead[d], c.lead[d]}
            /\ \A c \in taken : ~browser(c) =>
                 /\ Cardinality({d \in Details : asked.lead[d] # None}) >= 2
                 /\ \A w \in others : asked.lead["phone"] # None /\ w.lead["phone"] # None
                        => \A d \in {"first", "email"} : None \in {asked.lead[d], w.lead[d]} \/ w.who = "Ann"
            /\ \A c \in others : c.who = "Ann" /\ known(asked) /\ known(c) =>
                 \/ c \in taken
                 \/ ~(browser(c) /\ (~c.hasLead \/ Repeats(asked, c) # {}))
                    /\ ~("email" \in Repeats(asked, c) /\ ~SharedContact(asked, others)
                         /\ \E d \in Details \ {"email"} : asked.lead[d] # None)
            /\ known(asked) /\ known(affair.second) /\ affair.second.visitor.hashed = 0 =>
                 \A a, b \in BOOLEAN :
                    {c.who : c \in atNight(a, b)} = {c.who : c \in taken}
                    /\ Cardinality(atNight(a, b)) = Cardinality(taken)

-----------------------------------------------------------------------------
(* Payloads: a value of any sort, a parameter under any sort of name, with *)
(* some of a few others beside it.                                         *)
Values ==
    {v \in [own: BOOLEAN, key: KeySorts, label: BOOLEAN, place: Places, name: KeySorts, what: Things] :
        v.place # "parameter" => v.name = "sub1"}
ASSUME RulesAssumption == Beside \subseteq Values
Payloads == {{v} \cup beside : v \in Values, beside \in SUBSET Beside}

(* Nothing that a reading would find is left of a payload by an erasure,   *)
(* and a purge leaves such only where the key says that it is never a      *)
(* person, and only what was read there, as sure; an erasure after the     *)
(* purges of many nights leaves what it would have left at once; what      *)
(* names nobody stays; nothing of somebody else's, and no consent, is      *)
(* declared; and of a URL nothing is left to read either                   *)
(* (lead-fields.ts detecter, caviarder, withoutContact, sanitizeUrlPii).   *)
WhatIsReadIsRemoved ==
    affair.about = "payload" =>
        LET values == affair.values
            read == ReadContacts(values)
            purged == Cleaned(values, "purged")
            erased == Cleaned(values, "erased")
            url(v, reason) == Detect(SanitizeUrl(v, reason), "", TRUE)
        IN  /\ ReadContacts(erased) = {}
            /\ \A c \in ReadContacts(purged) :
                 \E v \in values : v.key \in NeverPersonal /\ c \in Detect(v, v.key, v.own)
            /\ Cleaned(purged, "erased") = erased /\ Cleaned(purged, "purged") = purged
            /\ \A v \in values :
                 v.what = "words" /\ ~IsPersonalKey(v.key) /\ v.key \notin ContextKeys =>
                    v \in erased /\ v \in purged
            /\ (\A v \in values : v.key \in UnreadKeys) => read = {}
            /\ \A c \in read : c.declared =>
                 \E v \in values : v.key \notin UnreadKeys /\ (v.own \/ v.place = "scheme")
            /\ \A v \in values : v.place \in {"parameter", "path"} =>
                 /\ url(v, "erased") = {}
                 /\ v.place = "parameter" /\ v.name \notin NeverPersonal => url(v, "purged") = {}
                 /\ url(v, "purged") \subseteq Detect(v, "", TRUE)

-----------------------------------------------------------------------------
RulesInit == affair \in Returns \cup Households \cup [about: {"payload"}, values: Payloads]
RestingRules == affair = [about |-> "nothing"]
=============================================================================
