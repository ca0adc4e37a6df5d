------------------------------ MODULE Persons ------------------------------
(***************************************************************************)
(* Who is the same person: pure functions.  The forms of a telephone       *)
(* number, the list that keeps an erased person from coming back, and the  *)
(* visits an erasure takes with the one it names.                          *)
(***************************************************************************)
EXTENDS Integers, FiniteSets

None == ""

-----------------------------------------------------------------------------
(* A number is what is written before the number itself, a calling code    *)
(* and a 0 (in parentheses or not), and then its digits, told apart by     *)
(* name, by how many they are and by the first of them.                    *)
Number(code, zero, digits) == [kind |-> "phone", code |-> code, zero |-> zero, digits |-> digits]

(* TRONC_ZERO and PLANS_NATIONAUX, one country of each sort: a 0 that is   *)
(* not dialled from abroad, a 0 that belongs to the number, no 0, and the  *)
(* plan whose numbers are stored without their code.                       *)
CodesThatDropZero == {"33"}
Plans == [FR |-> [code |-> "33", trunk |-> TRUE,  from |-> 9, to |-> 9],
          IT |-> [code |-> "39", trunk |-> FALSE, from |-> 6, to |-> 11],
          ES |-> [code |-> "34", trunk |-> FALSE, from |-> 9, to |-> 9],
          US |-> [code |-> "1",  trunk |-> FALSE, from |-> 10, to |-> 10]]

(* A 0 in parentheses goes when a code is written before it, a plain one   *)
(* when the code is of a country that does not dial it.                    *)
NormalizePhone(written) ==
    Number(IF written.code = "1" THEN None ELSE written.code,
           IF \/ written.zero = None
              \/ written.code # None /\ (written.zero = "(0)" \/ written.code \in CodesThatDropZero)
           THEN None ELSE "0",
           written.digits)

(* premiers: what a national number without a trunk 0 may begin with.      *)
MayBegin(country, n) ==
    CASE country = "IT" -> n.zero = "0"
      [] country = "ES" -> n.zero = None /\ n.digits.first \in 6..9
      [] OTHER -> FALSE

Length(n) == n.digits.many + (IF n.zero = "0" THEN 1 ELSE 0)

(* Variant: the 0 stays where it is not dialled.                           *)
KeepingTheZero(n, country) ==
    IF n.code # None \/ country \notin DOMAIN Plans THEN n ELSE [n EXCEPT !.code = Plans[country].code]

(* enFormeInternationale, of a number that says no code.                   *)
International(n, country) ==
    IF n.code # None \/ country \notin DOMAIN Plans \ {"US"} THEN n
    ELSE LET plan == Plans[country]
             national == IF plan.trunk THEN [n EXCEPT !.zero = None] ELSE n
             converts == IF plan.trunk THEN n.zero = "0" ELSE MayBegin(country, n)
         IN  IF converts /\ Length(national) \in plan.from..plan.to
             THEN [national EXCEPT !.code = plan.code] ELSE n

FormsOf(written, country) ==
    LET n == NormalizePhone(written) IN {n, International(n, country)}

SameNumberSomewhere(a, b) ==
    \/ a = b
    \/ \E country \in DOMAIN Plans : International(a, country) = International(b, country)

-----------------------------------------------------------------------------
(* The suppression list.  An e-mail address is compared without its tag.   *)
Email(box, tag) == [kind |-> "email", box |-> box, tag |-> tag]

(* A fingerprint, with the contact that made it.                           *)
Prints(c, country) ==
    IF c.kind = "email" THEN {[of |-> Email(c.box, None), contact |-> Email(c.box, None)]}
    ELSE {[of |-> n, contact |-> NormalizePhone(c)] : n \in FormsOf(c, country)}

PrintsOf(contacts, country) == UNION {Prints(c, country) : c \in contacts}
Hashes(prints) == {p.of : p \in prints}

(* rememberErased: one group per erasure; what was declared is not also    *)
(* written down as found.  Group 0 is of the erasures before groups.       *)
Remember(e) ==
    LET declared == Hashes(PrintsOf(e.declared, e.country))
        found == Hashes(PrintsOf(e.found, e.country)) \ declared
    IN  [hash: declared, declared: {TRUE}, group: {e.group}]
            \cup [hash: found, declared: {FALSE}, group: {e.group}]

(* Variant: any other fingerprint of the same erasure is a second signal.  *)
AnotherPrint(prints, a, b) == a # b

(* autreContact: of another contact that was sent, not another form of it. *)
AnotherContact(prints, a, b) ==
    LET same(x, y) == x = y \/ (x.kind = "phone" /\ y.kind = "phone" /\ SameNumberSomewhere(x, y))
    IN  \E p, q \in prints : p.of = a /\ q.of = b /\ a # b /\ ~same(p.contact, q.contact)

(* A number found in a text on one side only refuses with a second signal. *)
IsErasedPerson(declared, found, country, list) ==
    LET told == PrintsOf(declared, country)
        prints == told \cup PrintsOf(found, country)
        rows == {r \in list : r.hash \in Hashes(prints)}
    IN  \E r \in rows :
            IF r.hash \notin Hashes(told) THEN r.declared
            ELSE \/ r.declared \/ r.group = 0
                 \/ \E m \in rows : m.group = r.group /\ AnotherContact(prints, m.hash, r.hash)

-----------------------------------------------------------------------------
(* visitsOfPerson and personVisits.  A visit has its visitor, whether that *)
(* is the fingerprint of a device (visits of before the column do not say) *)
(* and perhaps a lead row, whose fields may be empty.                      *)
Details == {"first", "last", "phone", "email"}

Pseudonym(visitor) == [visitor EXCEPT !.hashed = @ + 1]

IsFingerprint(visit) ==
    IF visit.fingerprint = "unknown" THEN visit.visitor.id = "fp" \/ visit.visitor.hashed > 0
                                     ELSE visit.fingerprint = "yes"

SameVisitor(asked, c) ==
    \/ c.visitor = asked.visitor
    \/ c.visitor = Pseudonym(asked.visitor)
    \/ Pseudonym(c.visitor) = asked.visitor

ByVisitor(asked, c) == SameVisitor(asked, c) /\ ~IsFingerprint(asked) /\ ~IsFingerprint(c)

Repeats(asked, c) == {d \in Details : asked.lead[d] # None /\ c.lead[d] = asked.lead[d]}
Contradicts(asked, c) ==
    \E d \in Details : None \notin {asked.lead[d], c.lead[d]} /\ c.lead[d] # asked.lead[d]
ByContact(asked, c) == Repeats(asked, c) \cap {"phone", "email"} # {}

PersonCandidates(asked, others) == {c \in others : SameVisitor(asked, c) \/ ByContact(asked, c)}

(* Somebody else carries the contact: an office, a household, a made up    *)
(* number.                                                                 *)
SharedContact(asked, others) ==
    \E c \in PersonCandidates(asked, others) : Contradicts(asked, c) /\ ByContact(asked, c)

(* A name counts for one.                                                  *)
CanWidenByContact(asked) ==
    LET given(ds) == \E d \in ds : asked.lead[d] # None
    IN  Cardinality({ds \in {{"first", "last"}, {"phone"}, {"email"}} : given(ds)}) >= 2

(* Variant: the browser alone links two visits.                            *)
LinkedByBrowser(asked, c) == ByVisitor(asked, c) /\ ~Contradicts(asked, c)

LinkedByVisitor(asked, c) ==
    /\ ByVisitor(asked, c) /\ ~Contradicts(asked, c)
    /\ ~c.hasLead \/ Repeats(asked, c) # {}

LinkedByContact(asked, c, others) ==
    /\ ByContact(asked, c) /\ ~Contradicts(asked, c)
    /\ ~SharedContact(asked, others)
    /\ CanWidenByContact(asked)
    /\ Cardinality(Repeats(asked, c)) >= 2 \/ "email" \in Repeats(asked, c)

(* The visits taken with the one that was asked for.                       *)
VisitsOfPerson(asked, others) ==
    {c \in PersonCandidates(asked, others) :
        LinkedByVisitor(asked, c) \/ LinkedByContact(asked, c, others)}
=============================================================================
