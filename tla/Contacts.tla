------------------------------ MODULE Contacts ------------------------------
(***************************************************************************)
(* What is read as a person in the data of an event, and what a cleaning   *)
(* leaves of it: pure functions.  A value stands under a key, in an object *)
(* that is the person's own or somebody else's; the key may be the text of *)
(* a label next to the value ({name: 'phone_number', value: ...}).  It     *)
(* holds one thing, alone or at a place of a longer text.                  *)
(***************************************************************************)
EXTENDS Integers

(* One key of each sort: of a contact, of a person otherwise, of consent   *)
(* (one that a cleaning drops, one that it does not know), of an           *)
(* identifier, of what is never a person, of both, of the context.         *)
KeySorts == {"phone", "email", "name", "consent", "tcpa", "gclid", "txid", "ad_id", "zip", "sub1"}
ContactKeys      == {"phone", "email"}
PersonalKeys     == {"name", "consent"}
UnreadKeys       == {"consent", "tcpa"}
IdentifierKeys   == {"gclid", "ad_id"}
NeverPersonal    == {"txid", "ad_id"}
ContextKeys      == {"zip"}

(* A number in a form nobody doubts, one of seven digits, a bank card, an  *)
(* address, a text that names nobody.                                      *)
Things == {"phone", "short", "card", "email", "words"}

(* Alone; after tel: or mailto:; in a sentence; as a parameter, in the     *)
(* path, or in a URL two URLs deep.                                        *)
Places == {"alone", "scheme", "sentence", "parameter", "path", "deep"}

-----------------------------------------------------------------------------
(* detecter: what the text of a value is read as, under a key.             *)

Found(what, declared) == {[what |-> what, declared |-> declared]}

(* Addresses: in the text, whatever its key; in a URL, only in its path.   *)
ReadEmail(v, key, own) ==
    IF v.what # "email" \/ v.place \in {"parameter", "deep"} THEN {}
    ELSE Found("email", v.place # "path" /\ ((own /\ key = "email") \/ v.place = "scheme"))

(* Numbers: in the whole text, but under an identifier or as the parameter *)
(* of one; a short one where the key, or tel:, says that it is a number.   *)
ReadNumber(v, key, own) ==
    LET declared == (own /\ key = "phone") \/ v.place = "scheme" IN
    IF key \in IdentifierKeys \/ (v.place = "parameter" /\ v.name \in IdentifierKeys) THEN {}
    ELSE IF v.what = "phone" \/ (v.what = "short" /\ declared) THEN Found(v.what, declared) ELSE {}

(* The parameters of a URL are read again, each under its own name.        *)
ReadParameter(v, key, own) ==
    IF v.place # "parameter" \/ key \in IdentifierKeys THEN {}
    ELSE LET inner == [v EXCEPT !.place = "alone"]
         IN  ReadEmail(inner, v.name, own) \cup ReadNumber(inner, v.name, own)

Detect(v, key, own) == ReadEmail(v, key, own) \cup ReadNumber(v, key, own) \cup ReadParameter(v, key, own)

(* lireContacts: consent is not read; what is declared once is declared.   *)
ReadContacts(values) ==
    LET all == UNION {Detect(v, v.key, v.own) : v \in {w \in values : w.key \notin UnreadKeys}}
    IN  {c \in all : c.declared \/ [c EXCEPT !.declared = TRUE] \notin all}

(* A URL that is not read to its end makes the reading partial.            *)
IsReadInFull(values) ==
    \A v \in values : v.place = "deep" /\ v.what # "words" => v.key \in IdentifierKeys \cup UnreadKeys

-----------------------------------------------------------------------------
(* caviarder: whatever is read goes, and the bank cards.                   *)

(* Variant: a cleaning does not look into the parameters of a URL.         *)
MaskedOutside(v, key) ==
    ReadEmail(v, key, TRUE) \cup ReadNumber(v, key, TRUE) # {}

Masked(v, key) ==
    \/ Detect(v, key, TRUE) # {}
    \/ /\ v.what = "card" /\ key \notin IdentifierKeys
       /\ v.place = "parameter" => v.name \notin IdentifierKeys

(* resteDe: a value that was nothing but the person is gone, with the tel: *)
(* of a number, not with the mailto: of an address.                        *)
LeftOf(v, key) ==
    IF ~Masked(v, key) THEN {v}
    ELSE IF v.place = "alone" \/ (v.place = "scheme" /\ v.what # "email") THEN {}
    ELSE {[v EXCEPT !.what = "words"]}

IsPersonalKey(key) == key \in ContactKeys \cup PersonalKeys

(* Variant: the label is judged like a value of its key, and goes.         *)
LabelRemoved(v) == [v EXCEPT !.label = FALSE, !.key = IF v.label THEN "sub1" ELSE v.key]

(* The label of a value stays: it says under which name the value is read. *)
LabelKept(v) == v

(* withoutContact, of one value.                                           *)
WithoutContact(v, reason) ==
    IF reason = "purged" /\ v.key \in NeverPersonal THEN {LabelKept(v)}
    ELSE IF IsPersonalKey(v.key) \/ (reason = "erased" /\ v.key \in ContextKeys) THEN {}
    ELSE {LabelKept(w) : w \in LeftOf(v, v.key)}

Cleaned(values, reason) == UNION {WithoutContact(v, reason) : v \in values}

-----------------------------------------------------------------------------
(* sanitizeUrlPii: a URL of its own, read under no key.  A purge looks     *)
(* into its parameters only, and not into those that are never a person;   *)
(* then a name that says it is one empties its parameter, as does a value  *)
(* of which nothing is left.                                               *)
SanitizeUrl(v, reason) ==
    LET touched == \/ reason = "erased"
                   \/ v.place = "parameter" /\ v.name \notin NeverPersonal
        byName == v.place = "parameter" /\ (IsPersonalKey(v.name) \/ v.name \in ContextKeys)
    IN  IF byName \/ (touched /\ Masked(v, "")) THEN [v EXCEPT !.what = "words"] ELSE v
=============================================================================
