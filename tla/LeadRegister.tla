---------------------------- MODULE LeadRegister ----------------------------
(***************************************************************************)
(* What the leads table promises of one visit, whatever job writes it: a    *)
(* row is born with a contact, loses it once - to retention or to an        *)
(* erasure - and never shows one again; an erased row stays erased.         *)
(***************************************************************************)
CONSTANT Visits

VARIABLES
    row,    \* [Visits -> State]
    shown   \* visits whose row shows a contact

State == {"none", "live", "purged", "erased"}

Init == row = [v \in Visits |-> "none"] /\ shown = {}

Store(v) ==
    /\ row[v] = "none"
    /\ row' = [row EXCEPT ![v] = "live"]
    /\ shown' = shown \cup {v}

\* Retention works by batches, and never on an erased row.
Retain(S) ==
    /\ \A v \in S : row[v] = "live"
    /\ row' = [v \in Visits |-> IF v \in S THEN "purged" ELSE row[v]]
    /\ shown' = shown \ S

\* An erasure closes the row of a visit, also one that never had a lead.
Forget(v) ==
    /\ row' = [row EXCEPT ![v] = "erased"]
    /\ shown' = shown \ {v}

Next ==
    \/ \E v \in Visits : Store(v) \/ Forget(v)
    \/ \E S \in SUBSET Visits : Retain(S)

Spec == Init /\ [][Next]_<<row, shown>>
=============================================================================
