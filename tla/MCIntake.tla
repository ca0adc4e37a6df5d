------------------------------ MODULE MCIntake ------------------------------
(* Small instances of Intake: a visit from an ad and one from a partner.     *)
EXTENDS Intake

CONSTANTS ad, partner, a, b, hourly

Form(contact, consent) == [contact |-> contact, consent |-> consent, test |-> FALSE]
Trial == [contact |-> TRUE, consent |-> TRUE, test |-> TRUE]

\* A quiz step that shows a consent, a bare contact, a contact with its consent, and
\* a partner's test.
FormPayloads == {Form(FALSE, TRUE), Form(TRUE, FALSE), Form(TRUE, TRUE)}
AllPayloads == FormPayloads \cup {Trial}

TheRoles == [t \in Tasks |->
    IF t = hourly THEN {"reconcile"} ELSE {"browser", "buyer", "partner"}]
=============================================================================
