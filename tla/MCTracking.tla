----------------------------- MODULE MCTracking -----------------------------
(***************************************************************************)
(* The instance of Tracking that TLC checks.                               *)
(***************************************************************************)
EXTENDS Tracking

MCBaseSignals == {{}, {"short_user_agent"}}
MCIpSignals == {{}, {"hosting"}}
MCValue(key, place, name, what) ==
    [own |-> TRUE, key |-> key, label |-> FALSE, place |-> place, name |-> name, what |-> what]
MCBeside == {MCValue("phone", "alone", "sub1", "phone"), MCValue("ad_id", "scheme", "sub1", "email"),
             MCValue("sub1", "parameter", "email", "email")}
MCUrls == {"", "there"}
=============================================================================
