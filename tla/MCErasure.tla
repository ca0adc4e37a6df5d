----------------------------- MODULE MCErasure -----------------------------
(* Small instances of Erasure: Ann has two visits, from two browsers.        *)
EXTENDS Erasure

CONSTANTS v1, v2, e1, e2, form, form2, ask, hourly, rebuild, nightly, send

Everything == {"contact", "text", "rest"}
OnePerson == [v \in Visits |-> "Ann"]
TwoBrowsers == [v \in Visits |-> v]

FullPayload == {Everything}
BothPayloads == {Everything, {"rest"}}

AllRoles == [t \in Tasks |->
    CASE t \in {form, form2} -> {"create"}
      [] t = ask     -> {"erase"}
      [] t = hourly  -> {"resume"}
      [] t = rebuild -> {"reconcile", "create"}
      [] t = nightly -> {"purge", "resume"}
      [] t = send    -> {"create", "deliver"}]
=============================================================================
