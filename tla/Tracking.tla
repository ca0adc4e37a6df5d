------------------------------ MODULE Tracking ------------------------------
(***************************************************************************)
(* The tracking side of the server and of the pages it tracks, and the     *)
(* rules by which it tells the persons who left a contact there apart.     *)
(* Its parts meet in values only, and each takes what another may tell it  *)
(* as any value that could be told (the settings a click reads, the visit  *)
(* a redirect names), so an interleaving of two parts shows nothing that   *)
(* one of them alone does not: a behaviour exercises one part.             *)
(***************************************************************************)
EXTENDS Caches, Traffic, Rotation, TrackerScript, Decisions, PersonRules

VARIABLE part

trackingVars == <<cachesVars, trafficVars, rotationVars, scriptVars, question, affair, part>>

Init ==
    \/ part = "caches" /\ CachesInit
       /\ RestingTraffic /\ RestingRotation /\ ScriptInit /\ RestingDecisions /\ RestingRules
    \/ part = "traffic" /\ TrafficInit
       /\ RestingCaches /\ RestingRotation /\ ScriptInit /\ RestingDecisions /\ RestingRules
    \/ part = "rotation" /\ RotationInit
       /\ RestingCaches /\ RestingTraffic /\ ScriptInit /\ RestingDecisions /\ RestingRules
    \/ part = "script" /\ ScriptInit
       /\ RestingCaches /\ RestingTraffic /\ RestingRotation /\ RestingDecisions /\ RestingRules
    \/ part = "decisions" /\ DecisionsInit
       /\ RestingCaches /\ RestingTraffic /\ RestingRotation /\ ScriptInit /\ RestingRules
    \/ part = "rules" /\ RulesInit /\ RestingDecisions
       /\ RestingCaches /\ RestingTraffic /\ RestingRotation /\ ScriptInit

Next ==
    /\ UNCHANGED <<part, question, affair>>
    /\ \/ part = "caches" /\ CachesNext
          /\ UNCHANGED <<trafficVars, rotationVars, scriptVars>>
       \/ part = "traffic" /\ TrafficNext
          /\ UNCHANGED <<cachesVars, rotationVars, scriptVars>>
       \/ part = "rotation" /\ RotationNext
          /\ UNCHANGED <<cachesVars, trafficVars, scriptVars>>
       \/ part = "script" /\ ScriptNext
          /\ UNCHANGED <<cachesVars, trafficVars, rotationVars>>

Spec == Init /\ [][Next]_trackingVars

TypeOK ==
    /\ part \in {"caches", "traffic", "rotation", "script", "decisions", "rules"}
    /\ CachesTypeOK /\ TrafficTypeOK /\ RotationTypeOK /\ ScriptTypeOK
=============================================================================
