----------------------------- MODULE Operations -----------------------------
(***************************************************************************)
(* The administration side: the synchronisation of the spend, the          *)
(* catalogue, the sweeps that raise alerts, the reports, the figures the   *)
(* media-buying machine is given, and the console.  They share tables      *)
(* whose rows each reads as it finds them (any mapping, any spend, any     *)
(* health): what one writes is an input another takes at any value, so a   *)
(* behaviour exercises one part and the others rest.                       *)
(***************************************************************************)
EXTENDS PlatformSync, Catalogue, Alerts, Machine, Console

VARIABLE desk

operationsVars == <<desk, syncVars, catalogueVars, alertsVars, inquiry, hoursVars, consoleVars>>

Init ==
    \/ desk = "sync" /\ SyncInit /\ RestingMachine
       /\ RestingCatalogue /\ RestingAlerts /\ RestingReports /\ RestingConsole
    \/ desk = "catalogue" /\ CatalogueInit /\ RestingMachine
       /\ RestingSync /\ RestingAlerts /\ RestingReports /\ RestingConsole
    \/ desk = "alerts" /\ AlertsInit /\ RestingMachine
       /\ RestingSync /\ RestingCatalogue /\ RestingReports /\ RestingConsole
    \/ desk = "reports" /\ ReportsInit /\ RestingMachine
       /\ RestingSync /\ RestingCatalogue /\ RestingAlerts /\ RestingConsole
    \/ desk = "machine" /\ MachineInit
       /\ RestingSync /\ RestingCatalogue /\ RestingAlerts /\ RestingConsole
    \/ desk = "console" /\ ConsoleInit /\ RestingMachine
       /\ RestingSync /\ RestingCatalogue /\ RestingAlerts /\ RestingReports

Next ==
    /\ UNCHANGED desk
    /\ \/ desk = "sync" /\ SyncNext
          /\ UNCHANGED <<catalogueVars, alertsVars, inquiry, hoursVars, consoleVars>>
       \/ desk = "catalogue" /\ CatalogueNext
          /\ UNCHANGED <<syncVars, alertsVars, inquiry, hoursVars, consoleVars>>
       \/ desk = "alerts" /\ AlertsNext
          /\ UNCHANGED <<syncVars, catalogueVars, inquiry, hoursVars, consoleVars>>
       \/ desk = "reports" /\ ReportsNext
          /\ UNCHANGED <<syncVars, catalogueVars, alertsVars, hoursVars, consoleVars>>
       \/ desk = "machine" /\ MachineNext
          /\ UNCHANGED <<syncVars, catalogueVars, alertsVars, consoleVars>>
       \/ desk = "console" /\ ConsoleNext
          /\ UNCHANGED <<syncVars, catalogueVars, alertsVars, inquiry, hoursVars>>

Spec == Init /\ [][Next]_operationsVars

TypeOK ==
    /\ desk \in {"sync", "catalogue", "alerts", "reports", "machine", "console"}
    /\ SyncTypeOK /\ CatalogueTypeOK /\ AlertsTypeOK /\ ConsoleTypeOK
=============================================================================
