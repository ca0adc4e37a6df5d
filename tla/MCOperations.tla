---------------------------- MODULE MCOperations ----------------------------
(***************************************************************************)
(* The instance of Operations that TLC checks: two accounts, of which one  *)
(* has two campaigns and one of those is found by its name.                *)
(***************************************************************************)
EXTENDS Operations, TLC

MCOwnerOf(e) == IF e = 3 THEN "a2" ELSE "a1"
MCNameMatch(e) == IF e = 2 THEN "t1" ELSE Unmapped

\* Runs of a job are the same to each other.
Interchangeable == Permutations(SyncRuns) \cup Permutations(Refreshes)

MCTally(visits, converting, bots) == [visits |-> visits, converting |-> converting, bots |-> bots]
MCTallies == {MCTally(0, 0, 0), MCTally(10, 0, 4), MCTally(15, 3, 6), MCTally(30, 1, 3), MCTally(30, 4, 0)}

MCRules ==
    {[metric |-> "spendNoEvents", scope |-> "site", operator |-> "gte"],
     [metric |-> "spendNoEvents", scope |-> "campaign", operator |-> "gte"],
     [metric |-> "botPct", scope |-> "publisher", operator |-> "lt"],
     [metric |-> "roi", scope |-> "campaign", operator |-> "lt"],
     [metric |-> "cpa", scope |-> "campaign", operator |-> "gt"],
     [metric |-> "budgetPace", scope |-> "campaign", operator |-> "lte"]}
=============================================================================
