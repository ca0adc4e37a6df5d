---------------------------- MODULE MCPostbacks ----------------------------
(* Small instances of Postbacks: up to two conversions and two networks.  A  *)
(* retry by hand runs wherever nothing else does, beside the first run or    *)
(* the sweep.                                                                *)
EXTENDS Postbacks

CONSTANTS meta, mediago, loop, sweep, sweep2

AllNetworks == [c \in Conversions |-> Networks]

TheRoles == [t \in Tasks |->
    CASE t = loop   -> {"first", "retry"}
      [] t = sweep  -> {"sweep", "retry"}
      [] t = sweep2 -> {"sweep"}]
=============================================================================
