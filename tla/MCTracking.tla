----------------------------- MODULE MCTracking -----------------------------
(***************************************************************************)
(* A small instance of Tracking: the transport agent and one agent after   *)
(* it, with actions of both a cycle longer than their jitter and one that  *)
(* is not.                                                                 *)
(***************************************************************************)
EXTENDS Tracking, TLC

CONSTANTS tr, s1

TwoAgents == <<tr, s1>>
Lists == tr :> <<"update_tracking">>
    @@ s1 :> <<"evaluate_pricing", "evaluate_inventory">>
Cycles == [update_tracking |-> 1, evaluate_pricing |-> 3, evaluate_inventory |-> 2]
Jitters == [update_tracking |-> 1, evaluate_pricing |-> 1, evaluate_inventory |-> 0]
=============================================================================
