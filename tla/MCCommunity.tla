---------------------------- MODULE MCCommunity ----------------------------
(***************************************************************************)
(* A small instance of Community: six consumers in a ring, of which two    *)
(* share what they bought, and so does somebody who is not in the graph.   *)
(***************************************************************************)
EXTENDS Community

CONSTANTS m1, m2, m3, m4, m5, m6, x1, food, tech

SixMembers == <<m1, m2, m3, m4, m5, m6>>
OneStepDown == [v \in Neutral..TrendMax |-> v - 1]
=============================================================================
