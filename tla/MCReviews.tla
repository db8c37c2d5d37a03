----------------------------- MODULE MCReviews -----------------------------
(***************************************************************************)
(* A small instance of Reviews: one seller and the government.             *)
(***************************************************************************)
EXTENDS Reviews, TLC

CONSTANTS s1, gov

TwoAgents == <<s1, gov>>
Lists == s1 :> <<"evaluate_pricing">> @@ gov :> <<"compute_statistics">>
Cycles == [evaluate_pricing |-> 3, compute_statistics |-> 2]
Jitters == [evaluate_pricing |-> 2, compute_statistics |-> 0]
=============================================================================
