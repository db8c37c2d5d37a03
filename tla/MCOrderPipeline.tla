-------------------------- MODULE MCOrderPipeline --------------------------
(***************************************************************************)
(* Small instances of OrderPipeline.                                       *)
(***************************************************************************)
EXTENDS OrderPipeline, TLC

CONSTANTS c1, c2, s1, s2, x1, tr, gov, r1, r2, r3

(* Rosters in the order of the agents' ids: the one of the integration     *)
(* test, and one in which the ids of the kinds are mixed.                  *)
SmallRoster == <<c1, s1, tr, gov>>
MixedRoster == <<s1, gov, c1, tr, c2, s2>>

(* Hashes of the requests: distinct; two equal; one a multiple of 10^8.    *)
DistinctIds == (r1 :> 1) @@ (r2 :> 2)
ThreeIds == (r1 :> 1) @@ (r2 :> 2) @@ (r3 :> 3)
CollidingIds == (r1 :> 1) @@ (r2 :> 1)
ZeroId == (r1 :> 0) @@ (r2 :> 2)
=============================================================================
