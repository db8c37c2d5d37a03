----------------------------- MODULE MCRestock -----------------------------
(***************************************************************************)
(* Small instances of Restock.                                             *)
(***************************************************************************)
EXTENDS Restock, TLC

CONSTANTS s1, s2, p1, tr, r1, r2

(* The catalog's suppliers: one for all, for the first seller only, or for *)
(* the only seller.                                                        *)
OneSupplier == (s1 :> p1) @@ (s2 :> p1)
FirstOnly == (s1 :> p1) @@ (s2 :> NoSupplier)
OnlyOne == s1 :> p1

(* How much they sell.                                                     *)
OneEach == (s1 :> 1) @@ (s2 :> 1)
TwoOfOne == s1 :> 2
=============================================================================
