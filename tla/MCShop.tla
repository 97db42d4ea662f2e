------------------------------- MODULE MCShop -------------------------------
(***************************************************************************)
(* The shop on its own: two buyers, two price lists, both price modes,     *)
(* batches that may name a rank twice or ask for nothing, and a stone.     *)
(***************************************************************************)
EXTENDS Shop, TLC

Prices(e, d) == [r \in RankType |-> CASE r = RankE -> e [] r = RankD -> d [] OTHER -> 0]
PriceLists == {Prices(1, 2), Prices(2, 0)}

HunterSymmetry == Permutations(Hunters)
============================================================================
