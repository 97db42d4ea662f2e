----------------------------- MODULE GateCounts -----------------------------
(***************************************************************************)
(* What a settlement reads of the dungeon gate and of the rank tokens: the *)
(* gate count of a hunter in a season and the hunter's rank in a rank      *)
(* collection.  Module Settlement lets them change in these two ways only; *)
(* that those of DungeonGate change in no other is a theorem there.        *)
(***************************************************************************)
EXTENDS Naturals

VARIABLES
    gateCount,      \* season -> hunter -> gate count
    hunterRank      \* rank collection -> hunter -> rank

(* Hunter h enters a gate of a season whose ranks are of collection c: the *)
(* gate counts by its weight, and the hunter may rank up.                  *)
Enter(season, c, h, weight, rank) ==
    /\ gateCount' = [gateCount EXCEPT ![season][h] = @ + weight]
    /\ hunterRank[c][h] <= rank
    /\ hunterRank' = [hunterRank EXCEPT ![c][h] = rank]

(* The hunter burns the token of the rank, which falls in every season of  *)
(* the collection, ended or not.                                           *)
Burn(c, h, rank) ==
    /\ rank < hunterRank[c][h]
    /\ hunterRank' = [hunterRank EXCEPT ![c][h] = rank]
    /\ UNCHANGED gateCount
=============================================================================
