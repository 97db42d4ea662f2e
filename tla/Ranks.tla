------------------------------- MODULE Ranks -------------------------------
(***************************************************************************)
(* The rank scale every component shares (contracts/core/BaseStorage.sol): *)
(* hunters, gates, keys and monsters are ranked E < D < C < B < A < S, and *)
(* Solidity stores a rank as its position in the enum.                     *)
(***************************************************************************)
EXTENDS Naturals

RankE == 0
RankD == 1
RankC == 2
RankB == 3
RankA == 4
RankS == 5

RankType == RankE..RankS

(* Shadow monsters exist in ranks B, A and S only, and an arise makes a    *)
(* shadow monster of one of these ranks.                                   *)
ShadowRank == RankB..RankS
============================================================================
