--------------------------- MODULE MCDungeonGate ---------------------------
(***************************************************************************)
(* Instances of DungeonGate.  The tables have entries that differ in the   *)
(* ranks E, D and C, which the few gates of an instance can reach; the     *)
(* higher ranks repeat the entry of C.                                     *)
(***************************************************************************)
EXTENDS DungeonGate, TLC

PerRank(e, d, c) ==
    [r \in RankType |-> CASE r = RankE -> e [] r = RankD -> d [] OTHER -> c]
UpgradeRanks(table) == [r \in RankOfUpgrade |-> table[r]]
RewardOf(monstersE, monstersD, packs, stones) ==
    [monsters |-> PerRank(monstersE, monstersD, 0), packs |-> packs, stones |-> stones]
NoReward == RewardOf(0, 0, 0, 0)

FreePrices == {PerRank(0, 0, 0)}
FreeStones == {0}
UsdOnly == {USD}
BothModes == {MATIC, USD}

(* Ranks: a plain account and a contract that enters again when it is      *)
(* called back, two seasons that share a rank collection.                  *)
RankSlots == {PerRank(1, 2, 2)}
RankCounts == {UpgradeRanks(PerRank(1, 2, 6)), UpgradeRanks(PerRank(2, 5, 7))}
RankBlocks == {PerRank(2, 2, 2)}
RankRewards == {PerRank(NoReward, NoReward, NoReward)}

(* Rewards: two hunters, rewards of every kind, gates of several blocks.   *)
RewardSlots == {PerRank(2, 2, 2)}
RewardCounts == {UpgradeRanks(PerRank(9, 9, 9))}
RewardBlocks == {PerRank(3, 3, 3)}
RewardRewards == {PerRank(RewardOf(1, 1, 1, 1), NoReward, NoReward),
                  PerRank(RewardOf(2, 0, 0, 0), NoReward, NoReward)}

(* Payments: keys, in either price mode and in one of two USD tokens, and  *)
(* gates that are to be cleared, for a monster or for nothing.             *)
PaymentPrices == {PerRank(1, 2, 2)}
PaymentBlocks == {PerRank(1, 1, 1)}
PaymentRewards == {PerRank(RewardOf(1, 0, 0, 0), NoReward, NoReward),
                   PerRank(NoReward, NoReward, NoReward)}

HunterSymmetry == Permutations(Hunters)
=============================================================================
