----------------------------- MODULE Settlement -----------------------------
(***************************************************************************)
(* SLSeasonSettlement: after a season a hunter claims its score once, made *)
(* of the gates it entered in the season and of its collecting score at    *)
(* the season's last block, and a token for rank S.  The claim reads the   *)
(* gate, the season contract and the monster tokens as they are when it is *)
(* made, however long after the season.  Entries count by their weight and *)
(* may raise the rank, and holders may burn the tokens of their ranks      *)
(* (GateCounts): the counts and the ranks of DungeonGate do no other.      *)
(***************************************************************************)
EXTENDS Collecting

CONSTANTS
    Claimants,      \* bound: the hunters who enter gates and claim
    SeasonEnd,      \* season -> endBlock; a season starts when the one before ends
    RankCollections,\* bound: season -> rank collection, the ways to give them
    Weights,        \* bound: the weights of the gates entered
    MaxCount,       \* bound: a gate count
    MaxPlayed,      \* bound: monsters minted and gate counts begun together
    ScoreRates,     \* bound: the rates the operators set, [activity, collecting]
    ScoresPerGate,  \* bound: the scores of an entry they set
    DENOMINATOR

ASSUME ClaimantsAssumption == Claimants \subseteq Hunters
ASSUME WeightsAssumption == Weights \subseteq Nat

Season == DOMAIN SeasonEnd
RankCollection == UNION {{of[s] : s \in Season} : of \in RankCollections}
\* Seasons follow one another: SeasonsOrdered of module Season.
ASSUME SeasonEndAssumption ==
    /\ Season \subseteq Nat
    /\ \A s \in Season : SeasonEnd[s] \in Nat \ {0}
    /\ \A s, t \in Season : s < t => SeasonEnd[s] < SeasonEnd[t]
ASSUME ScoreAssumption ==
    /\ ScoreRates \subseteq [activity : Nat, collecting : Nat]
    /\ ScoresPerGate \subseteq Nat
    /\ DENOMINATOR \in Nat \ {0}

SettledRanks == {RankE, RankS}  \* the claim tells rank S from the others

VARIABLES
    hunterRankCollection,   \* season -> its rank collection
    hunterRank,     \* rank collection -> hunter -> rank
    gateCount,      \* the counts of the gate the settlement reads, season -> hunter
    scoreRate, scorePerGate,
    rewardClaimed,  \* season -> hunter -> BOOLEAN
    seasonScore,    \* season -> hunter -> score tokens minted
    legendaryScene, \* season -> hunter -> tokens for rank S minted
    atEnd,          \* season -> hunter -> what the hunter had when the season ended
    recounted       \* did operators change what claims are computed from

Counts == INSTANCE GateCounts

claimVars == <<rewardClaimed, seasonScore, legendaryScene>>
operatorVars == <<scoreRate, scorePerGate>>
playVars == <<hunterRank, gateCount>>
historyVars == <<atEnd, recounted>>
vars == <<collectingVars, hunterRankCollection, playVars, operatorVars, claimVars, historyVars>>

----------------------------------------------------------------------------
isEndedSeasonById(s) == SeasonEnd[s] < block
isCurrentSeasonById(s) == ~isEndedSeasonById(s) /\ \A t \in Season : t < s => isEndedSeasonById(t)

getHunterRank(s, h) == hunterRank[hunterRankCollection[s]][h]

CollectingScoreNow(s, h) ==             \* faulty: whatever the hunter has by now
    SumFunction([kind \in Kind |-> latest(tokens[kind].collectingScores[h])])
CollectingScoreAtEnd(s, h) ==
    SumFunction([kind \in Kind |-> getAtBlock(tokens[kind].collectingScores[h], SeasonEnd[s])])
Converted(entries, collecting) ==
    (entries * scorePerGate * scoreRate.activity) \div DENOMINATOR
        + (collecting * scoreRate.collecting) \div DENOMINATOR
getEndedSeasonScore(s, h) == Converted(gateCount[s][h], CollectingScoreAtEnd(s, h))

----------------------------------------------------------------------------
CountsBegun == Cardinality({x \in Season \X Claimants : gateCount[x[1]][x[2]] > 0})

OfSeasonAndHunter(x) == [s \in Season |-> [h \in Claimants |-> x]]
Init ==
    /\ CollectingInit
    /\ hunterRankCollection \in RankCollections
    /\ hunterRank = [c \in RankCollection |-> [h \in Claimants |-> RankE]]
    /\ gateCount = OfSeasonAndHunter(0)
    /\ scoreRate \in ScoreRates
    /\ scorePerGate \in ScoresPerGate
    /\ rewardClaimed = OfSeasonAndHunter(FALSE)
    /\ seasonScore = OfSeasonAndHunter(0)
    /\ legendaryScene = OfSeasonAndHunter(0)
    /\ atEnd = OfSeasonAndHunter([entries |-> 0, collecting |-> 0, rank |-> RankE])
    /\ recounted = FALSE

Collect ==
    /\ CollectingNext
    /\ minted' > minted => minted' + CountsBegun <= MaxPlayed
    /\ UNCHANGED <<hunterRankCollection, playVars, operatorVars, claimVars, historyVars>>

EnterGate(s, h, weight, rank) ==
    /\ isCurrentSeasonById(s)
    /\ gateCount[s][h] + weight <= MaxCount
    /\ gateCount[s][h] = 0 => minted + CountsBegun < MaxPlayed
    /\ Counts!Enter(s, hunterRankCollection[s], h, weight, rank)
    /\ UNCHANGED <<collectingVars, hunterRankCollection, operatorVars, claimVars, historyVars>>

burnRankToken(c, h, rank) ==
    /\ Counts!Burn(c, h, rank)
    /\ UNCHANGED <<collectingVars, hunterRankCollection, operatorVars, claimVars, historyVars>>

MineBlock ==
    /\ block < MaxBlock
    /\ block' = block + 1
    /\ atEnd' = [s \in Season |-> [h \in Claimants |->
           IF SeasonEnd[s] = block
           THEN [entries |-> gateCount[s][h],
                 collecting |-> SumFunction([kind \in Kind |-> latest(tokens[kind].collectingScores[h])]),
                 rank |-> getHunterRank(s, h)]
           ELSE atEnd[s][h]]]
    /\ UNCHANGED <<registryVars, ariseVars, monsterScores, tokens, minted, stone, changeVars>>
    /\ UNCHANGED <<hunterRankCollection, playVars, operatorVars, claimVars, recounted>>

claimSeasonRewardAgain(s, h) ==         \* faulty: as often as one likes
    /\ isEndedSeasonById(s)
    /\ rewardClaimed' = [rewardClaimed EXCEPT ![s][h] = TRUE]
    /\ seasonScore' = [seasonScore EXCEPT ![s][h] = @ + getEndedSeasonScore(s, h)]
    /\ legendaryScene' = IF getHunterRank(s, h) = RankS
                         THEN [legendaryScene EXCEPT ![s][h] = @ + 1] ELSE legendaryScene
    /\ UNCHANGED <<collectingVars, hunterRankCollection, playVars, operatorVars, historyVars>>
claimSeasonReward(s, h) ==
    /\ ~rewardClaimed[s][h]
    /\ isEndedSeasonById(s)
    /\ rewardClaimed' = [rewardClaimed EXCEPT ![s][h] = TRUE]
    /\ seasonScore' = [seasonScore EXCEPT ![s][h] = @ + getEndedSeasonScore(s, h)]
    /\ legendaryScene' = IF getHunterRank(s, h) = RankS
                         THEN [legendaryScene EXCEPT ![s][h] = @ + 1] ELSE legendaryScene
    /\ UNCHANGED <<collectingVars, hunterRankCollection, playVars, operatorVars, historyVars>>

\* Operators change what claims are computed from; MaxChanges counts these too.
Recount ==
    /\ changes < MaxChanges
    /\ changes' = changes + 1
    /\ recounted' = TRUE
    /\ UNCHANGED <<block, registryVars, ariseVars, monsterScores, tokens, minted, stone, rescored>>
    /\ UNCHANGED <<hunterRankCollection, hunterRank, claimVars, atEnd>>

setScoreRate(rate) ==
    /\ scoreRate' = rate
    /\ Recount
    /\ UNCHANGED <<gateCount, scorePerGate>>

setScorePerGate(score) ==
    /\ scorePerGate' = score
    /\ Recount
    /\ UNCHANGED <<gateCount, scoreRate>>

\* A gate that takes the place of another has counted nothing yet.
setDungeonGateContract ==
    /\ gateCount' = OfSeasonAndHunter(0)
    /\ Recount
    /\ UNCHANGED operatorVars

Next ==
    \/ Collect
    \/ \E s \in Season, h \in Claimants, weight \in Weights, rank \in SettledRanks :
           EnterGate(s, h, weight, rank)
    \/ \E c \in RankCollection, h \in Claimants, rank \in SettledRanks : burnRankToken(c, h, rank)
    \/ MineBlock
    \/ \E s \in Season, h \in Claimants : claimSeasonReward(s, h)
    \/ \E rate \in ScoreRates : setScoreRate(rate)
    \/ \E score \in ScoresPerGate : setScorePerGate(score)
    \/ setDungeonGateContract

Spec == Init /\ [][Next]_vars

----------------------------------------------------------------------------
(* What a season pays does not depend on when it is claimed: a claim mints *)
(* the score of the entries and the monsters the hunter had when the       *)
(* season ended, whatever it got, sent or burnt since and however ranks    *)
(* and monster scores were changed, as long as the operators leave the     *)
(* rates and the gate of the settlement alone.                             *)
ClaimPaysEndOfSeason ==
    [][\A s \in Season, h \in Claimants :
          rewardClaimed'[s][h] /\ ~rewardClaimed[s][h] /\ ~recounted =>
              seasonScore'[s][h] = Converted(atEnd[s][h].entries, atEnd[s][h].collecting)]_vars

(* A season rewards rank S at most once, and only a hunter who had the     *)
(* rank when the season ended (Reward.sol:20 reads the rank at the claim), *)
(* unless a later season takes its ranks from the same collection.         *)
RankCollectionReused(s) ==
    \E t \in Season : t > s /\ hunterRankCollection[t] = hunterRankCollection[s]
RankRewardEarned ==
    \A s \in Season, h \in Claimants :
        /\ legendaryScene[s][h] <= 1
        /\ legendaryScene[s][h] = 1 =>
              atEnd[s][h].rank = RankS \/ RankCollectionReused(s)
============================================================================
