----------------------------- MODULE Collecting -----------------------------
(***************************************************************************)
(* The monster tokens (SLMonster, SLShadowArmy) and SLSystem, which makes  *)
(* shadows of monsters and stones of both.  Each token keeps for every     *)
(* hunter a collecting score with its history by block: every mint,        *)
(* transfer and burn moves the score of what it moves, at the ranks and    *)
(* the scores of the monster factory at that moment.                       *)
(***************************************************************************)
EXTENDS Ranks, Integers, FiniteSets, Functions

CONSTANTS
    Hunters,
    MaxBlock,               \* bound: blocks of the chain
    MaxMonsters,            \* bound: monsters of a kind in the registry
    MaxSupply,              \* bound: monsters the gate mints
    MaxRequests,            \* bound: tries of one arise
    StartRanks,             \* the registry the collections start with: ranks
    StartPairs,             \*   arise pairs
    StartScores,            \*   and scores
    ScoreTables,            \* bound: the score tables the operators set
    MaxChanges,             \* bound: changes of a rank, of the scores or of what settles them
    RanksInUse,             \* bound: the ranks the operators set
    StartStones,            \* bound: hunter -> stones from the gate
    requiredStoneForArise,  \* rank -> stones for a try
    essenceStoneWhenReturned \* kind -> rank -> stones for a monster returned

Noone == "address(0)"
Block == 1..MaxBlock

VARIABLES
    block,
    monsterIds, monsterOfRankType, monsterRankTypes,
    ariseNextMonsterIds, ariseBeforeMonsterIds,
    monsterScores,      \* kind -> rank -> score
    tokens,             \* kind -> [balances, collectingScores]
    minted,             \* monsters the gate has minted
    stone,              \* hunter -> stones
    changes,            \* how often operators changed any of these
    rescored            \* did a rank or a score change while monsters were held

Factory == INSTANCE MonsterFactory WITH MaxBatch <- 1
Kind == Factory!Kind
MonsterId == Factory!MonsterId

ASSUME BoundsAssumption == MaxBlock \in Nat \ {0} /\ MaxMonsters \in Nat \ {0} /\ MaxSupply \in Nat
ASSUME HuntersAssumption == Noone \notin Hunters
ASSUME RegistryAssumption ==
    /\ StartRanks \in [Kind -> [MonsterId -> RankType]]
    /\ StartScores \in [Kind -> [RankType -> Nat]]
    /\ ScoreTables \subseteq [RankType -> Nat]
    /\ RanksInUse \subseteq RankType
ASSUME StonesAssumption == essenceStoneWhenReturned \in [Kind -> [RankType -> Nat]]

registryVars == <<monsterIds, monsterOfRankType, monsterRankTypes>>
ariseVars == <<ariseNextMonsterIds, ariseBeforeMonsterIds>>
changeVars == <<changes, rescored>>
collectingVars == <<block, registryVars, ariseVars, monsterScores, tokens, minted, stone, changeVars>>

AnyAmounts == [MonsterId -> 0..MaxSupply]
Nothing == [id \in MonsterId |-> 0]
Amounts == AnyAmounts \ {Nothing}
AmountsOfBoth == [Kind -> AnyAmounts] \ {[kind \in Kind |-> Nothing]}
One(id) == [i \in MonsterId |-> IF i = id THEN 1 ELSE 0]
Total(amounts) == SumFunctionOnSet(amounts, MonsterId)
Holding == \E kind \in Kind, h \in Hunters : tokens[kind].balances[h] # Nothing

----------------------------------------------------------------------------
(* The history of a score: its value at the end of every block, that of    *)
(* the blocks to come being the latest one.                                *)
push(history, value) == [b \in Block |-> IF b >= block THEN value ELSE history[b]]
latest(history) == history[MaxBlock]
getAtBlock(history, b) == history[b]

TransferScore(kind, amounts) ==
    SumFunction([id \in MonsterId |->
                    monsterScores[kind][monsterRankTypes[kind][id]] * amounts[id]])

\* The receiver's score is updated before the sender's.
Received(scores, to, score) ==
    IF to = Noone THEN scores
    ELSE [scores EXCEPT ![to] = push(@, latest(@) + score)]
_updateCollectingScoreBefore(scores, from, to, score) ==    \* faulty: both from the old scores
    LET received == Received(scores, to, score)
    IN  IF from = Noone THEN received
        ELSE [received EXCEPT ![from] = push(@, latest(scores[from]) - score)]
_updateCollectingScore(scores, from, to, score) ==
    LET received == Received(scores, to, score)
    IN  IF from = Noone THEN received
        ELSE [received EXCEPT ![from] = push(@, latest(@) - score)]

\* A mint is from no one, a burn to no one.  The sender's score must cover
\* the score of what it sends.
Plus(a, b) == [id \in MonsterId |-> a[id] + b[id]]
Minus(a, b) == [id \in MonsterId |-> a[id] - b[id]]
CanMove(token, kind, from, to, amounts) ==
    from # Noone =>
        /\ \A id \in MonsterId : amounts[id] <= token.balances[from][id]
        /\ LET received == Received(token.collectingScores, to, TransferScore(kind, amounts))
           IN  TransferScore(kind, amounts) <= latest(received[from])
Moved(token, kind, from, to, amounts) ==
    LET sent == IF from = Noone THEN token.balances
                ELSE [token.balances EXCEPT ![from] = Minus(@, amounts)]
    IN  [balances |-> IF to = Noone THEN sent
                      ELSE [sent EXCEPT ![to] = Plus(@, amounts)],
         collectingScores |->
             _updateCollectingScore(token.collectingScores, from, to, TransferScore(kind, amounts))]

----------------------------------------------------------------------------
CollectingInit ==
    /\ block = 1
    /\ monsterIds = [kind \in Kind |-> MaxMonsters]
    /\ monsterRankTypes = StartRanks
    /\ monsterOfRankType = [rank \in RankType |-> [kind \in Kind |->
                                {id \in MonsterId : StartRanks[kind][id] = rank}]]
    /\ ariseNextMonsterIds = StartPairs
    /\ ariseBeforeMonsterIds =
           [rank \in ShadowRank |-> [next \in MonsterId |->
               IF \E id \in MonsterId : StartPairs[rank][id] = next
               THEN CHOOSE id \in MonsterId : StartPairs[rank][id] = next ELSE 0]]
    /\ monsterScores = StartScores
    /\ tokens = [kind \in Kind |->
                    [balances |-> [h \in Hunters |-> Nothing],
                     collectingScores |-> [h \in Hunters |-> [b \in Block |-> 0]]]]
    /\ minted = 0
    /\ stone = StartStones
    /\ changes = 0
    /\ rescored = FALSE

\* The gate mints normal monsters to a hunter who clears.
mintMonsters(h, amounts) ==
    /\ minted + Total(amounts) <= MaxSupply
    /\ minted' = minted + Total(amounts)
    /\ tokens' = [tokens EXCEPT !["normal"] = Moved(@, "normal", Noone, h, amounts)]
    /\ UNCHANGED <<block, registryVars, ariseVars, monsterScores, stone, changeVars>>

\* A hunter sends monsters to another or to itself, or burns them.
transferMonsters(kind, from, to, amounts) ==
    /\ CanMove(tokens[kind], kind, from, to, amounts)
    /\ tokens' = [tokens EXCEPT ![kind] = Moved(@, kind, from, to, amounts)]
    /\ UNCHANGED <<block, registryVars, ariseVars, monsterScores, minted, stone, changeVars>>

\* The tries end with the first that succeeds; each costs its stones.
ariseMonster(h, rank, id, requests, count, isSuccess) ==
    LET kind == Factory!BeforeKind(rank)
        next == ariseNextMonsterIds[rank][id]
        burnt == [tokens EXCEPT ![kind] = Moved(@, kind, h, Noone, One(id))]
    IN  /\ rank \in ShadowRank
        /\ id \in Factory!AriseCandidates(rank)
        /\ requiredStoneForArise[rank] * requests <= stone[h]
        /\ count <= requests
        /\ IF isSuccess
           THEN /\ Factory!isExistMonsterById("shadow", next)
                /\ CanMove(tokens[kind], kind, h, Noone, One(id))
                /\ tokens' = [burnt EXCEPT !["shadow"] = Moved(@, "shadow", Noone, h, One(next))]
           ELSE count = requests /\ UNCHANGED tokens
        /\ stone' = [stone EXCEPT ![h] = @ - requiredStoneForArise[rank] * count]
        /\ UNCHANGED <<block, registryVars, ariseVars, monsterScores, minted, changeVars>>

\* Monsters of both kinds are burnt for the stones of their ranks.
Returned(kind, amounts) ==
    SumFunction([id \in MonsterId |->
                    essenceStoneWhenReturned[kind][monsterRankTypes[kind][id]] * amounts[id]])
returnMonsterBatch(h, sets) ==
    /\ \A kind \in Kind : CanMove(tokens[kind], kind, h, Noone, sets[kind])
    /\ tokens' = [kind \in Kind |->
                    IF sets[kind] = Nothing THEN tokens[kind]
                    ELSE Moved(tokens[kind], kind, h, Noone, sets[kind])]
    /\ stone' = [stone EXCEPT ![h] =
                    @ + Returned("normal", sets["normal"]) + Returned("shadow", sets["shadow"])]
    /\ UNCHANGED <<block, registryVars, ariseVars, monsterScores, minted, changeVars>>

\* The other entry point takes monsters of one kind and one rank.
returnMonster(h, rank, kind, amounts) ==
    /\ {id \in MonsterId : amounts[id] > 0} \subseteq monsterOfRankType[rank][kind]
    /\ CanMove(tokens[kind], kind, h, Noone, amounts)
    /\ tokens' = [tokens EXCEPT ![kind] = Moved(@, kind, h, Noone, amounts)]
    /\ stone' = [stone EXCEPT ![h] = @ + Total(amounts) * essenceStoneWhenReturned[kind][rank]]
    /\ UNCHANGED <<block, registryVars, ariseVars, monsterScores, minted, changeVars>>

CountChange ==
    /\ changes < MaxChanges
    /\ changes' = changes + 1
    /\ rescored' = (rescored \/ Holding)

\* The operators change a rank or the scores, whoever holds the monsters.
setMonsterRankType(kind, id, rank) ==
    /\ Factory!setMonsterRankType(kind, id, rank)
    /\ CountChange
    /\ UNCHANGED <<block, monsterScores, tokens, minted, stone>>

setMonsterScore(kind, scores) ==
    /\ monsterScores' = [monsterScores EXCEPT ![kind] = scores]
    /\ CountChange
    /\ UNCHANGED <<block, registryVars, ariseVars, tokens, minted, stone>>

CollectingNext ==
    \/ \E h \in Hunters, amounts \in Amounts : mintMonsters(h, amounts)
    \/ \E kind \in Kind, from \in Hunters, to \in Hunters \union {Noone}, amounts \in Amounts :
           transferMonsters(kind, from, to, amounts)
    \/ \E h \in Hunters, rank \in RankType, id \in MonsterId, requests, count \in 1..MaxRequests,
          isSuccess \in BOOLEAN : ariseMonster(h, rank, id, requests, count, isSuccess)
    \/ \E h \in Hunters, rank \in RankType, kind \in Kind, amounts \in Amounts :
           returnMonster(h, rank, kind, amounts)
    \/ \E h \in Hunters, sets \in AmountsOfBoth : returnMonsterBatch(h, sets)
    \/ \E kind \in Kind, id \in MonsterId, rank \in RanksInUse : setMonsterRankType(kind, id, rank)
    \/ \E kind \in Kind, scores \in ScoreTables : setMonsterScore(kind, scores)

----------------------------------------------------------------------------
(* While ranks and scores stay what they were when the monsters held were  *)
(* received, the collecting score of a hunter is that of the monsters it   *)
(* holds, of either kind, whatever was minted, sent, burnt, returned and   *)
(* raised to a shadow in between (SLMonster.sol:112).  So the deduction of *)
(* what a hunter sends (SLMonster.sol:132) never reverts for want of it.   *)
ScoreIsOfHoldings ==
    ~rescored => \A kind \in Kind, h \in Hunters :
        latest(tokens[kind].collectingScores[h]) = TransferScore(kind, tokens[kind].balances[h])
============================================================================
