----------------------------- MODULE InitialData -----------------------------
(***************************************************************************)
(* scripts/set_initial_data.ts: after a deployment, it adds the hunter     *)
(* rank, season pack and invite collections to the project, opens the      *)
(* packs, adds the first season and fills the monster registry, each in a  *)
(* transaction it waits for.  It names collections and monsters by the ids *)
(* it expects them to get.  An attempt may stop anywhere; the next one     *)
(* starts from the top, on the contracts as the last one left them.        *)
(***************************************************************************)
EXTENDS Ranks, DeployPlan, SequencesExt

CONSTANTS
    MaxAttempts     \* bound: times the script is started

ASSUME MaxAttemptsAssumption == MaxAttempts \in Nat \ {0}

VARIABLES
    attempt,        \* how many times the script was started
    at,             \* the transaction the attempt is about to send
    turn,           \* the turn of the loop this is in
    projectCollections, \* id -> collection
    opened,         \* season pack collection -> its open tokens
    minters,        \* collection -> the gates among its controllers
    block, seasonIds, seasons,
    monsterIds, monsterOfRankType, monsterRankTypes,
    ariseNextMonsterIds, ariseBeforeMonsterIds

\* A collection the script deploys is told by the attempt.
Own(kind) == <<kind, attempt>>
DeployedCollections ==
    [i \in 1..7 |-> <<CHOOSE c \in DOMAIN CollectionId : CollectionId[c] = i, 0>>]
FirstGate == 0

----------------------------------------------------------------------------
(* The tables of the script.  The blocks of the season stand for 5284050   *)
(* and 5290000: to come when the script is written, and not forever.       *)
PackTokens == 50
StartBlock == 2
EndBlock == 3
LastBlock == 3
Times(rank, n) == [i \in 1..n |-> rank]
monsterIdToRanks ==
    Times(RankE, 3) \o Times(RankD, 3) \o Times(RankC, 6) \o Times(RankB, 7)
        \o Times(RankA, 6) \o Times(RankS, 5) \o Times(RankE, 2) \o Times(RankD, 3)
shadowIdToRanks == Times(RankB, 5) \o Times(RankA, 5) \o Times(RankS, 5)
Ids(first, last) == [i \in 1..(last - first + 1) |-> first + i - 1]
AriseBatchesToA ==                  \* faulty: the last step is missing
    << [rank |-> RankB, before |-> Ids(26, 30), next |-> Ids(1, 5)],
       [rank |-> RankA, before |-> Ids(1, 5), next |-> Ids(6, 10)] >>
AriseBatches ==
    << [rank |-> RankB, before |-> Ids(26, 30), next |-> Ids(1, 5)],
       [rank |-> RankA, before |-> Ids(1, 5), next |-> Ids(6, 10)],
       [rank |-> RankS, before |-> Ids(6, 10), next |-> Ids(11, 15)] >>

Factory == INSTANCE MonsterFactory WITH
    MaxMonsters <- Len(monsterIdToRanks), MaxBatch <- 5

SeasonContract == INSTANCE Season WITH
    MaxSeasons <- MaxAttempts, MaxBlock <- LastBlock,
    HunterRankCollections <- Nat, SeasonPackCollections <- Nat, SeasonCollectionSets <- SUBSET Nat

\* What _checkSeasonCollection asks of an id: a collection of the project
\* with the interface, whichever collection that is.
ISLMT == {"HunterRank", "SeasonPack"}
ISLCollectable == {"Monster", "ShadowArmy"}
IdsOf(kinds) == {i \in DOMAIN projectCollections : projectCollections[i][1] \in kinds}

scriptVars == <<attempt, at, turn>>
factoryVars == <<monsterIds, monsterOfRankType, monsterRankTypes,
                 ariseNextMonsterIds, ariseBeforeMonsterIds>>
seasonVars == <<block, seasonIds, seasons>>
tokenVars == <<projectCollections, opened, minters>>
vars == <<scriptVars, tokenVars, seasonVars, factoryVars>>

----------------------------------------------------------------------------
InitialDataInit ==
    /\ attempt = 0
    /\ at = "idle"
    /\ turn = 1
    /\ projectCollections = DeployedCollections
    /\ opened = [p \in {"SeasonPack"} \X (1..MaxAttempts) |-> {}]
    /\ minters = [c \in {"HunterRank", "SeasonPack"} \X (1..MaxAttempts) |-> {}]
    /\ SeasonContract!SeasonInit
    /\ Factory!Init

GoTo(next) == at' = next /\ turn' = 1 /\ UNCHANGED attempt
LoopTo(count, next) ==
    /\ at' = IF turn < count THEN at ELSE next
    /\ turn' = IF turn < count THEN turn + 1 ELSE 1
    /\ UNCHANGED attempt

\* The script is started, or started again after it stopped.
BeginWhereNeeded ==                 \* faulty: goes on after the season
    /\ at \in {"idle", "stopped"}
    /\ attempt < MaxAttempts
    /\ attempt' = attempt + 1
    /\ at' = IF seasonIds > 0 THEN "addMonster" ELSE "faucet"
    /\ turn' = 1
    /\ UNCHANGED <<tokenVars, seasonVars, factoryVars>>
Begin ==
    /\ at \in {"idle", "stopped"}
    /\ attempt < MaxAttempts
    /\ attempt' = attempt + 1
    /\ at' = "faucet"
    /\ turn' = 1
    /\ UNCHANGED <<tokenVars, seasonVars, factoryVars>>

\* A faucet of the attempt's own, and the coins for it.
FundFaucet ==
    /\ at = "faucet"
    /\ GoTo("HunterRank")
    /\ UNCHANGED <<tokenVars, seasonVars, factoryVars>>

\* The transaction after the one that deploys a collection, and after that.
AddsIt == [HunterRank |-> "addHunterRank", SeasonPack |-> "addSeasonPack", InviteSBT |-> "addInviteSBT"]
AfterAdded == [HunterRank |-> "SeasonPack", SeasonPack |-> "openToken", InviteSBT |-> "addMonster"]

\* The gate is the controller of what it mints; nobody needs one for invites.
DeployCollection(kind) ==
    /\ at = kind
    /\ GoTo(AddsIt[kind])
    /\ minters' = IF kind = "InviteSBT" THEN minters
                  ELSE [minters EXCEPT ![Own(kind)] = {FirstGate}]
    /\ UNCHANGED <<projectCollections, opened, seasonVars, factoryVars>>

AddProjectCollection(kind) ==
    /\ at = AddsIt[kind]
    /\ projectCollections' = Append(projectCollections, Own(kind))
    /\ GoTo(AfterAdded[kind])
    /\ UNCHANGED <<opened, minters, seasonVars, factoryVars>>

OpenTokenButLast ==                 \* faulty: stops before the last token
    /\ at = "openToken"
    /\ opened' = [opened EXCEPT ![Own("SeasonPack")] = @ \union {turn}]
    /\ LoopTo(PackTokens - 1, "addSeason")
    /\ UNCHANGED <<projectCollections, minters, seasonVars, factoryVars>>
OpenToken ==
    /\ at = "openToken"
    /\ opened' = [opened EXCEPT ![Own("SeasonPack")] = @ \union {turn}]
    /\ LoopTo(PackTokens, "addSeason")
    /\ UNCHANGED <<projectCollections, minters, seasonVars, factoryVars>>

\* The collections are given by the ids they get in the first attempt.
AddFirstSeason ==
    LET uses == [hunterRank |-> 8, seasonPack |-> 9, collections |-> {3, 4}]
    IN  /\ at = "addSeason"
        /\ {uses.hunterRank, uses.seasonPack} \subseteq IdsOf(ISLMT)
        /\ uses.collections \subseteq IdsOf(ISLCollectable)
        /\ SeasonContract!addSeason(StartBlock, EndBlock, uses)
        /\ GoTo("InviteSBT")
        /\ UNCHANGED <<tokenVars, factoryVars>>

AddMonsters ==
    /\ at = "addMonster"
    /\ Factory!addMonster(monsterIdToRanks[turn], "normal")
    /\ LoopTo(Len(monsterIdToRanks), "addShadow")
    /\ UNCHANGED <<tokenVars, seasonVars>>

AddShadows ==
    /\ at = "addShadow"
    /\ Factory!addMonster(shadowIdToRanks[turn], "shadow")
    /\ LoopTo(Len(shadowIdToRanks), "setArise")
    /\ UNCHANGED <<tokenVars, seasonVars>>

SetArise ==
    LET batch == AriseBatches[turn]
    IN  /\ at = "setArise"
        /\ Factory!setAriseMonsterBatch(batch.rank, batch.before, batch.next)
        /\ LoopTo(Len(AriseBatches), "done")
        /\ UNCHANGED <<tokenVars, seasonVars>>

\* A transaction reverts, the connection is lost or the operator stops it.
StopAttempt ==
    /\ at \notin {"idle", "stopped", "done"}
    /\ GoTo("stopped")
    /\ UNCHANGED <<tokenVars, seasonVars, factoryVars>>

MineBlock ==
    /\ SeasonContract!mineBlock
    /\ UNCHANGED <<scriptVars, tokenVars, factoryVars>>

InitialDataNext ==
    \/ Begin
    \/ FundFaucet
    \/ \E kind \in DOMAIN AfterAdded : DeployCollection(kind) \/ AddProjectCollection(kind)
    \/ OpenToken
    \/ AddFirstSeason
    \/ AddMonsters
    \/ AddShadows
    \/ SetArise
    \/ StopAttempt
    \/ MineBlock

----------------------------------------------------------------------------
(* However often the script is stopped and started again, the monsters of  *)
(* the registry are those of its tables under their ids, each once         *)
(* (set_initial_data.ts:101: ids are given in the order of addition): no   *)
(* second attempt gets past addSeason once a first one did.                *)
Ranking(kind) == [id \in 1..monsterIds[kind] |-> monsterRankTypes[kind][id]]
MonstersAsTabled ==
    /\ IsPrefix(Ranking("normal"), monsterIdToRanks)
    /\ IsPrefix(Ranking("shadow"), shadowIdToRanks)

(* Once the script is done, every normal monster of rank S can arise all   *)
(* the way to a shadow of rank S, and no two of them to the same one.      *)
AriseTo(rank, id) == ariseNextMonsterIds[rank][id]
ShadowOf(id) == AriseTo(RankS, AriseTo(RankA, AriseTo(RankB, id)))
AriseChainsComplete ==
    at = "done" =>
        LET monsters == monsterOfRankType[RankS]["normal"]
        IN  /\ \A id \in monsters : ShadowOf(id) \in monsterOfRankType[RankS]["shadow"]
            /\ \A id, other \in monsters : ShadowOf(id) = ShadowOf(other) => id = other

(* The first season is played with the collections of the attempt that     *)
(* added it, all of their packs open and the gate their controller, unless *)
(* an earlier attempt had added a collection and shifted the ids the       *)
(* script counts on (set_initial_data.ts:70).                              *)
SeasonUses(id, kind) ==
    /\ projectCollections[id] = <<kind, attempt>>
    /\ FirstGate \in minters[<<kind, attempt>>]
SeasonAsMeant ==
    seasonIds > 0 /\ (\A i \in DOMAIN projectCollections : projectCollections[i][2] \in {0, attempt})
        => /\ SeasonUses(seasons[0].uses.hunterRank, "HunterRank")
           /\ SeasonUses(seasons[0].uses.seasonPack, "SeasonPack")
           /\ opened[<<"SeasonPack", attempt>>] = 1..PackTokens
============================================================================
