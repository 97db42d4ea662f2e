--------------------------- MODULE MonsterFactory ---------------------------
(***************************************************************************)
(* SLMonsterFactory (contracts/monsterFactory/parts/Monster.sol): the      *)
(* registry of the normal and the shadow monsters, and for each of the     *)
(* ranks B, A and S the pairing that says which shadow monster a monster   *)
(* becomes when it arises.                                                 *)
(*                                                                         *)
(* Every operation is a transaction of an operator and is atomic.  Each of *)
(* the two pairings of a rank is stored twice, as a map and as its         *)
(* inverse, and the rank of a monster is stored twice, as a map and as the *)
(* set of the monsters of each rank: the copies are kept in step by hand.  *)
(*                                                                         *)
(* The collecting scores of the ranks (setMonsterScore) are not here: no   *)
(* operation of the registry reads them.                                   *)
(***************************************************************************)
EXTENDS Ranks, Integers, Sequences

CONSTANTS
    MaxMonsters, \* bound: monsters of a kind ever added
    MaxBatch     \* bound: pairs in one call of setAriseMonsterBatch

ASSUME MaxMonstersAssumption == MaxMonsters \in Nat \ {0}
ASSUME MaxBatchAssumption == MaxBatch \in Nat \ {0}

Kind == {"normal", "shadow"}
MonsterId == 1..MaxMonsters
NoMonster == 0  \* what an unset mapping of Solidity reads as

VARIABLES
    monsterIds,            \* number of monsters of a kind, the last id given
    monsterOfRankType,     \* the monsters of a rank and a kind
    monsterRankTypes,      \* the rank of a monster of a kind
    ariseNextMonsterIds,   \* for an arise rank: monster -> the shadow it becomes
    ariseBeforeMonsterIds  \* for an arise rank: shadow -> the monster it was

registryVars == <<monsterIds, monsterOfRankType, monsterRankTypes>>
ariseVars == <<ariseNextMonsterIds, ariseBeforeMonsterIds>>
vars == <<registryVars, ariseVars>>

----------------------------------------------------------------------------
(* Views.                                                                  *)

isExistMonsterById(kind, id) == id # 0 /\ id <= monsterIds[kind]

isValidMonster(rank, kind, id) == id \in monsterOfRankType[rank][kind]

ValidRankOfKindAny(rank, kind) == TRUE      \* faulty: shadow monsters of rank E
ValidRankOfKind(rank, kind) == kind = "shadow" => rank \in ShadowRank

(* The monsters an arise to `rank' starts from: the normal monsters of     *)
(* rank S for B, the shadow monsters of the rank below otherwise.          *)
BeforeRank(rank) == IF rank = RankB THEN RankS ELSE rank - 1
BeforeKind(rank) == IF rank = RankB THEN "normal" ELSE "shadow"

AriseCandidates(rank) == monsterOfRankType[BeforeRank(rank)][BeforeKind(rank)]

ValidArisePair(rank, before, next) ==
    /\ before \in AriseCandidates(rank)
    /\ isValidMonster(rank, "shadow", next)

----------------------------------------------------------------------------
(* Initially no monster exists and every mapping reads 0, which for a rank *)
(* is E.                                                                   *)
Init ==
    /\ monsterIds = [kind \in Kind |-> 0]
    /\ monsterOfRankType = [rank \in RankType |-> [kind \in Kind |-> {}]]
    /\ monsterRankTypes = [kind \in Kind |-> [id \in MonsterId |-> RankE]]
    /\ ariseNextMonsterIds =
           [rank \in ShadowRank |-> [id \in MonsterId |-> NoMonster]]
    /\ ariseBeforeMonsterIds =
           [rank \in ShadowRank |-> [id \in MonsterId |-> NoMonster]]

addMonsterFromZero(rank, kind) ==           \* faulty: the id before the increment
    /\ monsterIds[kind] < MaxMonsters
    /\ monsterIds' = [monsterIds EXCEPT ![kind] = @ + 1]
    /\ monsterOfRankType' =
           [monsterOfRankType EXCEPT ![rank][kind] = @ \cup {monsterIds[kind]}]
    /\ UNCHANGED <<monsterRankTypes, ariseVars>>
addMonster(rank, kind) ==
    LET id == monsterIds[kind] + 1
    IN  /\ ValidRankOfKind(rank, kind)
        /\ id <= MaxMonsters
        /\ monsterIds' = [monsterIds EXCEPT ![kind] = id]
        /\ monsterOfRankType' =
               [monsterOfRankType EXCEPT ![rank][kind] = @ \cup {id}]
        /\ monsterRankTypes' = [monsterRankTypes EXCEPT ![kind][id] = rank]
        /\ UNCHANGED ariseVars

(* The monster moves from the set of its old rank to the set of the new    *)
(* one.  The arise mappings it is part of are left as they are.            *)
setMonsterRankTypeAdding(kind, id, rank) == \* faulty: also left in the old set
    /\ ValidRankOfKind(rank, kind)
    /\ isExistMonsterById(kind, id)
    /\ monsterOfRankType' = [monsterOfRankType EXCEPT ![rank][kind] = @ \cup {id}]
    /\ monsterRankTypes' = [monsterRankTypes EXCEPT ![kind][id] = rank]
    /\ UNCHANGED <<monsterIds, ariseVars>>
setMonsterRankType(kind, id, rank) ==
    LET oldRank == monsterRankTypes[kind][id]
    IN  /\ ValidRankOfKind(rank, kind)
        /\ isExistMonsterById(kind, id)
        /\ monsterOfRankType' =
               [[monsterOfRankType EXCEPT ![oldRank][kind] = @ \ {id}]
                                   EXCEPT ![rank][kind] = @ \cup {id}]
        /\ monsterRankTypes' = [monsterRankTypes EXCEPT ![kind][id] = rank]
        /\ UNCHANGED <<monsterIds, ariseVars>>

(* Pair `before' with `next', in the two maps of one arise rank: what      *)
(* either of them was paired with loses its partner.                       *)
PairOverwriting(maps, before, next) ==      \* faulty: old partners keep their entries
    [next |-> [maps.next EXCEPT ![before] = next],
     before |-> [maps.before EXCEPT ![next] = before]]
Pair(maps, before, next) ==
    LET oldNext == maps.next[before]
        oldBefore == maps.before[next]
    IN  [next |-> [id \in MonsterId |->
                      IF id = before THEN next
                      ELSE IF id = oldBefore THEN NoMonster
                      ELSE maps.next[id]],
         before |-> [id \in MonsterId |->
                      IF id = next THEN before
                      ELSE IF id = oldNext THEN NoMonster
                      ELSE maps.before[id]]]

AriseMaps(rank) == [next |-> ariseNextMonsterIds[rank],
                    before |-> ariseBeforeMonsterIds[rank]]

SetAriseMaps(rank, maps) ==
    /\ ariseNextMonsterIds' = [ariseNextMonsterIds EXCEPT ![rank] = maps.next]
    /\ ariseBeforeMonsterIds' =
           [ariseBeforeMonsterIds EXCEPT ![rank] = maps.before]

setAriseMonster(rank, before, next) ==
    /\ rank \in ShadowRank
    /\ ValidArisePair(rank, before, next)
    /\ SetAriseMaps(rank, Pair(AriseMaps(rank), before, next))
    /\ UNCHANGED registryVars

(* The maps after each of the first i pairs of a batch, i \in 0..Len.      *)
PairEachAlone(maps, befores, nexts) ==      \* faulty: each turn starts anew
    [i \in 0..Len(befores) |-> IF i = 0 THEN maps ELSE Pair(maps, befores[i], nexts[i])]
PairEach(maps, befores, nexts) ==
    LET after[i \in 0..Len(befores)] ==
            IF i = 0 THEN maps
            ELSE Pair(after[i - 1], befores[i], nexts[i])
    IN  after

setAriseMonsterBatch(rank, befores, nexts) ==
    /\ rank \in ShadowRank
    /\ Len(befores) = Len(nexts)
    /\ \A i \in 1..Len(befores) : ValidArisePair(rank, befores[i], nexts[i])
    /\ SetAriseMaps(rank, PairEach(AriseMaps(rank), befores, nexts)[Len(befores)])
    /\ UNCHANGED registryVars

Batch == UNION {[1..n -> MonsterId] : n \in 0..MaxBatch}

AddMonster == \E rank \in RankType, kind \in Kind : addMonster(rank, kind)
SetMonsterRankType ==
    \E kind \in Kind, id \in MonsterId, rank \in RankType :
        setMonsterRankType(kind, id, rank)
SetAriseMonster ==
    \E rank \in RankType, before, next \in MonsterId :
        setAriseMonster(rank, before, next)
SetAriseMonsterBatch ==
    \E rank \in RankType, befores, nexts \in Batch :
        setAriseMonsterBatch(rank, befores, nexts)

Next ==
    \/ AddMonster
    \/ SetMonsterRankType
    \/ SetAriseMonster
    \/ SetAriseMonsterBatch

Spec == Init /\ [][Next]_vars

----------------------------------------------------------------------------
(* The types of the variables.                                             *)
TypeOK ==
    /\ monsterIds \in [Kind -> 0..MaxMonsters]
    /\ monsterOfRankType \in [RankType -> [Kind -> SUBSET MonsterId]]
    /\ monsterRankTypes \in [Kind -> [MonsterId -> RankType]]
    /\ ariseNextMonsterIds \in
           [ShadowRank -> [MonsterId -> MonsterId \cup {NoMonster}]]
    /\ ariseBeforeMonsterIds \in
           [ShadowRank -> [MonsterId -> MonsterId \cup {NoMonster}]]

(* The two copies of a rank agree: the set of a rank holds exactly the     *)
(* monsters added so far whose rank it is, whatever sequence of additions  *)
(* and rank changes led here.  A gate draws its reward from these sets and *)
(* the system checks a monster against the map.                            *)
RankSetsAgree ==
    \A rank \in RankType, kind \in Kind, id \in MonsterId :
        id \in monsterOfRankType[rank][kind]
            <=> isExistMonsterById(kind, id) /\ monsterRankTypes[kind][id] = rank

(* The two copies of a pairing are inverse to each other, so an arise and  *)
(* the question where a shadow came from never disagree, and two monsters  *)
(* never arise to the same shadow: setAriseMonster clears what it breaks.  *)
AriseInverse ==
    \A rank \in ShadowRank, before, next \in MonsterId :
        ariseNextMonsterIds[rank][before] = next
            <=> ariseBeforeMonsterIds[rank][next] = before

(* Shadow monsters never have a rank below B, and only monsters that exist *)
(* are ever paired, also after their rank has been changed.                *)
ArisePairsExist ==
    /\ \A rank \in RankType \ ShadowRank : monsterOfRankType[rank]["shadow"] = {}
    /\ \A rank \in ShadowRank, before \in MonsterId :
           ariseNextMonsterIds[rank][before] # NoMonster =>
               /\ isExistMonsterById(BeforeKind(rank), before)
               /\ isExistMonsterById("shadow", ariseNextMonsterIds[rank][before])

(* What MonsterFactoryBase says of the maps: for rank B, A or S, the map   *)
(* leads from a monster of the rank before to a monster of that rank.      *)
AriseRanksAgree ==
    \A rank \in ShadowRank, before \in MonsterId :
        ariseNextMonsterIds[rank][before] # NoMonster =>
            ValidArisePair(rank, before, ariseNextMonsterIds[rank][before])

----------------------------------------------------------------------------
(* The reference definition of what a batch of pairings leaves behind.     *)

(* The pairs of an arise rank, read from one map.                          *)
Links(maps) == {link \in MonsterId \X MonsterId : maps.next[link[1]] = link[2]}

(* Two pairs conflict when they share a monster on the same side.          *)
Conflict(link1, link2) == link1[1] = link2[1] \/ link1[2] = link2[2]

(* A pair survives unless a later one of the batch conflicts with it.      *)
LastWins(links, befores, nexts) ==
    LET pair(i) == <<befores[i], nexts[i]>>
        Survives(link, i) ==
            \A j \in (i + 1)..Len(befores) : ~ Conflict(link, pair(j))
    IN  {link \in links : Survives(link, 0)}
          \cup {pair(i) : i \in {j \in 1..Len(befores) : Survives(pair(j), j)}}

(* The loop of setAriseMonsterBatch, which reads the maps it is writing,   *)
(* leaves exactly the pairs that no later pair of the batch displaces, for *)
(* every batch an operator can pass in every state.                        *)
BatchLastWins ==
    \A rank \in ShadowRank, befores, nexts \in Batch :
        /\ Len(befores) = Len(nexts)
        /\ \A i \in 1..Len(befores) : ValidArisePair(rank, befores[i], nexts[i])
        => LET maps == AriseMaps(rank)
           IN  Links(PairEach(maps, befores, nexts)[Len(befores)])
                   = LastWins(Links(maps), befores, nexts)
============================================================================
