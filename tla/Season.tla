------------------------------- MODULE Season -------------------------------
(***************************************************************************)
(* SLSeason (contracts/season/parts/Season.sol): the seasons of the game,  *)
(* each a window of blocks with the collections that count in it.  Whether *)
(* a season is pending, current or ended is never stored: every reader     *)
(* compares the window with the block its transaction is in, so an         *)
(* operator who moves a window changes what the other contracts see.       *)
(*                                                                         *)
(* The transactions are atomic; `block' is the block the next one is in.   *)
(*                                                                         *)
(* Here and in the other modules, a definition marked "faulty" is not used *)
(* by the specification: it is the one after it with a mistake in it, and  *)
(* documents what the properties are there to catch.                       *)
(***************************************************************************)
EXTENDS Integers

CONSTANTS
    MaxSeasons,             \* bound: seasons ever added
    MaxBlock,               \* bound: blocks of the chain, and of the windows
    HunterRankCollections,  \* the collections _checkSeasonCollection accepts
    SeasonPackCollections,  \*   for each of the three purposes
    SeasonCollectionSets

ASSUME MaxSeasonsAssumption == MaxSeasons \in Nat \ {0}
ASSUME MaxBlockAssumption == MaxBlock \in Nat \ {0}

SeasonId == 0..(MaxSeasons - 1)
Block == 1..MaxBlock

VARIABLES
    block,      \* block.number
    seasonIds,  \* number of seasons added, the id of the next one
    seasons     \* id -> Season

seasonVars == <<block, seasonIds, seasons>>

Collections == [hunterRank : HunterRankCollections,
                seasonPack : SeasonPackCollections,
                collections : SeasonCollectionSets]
Season == [startBlock : Block, endBlock : Block, uses : Collections]

----------------------------------------------------------------------------
(* Views.  Those of a season that does not exist revert, so an action that *)
(* calls one requires the season to exist.                                 *)

isExistSeasonById(id) == id < seasonIds
isStartSeasonById(id) == seasons[id].startBlock <= block
isEndedSeasonById(id) == seasons[id].endBlock < block
isCurrentSeasonById(id) ==
    seasons[id].startBlock <= block /\ block <= seasons[id].endBlock

(* A new window must lie strictly after `before', end before `after' when  *)
(* there is a limit, and start in a block to come.                         *)
NoLimit == 0
_checkBlockAnyLength(before, after, start, end) ==      \* faulty: may be empty
    /\ after # NoLimit => end < after
    /\ before < start
    /\ block < start
_checkBlock(before, after, start, end) ==
    /\ after # NoLimit => end < after
    /\ before < start
    /\ start < end
    /\ block < start

----------------------------------------------------------------------------
SeasonInit ==
    /\ block = 1
    /\ seasonIds = 0
    /\ seasons = <<>>

addSeasonUncounted(start, end, uses) ==     \* faulty: the next id stays
    /\ seasonIds < MaxSeasons
    /\ block < start
    /\ seasons' = [i \in 0..seasonIds |->
                      [startBlock |-> start, endBlock |-> end, uses |-> uses]]
    /\ UNCHANGED <<block, seasonIds>>
addSeason(start, end, uses) ==
    LET id == seasonIds
    IN  /\ id < MaxSeasons
        /\ _checkBlock(IF id > 0 THEN seasons[id - 1].endBlock ELSE 0,
                       NoLimit, start, end)
        /\ seasonIds' = id + 1
        /\ seasons' = [i \in 0..id |->
                          IF i = id
                          THEN [startBlock |-> start, endBlock |-> end, uses |-> uses]
                          ELSE seasons[i]]
        /\ UNCHANGED block

setSeasonCollectionAnyTime(id, uses) ==     \* faulty: started or not
    /\ isExistSeasonById(id)
    /\ seasons' = [seasons EXCEPT ![id].uses = uses]
    /\ UNCHANGED <<block, seasonIds>>
setSeasonCollection(id, uses) ==
    /\ isExistSeasonById(id)
    /\ ~ isStartSeasonById(id)
    /\ seasons' = [seasons EXCEPT ![id].uses = uses]
    /\ UNCHANGED <<block, seasonIds>>

(* A window may be moved until it has ended.  Season 0 has no predecessor: *)
(* its own old window stands in for the limits, so its new one must come   *)
(* after the old one and, while it is the only season, also before it.     *)
blockBefore(id) == IF id = 0 THEN seasons[0].endBlock ELSE seasons[id - 1].endBlock
blockAfter(id) ==
    IF isExistSeasonById(id + 1) THEN seasons[id + 1].startBlock
    ELSE IF id = 0 THEN seasons[0].startBlock
    ELSE NoLimit

setSeasonBlockAnyTime(id, start, end) ==    \* faulty: ended or not
    /\ isExistSeasonById(id)
    /\ _checkBlock(blockBefore(id), blockAfter(id), start, end)
    /\ seasons' = [seasons EXCEPT ![id].startBlock = start, ![id].endBlock = end]
    /\ UNCHANGED <<block, seasonIds>>
setSeasonBlock(id, start, end) ==
    /\ isExistSeasonById(id)
    /\ ~ isEndedSeasonById(id)
    /\ _checkBlock(blockBefore(id), blockAfter(id), start, end)
    /\ seasons' = [seasons EXCEPT ![id].startBlock = start, ![id].endBlock = end]
    /\ UNCHANGED <<block, seasonIds>>

(* The chain moves on to the next block.                                   *)
mineBlock ==
    /\ block < MaxBlock
    /\ block' = block + 1
    /\ UNCHANGED <<seasonIds, seasons>>

AddSeason ==
    \E start, end \in Block, uses \in Collections : addSeason(start, end, uses)
SetSeasonCollection ==
    \E id \in SeasonId, uses \in Collections : setSeasonCollection(id, uses)
SetSeasonBlock ==
    \E id \in SeasonId, start, end \in Block : setSeasonBlock(id, start, end)

SeasonNext == AddSeason \/ SetSeasonCollection \/ SetSeasonBlock \/ mineBlock

SeasonSpec == SeasonInit /\ [][SeasonNext]_seasonVars

----------------------------------------------------------------------------
(* The types of the variables; a season is stored with a window that is    *)
(* not empty.                                                              *)
SeasonTypeOK ==
    /\ block \in Block
    /\ seasonIds \in 0..MaxSeasons
    /\ seasons \in [0..(seasonIds - 1) -> Season]

(* However windows are added and moved, each starts before it ends and     *)
(* ends before the next one starts: the order of the ids is the order in   *)
(* time (addSeason and setSeasonBlock look at the two neighbours only).    *)
SeasonsOrdered ==
    \A i, j \in 0..(seasonIds - 1) :
        /\ seasons[i].startBlock < seasons[i].endBlock
        /\ i < j => seasons[i].endBlock < seasons[j].startBlock

(* Two seasons are never current in the same block, so an entry to a gate  *)
(* counts for one season only.                                             *)
AtMostOneCurrent ==
    \A i, j \in 0..(seasonIds - 1) :
        isCurrentSeasonById(i) /\ isCurrentSeasonById(j) => i = j

(* A season that has ended stays ended and its record never changes again: *)
(* the settlement reads collecting scores at its end block and pays by its *)
(* collections, long after other seasons were added and moved.             *)
EndedSeasonFrozen ==
    [][\A id \in 0..(seasonIds - 1) :
          isEndedSeasonById(id) =>
              isEndedSeasonById(id)' /\ seasons'[id] = seasons[id]]_seasonVars

(* What a hunter can rely on while playing: the collections of a season    *)
(* that is current in a block stay what they are in every transaction of   *)
(* the block, and the season stops being current within the block only     *)
(* when an operator moves its window to blocks to come.                    *)
CurrentSeasonStable ==
    [][\A id \in 0..(seasonIds - 1) :
          isCurrentSeasonById(id) =>
              /\ seasons'[id].uses = seasons[id].uses
              /\ \/ seasons'[id] = seasons[id]
                 \/ block' < seasons'[id].startBlock]_seasonVars
============================================================================
