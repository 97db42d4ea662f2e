-------------------------- MODULE GateReplacement --------------------------
(***************************************************************************)
(* scripts/script.ts: a new dungeon gate takes the place of the one in use *)
(* on a system the initial data is set on.  The settlement counts entries  *)
(* at the new gate from the first transaction on; the rights the gate      *)
(* needs follow one by one.  A run may stop anywhere, and the next one     *)
(* brings another gate.                                                    *)
(***************************************************************************)
EXTENDS InitialData

CONSTANTS
    MaxGates        \* bound: gates that replace the first one

ASSUME MaxGatesAssumption == MaxGates \in Nat

VARIABLES
    gates,          \* how many gates were deployed after the first, the last one's name
    replacing,      \* is the script running, for the last gate
    replaced,       \* how many of its transactions were mined
    settlementGate, \* the gate whose entries the settlement counts
    approvedGates,  \* the gates that burn for every holder
    gateMinters     \* collection the gates were given an id of -> its gates

gateVars == <<gates, replacing, replaced, settlementGate, approvedGates, gateMinters>>
initialDataVars == <<scriptVars, tokenVars, seasonVars, factoryVars>>
allVars == <<initialDataVars, gateVars>>

Gate == 0..MaxGates
SeasonPackInUse == projectCollections[seasons[0].uses.seasonPack]
HunterRankInUse == projectCollections[seasons[0].uses.hunterRank]

Init ==
    /\ InitialDataInit
    /\ gates = FirstGate
    /\ replacing = FALSE
    /\ replaced = 0
    /\ settlementGate = FirstGate
    /\ approvedGates = {FirstGate}
    /\ gateMinters = [c \in MintsTo.DungeonGate |-> {FirstGate}]

----------------------------------------------------------------------------
Steps == 6
Step(i) ==
    /\ replacing
    /\ replaced = i - 1
    /\ replaced' = i
    /\ replacing' = (i < Steps)
    /\ UNCHANGED <<initialDataVars, gates>>

DeployGate ==
    /\ at = "done" /\ ~replacing
    /\ gates < MaxGates
    /\ gates' = gates + 1
    /\ replacing' = TRUE
    /\ replaced' = 0
    /\ UNCHANGED <<initialDataVars, settlementGate, approvedGates, gateMinters>>

SetDungeonGateContract ==
    /\ Step(1)
    /\ settlementGate' = gates
    /\ UNCHANGED <<approvedGates, gateMinters>>

AddApprovedContractOnly ==          \* faulty: the old gates lose the approval
    /\ Step(2)
    /\ gates \notin approvedGates
    /\ approvedGates' = {gates}
    /\ UNCHANGED <<settlementGate, gateMinters>>
AddApprovedContract ==
    /\ Step(2)
    /\ gates \notin approvedGates
    /\ approvedGates' = approvedGates \union {gates}
    /\ UNCHANGED <<settlementGate, gateMinters>>

AddCollectionController(i, c) ==
    /\ Step(i)
    /\ gateMinters' = [gateMinters EXCEPT ![c] = @ \union {gates}]
    /\ UNCHANGED <<settlementGate, approvedGates>>

AddPackController ==
    /\ replacing /\ replaced = 4
    /\ replaced' = 5
    /\ minters' = [minters EXCEPT ![SeasonPackInUse] = @ \union {gates}]
    /\ UNCHANGED <<scriptVars, projectCollections, opened, seasonVars, factoryVars>>
    /\ UNCHANGED <<gates, replacing, settlementGate, approvedGates, gateMinters>>

\* The new gate approved the shop's coin when it was initialised.
SetApproveUSDTokenContract ==
    /\ Step(Steps)
    /\ UNCHANGED <<settlementGate, approvedGates, gateMinters>>

StopReplacing ==
    /\ replacing
    /\ replacing' = FALSE
    /\ UNCHANGED <<initialDataVars, gates, replaced, settlementGate, approvedGates, gateMinters>>

Next ==
    \/ InitialDataNext /\ UNCHANGED gateVars
    \/ DeployGate
    \/ SetDungeonGateContract
    \/ AddApprovedContract
    \/ AddCollectionController(3, "EssenceStone")
    \/ AddCollectionController(4, "Monster")
    \/ AddPackController
    \/ SetApproveUSDTokenContract
    \/ StopReplacing

Spec == Init /\ [][Next]_allVars

----------------------------------------------------------------------------
(* The gate whose entries count can do what a gate does with stones, keys  *)
(* and packs, unless a run of the script stopped halfway or is under way   *)
(* (script.ts:33 switches the settlement before the rights are given), and *)
(* the gates before it keep their rights: what hunters entered there can   *)
(* still be cleared.                                                       *)
Settled == gates = FirstGate \/ replaced = Steps
HasRights(g) ==
    /\ g \in approvedGates
    /\ \A c \in DOMAIN gateMinters : g \in gateMinters[c]
    /\ g \in minters[SeasonPackInUse]
CountedGateHasRights ==
    at = "done" /\ SeasonPackInUse[1] = "SeasonPack" =>
        /\ HasRights(FirstGate)
        /\ Settled => HasRights(settlementGate)

(* The rank tokens of a season are minted by the gate (SLHunterRank.sol:30 *)
(* names the dungeon gate as the controller): the gate whose entries count *)
(* ranks up the hunters who have entered often enough.                     *)
CountedGateRanksUp ==
    at = "done" /\ Settled =>
        settlementGate \in minters[HunterRankInUse]
============================================================================
