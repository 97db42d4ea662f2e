----------------------------- MODULE DeployPlan -----------------------------
(***************************************************************************)
(* What scripts/deploy_contract.ts deploys, in its order, and what it      *)
(* passes to each contract: a table, one row for a contract.  An address   *)
(* is the name of the contract it is the address of, a row's `grants` are  *)
(* the accounts the contract lets in when it is initialised: controllers,  *)
(* which may mint, of a collection; contracts approved for every holder,   *)
(* which may burn, of the approval controller.                             *)
(***************************************************************************)
EXTENDS Naturals, Sequences

PublicNetwork == {"polygon", "mumbai", "arbitrumSepolia"}

\* The contracts deployed.json lists.
ContractType ==
    {"Project", "MonsterFactory", "Season", "SeasonQuest", "Random", "DungeonGate",
     "SeasonSettlement", "System", "SJWOffering", "SJWDistribution", "PriceFeed", "Shop",
     "ApprovalController", "ShadowMonarch", "EssenceStone", "Monster", "ShadowArmy",
     "GateKey", "LegendaryScene", "SeasonScore", "Achievement", "HunterItem",
     "HunterRank", "SeasonPack", "Top100", "TestUSDC"}

CollectionId ==
    [ShadowMonarch |-> 1, EssenceStone |-> 2, Monster |-> 3, ShadowArmy |-> 4,
     GateKey |-> 5, LegendaryScene |-> 6, SeasonScore |-> 7, Achievement |-> 8]

OperatorManager == "operatorManager"

Row(name, refs, ids, grants) ==
    [name |-> name, refs |-> refs, ids |-> ids, grants |-> grants]
Collection(name, refs, grants) == Row(name, refs \union {"Project"}, {}, grants)

----------------------------------------------------------------------------
(* The table, in the parts of the script.                                  *)
CoreRows ==
    << Row("RoleWallet", {}, {}, {OperatorManager}),
       Row("Project", {"RoleWallet"}, {}, {}),
       Row("MonsterFactory", {"Project"}, {}, {}),
       Row("Season", {"Project"}, {}, {}),
       Row("Random", {"Project"}, {}, {}) >>

\* Only a testing run deploys its own USD coin.
UsdRows(isTesting) == IF isTesting THEN << Row("TestUSDC", {}, {}, {}) >> ELSE << >>
UsdToken(isTesting) == IF isTesting THEN {"TestUSDC"} ELSE {}

GameRows(isTesting) ==
    << Row("Shop", {"Project"} \union UsdToken(isTesting), {"GateKey", "EssenceStone"}, {}),
       Row("DungeonGate", {"Project", "Season", "Random", "Shop", "MonsterFactory"},
           {"EssenceStone", "GateKey", "Monster"}, {}),
       Row("SeasonSettlement", {"Project", "Season", "DungeonGate"},
           {"LegendaryScene", "SeasonScore"}, {}),
       Row("System", {"Project", "MonsterFactory", "Random"},
           {"EssenceStone", "Monster", "ShadowArmy"}, {}) >>

ApprovedContracts == {"Season", "DungeonGate", "System"}
AccessRows == << Row("ApprovalController", {"Project"}, {}, ApprovedContracts) >>

GameCollectionRows ==
    << Collection("ShadowMonarch", {"ApprovalController"}, {}),
       Collection("EssenceStone", {"ApprovalController"}, {"System", "DungeonGate", "Shop"}),
       Collection("Monster", {"MonsterFactory", "ApprovalController"}, {"DungeonGate", "System"}) >>

MarketCollectionRowsSwapped(isTesting) ==   \* faulty: not in the order of the ids
    << Collection("GateKey", {"ApprovalController"},
                  IF isTesting THEN {OperatorManager, "Shop"} ELSE {"Shop"}),
       Collection("ShadowArmy", {"MonsterFactory", "ApprovalController"}, {"System"}) >>
MarketCollectionRows(isTesting) ==
    << Collection("ShadowArmy", {"MonsterFactory", "ApprovalController"}, {"System"}),
       Collection("GateKey", {"ApprovalController"},
                  IF isTesting THEN {OperatorManager, "Shop"} ELSE {"Shop"}) >>

SeasonCollectionRows ==
    << Collection("LegendaryScene", {"Season", "ApprovalController"}, {"SeasonSettlement"}),
       Collection("SeasonScore", {"Season"}, {"SeasonSettlement"}) >>

Plan(isTesting) ==
    CoreRows \o UsdRows(isTesting) \o GameRows(isTesting) \o AccessRows
        \o GameCollectionRows \o MarketCollectionRows(isTesting) \o SeasonCollectionRows

----------------------------------------------------------------------------
(* What the contracts do to the collections they were given the ids of.    *)
\* contract -> the collections it mints to.
MintsTo ==
    [DungeonGate |-> {"EssenceStone", "Monster"},
     System |-> {"EssenceStone", "Monster", "ShadowArmy"},
     Shop |-> {"EssenceStone", "GateKey"},
     SeasonSettlement |-> {"LegendaryScene", "SeasonScore"}]

\* The contracts that burn what an account holds in a collection.
Burners == {"DungeonGate", "System"}
============================================================================
