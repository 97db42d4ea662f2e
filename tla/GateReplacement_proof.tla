----------------------- MODULE GateReplacement_proof -----------------------
(***************************************************************************)
(* For any number of attempts to set the initial data and of gates that    *)
(* replace one another, each stopped anywhere: the registry is the one of  *)
(* the script's tables, with all its pairings in the end, the season is    *)
(* played with what its attempt deployed, and the gate that counts has the *)
(* rights of a gate.                                                       *)
(***************************************************************************)
EXTENDS GateReplacement, TLAPS

(* The stages of an attempt: before it adds the season, between that and   *)
(* the registry, and while it fills the registry.                          *)
Deploying == {"faucet", "HunterRank", "addHunterRank", "SeasonPack", "addSeasonPack"}
Opening == {"openToken", "addSeason"}
Inviting == {"InviteSBT", "addInviteSBT"}
Filling == {"addMonster", "addShadow", "setArise", "done"}
Stage == {"idle", "stopped"} \union Deploying \union Opening \union Inviting \union Filling

MT == {"HunterRank", "SeasonPack"}
Kinds == {"HunterRank", "SeasonPack", "InviteSBT"}
Collection7 == {DeployedCollections[i] : i \in 1..7}
ProjectCollection == Collection7 \union (Kinds \X (1..MaxAttempts))

TypeOK ==
    /\ attempt \in 0..MaxAttempts
    /\ at \in Stage
    /\ at # "idle" => attempt > 0
    /\ turn \in Nat \ {0}
    /\ projectCollections \in Seq(ProjectCollection)
    /\ opened \in [{"SeasonPack"} \X (1..MaxAttempts) -> SUBSET Nat]
    /\ minters \in [MT \X (1..MaxAttempts) -> SUBSET Gate]
    /\ seasonIds \in {0, 1}

(* The collections of the deployment come first, then those of attempts,   *)
(* and those the gate mints have it as a controller before they are added. *)
CollectionsOK ==
    /\ Len(projectCollections) >= 7
    /\ \A i \in 1..7 : projectCollections[i] \in Collection7
    /\ \A i \in DOMAIN projectCollections : i > 7 =>
           \E kind \in Kinds, a \in 1..attempt :
              /\ projectCollections[i] = <<kind, a>>
              /\ kind \in MT => FirstGate \in minters[<<kind, a>>]
    /\ at = "addHunterRank" => FirstGate \in minters[<<"HunterRank", attempt>>]
    /\ at = "addSeasonPack" => FirstGate \in minters[<<"SeasonPack", attempt>>]

(* The first season stays as it was added, and no other is ever.           *)
SeasonOK ==
    /\ seasonIds = 1 =>
           /\ seasons[0].endBlock = EndBlock
           /\ seasons[0].uses.hunterRank = 8 /\ seasons[0].uses.seasonPack = 9
           /\ 9 \in DOMAIN projectCollections
           /\ projectCollections[8][1] \in MT /\ projectCollections[9][1] \in MT
    /\ at \in Inviting \union Filling => seasonIds = 1

(* An attempt all of whose predecessors added nothing adds collections     *)
(* under the ids it expects, and finds no season before it adds it.        *)
OwnOnly == \A i \in DOMAIN projectCollections : projectCollections[i][2] \in {0, attempt}
Expected == [i \in 8..10 |-> IF i = 8 THEN "HunterRank" ELSE IF i = 9 THEN "SeasonPack" ELSE "InviteSBT"]
OwnOK ==
    OwnOnly =>
        /\ Len(projectCollections) <= 10
        /\ \A i \in DOMAIN projectCollections :
               i > 7 => projectCollections[i] = <<Expected[i], attempt>>
        /\ at \in {"idle", "faucet", "HunterRank", "addHunterRank"} => Len(projectCollections) = 7
        /\ at \in {"SeasonPack", "addSeasonPack"} => Len(projectCollections) = 8
        /\ at \in Opening \union Inviting => Len(projectCollections) = 9
        /\ at \in {"idle"} \union Deploying \union Opening => seasonIds = 0
        /\ seasonIds = 1 => opened[<<"SeasonPack", attempt>>] = 1..PackTokens

(* The loop that opens the packs has opened as many as it has turned.      *)
PacksOK ==
    /\ \A a \in 1..MaxAttempts :
           a > attempt \/ (a = attempt /\ at \in Deploying) => opened[<<"SeasonPack", a>>] = {}
    /\ at = "openToken" =>
           turn <= PackTokens /\ opened[<<"SeasonPack", attempt>>] = 1..(turn - 1)
    /\ at = "addSeason" => opened[<<"SeasonPack", attempt>>] = 1..PackTokens

(* The registry is filled once, in the order of the tables.                *)
Tabled(kind, table) ==
    /\ monsterIds[kind] <= Len(table)
    /\ \A id \in 1..monsterIds[kind] : monsterRankTypes[kind][id] = table[id]
RegistryOK ==
    /\ monsterIds \in [{"normal", "shadow"} -> Nat]
    /\ monsterRankTypes \in [{"normal", "shadow"} -> [1..Len(monsterIdToRanks) -> RankType]]
    /\ Tabled("normal", monsterIdToRanks)
    /\ Tabled("shadow", shadowIdToRanks)
    /\ seasonIds = 0 \/ at \in Inviting => monsterIds["normal"] = 0 /\ monsterIds["shadow"] = 0
    /\ at = "addMonster" =>
           /\ turn <= Len(monsterIdToRanks)
           /\ monsterIds["normal"] = turn - 1 /\ monsterIds["shadow"] = 0
    /\ at = "addShadow" => turn <= Len(shadowIdToRanks) /\ monsterIds["shadow"] = turn - 1

DataInv == TypeOK /\ CollectionsOK /\ SeasonOK /\ OwnOK /\ PacksOK /\ RegistryOK

(* The rights of the last gate follow the transactions that were mined.    *)
RightsOK ==
    /\ gates \in Gate /\ replaced \in 0..Steps
    /\ settlementGate \in Gate
    /\ gateMinters \in [MintsTo.DungeonGate -> SUBSET Gate]
    /\ FirstGate \in approvedGates
    /\ \A c \in MintsTo.DungeonGate : FirstGate \in gateMinters[c]
    /\ gates > 0 => at = "done"
    /\ gates = 0 => settlementGate = FirstGate
    /\ replacing => gates > 0 /\ replaced < Steps
    /\ gates > 0 =>
           /\ replaced >= 1 => settlementGate = gates
           /\ replaced >= 2 => gates \in approvedGates
           /\ replaced >= 3 => gates \in gateMinters["EssenceStone"]
           /\ replaced >= 4 => gates \in gateMinters["Monster"]
           /\ replaced >= 5 => gates \in minters[SeasonPackInUse]

RolloutInv == DataInv /\ RightsOK

-----------------------------------------------------------------------------
(* The tables of the script are sequences of ranks that are not empty.     *)
IsTable(table) == table \in Seq(RankType) /\ Len(table) \in Nat \ {0}

(* One rank, any number of times, is such a sequence.                      *)
LEMMA TimesIsTable ==
    ASSUME NEW rank \in RankType, NEW n \in Nat \ {0} PROVE IsTable(Times(rank, n))
BY DEF IsTable, Times

(* So is a table with more of a rank behind it.                            *)
LEMMA TablesJoin ==
    ASSUME NEW s, NEW t, IsTable(s), IsTable(t) PROVE IsTable(s \o t)
BY DEF IsTable

(* So both tables, put together from these, are.                           *)
LEMMA TableFacts == IsTable(monsterIdToRanks) /\ IsTable(shadowIdToRanks)
<1>1. /\ RankE \in RankType /\ RankD \in RankType /\ RankC \in RankType
      /\ RankB \in RankType /\ RankA \in RankType /\ RankS \in RankType
  BY DEF RankType, RankE, RankD, RankC, RankB, RankA, RankS
<1>2. /\ IsTable(Times(RankE, 3)) /\ IsTable(Times(RankD, 3)) /\ IsTable(Times(RankC, 6))
      /\ IsTable(Times(RankB, 7)) /\ IsTable(Times(RankA, 6)) /\ IsTable(Times(RankS, 5))
      /\ IsTable(Times(RankE, 2)) /\ IsTable(Times(RankB, 5)) /\ IsTable(Times(RankA, 5))
  BY <1>1, TimesIsTable
<1>3. IsTable(Times(RankE, 3) \o Times(RankD, 3))
  BY <1>2, TablesJoin
<1>4. IsTable(Times(RankE, 3) \o Times(RankD, 3) \o Times(RankC, 6))
  BY <1>2, <1>3, TablesJoin
<1>5. IsTable(Times(RankE, 3) \o Times(RankD, 3) \o Times(RankC, 6) \o Times(RankB, 7))
  BY <1>2, <1>4, TablesJoin
<1>6. IsTable(Times(RankE, 3) \o Times(RankD, 3) \o Times(RankC, 6) \o Times(RankB, 7)
                  \o Times(RankA, 6))
  BY <1>2, <1>5, TablesJoin
<1>7. IsTable(Times(RankE, 3) \o Times(RankD, 3) \o Times(RankC, 6) \o Times(RankB, 7)
                  \o Times(RankA, 6) \o Times(RankS, 5))
  BY <1>2, <1>6, TablesJoin
<1>8. IsTable(Times(RankE, 3) \o Times(RankD, 3) \o Times(RankC, 6) \o Times(RankB, 7)
                  \o Times(RankA, 6) \o Times(RankS, 5) \o Times(RankE, 2))
  BY <1>2, <1>7, TablesJoin
<1>9. IsTable(monsterIdToRanks)
  BY <1>2, <1>8, TablesJoin DEF monsterIdToRanks
<1>10. IsTable(Times(RankB, 5) \o Times(RankA, 5))
  BY <1>2, TablesJoin
<1>11. IsTable(shadowIdToRanks)
  BY <1>2, <1>10, TablesJoin DEF shadowIdToRanks
<1> QED BY <1>9, <1>11

(* The first seven collections are of no attempt.                          *)
LEMMA CollectionFacts ==
    /\ \A c \in Collection7 : c[2] = 0
    /\ \A i \in 1..7 : DeployedCollections[i] \in Collection7
    /\ DeployedCollections \in Seq(ProjectCollection) /\ Len(DeployedCollections) = 7
    /\ FirstGate \in Gate
<1>1. \A i \in 1..7 : DeployedCollections[i][2] = 0
  BY DEF DeployedCollections
<1>2. DeployedCollections = [i \in 1..7 |-> DeployedCollections[i]]
  BY DEF DeployedCollections
<1> HIDE DEF DeployedCollections
<1>3. \A i \in 1..7 : DeployedCollections[i] \in Collection7
  BY DEF Collection7
<1>4. DeployedCollections \in Seq(ProjectCollection) /\ Len(DeployedCollections) = 7
  BY <1>2, <1>3 DEF ProjectCollection
<1>5. FirstGate \in Gate
  BY MaxGatesAssumption DEF FirstGate, Gate
<1>6. \A c \in Collection7 : c[2] = 0
  BY <1>1 DEF Collection7
<1> QED BY <1>3, <1>4, <1>5, <1>6

(* Before the first attempt there is what was deployed.                    *)
LEMMA DataStarts == InitialDataInit => DataInv
<1> SUFFICES ASSUME InitialDataInit PROVE DataInv
  OBVIOUS
<1> USE CollectionFacts, MaxAttemptsAssumption
<1>1. /\ attempt = 0 /\ at = "idle" /\ turn = 1 /\ seasonIds = 0
      /\ projectCollections = DeployedCollections
      /\ opened = [p \in {"SeasonPack"} \X (1..MaxAttempts) |-> {}]
      /\ minters = [c \in {"HunterRank", "SeasonPack"} \X (1..MaxAttempts) |-> {}]
  BY DEF InitialDataInit, SeasonContract!SeasonInit
<1>2. TypeOK
  BY <1>1 DEF TypeOK, Stage, MT
<1>3. DOMAIN projectCollections = 1..7
  BY <1>1, <1>2 DEF TypeOK
<1>10. Len(projectCollections) = 7 /\ \A i \in DOMAIN projectCollections : ~(i > 7)
  BY <1>1, <1>3
<1>11. \A i \in 1..7 : projectCollections[i] \in Collection7
  BY <1>1
<1>12. at # "addHunterRank" /\ at # "addSeasonPack"
  BY <1>1
<1>4. CollectionsOK
  BY <1>10, <1>11, <1>12 DEF CollectionsOK
<1>5. SeasonOK
  BY <1>1 DEF SeasonOK, Inviting, Filling
<1>6. OwnOK
  <2>1. at = "idle" /\ at \notin Opening \union Inviting /\ at \notin {"SeasonPack", "addSeasonPack"}
    BY <1>1 DEF Opening, Inviting
  <2>2. seasonIds # 1 /\ seasonIds = 0
    BY <1>1
  <2>3. Len(projectCollections) <= 10
    BY <1>10
  <2> QED BY ONLY <1>10, <2>1, <2>2, <2>3 DEF OwnOK
<1>7. PacksOK
  BY <1>1 DEF PacksOK, Deploying
<1>8. RegistryOK
  <2>1. /\ monsterIds = [kind \in {"normal", "shadow"} |-> 0]
        /\ monsterRankTypes = [kind \in {"normal", "shadow"} |->
                                  [id \in 1..Len(monsterIdToRanks) |-> RankE]]
    BY DEF InitialDataInit, Factory!Init, Factory!Kind, Factory!MonsterId, Factory!RankE, RankE
  <2>2. RankE \in RankType
    BY DEF RankE, RankType, RankS
  <2> QED BY <1>1, <2>1, <2>2, TableFacts DEF RegistryOK, Tabled, Inviting, IsTable
<1> QED BY <1>2, <1>4, <1>5, <1>6, <1>7, <1>8 DEF DataInv

-----------------------------------------------------------------------------
(* A step of the script: what it leaves alone keeps the invariant.         *)

(* The parts of the invariant, for leaves that use several.                *)
LEMMA DataParts ==
    DataInv => TypeOK /\ CollectionsOK /\ SeasonOK /\ OwnOK /\ PacksOK /\ RegistryOK
BY DEF DataInv

(* There are as many collections as ids.                                   *)
LEMMA CollectionIds ==
    ASSUME DataInv
    PROVE  /\ Len(projectCollections) \in Nat /\ Len(projectCollections) >= 7
           /\ DOMAIN projectCollections = 1..Len(projectCollections)
<1>1. projectCollections \in Seq(ProjectCollection) /\ Len(projectCollections) >= 7
  BY DEF DataInv, TypeOK, CollectionsOK
<1> QED BY <1>1

(* A step that leaves registry and seasons alone and is not about to fill  *)
(* the registry keeps the registry's part.                                 *)
LEMMA RegistryStays ==
    ASSUME RegistryOK, UNCHANGED <<monsterIds, monsterRankTypes, seasonIds>>,
           at' \notin Inviting \union {"addMonster", "addShadow"}
    PROVE  RegistryOK'
BY DEF RegistryOK, Tabled

(* A step that opens no packs keeps their part.                            *)
LEMMA PacksStay ==
    ASSUME PacksOK, UNCHANGED <<opened, attempt>>,
           at' \in Deploying => at \in Deploying, at' \notin Opening
    PROVE  PacksOK'
BY DEF PacksOK, Opening

(* A step that adds no collection keeps what is said of the collections.   *)
LEMMA CollectionsStay ==
    ASSUME CollectionsOK, UNCHANGED <<projectCollections, minters, attempt>>,
           at' \notin {"addHunterRank", "addSeasonPack"}
    PROVE  CollectionsOK'
BY DEF CollectionsOK

(* The season stays while no season is added.                              *)
LEMMA SeasonStays ==
    ASSUME SeasonOK, UNCHANGED <<projectCollections, seasonIds, seasons>>,
           at' \in Inviting \union Filling => at \in Inviting \union Filling
    PROVE  SeasonOK'
BY DEF SeasonOK

(* The ids an attempt expects stay, too.                                   *)
LEMMA OwnStays ==
    ASSUME OwnOK, UNCHANGED <<projectCollections, attempt, opened, seasonIds>>,
           \/ at' = "stopped"
           \/ at' \in Filling
           \/ at' = "HunterRank" /\ at = "faucet"
    PROVE  OwnOK'
<1>1. OwnOnly' => OwnOnly
  BY DEF OwnOnly
<1>2. CASE at' = "stopped" \/ at' \in Filling
  <2>1. at' \notin {"idle"} \union Deploying \union Opening \union Inviting
    BY <1>2 DEF Filling, Deploying, Opening, Inviting
  <2> QED BY <1>1, <2>1 DEF OwnOK, Deploying
<1>3. CASE at' = "HunterRank" /\ at = "faucet"
  BY <1>1, <1>3 DEF OwnOK, Deploying, Opening, Inviting
<1> QED BY <1>2, <1>3

(* A step of the chain or of the gates changes nothing of all this.        *)
LEMMA DataKept ==
    ASSUME DataInv,
           UNCHANGED <<attempt, at, turn, projectCollections, opened, minters>>,
           UNCHANGED <<seasonIds, seasons, monsterIds, monsterRankTypes>>
    PROVE  DataInv'
<1>1. TypeOK'
  BY DEF DataInv, TypeOK
<1>2. CollectionsOK'
  BY DEF DataInv, CollectionsOK
<1>3. SeasonOK'
  BY DEF DataInv, SeasonOK
<1>4. OwnOK'
  BY DEF DataInv, OwnOK, OwnOnly
<1>5. PacksOK'
  BY DEF DataInv, PacksOK
<1>6. RegistryOK'
  BY DEF DataInv, RegistryOK, Tabled
<1> QED BY <1>1, <1>2, <1>3, <1>4, <1>5, <1>6 DEF DataInv

(* A new attempt has added nothing; if nobody has, there is no season.     *)
LEMMA BeginKeeps == ASSUME DataInv, Begin PROVE DataInv'
<1>1. /\ attempt' = attempt + 1 /\ attempt < MaxAttempts /\ at' = "faucet" /\ turn' = 1
      /\ UNCHANGED <<projectCollections, opened, minters, seasonIds, seasons>>
      /\ UNCHANGED <<monsterIds, monsterRankTypes>>
  BY DEF Begin, tokenVars, seasonVars, factoryVars
<1>2. TypeOK'
  BY <1>1, MaxAttemptsAssumption DEF DataInv, TypeOK, Stage, Deploying
<1>3. attempt \in Nat /\ 1..attempt \subseteq 1..attempt'
  BY <1>1, MaxAttemptsAssumption DEF DataInv, TypeOK
<1>4. CollectionsOK'
  BY <1>1, <1>3 DEF DataInv, CollectionsOK
<1>5. SeasonOK'
  BY <1>1 DEF DataInv, SeasonOK, Inviting, Filling
<1>6. OwnOK'
  <2>1. SUFFICES OwnOnly' => Len(projectCollections) = 7 /\ seasonIds = 0
    <3>1. /\ at' \notin {"SeasonPack", "addSeasonPack"} \union Opening \union Inviting
          /\ UNCHANGED <<projectCollections, seasonIds>>
      BY <1>1 DEF Opening, Inviting
    <3>2. CASE ~OwnOnly'
      BY <3>2 DEF OwnOK
    <3>3. CASE Len(projectCollections) = 7 /\ seasonIds = 0
      <4>1. \A i \in DOMAIN projectCollections : ~(i > 7)
        BY <3>3, CollectionIds
      <4> QED BY <3>1, <3>3, <4>1 DEF OwnOK
    <3> QED BY <2>1, <3>2, <3>3
  <2> HAVE OwnOnly'
  <2>2. ASSUME NEW i \in DOMAIN projectCollections PROVE i <= 7
    <3>1. SUFFICES ASSUME i > 7 PROVE FALSE
      BY CollectionIds
    <3>2. PICK kind \in Kinds, a \in 1..attempt : projectCollections[i] = <<kind, a>>
      BY <3>1 DEF DataInv, CollectionsOK
    <3>3. a \in {0, attempt + 1}
      BY <1>1, <3>2 DEF OwnOnly
    <3> QED BY <1>3, <3>3
  <2>3. Len(projectCollections) = 7
    BY <2>2, CollectionIds
  <2>4. seasonIds = 0
    BY <2>2 DEF DataInv, TypeOK, SeasonOK
  <2> QED BY <2>3, <2>4
<1>7. PacksOK'
  <2>1. at' # "openToken" /\ at' # "addSeason"
    BY <1>1
  <2>2. ASSUME NEW a \in 1..MaxAttempts, a > attempt' \/ a = attempt'
        PROVE  opened'[<<"SeasonPack", a>>] = {}
    <3>1. a > attempt
      BY <1>1, <1>3, <2>2
    <3> QED BY <1>1, <3>1 DEF DataInv, PacksOK
  <2> QED BY <2>1, <2>2 DEF PacksOK
<1>8. RegistryOK'
  BY <1>1, RegistryStays DEF DataInv, Inviting
<1> QED BY <1>2, <1>4, <1>5, <1>6, <1>7, <1>8 DEF DataInv

(* The faucet is none of the collections of the project.                   *)
LEMMA FundFaucetKeeps == ASSUME DataInv, FundFaucet PROVE DataInv'
<1>1. /\ at = "faucet" /\ at' = "HunterRank" /\ turn' = 1 /\ UNCHANGED attempt
      /\ UNCHANGED <<projectCollections, opened, minters, seasonIds, seasons>>
      /\ UNCHANGED <<monsterIds, monsterRankTypes>>
  BY DEF FundFaucet, GoTo, tokenVars, seasonVars, factoryVars
<1>2. TypeOK'
  BY <1>1 DEF DataInv, TypeOK, Stage, Deploying
<1>3. /\ at' \notin Inviting \union Filling /\ at' \notin Opening
      /\ at' \notin Inviting \union {"addMonster", "addShadow"} /\ at \in Deploying
  BY <1>1 DEF Inviting, Filling, Opening, Deploying
<1>4. CollectionsOK' /\ SeasonOK' /\ OwnOK' /\ PacksOK' /\ RegistryOK'
  BY <1>1, <1>3, CollectionsStay, SeasonStays, OwnStays, PacksStay, RegistryStays DEF DataInv
<1> QED BY <1>2, <1>4 DEF DataInv

(* An attempt that stops leaves everything as it is.                       *)
LEMMA StopAttemptKeeps == ASSUME DataInv, StopAttempt PROVE DataInv'
<1>1. /\ at \notin {"idle", "stopped", "done"}
      /\ at' = "stopped" /\ turn' = 1 /\ UNCHANGED attempt
      /\ UNCHANGED <<projectCollections, opened, minters, seasonIds, seasons>>
      /\ UNCHANGED <<monsterIds, monsterRankTypes>>
  BY DEF StopAttempt, GoTo, tokenVars, seasonVars, factoryVars
<1>2. TypeOK'
  BY <1>1 DEF DataInv, TypeOK, Stage
<1>3. /\ at' \notin Inviting \union Filling /\ at' \notin Opening /\ at' \notin Deploying
      /\ at' \notin Inviting \union {"addMonster", "addShadow"}
  BY <1>1 DEF Inviting, Filling, Opening, Deploying
<1>4. CollectionsOK' /\ SeasonOK' /\ OwnOK' /\ PacksOK' /\ RegistryOK'
  BY <1>1, <1>3, CollectionsStay, SeasonStays, OwnStays, PacksStay, RegistryStays DEF DataInv
<1> QED BY <1>2, <1>4 DEF DataInv

(* The collections are deployed under the names of the script.             *)
LEMMA KindFacts ==
    /\ DOMAIN AfterAdded = Kinds
    /\ AddsIt["HunterRank"] = "addHunterRank" /\ AfterAdded["HunterRank"] = "SeasonPack"
    /\ AddsIt["SeasonPack"] = "addSeasonPack" /\ AfterAdded["SeasonPack"] = "openToken"
    /\ AddsIt["InviteSBT"] = "addInviteSBT" /\ AfterAdded["InviteSBT"] = "addMonster"
BY DEF AfterAdded, AddsIt, Kinds

(* The gate becomes a controller of a collection before the project has    *)
(* it.                                                                     *)
LEMMA DeployCollectionKeeps ==
    ASSUME DataInv, NEW kind \in Kinds, DeployCollection(kind)
    PROVE  DataInv'
<1>1. /\ at = kind /\ at' = AddsIt[kind] /\ turn' = 1 /\ UNCHANGED attempt
      /\ minters' = IF kind = "InviteSBT" THEN minters
                    ELSE [minters EXCEPT ![<<kind, attempt>>] = {FirstGate}]
      /\ UNCHANGED <<projectCollections, opened, seasonIds, seasons>>
      /\ UNCHANGED <<monsterIds, monsterRankTypes>>
  BY DEF DeployCollection, GoTo, Own, seasonVars, factoryVars
<1>2. \/ at = "HunterRank" /\ at' = "addHunterRank" /\ kind = "HunterRank"
      \/ at = "SeasonPack" /\ at' = "addSeasonPack" /\ kind = "SeasonPack"
      \/ at = "InviteSBT" /\ at' = "addInviteSBT" /\ kind = "InviteSBT"
  BY <1>1, KindFacts DEF Kinds
<1>3. attempt \in 1..MaxAttempts /\ minters \in [MT \X (1..MaxAttempts) -> SUBSET Gate]
  BY <1>2, MaxAttemptsAssumption DEF DataInv, TypeOK
<1>4. /\ minters' \in [MT \X (1..MaxAttempts) -> SUBSET Gate]
      /\ \A k \in MT, a \in 1..MaxAttempts :
             FirstGate \in minters[<<k, a>>] => FirstGate \in minters'[<<k, a>>]
      /\ kind \in MT => FirstGate \in minters'[<<kind, attempt>>]
  <2>1. CASE kind = "InviteSBT"
    BY <1>1, <1>3, <2>1 DEF MT
  <2>2. CASE kind # "InviteSBT"
    <3>1. kind \in MT
      BY <1>2, <2>2 DEF MT
    <3>2. minters' = [minters EXCEPT ![<<kind, attempt>>] = {FirstGate}]
      BY <1>1, <2>2
    <3>3. {FirstGate} \in SUBSET Gate
      BY CollectionFacts
    <3> QED BY <1>3, <3>1, <3>2, <3>3
  <2> QED BY <2>1, <2>2
<1>5. TypeOK'
  BY <1>1, <1>2, <1>4 DEF DataInv, TypeOK, Stage, Deploying, Inviting
<1>6. CollectionsOK'
  <2>1. ASSUME NEW i \in DOMAIN projectCollections', i > 7
        PROVE  \E k \in Kinds, a \in 1..attempt' :
                  /\ projectCollections'[i] = <<k, a>>
                  /\ k \in MT => FirstGate \in minters'[<<k, a>>]
    <3>1. PICK k \in Kinds, a \in 1..attempt :
             /\ projectCollections[i] = <<k, a>>
             /\ k \in MT => FirstGate \in minters[<<k, a>>]
      BY <1>1, <2>1 DEF DataInv, CollectionsOK
    <3>2. a \in 1..MaxAttempts
      BY <1>3, MaxAttemptsAssumption
    <3> QED BY <1>1, <1>4, <3>1, <3>2
  <2>2. /\ at' = "addHunterRank" => FirstGate \in minters'[<<"HunterRank", attempt'>>]
        /\ at' = "addSeasonPack" => FirstGate \in minters'[<<"SeasonPack", attempt'>>]
    BY <1>1, <1>2, <1>4 DEF MT
  <2> QED BY <1>1, <2>1, <2>2 DEF DataInv, CollectionsOK
<1>7. at' \in Inviting \union Filling => at \in Inviting \union Filling
  BY <1>2 DEF Inviting, Filling
<1>8. SeasonOK'
  BY <1>1, <1>7, SeasonStays DEF DataInv
<1>9. OwnOK'
  <2>1. OwnOnly' => OwnOnly
    BY <1>1 DEF OwnOnly
  <2>2. CASE at = "HunterRank" /\ at' = "addHunterRank"
    BY <1>1, <2>1, <2>2 DEF DataInv, OwnOK, Deploying, Opening, Inviting
  <2>3. CASE at = "SeasonPack" /\ at' = "addSeasonPack"
    BY <1>1, <2>1, <2>3 DEF DataInv, OwnOK, Deploying, Opening, Inviting
  <2>4. CASE at = "InviteSBT" /\ at' = "addInviteSBT"
    BY <1>1, <2>1, <2>4 DEF DataInv, OwnOK, Deploying, Opening, Inviting
  <2> QED BY <1>2, <2>2, <2>3, <2>4
<1>10. PacksOK'
  <2>1. (at' \in Deploying => at \in Deploying) /\ at' \notin Opening
    BY <1>2 DEF Deploying, Opening
  <2> QED BY <1>1, <2>1, PacksStay DEF DataInv
<1>11. RegistryOK'
  <2>1. at' \in Inviting => at \in Inviting
    BY <1>2 DEF Inviting
  <2>2. at' # "addMonster" /\ at' # "addShadow"
    BY <1>2
  <2> QED BY <1>1, <2>1, <2>2 DEF DataInv, RegistryOK, Tabled
<1> QED BY <1>5, <1>6, <1>8, <1>9, <1>10, <1>11 DEF DataInv

(* A collection gets the next id of the project; the ids before stay.      *)
LEMMA AppendedFacts ==
    ASSUME DataInv, NEW c \in ProjectCollection,
           projectCollections' = Append(projectCollections, c)
    PROVE  /\ projectCollections' \in Seq(ProjectCollection)
           /\ Len(projectCollections') = Len(projectCollections) + 1
           /\ DOMAIN projectCollections' = 1..(Len(projectCollections) + 1)
           /\ DOMAIN projectCollections \subseteq DOMAIN projectCollections'
           /\ \A i \in DOMAIN projectCollections : projectCollections'[i] = projectCollections[i]
           /\ projectCollections'[Len(projectCollections) + 1] = c
           /\ \A i \in DOMAIN projectCollections' :
                  i \in DOMAIN projectCollections \/ i = Len(projectCollections) + 1
<1>1. projectCollections \in Seq(ProjectCollection)
  BY DEF DataInv, TypeOK
<1> QED BY <1>1

(* A collection that is added is the attempt's own.                        *)
LEMMA AddProjectCollectionKeeps ==
    ASSUME DataInv, NEW kind \in Kinds, AddProjectCollection(kind)
    PROVE  DataInv'
<1> DEFINE n == Len(projectCollections)
<1>1. /\ at = AddsIt[kind] /\ at' = AfterAdded[kind] /\ turn' = 1 /\ UNCHANGED attempt
      /\ projectCollections' = Append(projectCollections, <<kind, attempt>>)
      /\ UNCHANGED <<minters, opened, seasonIds, seasons, monsterIds, monsterRankTypes>>
  BY DEF AddProjectCollection, GoTo, Own, seasonVars, factoryVars
<1>2. \/ at = "addHunterRank" /\ at' = "SeasonPack" /\ kind = "HunterRank"
      \/ at = "addSeasonPack" /\ at' = "openToken" /\ kind = "SeasonPack"
      \/ at = "addInviteSBT" /\ at' = "addMonster" /\ kind = "InviteSBT"
  BY <1>1, KindFacts DEF Kinds
<1>3. attempt \in 1..MaxAttempts /\ <<kind, attempt>> \in ProjectCollection
  BY <1>2, MaxAttemptsAssumption DEF DataInv, TypeOK, ProjectCollection
<1>4. n \in Nat /\ n >= 7 /\ DOMAIN projectCollections = 1..n
  BY CollectionIds
<1>5. /\ projectCollections' \in Seq(ProjectCollection)
      /\ Len(projectCollections') = n + 1
      /\ DOMAIN projectCollections' = 1..(n + 1)
      /\ DOMAIN projectCollections \subseteq DOMAIN projectCollections'
      /\ \A i \in DOMAIN projectCollections : projectCollections'[i] = projectCollections[i]
      /\ projectCollections'[n + 1] = <<kind, attempt>>
      /\ \A i \in DOMAIN projectCollections' : i \in DOMAIN projectCollections \/ i = n + 1
  BY <1>1, <1>3, AppendedFacts
<1> HIDE DEF n
<1>6. TypeOK'
  BY <1>1, <1>2, <1>5 DEF DataInv, TypeOK, Stage, Deploying, Opening, Filling
<1>7. CollectionsOK'
  <2>1. ASSUME NEW i \in DOMAIN projectCollections', i > 7
        PROVE  \E k \in Kinds, a \in 1..attempt' :
                  /\ projectCollections'[i] = <<k, a>>
                  /\ k \in MT => FirstGate \in minters'[<<k, a>>]
    <3>1. CASE i \in DOMAIN projectCollections
      <4>1. PICK k \in Kinds, a \in 1..attempt :
               /\ projectCollections[i] = <<k, a>>
               /\ k \in MT => FirstGate \in minters[<<k, a>>]
        BY <2>1, <3>1 DEF DataInv, CollectionsOK
      <4>2. projectCollections'[i] = <<k, a>>
        BY <1>5, <3>1, <4>1
      <4> QED BY <1>1, <4>1, <4>2
    <3>2. CASE i = n + 1
      <4>1. kind \in MT => FirstGate \in minters[<<kind, attempt>>]
        BY <1>2 DEF DataInv, CollectionsOK, MT
      <4>2. attempt \in 1..attempt'
        BY <1>1, <1>3, MaxAttemptsAssumption
      <4> QED BY <1>1, <1>5, <3>2, <4>1, <4>2
    <3> QED BY <1>5, <2>1, <3>1, <3>2
  <2>2. at' # "addHunterRank" /\ at' # "addSeasonPack"
    BY <1>2
  <2>3. \A i \in 1..7 : projectCollections'[i] \in Collection7
    <3>1. \A i \in 1..7 : i \in DOMAIN projectCollections
      BY <1>4
    <3>2. \A i \in 1..7 : projectCollections[i] \in Collection7
      BY DEF DataInv, CollectionsOK
    <3> QED BY <1>5, <3>1, <3>2
  <2>4. Len(projectCollections') >= 7
    BY <1>4, <1>5
  <2> QED BY <2>1, <2>2, <2>3, <2>4 DEF CollectionsOK
<1>8. SeasonOK'
  <2>1. at' \in Inviting \union Filling => at \in Inviting \union Filling
    BY <1>2 DEF Inviting, Filling
  <2>2. 9 \in DOMAIN projectCollections => 8 \in DOMAIN projectCollections
    BY <1>4
  <2> QED BY <1>1, <1>5, <2>1, <2>2 DEF DataInv, SeasonOK
<1>9. OwnOK'
  <2> SUFFICES ASSUME OwnOnly' PROVE OwnOK'
    BY DEF OwnOK
  <2>1. OwnOnly
    BY <1>1, <1>5 DEF OwnOnly
  <2>2. \/ at' = "SeasonPack" /\ kind = "HunterRank" /\ n = 7 /\ seasonIds = 0
        \/ at' = "openToken" /\ kind = "SeasonPack" /\ n = 8 /\ seasonIds = 0
        \/ at' = "addMonster" /\ kind = "InviteSBT" /\ n = 9
    BY <1>2, <2>1 DEF DataInv, OwnOK, Deploying, Inviting, n
  <2>3. kind = Expected[n + 1] /\ n + 1 <= 10
    BY <2>2 DEF Expected
  <2>4. ASSUME NEW i \in DOMAIN projectCollections', i > 7
        PROVE  projectCollections'[i] = <<Expected[i], attempt'>>
    BY <1>1, <1>5, <2>1, <2>3, <2>4 DEF DataInv, OwnOK
  <2>5. seasonIds = 1 => opened[<<"SeasonPack", attempt>>] = 1..PackTokens
    BY <2>1 DEF DataInv, OwnOK
  <2>6. CASE at' = "SeasonPack" /\ n = 7 /\ seasonIds = 0
    BY <1>1, <1>5, <2>3, <2>4, <2>6 DEF OwnOK, Opening, Inviting
  <2>7. CASE at' = "openToken" /\ n = 8 /\ seasonIds = 0
    BY <1>1, <1>5, <2>3, <2>4, <2>7 DEF OwnOK, Opening, Inviting
  <2>8. CASE at' = "addMonster" /\ n = 9
    BY <1>1, <1>5, <2>3, <2>4, <2>5, <2>8 DEF OwnOK, Opening, Inviting, Deploying
  <2> QED BY <2>2, <2>6, <2>7, <2>8
<1>10. PacksOK'
  <2>1. at' \in Deploying => at \in Deploying
    BY <1>2 DEF Deploying
  <2>2. at' = "openToken" =>
            turn' <= PackTokens /\ opened'[<<"SeasonPack", attempt'>>] = 1..(turn' - 1)
    <3>1. SUFFICES ASSUME at' = "openToken" PROVE opened[<<"SeasonPack", attempt>>] = {}
      BY <1>1 DEF PackTokens
    <3>2. at \in Deploying
      BY <1>2, <3>1 DEF Deploying
    <3> QED BY <1>3, <3>2 DEF DataInv, PacksOK
  <2>3. at' # "addSeason"
    BY <1>2
  <2> QED BY <1>1, <2>1, <2>2, <2>3 DEF DataInv, PacksOK
<1>11. RegistryOK'
  <2>1. at' \notin Inviting /\ at' # "addShadow"
    BY <1>2 DEF Inviting
  <2>2. at' = "addMonster" =>
            /\ turn' <= Len(monsterIdToRanks)
            /\ monsterIds["normal"] = turn' - 1 /\ monsterIds["shadow"] = 0
    <3>1. SUFFICES ASSUME at' = "addMonster" PROVE at \in Inviting
      BY <1>1, TableFacts DEF DataInv, RegistryOK, IsTable
    <3> QED BY <1>2, <3>1 DEF Inviting
  <2> QED BY <1>1, <2>1, <2>2 DEF DataInv, RegistryOK, Tabled
<1> QED BY <1>6, <1>7, <1>8, <1>9, <1>10, <1>11 DEF DataInv

(* A turn of the loop opens the next pack.                                 *)
LEMMA OpenTokenKeeps == ASSUME DataInv, OpenToken PROVE DataInv'
<1> DEFINE pack == <<"SeasonPack", attempt>>
<1>1. /\ at = "openToken" /\ UNCHANGED attempt
      /\ opened' = [opened EXCEPT ![pack] = @ \union {turn}]
      /\ at' = IF turn < PackTokens THEN at ELSE "addSeason"
      /\ turn' = IF turn < PackTokens THEN turn + 1 ELSE 1
      /\ UNCHANGED <<projectCollections, minters, seasonIds, seasons>>
      /\ UNCHANGED <<monsterIds, monsterRankTypes>>
  BY DEF OpenToken, LoopTo, Own, seasonVars, factoryVars
<1>2. /\ turn \in Nat \ {0} /\ turn <= PackTokens /\ opened[pack] = 1..(turn - 1)
      /\ attempt \in 1..MaxAttempts
  BY <1>1, MaxAttemptsAssumption DEF DataInv, TypeOK, PacksOK
<1>3. opened \in [{"SeasonPack"} \X (1..MaxAttempts) -> SUBSET Nat]
  BY DEF DataInv, TypeOK
<1>4. /\ opened' \in [{"SeasonPack"} \X (1..MaxAttempts) -> SUBSET Nat]
      /\ opened'[pack] = opened[pack] \union {turn}
      /\ \A a \in 1..MaxAttempts : a # attempt =>
             opened'[<<"SeasonPack", a>>] = opened[<<"SeasonPack", a>>]
  BY <1>1, <1>2, <1>3
<1>5. opened'[pack] = 1..turn
  BY <1>2, <1>4
<1>6. at' \in Opening /\ at' \notin {"addHunterRank", "addSeasonPack"}
      /\ at' \notin Inviting \union Filling /\ at' \notin Deploying
  BY <1>1 DEF Opening, Inviting, Filling, Deploying
<1>7. TypeOK'
  <2>1. turn' \in Nat \ {0}
    BY <1>1, <1>2
  <2> QED BY <1>1, <1>2, <1>4, <1>6, <2>1 DEF DataInv, TypeOK, Stage, Opening
<1>8. CollectionsOK' /\ SeasonOK'
  BY <1>1, <1>6, CollectionsStay, SeasonStays DEF DataInv
<1>9. OwnOK'
  <2>1. OwnOnly' => OwnOnly /\ seasonIds = 0
    BY <1>1 DEF OwnOnly, DataInv, OwnOK, Opening
  <2>2. at' \notin {"idle", "faucet", "HunterRank", "addHunterRank", "SeasonPack", "addSeasonPack"}
    BY <1>1
  <2>3. at \in Opening
    BY <1>1 DEF Opening
  <2> QED BY <1>1, <2>1, <2>2, <2>3 DEF DataInv, OwnOK
<1>10. PacksOK'
  <2>1. ASSUME NEW a \in 1..MaxAttempts, a > attempt PROVE opened'[<<"SeasonPack", a>>] = {}
    BY <1>2, <1>4, <2>1 DEF DataInv, PacksOK
  <2>2. CASE turn < PackTokens
    <3>1. turn' = turn + 1 /\ turn' <= PackTokens /\ turn' - 1 = turn /\ at' = "openToken"
      BY <1>1, <1>2, <2>2 DEF PackTokens
    <3> QED BY <1>1, <1>5, <1>6, <2>1, <3>1 DEF PacksOK
  <2>3. CASE ~(turn < PackTokens)
    <3>1. turn = PackTokens /\ at' = "addSeason"
      BY <1>1, <1>2, <2>3 DEF PackTokens
    <3> QED BY <1>1, <1>5, <1>6, <2>1, <3>1 DEF PacksOK
  <2> QED BY <2>2, <2>3
<1>11. RegistryOK'
  <2>1. at' \notin Inviting \union {"addMonster", "addShadow"}
    BY <1>1 DEF Inviting
  <2> QED BY <1>1, <2>1, RegistryStays DEF DataInv
<1> QED BY <1>7, <1>8, <1>9, <1>10, <1>11 DEF DataInv

(* The season is added once: a second one would start no later than the    *)
(* first one ends.                                                         *)
LEMMA AddFirstSeasonKeeps == ASSUME DataInv, AddFirstSeason PROVE DataInv'
<1> DEFINE uses == [hunterRank |-> 8, seasonPack |-> 9, collections |-> {3, 4}]
<1>1. /\ at = "addSeason" /\ at' = "InviteSBT" /\ turn' = 1 /\ UNCHANGED attempt
      /\ {8, 9} \subseteq IdsOf(ISLMT)
      /\ UNCHANGED <<projectCollections, opened, minters, monsterIds, monsterRankTypes>>
  BY DEF AddFirstSeason, GoTo, tokenVars, factoryVars
<1>2. /\ (IF seasonIds > 0 THEN seasons[seasonIds - 1].endBlock ELSE 0) < StartBlock
      /\ seasonIds' = seasonIds + 1
      /\ seasons' = [i \in 0..seasonIds |->
                        IF i = seasonIds
                        THEN [startBlock |-> StartBlock, endBlock |-> EndBlock, uses |-> uses]
                        ELSE seasons[i]]
  BY DEF AddFirstSeason, SeasonContract!addSeason, SeasonContract!_checkBlock
<1>3. seasonIds = 0
  <2>1. CASE seasonIds = 1
    BY <1>2, <2>1 DEF DataInv, SeasonOK, StartBlock, EndBlock
  <2> QED BY <2>1 DEF DataInv, TypeOK
<1>4. seasonIds' = 1 /\ seasons'[0].endBlock = EndBlock /\ seasons'[0].uses = uses
  BY <1>2, <1>3
<1>5. /\ 9 \in DOMAIN projectCollections
      /\ projectCollections[8][1] \in MT /\ projectCollections[9][1] \in MT
  BY <1>1 DEF IdsOf, ISLMT, MT
<1>6. at' \in Inviting /\ at' \notin {"addHunterRank", "addSeasonPack"}
      /\ at' \notin Deploying \union Opening
  BY <1>1 DEF Opening, Inviting, Deploying
<1>7. TypeOK'
  BY <1>1, <1>4, <1>6 DEF DataInv, TypeOK, Stage, Inviting
<1>8. CollectionsOK' /\ PacksOK'
  BY <1>1, <1>6, CollectionsStay, PacksStay DEF DataInv
<1>9. SeasonOK'
  BY <1>1, <1>4, <1>5 DEF SeasonOK
<1>10. OwnOK'
  <2>1. OwnOnly' => OwnOnly
    BY <1>1 DEF OwnOnly
  <2>2. at \in Opening /\ at' \notin {"idle"} \union Deploying \union Opening
    BY <1>1 DEF Opening, Deploying
  <2>3. opened[<<"SeasonPack", attempt>>] = 1..PackTokens
    BY <1>1 DEF DataInv, PacksOK
  <2>4. at' \notin {"idle", "faucet", "HunterRank", "addHunterRank", "SeasonPack", "addSeasonPack"}
    BY <1>1
  <2> QED BY <1>1, <2>1, <2>2, <2>3, <2>4 DEF DataInv, OwnOK
<1>11. RegistryOK'
  BY <1>1, <1>3 DEF DataInv, RegistryOK, Tabled
<1> QED BY <1>7, <1>8, <1>9, <1>10, <1>11 DEF DataInv

(* The next monster of a kind gets the next id and the rank of the table.  *)
LEMMA NextMonster ==
    ASSUME RegistryOK, NEW kind \in {"normal", "shadow"}, NEW table, IsTable(table),
           Tabled(kind, table), monsterIds[kind] = turn - 1, turn \in Nat \ {0},
           turn <= Len(table), Factory!addMonster(table[turn], kind)
    PROVE  /\ monsterIds' \in [{"normal", "shadow"} -> Nat]
           /\ monsterRankTypes' \in [{"normal", "shadow"} -> [1..Len(monsterIdToRanks) -> RankType]]
           /\ monsterIds'[kind] = turn
           /\ Tabled(kind, table)'
           /\ \A other \in {"normal", "shadow"} : other # kind =>
                  /\ monsterIds'[other] = monsterIds[other]
                  /\ monsterRankTypes'[other] = monsterRankTypes[other]
<1>1. /\ turn <= Len(monsterIdToRanks)
      /\ monsterIds' = [monsterIds EXCEPT ![kind] = turn]
      /\ monsterRankTypes' = [monsterRankTypes EXCEPT ![kind][turn] = table[turn]]
  <2>1. monsterIds[kind] + 1 = turn
    OBVIOUS
  <2>2. /\ monsterIds[kind] + 1 <= Len(monsterIdToRanks)
        /\ monsterIds' = [monsterIds EXCEPT ![kind] = monsterIds[kind] + 1]
        /\ monsterRankTypes' = [monsterRankTypes EXCEPT ![kind][monsterIds[kind] + 1] = table[turn]]
    BY Zenon DEF Factory!addMonster
  <2> QED BY ONLY <2>1, <2>2
<1>2. table[turn] \in RankType /\ turn \in 1..Len(monsterIdToRanks)
  BY <1>1, TableFacts DEF IsTable
<1>3. /\ monsterIds \in [{"normal", "shadow"} -> Nat]
      /\ monsterRankTypes \in [{"normal", "shadow"} -> [1..Len(monsterIdToRanks) -> RankType]]
  BY DEF RegistryOK
<1>4. /\ monsterIds' \in [{"normal", "shadow"} -> Nat] /\ monsterIds'[kind] = turn
      /\ \A other \in {"normal", "shadow"} : other # kind => monsterIds'[other] = monsterIds[other]
  BY <1>1, <1>3
<1>5. /\ monsterRankTypes' \in [{"normal", "shadow"} -> [1..Len(monsterIdToRanks) -> RankType]]
      /\ \A other \in {"normal", "shadow"} :
             other # kind => monsterRankTypes'[other] = monsterRankTypes[other]
      /\ monsterRankTypes'[kind][turn] = table[turn]
      /\ \A id \in 1..Len(monsterIdToRanks) :
             id # turn => monsterRankTypes'[kind][id] = monsterRankTypes[kind][id]
  BY <1>1, <1>2, <1>3
<1>6. ASSUME NEW id \in 1..turn PROVE monsterRankTypes'[kind][id] = table[id]
  <2>1. CASE id = turn
    BY <1>5, <2>1
  <2>2. CASE id # turn
    <3>1. id \in 1..monsterIds[kind] /\ id \in 1..Len(monsterIdToRanks)
      BY <1>2, <2>2
    <3> QED BY <1>5, <2>2, <3>1 DEF Tabled
  <2> QED BY <2>1, <2>2
<1>7. Tabled(kind, table)'
  BY <1>4, <1>6 DEF Tabled
<1> QED BY <1>4, <1>5, <1>7

(* The monsters are added in the order of their table.                     *)
LEMMA AddMonstersKeeps == ASSUME DataInv, AddMonsters PROVE DataInv'
<1>1. /\ at = "addMonster" /\ UNCHANGED attempt
      /\ Factory!addMonster(monsterIdToRanks[turn], "normal")
      /\ at' = IF turn < Len(monsterIdToRanks) THEN at ELSE "addShadow"
      /\ turn' = IF turn < Len(monsterIdToRanks) THEN turn + 1 ELSE 1
      /\ UNCHANGED <<projectCollections, opened, minters, seasonIds, seasons>>
  BY DEF AddMonsters, LoopTo, tokenVars, seasonVars
<1>2. /\ turn \in Nat \ {0} /\ turn <= Len(monsterIdToRanks)
      /\ monsterIds["normal"] = turn - 1 /\ monsterIds["shadow"] = 0
      /\ Tabled("normal", monsterIdToRanks) /\ Tabled("shadow", shadowIdToRanks)
      /\ seasonIds = 1 /\ at \in Filling
  BY <1>1 DEF DataInv, TypeOK, RegistryOK, SeasonOK, Filling
<1>3. IsTable(monsterIdToRanks) /\ IsTable(shadowIdToRanks)
  BY TableFacts
<1>4. at' \in Filling /\ at' \notin {"addHunterRank", "addSeasonPack"}
      /\ at' \notin Deploying \union Opening
  BY <1>1 DEF Opening, Filling, Deploying
<1>5. /\ monsterIds' \in [{"normal", "shadow"} -> Nat]
      /\ monsterRankTypes' \in [{"normal", "shadow"} -> [1..Len(monsterIdToRanks) -> RankType]]
      /\ monsterIds'["normal"] = turn
      /\ Tabled("normal", monsterIdToRanks)'
      /\ monsterIds'["shadow"] = 0 /\ monsterRankTypes'["shadow"] = monsterRankTypes["shadow"]
  BY <1>1, <1>2, <1>3, NextMonster DEF DataInv
<1>6. TypeOK'
  <2>1. turn' \in Nat \ {0}
    BY <1>1, <1>2
  <2> QED BY <1>1, <1>4, <2>1 DEF DataInv, TypeOK, Stage
<1>7. CollectionsOK' /\ SeasonOK' /\ OwnOK' /\ PacksOK'
  BY <1>1, <1>2, <1>4, CollectionsStay, SeasonStays, OwnStays, PacksStay DEF DataInv
<1>8. RegistryOK'
  <2>1. Tabled("shadow", shadowIdToRanks)'
    BY <1>2, <1>5 DEF Tabled
  <2>2. at' \notin Inviting /\ seasonIds' # 0
    BY <1>1, <1>2 DEF Inviting
  <2>3. CASE turn < Len(monsterIdToRanks)
    <3>1. at' = "addMonster" /\ turn' = turn + 1 /\ turn' <= Len(monsterIdToRanks) /\ turn' - 1 = turn
      BY <1>1, <1>2, <1>3, <2>3 DEF IsTable
    <3> QED BY <1>5, <2>1, <2>2, <3>1 DEF RegistryOK
  <2>4. CASE ~(turn < Len(monsterIdToRanks))
    <3>1. at' = "addShadow" /\ turn' = 1 /\ turn' <= Len(shadowIdToRanks) /\ turn' - 1 = 0
      BY <1>1, <1>3, <2>4 DEF IsTable
    <3> QED BY <1>5, <2>1, <2>2, <3>1 DEF RegistryOK
  <2> QED BY <2>3, <2>4
<1> QED BY <1>6, <1>7, <1>8 DEF DataInv

(* The shadows are added in the order of theirs.                           *)
LEMMA AddShadowsKeeps == ASSUME DataInv, AddShadows PROVE DataInv'
<1>1. /\ at = "addShadow" /\ UNCHANGED attempt
      /\ Factory!addMonster(shadowIdToRanks[turn], "shadow")
      /\ at' = IF turn < Len(shadowIdToRanks) THEN at ELSE "setArise"
      /\ turn' = IF turn < Len(shadowIdToRanks) THEN turn + 1 ELSE 1
      /\ UNCHANGED <<projectCollections, opened, minters, seasonIds, seasons>>
  BY DEF AddShadows, LoopTo, tokenVars, seasonVars
<1>2. /\ turn \in Nat \ {0} /\ turn <= Len(shadowIdToRanks)
      /\ monsterIds["shadow"] = turn - 1
      /\ Tabled("normal", monsterIdToRanks) /\ Tabled("shadow", shadowIdToRanks)
      /\ seasonIds = 1 /\ at \in Filling
  BY <1>1 DEF DataInv, TypeOK, RegistryOK, SeasonOK, Filling
<1>3. IsTable(shadowIdToRanks)
  BY TableFacts
<1>4. at' \in Filling /\ at' \notin {"addHunterRank", "addSeasonPack"}
      /\ at' \notin Deploying \union Opening
  BY <1>1 DEF Opening, Filling, Deploying
<1>5. /\ monsterIds' \in [{"normal", "shadow"} -> Nat]
      /\ monsterRankTypes' \in [{"normal", "shadow"} -> [1..Len(monsterIdToRanks) -> RankType]]
      /\ monsterIds'["shadow"] = turn
      /\ Tabled("shadow", shadowIdToRanks)'
      /\ monsterIds'["normal"] = monsterIds["normal"]
      /\ monsterRankTypes'["normal"] = monsterRankTypes["normal"]
  BY <1>1, <1>2, <1>3, NextMonster DEF DataInv
<1>6. TypeOK'
  <2>1. turn' \in Nat \ {0}
    BY <1>1, <1>2
  <2> QED BY <1>1, <1>4, <2>1 DEF DataInv, TypeOK, Stage
<1>7. CollectionsOK' /\ SeasonOK' /\ OwnOK' /\ PacksOK'
  BY <1>1, <1>2, <1>4, CollectionsStay, SeasonStays, OwnStays, PacksStay DEF DataInv
<1>8. RegistryOK'
  <2>1. Tabled("normal", monsterIdToRanks)'
    BY <1>2, <1>5 DEF Tabled
  <2>2. at' \notin Inviting /\ seasonIds' # 0 /\ at' # "addMonster"
    BY <1>1, <1>2 DEF Inviting
  <2>3. CASE turn < Len(shadowIdToRanks)
    <3>1. at' = "addShadow" /\ turn' = turn + 1 /\ turn' <= Len(shadowIdToRanks) /\ turn' - 1 = turn
      BY <1>1, <1>2, <1>3, <2>3 DEF IsTable
    <3> QED BY <1>5, <2>1, <2>2, <3>1 DEF RegistryOK
  <2>4. CASE ~(turn < Len(shadowIdToRanks))
    <3>1. at' # "addShadow"
      BY <1>1, <2>4
    <3> QED BY <1>5, <2>1, <2>2, <3>1 DEF RegistryOK
  <2> QED BY <2>3, <2>4
<1> QED BY <1>6, <1>7, <1>8 DEF DataInv

(* The pairings change neither ids nor ranks.                              *)
LEMMA SetAriseKeeps == ASSUME DataInv, SetArise PROVE DataInv'
<1>1. /\ at = "setArise" /\ UNCHANGED attempt
      /\ at' = IF turn < Len(AriseBatches) THEN at ELSE "done"
      /\ turn' = IF turn < Len(AriseBatches) THEN turn + 1 ELSE 1
      /\ UNCHANGED <<projectCollections, opened, minters, seasonIds, seasons>>
      /\ UNCHANGED <<monsterIds, monsterRankTypes>>
  BY DEF SetArise, LoopTo, tokenVars, seasonVars, Factory!setAriseMonsterBatch,
         Factory!registryVars
<1>2. at \in Filling /\ turn \in Nat \ {0}
  BY <1>1 DEF DataInv, TypeOK, Filling
<1>3. at' \in Filling /\ at' \notin {"addHunterRank", "addSeasonPack"}
      /\ at' \notin Deploying \union Opening
      /\ at' \notin Inviting \union {"addMonster", "addShadow"}
  BY <1>1 DEF Opening, Filling, Deploying, Inviting
<1>4. TypeOK'
  <2>1. turn' \in Nat \ {0}
    BY <1>1, <1>2
  <2> QED BY <1>1, <1>3, <2>1 DEF DataInv, TypeOK, Stage
<1>5. CollectionsOK' /\ SeasonOK' /\ OwnOK' /\ PacksOK' /\ RegistryOK'
  BY <1>1, <1>2, <1>3, CollectionsStay, SeasonStays, OwnStays, PacksStay, RegistryStays DEF DataInv
<1> QED BY <1>4, <1>5 DEF DataInv

(* Every transaction of the script, and the chain, keep the invariant.     *)
LEMMA InitialDataStep == DataInv /\ InitialDataNext => DataInv'
<1> SUFFICES ASSUME DataInv, InitialDataNext PROVE DataInv'
  OBVIOUS
<1>1. CASE \E kind \in DOMAIN AfterAdded : DeployCollection(kind) \/ AddProjectCollection(kind)
  BY <1>1, KindFacts, DeployCollectionKeeps, AddProjectCollectionKeeps
<1>2. CASE MineBlock
  BY <1>2, DataKept DEF MineBlock, SeasonContract!mineBlock, scriptVars, tokenVars, factoryVars
<1> QED BY <1>1, <1>2, BeginKeeps, FundFaucetKeeps, OpenTokenKeeps, AddFirstSeasonKeeps,
           AddMonstersKeeps, AddShadowsKeeps, SetAriseKeeps, StopAttemptKeeps DEF InitialDataNext

-----------------------------------------------------------------------------
(* The collections the gate is given an id of.                             *)
LEMMA MintsFacts == MintsTo.DungeonGate = {"EssenceStone", "Monster"}
BY DEF MintsTo

(* Nobody has replaced the first gate at the start.                        *)
LEMMA RolloutStarts == Init => RolloutInv
<1> SUFFICES ASSUME Init PROVE RolloutInv
  OBVIOUS
<1>1. DataInv
  BY DataStarts DEF Init
<1>2. RightsOK
  <2>1. /\ gates = FirstGate /\ replacing = FALSE /\ replaced = 0 /\ settlementGate = FirstGate
        /\ approvedGates = {FirstGate}
        /\ gateMinters = [c \in MintsTo.DungeonGate |-> {FirstGate}]
    BY DEF Init
  <2>2. gates = 0 /\ ~(gates > 0) /\ replaced \in 0..Steps /\ FirstGate \in Gate
    BY <2>1, CollectionFacts DEF FirstGate, Steps
  <2>3. gateMinters \in [MintsTo.DungeonGate -> SUBSET Gate]
    BY <2>1, <2>2
  <2>4. FirstGate \in approvedGates /\ \A c \in MintsTo.DungeonGate : FirstGate \in gateMinters[c]
    BY <2>1
  <2> QED BY <2>1, <2>2, <2>3, <2>4 DEF RightsOK
<1> QED BY <1>1, <1>2 DEF RolloutInv

(* Once the script is done, the season has its packs, minted by the gate   *)
(* that was there.                                                         *)
LEMMA PackInUse ==
    ASSUME DataInv, at = "done"
    PROVE  /\ SeasonPackInUse \in MT \X (1..MaxAttempts)
           /\ FirstGate \in minters[SeasonPackInUse]
<1>1. /\ SeasonPackInUse = projectCollections[9] /\ 9 \in DOMAIN projectCollections
      /\ projectCollections[9][1] \in MT
  <2>1. seasonIds = 1
    BY DEF DataInv, SeasonOK, Filling
  <2> QED BY <2>1 DEF DataInv, SeasonOK, SeasonPackInUse
<1>2. PICK kind \in Kinds, a \in 1..attempt :
         /\ projectCollections[9] = <<kind, a>>
         /\ kind \in MT => FirstGate \in minters[<<kind, a>>]
  BY <1>1 DEF DataInv, CollectionsOK
<1>3. kind \in MT
  BY <1>1, <1>2
<1>4. a \in 1..MaxAttempts
  BY MaxAttemptsAssumption DEF DataInv, TypeOK
<1> QED BY <1>1, <1>2, <1>3, <1>4

(* A transaction on the initial data touches no gate but before any is     *)
(* replaced.                                                               *)
LEMMA DataKeepsRights ==
    ASSUME RolloutInv, InitialDataNext, UNCHANGED gateVars
    PROVE  RightsOK'
<1>1. UNCHANGED <<gates, replacing, replaced, settlementGate, approvedGates, gateMinters>>
  BY DEF gateVars
<1>2. CASE gates > 0
  <2>1. at = "done"
    BY <1>2 DEF RolloutInv, RightsOK
  <2>2. MineBlock
    <3>1. \A kind \in Kinds : at # kind /\ at # AddsIt[kind]
      BY <2>1, KindFacts DEF Kinds
    <3> QED BY <2>1, <3>1, KindFacts DEF InitialDataNext, Begin, FundFaucet, DeployCollection,
               AddProjectCollection, OpenToken, AddFirstSeason, AddMonsters, AddShadows, SetArise,
               StopAttempt
  <2>3. UNCHANGED <<at, minters, seasons, projectCollections>>
    BY <2>2 DEF MineBlock, SeasonContract!mineBlock, scriptVars, tokenVars
  <2> QED BY <1>1, <2>3 DEF RolloutInv, RightsOK, SeasonPackInUse
<1>3. CASE ~(gates > 0)
  BY <1>1, <1>3 DEF RolloutInv, RightsOK
<1> QED BY <1>2, <1>3

(* A transaction of the replacement leaves the initial data alone.         *)
LEMMA StepLeavesData ==
    ASSUME RolloutInv, UNCHANGED initialDataVars
    PROVE  /\ DataInv'
           /\ UNCHANGED <<at, minters, SeasonPackInUse>>
<1>1. UNCHANGED <<attempt, at, turn, projectCollections, opened, minters>>
      /\ UNCHANGED <<seasonIds, seasons, monsterIds, monsterRankTypes>>
  BY DEF initialDataVars, scriptVars, tokenVars, seasonVars, factoryVars
<1>2. DataInv'
  BY <1>1, DataKept DEF RolloutInv
<1> QED BY <1>1, <1>2 DEF SeasonPackInUse

(* A new gate has no rights, and counts for nothing yet.                   *)
LEMMA DeployGateKeeps == ASSUME RolloutInv, DeployGate PROVE RolloutInv'
<1>1. /\ at = "done" /\ gates < MaxGates /\ gates' = gates + 1 /\ replacing' = TRUE /\ replaced' = 0
      /\ UNCHANGED initialDataVars
      /\ UNCHANGED <<settlementGate, approvedGates, gateMinters>>
  BY DEF DeployGate
<1>2. DataInv' /\ UNCHANGED <<at, minters, SeasonPackInUse>>
  BY <1>1, StepLeavesData
<1>3. gates' \in Gate /\ gates' > 0
  BY <1>1, MaxGatesAssumption DEF RolloutInv, RightsOK, Gate
<1>4. RightsOK'
  BY <1>1, <1>2, <1>3 DEF RolloutInv, RightsOK, Steps
<1> QED BY <1>2, <1>4 DEF RolloutInv

(* Each transaction gives the last gate one more right, and takes none     *)
(* from another.                                                           *)
LEMMA StepGives ==
    ASSUME RolloutInv, NEW i \in 1..Steps, Step(i),
           settlementGate' = IF i = 1 THEN gates ELSE settlementGate,
           approvedGates \subseteq approvedGates', i = 2 => gates \in approvedGates',
           gateMinters' \in [MintsTo.DungeonGate -> SUBSET Gate],
           \A c \in MintsTo.DungeonGate : gateMinters[c] \subseteq gateMinters'[c],
           i = 3 => gates \in gateMinters'["EssenceStone"],
           i = 4 => gates \in gateMinters'["Monster"],
           i # 5
    PROVE  RolloutInv'
<1>1. /\ replacing /\ replaced = i - 1 /\ replaced' = i /\ replacing' = (i < Steps)
      /\ UNCHANGED initialDataVars /\ UNCHANGED gates
  BY DEF Step
<1>2. DataInv' /\ UNCHANGED <<at, minters, SeasonPackInUse>>
  BY <1>1, StepLeavesData
<1>3. i \in Nat /\ i >= 1 /\ i <= Steps /\ gates \in Gate /\ gates > 0 /\ at = "done"
  BY <1>1 DEF RolloutInv, RightsOK, Steps
<1>4. /\ replaced' >= 1 => settlementGate' = gates
      /\ replaced' >= 2 => gates \in approvedGates'
      /\ replaced' >= 3 => gates \in gateMinters'["EssenceStone"]
      /\ replaced' >= 4 => gates \in gateMinters'["Monster"]
      /\ replaced' >= 5 => gates \in minters[SeasonPackInUse]
  <2>1. /\ replaced >= 1 => settlementGate = gates
        /\ replaced >= 2 => gates \in approvedGates
        /\ replaced >= 3 => gates \in gateMinters["EssenceStone"]
        /\ replaced >= 4 => gates \in gateMinters["Monster"]
        /\ replaced >= 5 => gates \in minters[SeasonPackInUse]
    BY <1>3 DEF RolloutInv, RightsOK
  <2>2. i # 1 => replaced >= 1
    BY <1>1, <1>3
  <2>3. i >= 2 => i = 2 \/ replaced >= 2
    BY <1>1, <1>3
  <2>4. i >= 3 => i = 3 \/ replaced >= 3
    BY <1>1, <1>3
  <2>5. i >= 4 => i = 4 \/ replaced >= 4
    BY <1>1, <1>3
  <2>6. i >= 5 => replaced >= 5
    BY <1>1, <1>3
  <2> QED BY <1>1, <2>1, <2>2, <2>3, <2>4, <2>5, <2>6, MintsFacts
<1>5. RightsOK'
  <2>1. settlementGate' \in Gate
    BY <1>3 DEF RolloutInv, RightsOK
  <2>2. FirstGate \in approvedGates' /\ \A c \in MintsTo.DungeonGate : FirstGate \in gateMinters'[c]
    BY DEF RolloutInv, RightsOK
  <2>3. replaced' \in 0..Steps /\ (replacing' => replaced' < Steps)
    <3>1. replaced' \in 0..Steps
      BY <1>1, <1>3 DEF Steps
    <3>2. ASSUME replacing' PROVE i < Steps
      BY <1>1, <3>2
    <3> QED BY <1>1, <3>1, <3>2
  <2> QED BY <1>1, <1>2, <1>3, <1>4, <2>1, <2>2, <2>3 DEF RightsOK
<1> QED BY <1>2, <1>5 DEF RolloutInv

(* The packs are the only right that is kept with the initial data.        *)
LEMMA AddPackControllerKeeps == ASSUME RolloutInv, AddPackController PROVE RolloutInv'
<1>1. /\ replacing /\ replaced = 4 /\ replaced' = 5 /\ UNCHANGED <<gates, replacing>>
      /\ minters' = [minters EXCEPT ![SeasonPackInUse] = @ \union {gates}]
      /\ UNCHANGED <<attempt, at, turn, projectCollections, opened, seasonIds, seasons>>
      /\ UNCHANGED <<monsterIds, monsterRankTypes>>
      /\ UNCHANGED <<settlementGate, approvedGates, gateMinters>>
  BY DEF AddPackController, scriptVars, seasonVars, factoryVars
<1>2. gates \in Gate /\ gates > 0 /\ at = "done"
  BY <1>1 DEF RolloutInv, RightsOK
<1>3. SeasonPackInUse \in MT \X (1..MaxAttempts)
  BY <1>2, PackInUse DEF RolloutInv
<1>4. minters \in [MT \X (1..MaxAttempts) -> SUBSET Gate]
  BY DEF RolloutInv, DataInv, TypeOK
<1>5. /\ minters' \in [MT \X (1..MaxAttempts) -> SUBSET Gate]
      /\ gates \in minters'[SeasonPackInUse]
      /\ \A c \in MT \X (1..MaxAttempts) : minters[c] \subseteq minters'[c]
  BY <1>1, <1>2, <1>3, <1>4
<1>6. TypeOK'
  BY <1>1, <1>5 DEF RolloutInv, DataInv, TypeOK
<1>7. CollectionsOK'
  <2>1. ASSUME NEW i \in DOMAIN projectCollections', i > 7
        PROVE  \E k \in Kinds, a \in 1..attempt' :
                  /\ projectCollections'[i] = <<k, a>>
                  /\ k \in MT => FirstGate \in minters'[<<k, a>>]
    <3>1. PICK k \in Kinds, a \in 1..attempt :
             /\ projectCollections[i] = <<k, a>>
             /\ k \in MT => FirstGate \in minters[<<k, a>>]
      BY <1>1, <2>1 DEF RolloutInv, DataInv, CollectionsOK
    <3>2. a \in 1..MaxAttempts
      BY MaxAttemptsAssumption DEF RolloutInv, DataInv, TypeOK
    <3>3. k \in MT => FirstGate \in minters'[<<k, a>>]
      BY <1>5, <3>1, <3>2
    <3> QED BY <1>1, <3>1, <3>3
  <2>2. at' # "addHunterRank" /\ at' # "addSeasonPack"
    BY <1>1, <1>2
  <2> QED BY <1>1, <2>1, <2>2 DEF RolloutInv, DataInv, CollectionsOK
<1>8. SeasonOK'
  BY <1>1 DEF RolloutInv, DataInv, SeasonOK
<1>9. OwnOK' /\ PacksOK' /\ RegistryOK'
  <2>1. OwnOK'
    BY <1>1 DEF RolloutInv, DataInv, OwnOK, OwnOnly
  <2>2. PacksOK'
    BY <1>1 DEF RolloutInv, DataInv, PacksOK
  <2>3. RegistryOK'
    BY <1>1 DEF RolloutInv, DataInv, RegistryOK, Tabled
  <2> QED BY <2>1, <2>2, <2>3
<1>10. RightsOK'
  <2>1. SeasonPackInUse' = SeasonPackInUse
    BY <1>1 DEF SeasonPackInUse
  <2>2. replaced >= 1 /\ replaced >= 2 /\ replaced >= 3 /\ replaced >= 4
        /\ replaced' \in 0..Steps /\ replaced' < Steps
    BY <1>1 DEF Steps
  <2> QED BY <1>1, <1>2, <1>5, <2>1, <2>2 DEF RolloutInv, RightsOK
<1> QED BY <1>6, <1>7, <1>8, <1>9, <1>10 DEF RolloutInv, DataInv

(* A run that stops leaves the last gate with the rights it has.           *)
LEMMA StopReplacingKeeps == ASSUME RolloutInv, StopReplacing PROVE RolloutInv'
<1>1. /\ replacing' = FALSE /\ UNCHANGED initialDataVars
      /\ UNCHANGED <<gates, replaced, settlementGate, approvedGates, gateMinters>>
  BY DEF StopReplacing
<1>2. DataInv' /\ UNCHANGED <<at, minters, SeasonPackInUse>>
  BY <1>1, StepLeavesData
<1>3. RightsOK'
  BY <1>1, <1>2 DEF RolloutInv, RightsOK
<1> QED BY <1>2, <1>3 DEF RolloutInv

(* Every transaction of either script keeps the invariant.                 *)
LEMMA RolloutStep == RolloutInv /\ [Next]_allVars => RolloutInv'
<1> SUFFICES ASSUME RolloutInv, [Next]_allVars PROVE RolloutInv'
  OBVIOUS
<1>1. CASE InitialDataNext /\ UNCHANGED gateVars
  BY <1>1, InitialDataStep, DataKeepsRights DEF RolloutInv
<1>2. gateMinters \in [MintsTo.DungeonGate -> SUBSET Gate] /\ gates \in Gate
  BY DEF RolloutInv, RightsOK
<1>3. CASE SetDungeonGateContract
  <2>1. Step(1) /\ settlementGate' = gates /\ UNCHANGED <<approvedGates, gateMinters>>
    BY <1>3 DEF SetDungeonGateContract
  <2> QED BY <1>2, <2>1, StepGives DEF Steps
<1>4. CASE AddApprovedContract
  <2>1. Step(2) /\ approvedGates' = approvedGates \union {gates}
        /\ UNCHANGED <<settlementGate, gateMinters>>
    BY <1>4 DEF AddApprovedContract
  <2> QED BY <1>2, <2>1, StepGives DEF Steps
<1>5. CASE AddCollectionController(3, "EssenceStone")
  <2>1. Step(3) /\ gateMinters' = [gateMinters EXCEPT !["EssenceStone"] = @ \union {gates}]
        /\ UNCHANGED <<settlementGate, approvedGates>>
    BY <1>5 DEF AddCollectionController
  <2>2. /\ gateMinters' \in [MintsTo.DungeonGate -> SUBSET Gate]
        /\ \A c \in MintsTo.DungeonGate : gateMinters[c] \subseteq gateMinters'[c]
        /\ gates \in gateMinters'["EssenceStone"]
    BY <1>2, <2>1, MintsFacts
  <2> QED BY <2>1, <2>2, StepGives DEF Steps
<1>6. CASE AddCollectionController(4, "Monster")
  <2>1. Step(4) /\ gateMinters' = [gateMinters EXCEPT !["Monster"] = @ \union {gates}]
        /\ UNCHANGED <<settlementGate, approvedGates>>
    BY <1>6 DEF AddCollectionController
  <2>2. /\ gateMinters' \in [MintsTo.DungeonGate -> SUBSET Gate]
        /\ \A c \in MintsTo.DungeonGate : gateMinters[c] \subseteq gateMinters'[c]
        /\ gates \in gateMinters'["Monster"]
    BY <1>2, <2>1, MintsFacts
  <2> QED BY <2>1, <2>2, StepGives DEF Steps
<1>7. CASE SetApproveUSDTokenContract
  <2>1. Step(6) /\ UNCHANGED <<settlementGate, approvedGates, gateMinters>>
    BY <1>7 DEF SetApproveUSDTokenContract, Steps
  <2> QED BY <1>2, <2>1, StepGives DEF Steps
<1>8. CASE UNCHANGED allVars
  <2>1. UNCHANGED initialDataVars
        /\ UNCHANGED <<gates, replacing, replaced, settlementGate, approvedGates, gateMinters>>
    BY <1>8 DEF allVars, gateVars
  <2>2. DataInv' /\ UNCHANGED <<at, minters, SeasonPackInUse>>
    BY <2>1, StepLeavesData
  <2> QED BY <2>1, <2>2 DEF RolloutInv, RightsOK
<1> QED BY <1>1, <1>3, <1>4, <1>5, <1>6, <1>7, <1>8, DeployGateKeeps, AddPackControllerKeeps,
           StopReplacingKeeps DEF Next

-----------------------------------------------------------------------------
(* However often the two scripts are started and wherever they stop, the   *)
(* collections, the season, the registry and the rights of the gates are   *)
(* as the transactions so far have left them.                              *)
THEOREM RolloutInvariant == Spec => []RolloutInv
BY RolloutStarts, RolloutStep, PTL DEF Spec

(* The monsters of the registry are those of the script's tables under     *)
(* their ids, each once, after any number of attempts                      *)
(* (set_initial_data.ts:101).                                              *)
THEOREM MonstersAsTabledHolds == Spec => []MonstersAsTabled
<1>1. ASSUME NEW kind \in {"normal", "shadow"}, NEW table, IsTable(table), RegistryOK,
             Tabled(kind, table)
      PROVE  IsPrefix(Ranking(kind), table)
  <2> DEFINE n == monsterIds[kind]
  <2>1. n \in Nat /\ n <= Len(table) /\ table \in Seq(RankType)
    BY <1>1 DEF RegistryOK, Tabled, IsTable
  <2>2. Ranking(kind) = [id \in 1..n |-> table[id]]
    BY <1>1 DEF Ranking, Tabled
  <2> HIDE DEF n
  <2>3. Ranking(kind) \in Seq(RankType) /\ Len(Ranking(kind)) = n
    BY <2>1, <2>2
  <2>4. SubSeq(Ranking(kind), 1, n) = SubSeq(table, 1, n)
    BY <2>1, <2>2, <2>3
  <2> QED BY <2>1, <2>3, <2>4 DEF IsPrefix
<1>2. RolloutInv => MonstersAsTabled
  BY <1>1, TableFacts DEF RolloutInv, DataInv, RegistryOK, MonstersAsTabled
<1> QED BY <1>2, RolloutInvariant, PTL

(* The season uses the collections of the attempt that added it, with all  *)
(* packs open, after any number of attempts, unless one that stopped had   *)
(* added a collection (set_initial_data.ts:70).                            *)
THEOREM SeasonAsMeantHolds == Spec => []SeasonAsMeant
<1>1. ASSUME DataInv, seasonIds > 0, OwnOnly
      PROVE  /\ SeasonUses(seasons[0].uses.hunterRank, "HunterRank")
             /\ SeasonUses(seasons[0].uses.seasonPack, "SeasonPack")
             /\ opened[<<"SeasonPack", attempt>>] = 1..PackTokens
  <2>1. /\ seasonIds = 1
        /\ seasons[0].uses.hunterRank = 8 /\ seasons[0].uses.seasonPack = 9
        /\ 8 \in DOMAIN projectCollections /\ 9 \in DOMAIN projectCollections
    BY <1>1, CollectionIds DEF DataInv, TypeOK, SeasonOK
  <2>2. /\ projectCollections[8] = <<"HunterRank", attempt>>
        /\ projectCollections[9] = <<"SeasonPack", attempt>>
        /\ opened[<<"SeasonPack", attempt>>] = 1..PackTokens
    <3>1. Expected[8] = "HunterRank" /\ Expected[9] = "SeasonPack"
      BY DEF Expected
    <3>2. /\ \A i \in DOMAIN projectCollections :
                 i > 7 => projectCollections[i] = <<Expected[i], attempt>>
          /\ opened[<<"SeasonPack", attempt>>] = 1..PackTokens
      BY <1>1, <2>1 DEF DataInv, OwnOK
    <3>3. projectCollections[8] = <<Expected[8], attempt>>
      BY <2>1, <3>2
    <3>4. projectCollections[9] = <<Expected[9], attempt>>
      BY <2>1, <3>2
    <3> QED BY <3>1, <3>2, <3>3, <3>4
  <2>3. /\ FirstGate \in minters[<<"HunterRank", attempt>>]
        /\ FirstGate \in minters[<<"SeasonPack", attempt>>]
    <3>1. ASSUME NEW i \in DOMAIN projectCollections, i > 7, NEW kind \in MT,
                 projectCollections[i] = <<kind, attempt>>
          PROVE  FirstGate \in minters[<<kind, attempt>>]
      <4>1. PICK k \in Kinds, a \in 1..attempt :
               /\ projectCollections[i] = <<k, a>>
               /\ k \in MT => FirstGate \in minters[<<k, a>>]
        BY <1>1, <3>1 DEF DataInv, CollectionsOK
      <4>2. k = kind /\ a = attempt
        BY <3>1, <4>1
      <4> QED BY <3>1, <4>1, <4>2
    <3>2. "HunterRank" \in MT /\ "SeasonPack" \in MT
      BY DEF MT
    <3> QED BY <2>1, <2>2, <3>1, <3>2
  <2> QED BY <2>1, <2>2, <2>3 DEF SeasonUses
<1>2. RolloutInv => SeasonAsMeant
  BY <1>1 DEF RolloutInv, SeasonAsMeant, OwnOnly
<1> QED BY <1>2, RolloutInvariant, PTL

(* The gate that counts, after any number of replacements, can do what a   *)
(* gate does, and so can the first one still, unless a replacement stopped *)
(* halfway (script.ts:33).                                                 *)
THEOREM CountedGateHasRightsHolds == Spec => []CountedGateHasRights
<1>1. ASSUME RolloutInv, at = "done"
      PROVE  HasRights(FirstGate) /\ (Settled => HasRights(settlementGate))
  <2>1. DOMAIN gateMinters = {"EssenceStone", "Monster"}
    BY <1>1, MintsFacts DEF RolloutInv, RightsOK
  <2>2. FirstGate \in minters[SeasonPackInUse]
    BY <1>1, PackInUse DEF RolloutInv
  <2>3. HasRights(FirstGate)
    BY <1>1, <2>1, <2>2, MintsFacts DEF RolloutInv, RightsOK, HasRights
  <2>4. CASE gates = 0
    BY <1>1, <2>3, <2>4 DEF RolloutInv, RightsOK
  <2>5. CASE gates > 0 /\ replaced = Steps
    <3>1. replaced >= 1 /\ replaced >= 2 /\ replaced >= 3 /\ replaced >= 4 /\ replaced >= 5
      BY <2>5 DEF Steps
    <3> QED BY <1>1, <2>1, <2>3, <2>5, <3>1 DEF RolloutInv, RightsOK, HasRights
  <2>6. Settled => gates = 0 \/ (gates > 0 /\ replaced = Steps)
    BY <1>1 DEF Settled, FirstGate, RolloutInv, RightsOK, Gate
  <2> QED BY <2>3, <2>4, <2>5, <2>6
<1>2. RolloutInv => CountedGateHasRights
  BY <1>1 DEF CountedGateHasRights
<1> QED BY <1>2, RolloutInvariant, PTL

-----------------------------------------------------------------------------
(* The pairings.  What MonsterFactory_proof shows of a registry holds of   *)
(* the one the script fills.                                               *)
Registry == INSTANCE MonsterFactory_proof WITH
    MaxMonsters <- Len(monsterIdToRanks), MaxBatch <- 5

(* The registry has room for the monsters of the table.                    *)
LEMMA FactoryBounds == Len(monsterIdToRanks) \in Nat \ {0} /\ 5 \in Nat \ {0}
BY TableFacts DEF IsTable

(* The shadow of each monster of a batch that was sent is the one the      *)
(* script names, and has the batch's rank.                                 *)
Paired(k) ==
    LET batch == AriseBatches[k]
    IN  \A i \in 1..5 :
           /\ ariseNextMonsterIds[batch.rank][batch.before[i]] = batch.next[i]
           /\ batch.next[i] \in monsterOfRankType[batch.rank]["shadow"]

(* The batches are sent one after the other, and all of them in the end.   *)
ArisesOK ==
    /\ at = "setArise" => turn <= 3 /\ \A k \in 1..3 : k < turn => Paired(k)
    /\ at = "done" => \A k \in 1..3 : Paired(k)

AriseInv == DataInv /\ Registry!IInv /\ ArisesOK

(* What a batch of the script consists of.                                 *)
LEMMA BatchesFacts ==
    /\ Len(AriseBatches) = 3
    /\ AriseBatches[1] = [rank |-> RankB, before |-> Ids(26, 30), next |-> Ids(1, 5)]
    /\ AriseBatches[2] = [rank |-> RankA, before |-> Ids(1, 5), next |-> Ids(6, 10)]
    /\ AriseBatches[3] = [rank |-> RankS, before |-> Ids(6, 10), next |-> Ids(11, 15)]
BY DEF AriseBatches

(* The ids are given as ranges.                                            *)
LEMMA IdsFacts ==
    /\ Ids(26, 30) = [i \in 1..5 |-> 25 + i] /\ Ids(1, 5) = [i \in 1..5 |-> i]
    /\ Ids(6, 10) = [i \in 1..5 |-> 5 + i] /\ Ids(11, 15) = [i \in 1..5 |-> 10 + i]
BY DEF Ids

(* The three batches are of different ranks; none names an id twice.       *)
LEMMA BatchShape ==
    ASSUME NEW k \in 1..3
    PROVE  /\ AriseBatches[k].rank = (IF k = 1 THEN RankB ELSE IF k = 2 THEN RankA ELSE RankS)
           /\ AriseBatches[k].before \in [1..5 -> Nat] /\ AriseBatches[k].next \in [1..5 -> Nat]
           /\ Len(AriseBatches[k].before) = 5 /\ Len(AriseBatches[k].next) = 5
           /\ \A i, j \in 1..5 : i # j =>
                  /\ AriseBatches[k].before[i] # AriseBatches[k].before[j]
                  /\ AriseBatches[k].next[i] # AriseBatches[k].next[j]
<1>1. CASE k = 1
  BY <1>1, BatchesFacts, IdsFacts
<1>2. CASE k = 2
  BY <1>2, BatchesFacts, IdsFacts
<1>3. CASE k = 3
  BY <1>3, BatchesFacts, IdsFacts
<1> QED BY <1>1, <1>2, <1>3

(* A monster the script adds is one added to the registry of the proofs.   *)
LEMMA SameAddMonster ==
    ASSUME NEW rank, NEW kind, Factory!addMonster(rank, kind)
    PROVE  Registry!addMonster(rank, kind)
BY Zenon DEF Factory!addMonster, Registry!addMonster, Factory!ValidRankOfKind,
     Registry!ValidRankOfKind, Factory!ShadowRank, Registry!ShadowRank,
     Factory!ariseVars, Registry!ariseVars,
     Factory!RankB, Factory!RankA, Factory!RankS, Registry!RankB, Registry!RankA, Registry!RankS

(* A batch of pairings the script sends is one of that registry.           *)
LEMMA SameSetAriseBatch ==
    ASSUME NEW rank, NEW befores, NEW nexts, Factory!setAriseMonsterBatch(rank, befores, nexts)
    PROVE  Registry!setAriseMonsterBatch(rank, befores, nexts)
BY Zenon DEF Factory!setAriseMonsterBatch, Registry!setAriseMonsterBatch,
     Factory!ShadowRank, Registry!ShadowRank,
     Factory!RankB, Factory!RankA, Factory!RankS, Registry!RankB, Registry!RankA, Registry!RankS,
     Factory!SetAriseMaps, Registry!SetAriseMaps, Factory!PairEach, Registry!PairEach,
     Factory!Pair, Registry!Pair, Factory!AriseMaps, Registry!AriseMaps,
     Factory!MonsterId, Registry!MonsterId, Factory!NoMonster, Registry!NoMonster,
     Factory!ValidArisePair, Registry!ValidArisePair,
     Factory!AriseCandidates, Registry!AriseCandidates,
     Factory!BeforeRank, Registry!BeforeRank, Factory!BeforeKind, Registry!BeforeKind,
     Factory!isValidMonster, Registry!isValidMonster, Factory!registryVars, Registry!registryVars

(* A step that leaves the registry alone keeps its invariant.              *)
LEMMA RegistryUnchanged ==
    ASSUME Registry!IInv, UNCHANGED factoryVars
    PROVE  Registry!IInv'
<1>1. UNCHANGED Registry!vars
  BY DEF factoryVars, Registry!vars, Registry!registryVars, Registry!ariseVars
<1> QED BY <1>1, FactoryBounds, Registry!NextInv

(* The registry is empty at the start.                                     *)
LEMMA RegistryStarts == Init => Registry!Init
<1> SUFFICES ASSUME Init PROVE Registry!Init
  OBVIOUS
<1>1. Factory!Init
  BY DEF Init, InitialDataInit
<1> QED
  BY <1>1, Zenon DEF Factory!Init, Registry!Init, Factory!Kind, Registry!Kind,
     Factory!MonsterId, Registry!MonsterId, Factory!RankE, Registry!RankE,
     Factory!RankType, Registry!RankType, Factory!RankS, Registry!RankS,
     Factory!RankB, Registry!RankB, Factory!RankA, Registry!RankA,
     Factory!ShadowRank, Registry!ShadowRank, Factory!NoMonster, Registry!NoMonster

(* At the start nothing is paired.                                         *)
LEMMA AriseStarts == Init => Registry!IInv /\ ArisesOK
<1> SUFFICES ASSUME Init PROVE Registry!IInv /\ ArisesOK
  OBVIOUS
<1>1. at = "idle"
  BY DEF Init, InitialDataInit
<1>2. Registry!IInv
  BY RegistryStarts, FactoryBounds, Registry!InitInv
<1> QED BY <1>1, <1>2 DEF ArisesOK

(* The script adds monsters of ranks and kinds the registry knows.         *)
LEMMA AddsMonster ==
    ASSUME DataInv, AddMonsters \/ AddShadows
    PROVE  \E rank \in Registry!RankType, kind \in Registry!Kind :
               Registry!addMonster(rank, kind)
<1>1. CASE AddMonsters
  <2>1. /\ Factory!addMonster(monsterIdToRanks[turn], "normal")
        /\ turn \in Nat \ {0} /\ turn <= Len(monsterIdToRanks)
    BY <1>1 DEF AddMonsters, DataInv, TypeOK, RegistryOK
  <2>2. monsterIdToRanks[turn] \in RankType
    BY <2>1, TableFacts DEF IsTable
  <2>3. Registry!RankType = RankType
    BY DEF RankType, Registry!RankType, RankE, RankS, Registry!RankE, Registry!RankS
  <2> QED BY <2>1, <2>2, <2>3, SameAddMonster DEF Registry!Kind
<1>2. CASE AddShadows
  <2>1. /\ Factory!addMonster(shadowIdToRanks[turn], "shadow")
        /\ turn \in Nat \ {0} /\ turn <= Len(shadowIdToRanks)
    BY <1>2 DEF AddShadows, DataInv, TypeOK, RegistryOK
  <2>2. shadowIdToRanks[turn] \in RankType
    BY <2>1, TableFacts DEF IsTable
  <2>3. Registry!RankType = RankType
    BY DEF RankType, Registry!RankType, RankE, RankS, Registry!RankE, Registry!RankS
  <2> QED BY <2>1, <2>2, <2>3, SameAddMonster DEF Registry!Kind
<1> QED BY <1>1, <1>2

(* Monsters are added before any is paired.                                *)
LEMMA AddMonsterKeepsArise ==
    ASSUME AriseInv, AddMonsters \/ AddShadows
    PROVE  Registry!IInv' /\ ArisesOK'
<1>1. PICK rank \in Registry!RankType, kind \in Registry!Kind :
         Registry!addMonster(rank, kind)
  BY AddsMonster DEF AriseInv
<1>2. Registry!IInv'
  BY <1>1, FactoryBounds, Registry!AddMonsterInv DEF AriseInv
<1>3. at' # "done" /\ (at' = "setArise" => turn' = 1)
  <2>1. CASE AddMonsters
    BY <2>1 DEF AddMonsters, LoopTo
  <2>2. CASE AddShadows
    BY <2>2 DEF AddShadows, LoopTo
  <2> QED BY <2>1, <2>2
<1>4. ArisesOK'
  BY <1>3 DEF ArisesOK
<1> QED BY <1>2, <1>4

(* A batch of the script is one the registry takes, of one rank, without   *)
(* an id named twice.                                                      *)
LEMMA SetsArise ==
    ASSUME AriseInv, SetArise
    PROVE  LET batch == AriseBatches[turn]
           IN  /\ batch.rank \in Registry!RankType /\ batch.rank \in Registry!ShadowRank
               /\ batch.before \in Registry!Batch /\ batch.next \in Registry!Batch
               /\ Registry!setAriseMonsterBatch(batch.rank, batch.before, batch.next)
               /\ \A i \in 1..5 : batch.next[i] \in monsterOfRankType[batch.rank]["shadow"]
               /\ UNCHANGED monsterOfRankType
<1> DEFINE batch == AriseBatches[turn]
<1>1. /\ at = "setArise" /\ turn \in 1..3
      /\ Registry!setAriseMonsterBatch(batch.rank, batch.before, batch.next)
      /\ at' = IF turn < 3 THEN at ELSE "done"
      /\ turn' = IF turn < 3 THEN turn + 1 ELSE 1
      /\ \A k \in 1..3 : k < turn => Paired(k)
  BY SameSetAriseBatch, BatchesFacts DEF SetArise, LoopTo, AriseInv, DataInv, TypeOK, ArisesOK
<1>2. /\ batch.rank = (IF turn = 1 THEN RankB ELSE IF turn = 2 THEN RankA ELSE RankS)
      /\ batch.before \in [1..5 -> Nat] /\ batch.next \in [1..5 -> Nat]
      /\ Len(batch.before) = 5 /\ Len(batch.next) = 5
      /\ \A i, j \in 1..5 : i # j =>
             batch.before[i] # batch.before[j] /\ batch.next[i] # batch.next[j]
  BY <1>1, BatchShape
<1> HIDE DEF batch
<1>3. /\ batch.rank \in Registry!RankType /\ batch.rank \in Registry!ShadowRank
  BY <1>1, <1>2 DEF Registry!RankType, Registry!ShadowRank, RankB, RankA, RankS,
     Registry!RankE, Registry!RankB, Registry!RankS
<1>4. /\ \A i \in 1..5 : /\ batch.before[i] \in Registry!MonsterId
                         /\ batch.next[i] \in monsterOfRankType[batch.rank]["shadow"]
                         /\ batch.next[i] \in Registry!MonsterId
      /\ UNCHANGED monsterOfRankType
  <2>1. \A i \in 1..5 : Registry!ValidArisePair(batch.rank, batch.before[i], batch.next[i])
    BY <1>1, <1>2 DEF Registry!setAriseMonsterBatch
  <2>2. monsterOfRankType \in
            [Registry!RankType -> [{"normal", "shadow"} -> SUBSET Registry!MonsterId]]
    BY DEF AriseInv, Registry!IInv, Registry!TypeOK, Registry!Kind
  <2>3. Registry!BeforeRank(batch.rank) \in Registry!RankType
        /\ Registry!BeforeKind(batch.rank) \in {"normal", "shadow"}
    BY <1>1, <1>2 DEF Registry!RankType, Registry!BeforeRank, Registry!BeforeKind, RankB, RankA,
       RankS,
       Registry!RankE, Registry!RankB, Registry!RankS
  <2>4. UNCHANGED monsterOfRankType
    BY <1>1 DEF Registry!setAriseMonsterBatch, Registry!registryVars
  <2> QED BY <1>3, <2>1, <2>2, <2>3, <2>4 DEF Registry!ValidArisePair,
             Registry!AriseCandidates, Registry!isValidMonster
<1>5. batch.before \in Registry!Batch /\ batch.next \in Registry!Batch
  <2>1. batch.before \in [1..5 -> Registry!MonsterId] /\ batch.next \in [1..5 -> Registry!MonsterId]
    BY <1>2, <1>4
  <2> QED BY <2>1 DEF Registry!Batch
<1> QED BY <1>1, <1>3, <1>4, <1>5 DEF batch

(* A batch that is sent pairs what it names, and the ranks of those before *)
(* it are others.                                                          *)
LEMMA SetAriseKeepsArise ==
    ASSUME AriseInv, SetArise
    PROVE  Registry!IInv' /\ ArisesOK'
<1> DEFINE batch == AriseBatches[turn]
<1>1. /\ at = "setArise" /\ turn \in 1..3
      /\ at' = IF turn < 3 THEN at ELSE "done"
      /\ turn' = IF turn < 3 THEN turn + 1 ELSE 1
      /\ \A k \in 1..3 : k < turn => Paired(k)
  BY BatchesFacts DEF SetArise, LoopTo, AriseInv, DataInv, TypeOK, ArisesOK
<1>2. /\ batch.rank = (IF turn = 1 THEN RankB ELSE IF turn = 2 THEN RankA ELSE RankS)
      /\ batch.before \in [1..5 -> Nat] /\ batch.next \in [1..5 -> Nat]
      /\ Len(batch.before) = 5 /\ Len(batch.next) = 5
      /\ \A i, j \in 1..5 : i # j =>
             batch.before[i] # batch.before[j] /\ batch.next[i] # batch.next[j]
  BY <1>1, BatchShape
<1>3. /\ batch.rank \in Registry!RankType /\ batch.rank \in Registry!ShadowRank
      /\ batch.before \in Registry!Batch /\ batch.next \in Registry!Batch
      /\ Registry!setAriseMonsterBatch(batch.rank, batch.before, batch.next)
      /\ \A i \in 1..5 : batch.next[i] \in monsterOfRankType[batch.rank]["shadow"]
      /\ UNCHANGED monsterOfRankType
  BY SetsArise
<1> HIDE DEF batch
<1>6. Registry!IInv'
  BY <1>3, FactoryBounds, Registry!SetAriseMonsterBatchInv DEF AriseInv
<1>7. /\ \A i \in 1..5 : ariseNextMonsterIds'[batch.rank][batch.before[i]] = batch.next[i]
      /\ \A other \in Registry!ShadowRank :
             other # batch.rank => ariseNextMonsterIds'[other] = ariseNextMonsterIds[other]
  <2>1. Registry!IInv
    BY DEF AriseInv
  <2>2. \A i, j \in 1..Len(batch.before) : i # j =>
            batch.before[i] # batch.before[j] /\ batch.next[i] # batch.next[j]
    BY <1>2
  <2>3. /\ \A i \in 1..Len(batch.before) :
                ariseNextMonsterIds'[batch.rank][batch.before[i]] = batch.next[i]
        /\ \A other \in Registry!ShadowRank :
                other # batch.rank => ariseNextMonsterIds'[other] = ariseNextMonsterIds[other]
    BY <1>3, <2>1, <2>2, FactoryBounds, Registry!DistinctBatchPairs
  <2> QED BY <1>2, <2>3
<1>8. PICK n \in 1..3 : n = turn
  BY <1>1
<1>10. Paired(n)'
  <2>1. batch = AriseBatches[n]
    BY <1>8 DEF batch
  <2> QED BY <1>3, <1>7, <2>1 DEF Paired
<1>9. ASSUME NEW k \in 1..3, k < n PROVE Paired(k)'
  <2>1. Paired(k)
    BY <1>1, <1>8, <1>9
  <2>2. AriseBatches[k].rank \in Registry!ShadowRank /\ AriseBatches[k].rank # batch.rank
    BY <1>1, <1>2, <1>8, <1>9, BatchShape DEF Registry!ShadowRank, RankB, RankA, RankS,
       Registry!RankB, Registry!RankS
  <2>3. ariseNextMonsterIds'[AriseBatches[k].rank] = ariseNextMonsterIds[AriseBatches[k].rank]
    BY <1>7, <2>2
  <2> QED BY <1>3, <2>1, <2>3 DEF Paired
<1>11. ArisesOK'
  <2>1. \A k \in 1..3 : k <= n => Paired(k)'
    BY <1>9, <1>10
  <2>2. CASE n < 3
    <3>1. at' = "setArise" /\ turn' = n + 1 /\ turn' <= 3
      BY <1>1, <1>8, <2>2
    <3>2. \A k \in 1..3 : k < turn' => k <= n
      BY <3>1
    <3> QED BY <2>1, <3>1, <3>2 DEF ArisesOK
  <2>3. CASE ~(n < 3)
    <3>1. at' = "done" /\ \A k \in 1..3 : k <= n
      BY <1>1, <1>8, <2>3
    <3> QED BY <2>1, <3>1 DEF ArisesOK
  <2> QED BY <2>2, <2>3
<1> QED BY <1>6, <1>11

(* The other steps leave the registry alone, and are not about to pair.    *)
LEMMA OthersKeepArise ==
    ASSUME AriseInv, UNCHANGED factoryVars,
           at' \in {"setArise", "done"} => UNCHANGED <<at, turn>>
    PROVE  Registry!IInv' /\ ArisesOK'
<1>1. Registry!IInv'
  BY RegistryUnchanged DEF AriseInv
<1>2. UNCHANGED <<ariseNextMonsterIds, monsterOfRankType>>
  BY DEF factoryVars
<1>3. ASSUME NEW k \in 1..3, Paired(k) PROVE Paired(k)'
  BY <1>2, <1>3 DEF Paired
<1>4. ArisesOK'
  <2>1. CASE at' \in {"setArise", "done"}
    BY <1>3, <2>1 DEF AriseInv, ArisesOK
  <2>2. CASE at' \notin {"setArise", "done"}
    BY <2>2 DEF ArisesOK
  <2> QED BY <2>1, <2>2
<1> QED BY <1>1, <1>4

(* Every other step leaves the registry alone.                             *)
LEMMA RestLeavesRegistry ==
    ASSUME AriseInv, [Next]_allVars, ~(AddMonsters \/ AddShadows), ~SetArise
    PROVE  UNCHANGED factoryVars /\ (at' \in {"setArise", "done"} => UNCHANGED <<at, turn>>)
<1>1. CASE InitialDataNext
  <2>1. CASE Begin \/ FundFaucet \/ StopAttempt
    BY <2>1 DEF Begin, FundFaucet, StopAttempt, GoTo
  <2>2. CASE \E kind \in DOMAIN AfterAdded : DeployCollection(kind) \/ AddProjectCollection(kind)
    <3>1. PICK kind \in Kinds : DeployCollection(kind) \/ AddProjectCollection(kind)
      BY <2>2, KindFacts
    <3>2. at' \in {AddsIt[kind], AfterAdded[kind]} /\ UNCHANGED factoryVars
      BY <3>1 DEF DeployCollection, AddProjectCollection, GoTo
    <3>3. at' \notin {"setArise", "done"}
      BY <3>2, KindFacts DEF Kinds
    <3> QED BY <3>2, <3>3
  <2>3. CASE OpenToken
    BY <2>3 DEF OpenToken, LoopTo
  <2>4. CASE AddFirstSeason
    BY <2>4 DEF AddFirstSeason, GoTo
  <2>5. CASE MineBlock
    BY <2>5 DEF MineBlock, scriptVars
  <2> QED BY <1>1, <2>1, <2>2, <2>3, <2>4, <2>5 DEF InitialDataNext
<1>2. CASE ~InitialDataNext
  BY <1>2 DEF Next, allVars, DeployGate, SetDungeonGateContract, AddApprovedContract,
     AddCollectionController, AddPackController, SetApproveUSDTokenContract, StopReplacing, Step,
     initialDataVars, scriptVars
<1> QED BY <1>1, <1>2

(* Every step keeps the pairings as the script has made them so far.       *)
LEMMA AriseStep == AriseInv /\ [Next]_allVars => Registry!IInv' /\ ArisesOK'
  BY AddMonsterKeepsArise, SetAriseKeepsArise, RestLeavesRegistry, OthersKeepArise

(* However often the script is started and wherever it stops, the batches  *)
(* it has sent in the attempt under way are all in force.                  *)
THEOREM AriseInvariant == Spec => []AriseInv
<1>1. AriseInv /\ [Next]_allVars /\ RolloutInv' => AriseInv'
  BY AriseStep DEF AriseInv, RolloutInv
<1>2. RolloutInv /\ Init => AriseInv
  BY AriseStarts DEF AriseInv, RolloutInv
<1> QED BY <1>1, <1>2, RolloutInvariant, PTL DEF Spec

(* A table in which only the ids from lo to hi have rank S.                *)
RankSWithin(table, n, lo, hi) ==
    /\ table \in Seq(RankType) /\ Len(table) = n
    /\ \A id \in 1..n : table[id] = RankS => id \in lo..hi

(* More of another rank behind it makes it longer, and no more.            *)
LEMMA OtherRanksJoin ==
    ASSUME NEW s, NEW n \in Nat, NEW lo \in Nat, NEW hi \in Nat, RankSWithin(s, n, lo, hi),
           NEW rank \in RankType, rank # RankS, NEW m \in Nat, NEW sum, sum = n + m
    PROVE  RankSWithin(s \o Times(rank, m), sum, lo, hi)
<1>1. /\ Times(rank, m) \in Seq(RankType) /\ Len(Times(rank, m)) = m
      /\ \A id \in 1..m : Times(rank, m)[id] = rank
  BY DEF Times
<1> HIDE DEF Times
<1>2. /\ s \o Times(rank, m) \in Seq(RankType) /\ Len(s \o Times(rank, m)) = n + m
      /\ \A id \in 1..(n + m) : (s \o Times(rank, m))[id] =
             IF id <= n THEN s[id] ELSE Times(rank, m)[id - n]
  BY <1>1 DEF RankSWithin
<1>3. ASSUME NEW id \in 1..(n + m), (s \o Times(rank, m))[id] = RankS
      PROVE  id \in lo..hi
  <2>1. CASE id <= n
    BY <1>2, <1>3, <2>1 DEF RankSWithin
  <2>2. CASE ~(id <= n)
    <3>1. id - n \in 1..m
      BY <2>2
    <3> QED BY <1>1, <1>2, <1>3, <2>2, <3>1
  <2> QED BY <2>1, <2>2
<1> QED BY <1>2, <1>3 DEF RankSWithin

(* The first monsters of rank S have the ids behind those before.          *)
LEMMA RankSJoins ==
    ASSUME NEW s, NEW n \in Nat, RankSWithin(s, n, 1, 0), NEW m \in Nat,
           NEW sum, sum = n + m
    PROVE  RankSWithin(s \o Times(RankS, m), sum, n + 1, sum)
<1>1. /\ Times(RankS, m) \in Seq(RankType) /\ Len(Times(RankS, m)) = m
  BY DEF Times, RankS, RankType, RankE
<1>2. /\ s \o Times(RankS, m) \in Seq(RankType) /\ Len(s \o Times(RankS, m)) = n + m
      /\ \A id \in 1..n : (s \o Times(RankS, m))[id] = s[id]
  BY <1>1 DEF RankSWithin
<1>3. ASSUME NEW id \in 1..(n + m), (s \o Times(RankS, m))[id] = RankS
      PROVE  id \in (n + 1)..(n + m)
  <2>1. ~(id \in 1..n)
    BY <1>2, <1>3 DEF RankSWithin
  <2> QED BY <2>1
<1> QED BY <1>2, <1>3 DEF RankSWithin

(* The normal monsters of rank S are those the first batch raises.         *)
LEMMA NormalRankS ==
    \A id \in 1..Len(monsterIdToRanks) : monsterIdToRanks[id] = RankS => id \in 26..30
<1>1. /\ RankE \in RankType /\ RankD \in RankType /\ RankC \in RankType
      /\ RankB \in RankType /\ RankA \in RankType /\ RankS \in RankType
      /\ RankE # RankS /\ RankD # RankS /\ RankC # RankS /\ RankB # RankS /\ RankA # RankS
  BY DEF RankType, RankE, RankD, RankC, RankB, RankA, RankS
<1> DEFINE s1 == Times(RankE, 3)           s2 == s1 \o Times(RankD, 3)
           s3 == s2 \o Times(RankC, 6)     s4 == s3 \o Times(RankB, 7)
           s5 == s4 \o Times(RankA, 6)     s6 == s5 \o Times(RankS, 5)
           s7 == s6 \o Times(RankE, 2)     s8 == s7 \o Times(RankD, 3)
<1>11. /\ 0 \in Nat /\ 1 \in Nat /\ 2 \in Nat /\ 3 \in Nat /\ 5 \in Nat /\ 6 \in Nat /\ 7 \in Nat
       /\ 12 \in Nat /\ 19 \in Nat /\ 25 \in Nat /\ 26 \in Nat /\ 30 \in Nat /\ 32 \in Nat
       /\ 6 = 3 + 3 /\ 12 = 6 + 6 /\ 19 = 12 + 7 /\ 25 = 19 + 6 /\ 26 = 25 + 1 /\ 30 = 25 + 5
       /\ 32 = 30 + 2 /\ 35 = 32 + 3
  OBVIOUS
<1>2. RankSWithin(s1, 3, 1, 0)
  BY <1>1 DEF RankSWithin, Times
<1> HIDE DEF s1
<1>3. RankSWithin(s2, 6, 1, 0)
  BY <1>1, <1>2, <1>11, OtherRanksJoin, Zenon
<1> HIDE DEF s2
<1>4. RankSWithin(s3, 12, 1, 0)
  BY <1>1, <1>3, <1>11, OtherRanksJoin, Zenon
<1> HIDE DEF s3
<1>5. RankSWithin(s4, 19, 1, 0)
  BY <1>1, <1>4, <1>11, OtherRanksJoin, Zenon
<1> HIDE DEF s4
<1>6. RankSWithin(s5, 25, 1, 0)
  BY <1>1, <1>5, <1>11, OtherRanksJoin, Zenon
<1> HIDE DEF s5
<1>7. RankSWithin(s6, 30, 26, 30)
  BY <1>6, <1>11, RankSJoins, Zenon
<1> HIDE DEF s6
<1>8. RankSWithin(s7, 32, 26, 30)
  BY <1>1, <1>7, <1>11, OtherRanksJoin, Zenon
<1> HIDE DEF s7
<1>9. RankSWithin(s8, 35, 26, 30)
  BY <1>1, <1>8, <1>11, OtherRanksJoin, Zenon
<1>10. s8 = monsterIdToRanks
  BY DEF s1, s2, s3, s4, s5, s6, s7, monsterIdToRanks
<1> QED BY <1>9, <1>10 DEF RankSWithin

(* Once the script is done, every normal monster of rank S can arise, step *)
(* by step, to a shadow of rank S of its own, after any number of attempts *)
(* (set_initial_data.ts:178).                                              *)
THEOREM AriseChainsCompleteHolds == Spec => []AriseChainsComplete
<1>1. ASSUME AriseInv, at = "done" PROVE AriseChainsComplete
  <2> DEFINE monsters == monsterOfRankType[RankS]["normal"]
  <2>1. ASSUME NEW id \in monsters PROVE id \in 26..30
    <3>1. /\ id \in 1..Len(monsterIdToRanks) /\ id <= monsterIds["normal"]
          /\ monsterRankTypes["normal"][id] = RankS
      <4>1. /\ monsterOfRankType \in
                   [Registry!RankType -> [{"normal", "shadow"} -> SUBSET Registry!MonsterId]]
            /\ Registry!RankSetsAgree
        BY <1>1 DEF AriseInv, Registry!IInv, Registry!TypeOK, Registry!Kind
      <4>2. RankS \in Registry!RankType
        BY DEF Registry!RankType, Registry!RankE, Registry!RankS, RankS
      <4>3. id \in Registry!MonsterId
        BY <2>1, <4>1, <4>2
      <4>4. Registry!isExistMonsterById("normal", id) /\ monsterRankTypes["normal"][id] = RankS
        BY <2>1, <4>1, <4>2, <4>3 DEF Registry!RankSetsAgree, Registry!Kind
      <4> QED BY <4>3, <4>4 DEF Registry!isExistMonsterById, Registry!MonsterId
    <3>2. monsterIds["normal"] \in Nat /\ Tabled("normal", monsterIdToRanks)
      BY <1>1 DEF AriseInv, DataInv, RegistryOK
    <3>3. monsterIdToRanks[id] = RankS
      BY <3>1, <3>2, TableFacts DEF Tabled, IsTable
    <3> QED BY <3>1, <3>3, NormalRankS
  <2>2. ASSUME NEW i \in 1..5
        PROVE  /\ AriseTo(RankB, 25 + i) = i /\ AriseTo(RankA, i) = 5 + i
               /\ AriseTo(RankS, 5 + i) = 10 + i
               /\ 10 + i \in monsterOfRankType[RankS]["shadow"]
    <3>1. \A k \in 1..3 : Paired(k)
      BY <1>1 DEF AriseInv, ArisesOK
    <3>2. Paired(1) /\ Paired(2) /\ Paired(3)
      BY <3>1
    <3>3. AriseTo(RankB, 25 + i) = i
      BY <3>2, BatchesFacts, IdsFacts DEF Paired, AriseTo
    <3>4. AriseTo(RankA, i) = 5 + i
      BY <3>2, BatchesFacts, IdsFacts DEF Paired, AriseTo
    <3>5. AriseTo(RankS, 5 + i) = 10 + i /\ 10 + i \in monsterOfRankType[RankS]["shadow"]
      BY <3>2, BatchesFacts, IdsFacts DEF Paired, AriseTo
    <3> QED BY <3>3, <3>4, <3>5
  <2>3. ASSUME NEW id \in 26..30
        PROVE  ShadowOf(id) = id - 15 /\ ShadowOf(id) \in monsterOfRankType[RankS]["shadow"]
    <3>1. PICK i \in 1..5 : id = 25 + i
      <4>1. id - 25 \in 1..5 /\ id = 25 + (id - 25)
        OBVIOUS
      <4> QED BY <4>1
    <3>2. ShadowOf(id) = 10 + i
      BY <2>2, <3>1 DEF ShadowOf
    <3> QED BY <2>2, <3>1, <3>2
  <2> HIDE DEF monsters
  <2>4. \A id \in monsters : ShadowOf(id) \in monsterOfRankType[RankS]["shadow"]
    BY <2>1, <2>3
  <2>5. \A id, other \in monsters : ShadowOf(id) = ShadowOf(other) => id = other
    BY <2>1, <2>3
  <2> QED BY <2>4, <2>5 DEF AriseChainsComplete, monsters
<1>2. AriseInv => AriseChainsComplete
  BY <1>1 DEF AriseChainsComplete
<1> QED BY <1>2, AriseInvariant, PTL

-----------------------------------------------------------------------------
(* The registry and the seasons as their contracts                         *)
(* What the script sends to the registry adds monsters and pairs them.     *)
LEMMA FillingIsCareful ==
    ASSUME AriseInv, [Next]_allVars
    PROVE  [Registry!CarefulNext]_(Registry!vars)
<1>1. CASE AddMonsters \/ AddShadows
  <2>1. Registry!AddMonster
    BY <1>1, AddsMonster DEF Registry!AddMonster, AriseInv
  <2> QED BY <2>1 DEF Registry!CarefulNext
<1>2. CASE SetArise
  <2>1. Registry!SetAriseMonsterBatch
    BY <1>2, SetsArise DEF Registry!SetAriseMonsterBatch
  <2> QED BY <2>1 DEF Registry!CarefulNext
<1>3. CASE ~(AddMonsters \/ AddShadows) /\ ~SetArise
  <2>1. UNCHANGED factoryVars
    BY <1>3, RestLeavesRegistry
  <2> QED BY <2>1 DEF factoryVars, Registry!vars, Registry!registryVars, Registry!ariseVars
<1> QED BY <1>1, <1>2, <1>3

(* However often it is started and stopped, the script makes only calls    *)
(* the registry takes, from an empty one on: what is proved of a registry  *)
(* that careful operators fill holds of the one it fills.                  *)
THEOREM ScriptFillsCarefully == Spec => Registry!CarefulSpec
<1>1. AriseInv /\ [Next]_allVars => [Registry!CarefulNext]_(Registry!vars)
  BY FillingIsCareful
<1> QED BY <1>1, RegistryStarts, AriseInvariant, PTL DEF Spec, Registry!CarefulSpec

(* So in the registry of a rollout every pair leads from a monster of the  *)
(* rank before to one of the rank, as MonsterFactoryBase says, until an    *)
(* operator changes the rank of a monster that is in a pair.               *)
THEOREM FilledRanksAgree == Spec => []Registry!AriseRanksAgree
BY ScriptFillsCarefully, FactoryBounds, Registry!CarefulRanksAgree, PTL

(* An attempt adds a season the way the season contract takes it.          *)
LEMMA AddsSeason == AddFirstSeason => SeasonContract!AddSeason
<1> DEFINE first == [hunterRank |-> 8, seasonPack |-> 9, collections |-> {3, 4}]
<1> SUFFICES ASSUME AddFirstSeason PROVE SeasonContract!AddSeason
  OBVIOUS
<1>1. SeasonContract!addSeason(StartBlock, EndBlock, first)
  BY DEF AddFirstSeason
<1>2. StartBlock \in SeasonContract!Block /\ EndBlock \in SeasonContract!Block
  BY DEF StartBlock, EndBlock, LastBlock, SeasonContract!Block
<1>3. first \in SeasonContract!Collections
  BY DEF SeasonContract!Collections
<1> HIDE DEF first
<1> QED BY <1>1, <1>2, <1>3 DEF SeasonContract!AddSeason

(* The seasons of a rollout are those of SLSeason, with the one call the   *)
(* script makes and the blocks that pass.                                  *)
LEMMA SeasonsFollow ==
    ASSUME [Next]_allVars
    PROVE  [SeasonContract!SeasonNext]_(SeasonContract!seasonVars)
<1>1. CASE AddFirstSeason
  BY <1>1, AddsSeason DEF SeasonContract!SeasonNext
<1>2. CASE MineBlock
  BY <1>2 DEF MineBlock, SeasonContract!SeasonNext
<1>3. CASE ~AddFirstSeason /\ ~MineBlock
  <2>1. UNCHANGED seasonVars
    BY <1>3 DEF Next, InitialDataNext, Begin, FundFaucet, DeployCollection, AddProjectCollection,
       OpenToken, AddMonsters, AddShadows, SetArise, StopAttempt, DeployGate,
       SetDungeonGateContract, AddApprovedContract, AddCollectionController, AddPackController,
       SetApproveUSDTokenContract, StopReplacing, Step, initialDataVars, allVars
  <2> QED BY <2>1 DEF seasonVars, SeasonContract!seasonVars
<1> QED BY <1>1, <1>2, <1>3

(* The rollout is a behaviour of the season contract.                      *)
THEOREM SeasonsAsContract == Spec => SeasonContract!SeasonSpec
<1>1. Init => SeasonContract!SeasonInit
  BY DEF Init, InitialDataInit
<1>2. [Next]_allVars => [SeasonContract!SeasonNext]_(SeasonContract!seasonVars)
  BY SeasonsFollow
<1> QED BY <1>1, <1>2, PTL DEF Spec, SeasonContract!SeasonSpec
============================================================================
