-------------------------- MODULE SeasonShop_proof --------------------------
(***************************************************************************)
(* The safety of the two contracts the gate is composed with, each on its  *)
(* own.                                                                    *)
(*                                                                         *)
(* Season, for any number of seasons and blocks: the typed and ordered     *)
(* windows are inductive together: an operation looks at the two           *)
(* neighbours of a window only, and the order of neighbours gives the      *)
(* order of all because every window is already between them.              *)
(*                                                                         *)
(* Shop, for any hunters, coins and prices: no balance goes negative,      *)
(* every move being guarded by what the payer owns, and a sale is one      *)
(* move, from the buyer to the shop.                                       *)
(***************************************************************************)
EXTENDS Season, Shop, SumTheorems

----------------------------------------------------------------------------
(* The seasons                                                             *)

SeasonInv == SeasonTypeOK /\ SeasonsOrdered

(* There is no season at first.                                            *)
LEMMA SeasonInitInv == SeasonInit => SeasonInv
BY MaxBlockAssumption, MaxSeasonsAssumption
   DEF SeasonInit, SeasonInv, SeasonTypeOK, SeasonsOrdered, Block

(* A season added starts after the last one ends.                          *)
LEMMA AddSeasonInv ==
    ASSUME SeasonInv, NEW start \in Block, NEW end \in Block, NEW uses \in Collections,
           addSeason(start, end, uses)
    PROVE  SeasonInv'
<1> DEFINE id == seasonIds
           new == [startBlock |-> start, endBlock |-> end, uses |-> uses]
<1>1. /\ seasons \in [0..(id - 1) -> Season] /\ id \in 0..MaxSeasons /\ block \in Block
      /\ id < MaxSeasons /\ start < end /\ seasonIds' = id + 1 /\ block' = block
      /\ seasons' = [i \in 0..id |-> IF i = id THEN new ELSE seasons[i]]
      /\ id > 0 => seasons[id - 1].endBlock < start
  BY DEF SeasonInv, SeasonTypeOK, addSeason, _checkBlock
<1>2. new \in Season
  BY DEF Season
<1>3. \A i \in 0..id : /\ seasons'[i] \in Season
                       /\ i # id => i \in 0..(id - 1) /\ seasons'[i] = seasons[i]
                       /\ i = id => seasons'[i] = new
  BY <1>1, <1>2, MaxSeasonsAssumption
<1>4. SeasonTypeOK'
  BY <1>1, <1>3, MaxSeasonsAssumption DEF SeasonTypeOK
<1>5. ASSUME NEW i \in 0..(id - 1)
      PROVE  /\ seasons[i].startBlock < seasons[i].endBlock
             /\ seasons[i].endBlock < start
             /\ seasons[i].startBlock \in Int /\ seasons[i].endBlock \in Int
  <2>1. id - 1 \in 0..(id - 1) /\ id \in Nat /\ id > 0
    BY <1>1, MaxSeasonsAssumption
  <2>2. seasons[i] \in Season /\ seasons[id - 1] \in Season
    BY <1>1, <2>1
  <2>3. /\ seasons[i].startBlock \in Int /\ seasons[i].endBlock \in Int
        /\ seasons[id - 1].startBlock \in Int /\ seasons[id - 1].endBlock \in Int
        /\ start \in Int
    BY <2>2 DEF Season, Block
  <2>4. /\ seasons[i].startBlock < seasons[i].endBlock
        /\ seasons[id - 1].startBlock < seasons[id - 1].endBlock
        /\ i < id - 1 => seasons[i].endBlock < seasons[id - 1].startBlock
    BY <2>1 DEF SeasonInv, SeasonsOrdered
  <2>5. seasons[id - 1].endBlock < start
    BY <1>1, <2>1
  <2>6. CASE i = id - 1
    BY <2>3, <2>4, <2>5, <2>6
  <2>7. CASE i < id - 1
    BY <2>3, <2>4, <2>5, <2>7
  <2>8. i = id - 1 \/ i < id - 1
    BY <2>1
  <2> QED
    BY <2>6, <2>7, <2>8
<1>6. SeasonsOrdered'
  <2> SUFFICES ASSUME NEW i \in 0..id, NEW j \in 0..id
               PROVE  /\ seasons'[i].startBlock < seasons'[i].endBlock
                      /\ i < j => seasons'[i].endBlock < seasons'[j].startBlock
    BY <1>1, MaxSeasonsAssumption DEF SeasonsOrdered
  <2>1. seasons'[i].startBlock < seasons'[i].endBlock
    BY <1>1, <1>3, <1>5
  <2>2. ASSUME i < j PROVE seasons'[i].endBlock < seasons'[j].startBlock
    <3>1. i \in 0..(id - 1) /\ seasons'[i] = seasons[i]
      BY <2>2, <1>1, <1>3, MaxSeasonsAssumption
    <3>2. CASE j = id
      BY <3>1, <3>2, <1>3, <1>5
    <3>3. CASE j # id
      BY <3>1, <3>3, <1>3, <2>2 DEF SeasonInv, SeasonsOrdered
    <3> QED BY <3>2, <3>3
  <2> QED BY <2>1, <2>2
<1> QED BY <1>4, <1>6 DEF SeasonInv

(* The collections of a season are no part of the order.                   *)
LEMMA SetSeasonCollectionInv ==
    ASSUME SeasonInv, NEW id \in SeasonId, NEW uses \in Collections,
           setSeasonCollection(id, uses)
    PROVE  SeasonInv'
<1>1. /\ seasons \in [0..(seasonIds - 1) -> Season] /\ seasonIds \in 0..MaxSeasons
      /\ block' = block /\ seasonIds' = seasonIds /\ id \in 0..(seasonIds - 1)
      /\ seasons' = [seasons EXCEPT ![id].uses = uses]
  BY MaxSeasonsAssumption
     DEF SeasonInv, SeasonTypeOK, setSeasonCollection, isExistSeasonById, SeasonId
<1>2. \A i \in 0..(seasonIds - 1) :
         /\ seasons'[i] \in Season
         /\ seasons'[i].startBlock = seasons[i].startBlock
         /\ seasons'[i].endBlock = seasons[i].endBlock
  BY <1>1 DEF Season
<1>3. seasons' \in [0..(seasonIds - 1) -> Season]
  BY <1>1, <1>2
<1>4. SeasonTypeOK'
  BY <1>1, <1>3 DEF SeasonInv, SeasonTypeOK
<1>5. SeasonsOrdered'
  BY <1>1, <1>2 DEF SeasonInv, SeasonsOrdered
<1> QED BY <1>4, <1>5 DEF SeasonInv

(* A window moved stays between its neighbours; that of season 0, which    *)
(* has no predecessor, only has to end before season 1 starts.             *)
LEMMA SetSeasonBlockInv ==
    ASSUME SeasonInv, NEW id \in SeasonId, NEW start \in Block, NEW end \in Block,
           setSeasonBlock(id, start, end)
    PROVE  SeasonInv'
<1> DEFINE last == seasonIds - 1
<1>1. /\ seasons \in [0..last -> Season] /\ seasonIds \in 0..MaxSeasons
      /\ block' = block /\ seasonIds' = seasonIds /\ id \in 0..last
      /\ seasons' = [seasons EXCEPT ![id].startBlock = start, ![id].endBlock = end]
      /\ start < end
      /\ id # 0 => seasons[id - 1].endBlock < start
  BY MaxSeasonsAssumption
     DEF SeasonInv, SeasonTypeOK, setSeasonBlock, blockBefore, blockAfter, _checkBlock, isExistSeasonById, SeasonId
<1>2. seasonIds \in Nat /\ last \in Int
  BY <1>1, MaxSeasonsAssumption
<1>3. \A i \in 0..last : /\ seasons[i] \in Season
                         /\ seasons[i].startBlock \in Nat \ {0}
                         /\ seasons[i].endBlock \in Nat \ {0}
  BY <1>1, MaxBlockAssumption DEF Season, Block
<1>4. id + 1 \in 0..last => end < seasons[id + 1].startBlock
  BY <1>1, <1>2, <1>3
     DEF setSeasonBlock, blockBefore, blockAfter, _checkBlock, isExistSeasonById, NoLimit
<1>5. \A i \in 0..last :
         /\ seasons'[i] \in Season
         /\ i # id => seasons'[i] = seasons[i]
         /\ i = id => seasons'[i].startBlock = start /\ seasons'[i].endBlock = end
  BY <1>1, <1>3 DEF Season
<1>6. SeasonTypeOK'
  <2>1. seasons' \in [0..last -> Season]
    BY <1>1, <1>5
  <2> QED BY <1>1, <2>1 DEF SeasonInv, SeasonTypeOK
<1>7. \A i, j \in 0..last :
         /\ seasons[i].startBlock < seasons[i].endBlock
         /\ i < j => seasons[i].endBlock < seasons[j].startBlock
  BY DEF SeasonInv, SeasonsOrdered
<1>8. start \in Nat /\ end \in Nat
  BY MaxBlockAssumption DEF Block
<1>9. ASSUME NEW i \in 0..last, i < id PROVE seasons[i].endBlock < start
  <2>1. id - 1 \in 0..last /\ (i < id - 1 \/ i = id - 1) /\ id # 0
    BY <1>1, <1>2, <1>9
  <2>2. /\ seasons[i].endBlock \in Nat /\ seasons[id - 1].startBlock \in Nat
        /\ seasons[id - 1].endBlock \in Nat
    BY <2>1, <1>3
  <2>3. /\ i < id - 1 => seasons[i].endBlock < seasons[id - 1].startBlock
        /\ seasons[id - 1].startBlock < seasons[id - 1].endBlock
    BY <2>1, <1>7
  <2>4. seasons[id - 1].endBlock < start
    BY <2>1, <1>1
  <2> QED BY <2>1, <2>2, <2>3, <2>4, <1>8
<1>10. ASSUME NEW j \in 0..last, id < j PROVE end < seasons[j].startBlock
  <2>1. id + 1 \in 0..last /\ (id + 1 < j \/ j = id + 1)
    BY <1>1, <1>2, <1>10
  <2>2. /\ seasons[j].startBlock \in Nat /\ seasons[id + 1].startBlock \in Nat
        /\ seasons[id + 1].endBlock \in Nat
    BY <2>1, <1>3
  <2>3. /\ id + 1 < j => seasons[id + 1].endBlock < seasons[j].startBlock
        /\ seasons[id + 1].startBlock < seasons[id + 1].endBlock
    BY <2>1, <1>7
  <2> QED BY <2>1, <2>2, <2>3, <1>4, <1>8
<1>11. SeasonsOrdered'
  <2> SUFFICES ASSUME NEW i \in 0..last, NEW j \in 0..last
               PROVE  /\ seasons'[i].startBlock < seasons'[i].endBlock
                      /\ i < j => seasons'[i].endBlock < seasons'[j].startBlock
    BY <1>1 DEF SeasonsOrdered
  <2>1. CASE i = id
    BY <2>1, <1>1, <1>5, <1>10
  <2>2. CASE i # id /\ j = id
    BY <2>2, <1>5, <1>7, <1>9
  <2>3. CASE i # id /\ j # id
    BY <2>3, <1>5, <1>7
  <2> QED BY <2>1, <2>2, <2>3
<1> QED BY <1>6, <1>11 DEF SeasonInv

(* Every step keeps the types and the order.                               *)
LEMMA SeasonNextInv == SeasonInv /\ [SeasonNext]_seasonVars => SeasonInv'
<1> SUFFICES ASSUME SeasonInv, [SeasonNext]_seasonVars PROVE SeasonInv'
  OBVIOUS
<1>1. CASE AddSeason
  BY <1>1, AddSeasonInv DEF AddSeason
<1>2. CASE SetSeasonCollection
  BY <1>2, SetSeasonCollectionInv DEF SetSeasonCollection
<1>3. CASE SetSeasonBlock
  BY <1>3, SetSeasonBlockInv DEF SetSeasonBlock
<1>4. CASE mineBlock
  BY <1>4, MaxBlockAssumption
     DEF mineBlock, SeasonInv, SeasonTypeOK, SeasonsOrdered, Block
<1>5. CASE UNCHANGED seasonVars
  BY <1>5 DEF seasonVars, SeasonInv, SeasonTypeOK, SeasonsOrdered
<1> QED
  BY <1>1, <1>2, <1>3, <1>4, <1>5 DEF SeasonNext

(* No step removes a season.                                               *)
LEMMA SeasonsOnlyAdded ==
    SeasonInv /\ [SeasonNext]_seasonVars => seasonIds' = seasonIds \/ seasonIds' = seasonIds + 1
BY DEF SeasonNext, AddSeason, addSeason, SetSeasonCollection, setSeasonCollection,
       SetSeasonBlock, setSeasonBlock, mineBlock, seasonVars

(* Windows in order cannot both contain the block.                         *)
LEMMA OrderedOneCurrent == SeasonInv => AtMostOneCurrent
<1> SUFFICES ASSUME SeasonInv, NEW i \in 0..(seasonIds - 1), NEW j \in 0..(seasonIds - 1),
                    isCurrentSeasonById(i), isCurrentSeasonById(j)
             PROVE  i = j
  BY DEF AtMostOneCurrent
<1>1. /\ seasons[i] \in Season /\ seasons[j] \in Season /\ block \in Block
      /\ i \in Int /\ j \in Int
  BY DEF SeasonInv, SeasonTypeOK
<1>2. /\ i < j => seasons[i].endBlock < seasons[j].startBlock
      /\ j < i => seasons[j].endBlock < seasons[i].startBlock
  BY DEF SeasonInv, SeasonsOrdered
<1>3. /\ seasons[i].startBlock \in Int /\ seasons[i].endBlock \in Int
      /\ seasons[j].startBlock \in Int /\ seasons[j].endBlock \in Int /\ block \in Int
  BY <1>1 DEF Season, Block
<1> QED BY <1>1, <1>2, <1>3 DEF isCurrentSeasonById

(* The variables keep their types.                                         *)
THEOREM SeasonTypeCorrect == SeasonSpec => []SeasonTypeOK
<1>1. SeasonInv => SeasonTypeOK
  BY DEF SeasonInv
<1> QED BY <1>1, SeasonInitInv, SeasonNextInv, PTL DEF SeasonSpec

(* The windows of addSeason and setSeasonBlock never overlap and follow    *)
(* the order of the ids.                                                   *)
THEOREM SeasonsOrderedHolds == SeasonSpec => []SeasonsOrdered
<1>1. SeasonInv => SeasonsOrdered
  BY DEF SeasonInv
<1> QED BY <1>1, SeasonInitInv, SeasonNextInv, PTL DEF SeasonSpec

(* isCurrentSeasonById holds of one season at most in any block.           *)
THEOREM AtMostOneCurrentHolds == SeasonSpec => []AtMostOneCurrent
BY OrderedOneCurrent, SeasonInitInv, SeasonNextInv, PTL DEF SeasonSpec

(* What a step can do to the record of an existing season: nothing, unless *)
(* it sets the collections of one that has not started or the window of    *)
(* one that has not ended.                                                 *)
LEMMA SeasonStep ==
    ASSUME SeasonInv, [SeasonNext]_seasonVars, NEW i \in 0..(seasonIds - 1)
    PROVE  /\ block' = block \/ block' = block + 1
           /\ \/ seasons'[i] = seasons[i]
              \/ ~ isStartSeasonById(i)
              \/ /\ ~ isEndedSeasonById(i)
                 /\ seasons'[i].uses = seasons[i].uses
                 /\ block' < seasons'[i].startBlock
<1>1. /\ seasons \in [0..(seasonIds - 1) -> Season] /\ seasonIds \in 0..MaxSeasons
      /\ seasonIds \in Int /\ i \in Int /\ 0 <= i /\ i < seasonIds
  BY MaxSeasonsAssumption DEF SeasonInv, SeasonTypeOK
<1>2. ASSUME NEW start \in Block, NEW end \in Block, NEW uses \in Collections,
             addSeason(start, end, uses)
      PROVE  block' = block /\ seasons'[i] = seasons[i]
  BY <1>1, <1>2 DEF addSeason
<1>3. ASSUME NEW id \in SeasonId, NEW uses \in Collections, setSeasonCollection(id, uses)
      PROVE  /\ block' = block
             /\ seasons'[i] = seasons[i] \/ ~ isStartSeasonById(i)
  BY <1>1, <1>3 DEF setSeasonCollection
<1>4. ASSUME NEW id \in SeasonId, NEW start \in Block, NEW end \in Block,
             setSeasonBlock(id, start, end)
      PROVE  /\ block' = block
             /\ \/ seasons'[i] = seasons[i]
                \/ /\ ~ isEndedSeasonById(i)
                   /\ seasons'[i].uses = seasons[i].uses
                   /\ block' < seasons'[i].startBlock
  <2>1. /\ block' = block /\ ~ isEndedSeasonById(id) /\ block < start
        /\ seasons' = [seasons EXCEPT ![id].startBlock = start, ![id].endBlock = end]
    BY <1>4 DEF setSeasonBlock, _checkBlock
  <2>2. seasons[i] \in Season
    BY <1>1
  <2>3. CASE i = id
    BY <2>1, <2>2, <2>3, <1>1 DEF Season
  <2>4. CASE i # id
    BY <2>1, <2>4, <1>1
  <2> QED BY <2>1, <2>3, <2>4
<1>5. CASE AddSeason
  BY <1>5, <1>2 DEF AddSeason
<1>6. CASE SetSeasonCollection
  BY <1>6, <1>3 DEF SetSeasonCollection
<1>7. CASE SetSeasonBlock
  BY <1>7, <1>4 DEF SetSeasonBlock
<1>8. CASE mineBlock
  BY <1>8 DEF mineBlock
<1>9. CASE UNCHANGED seasonVars
  BY <1>9 DEF seasonVars
<1> QED
  BY <1>5, <1>6, <1>7, <1>8, <1>9 DEF SeasonNext

(* The types a window is compared with.                                    *)
LEMMA WindowTypes ==
    ASSUME SeasonInv, NEW i \in 0..(seasonIds - 1)
    PROVE  /\ block \in Int /\ seasons[i].startBlock \in Int /\ seasons[i].endBlock \in Int
           /\ seasons[i].startBlock < seasons[i].endBlock
BY DEF SeasonInv, SeasonTypeOK, SeasonsOrdered, Season, Block

(* The record of an ended season never changes, and it stays ended: what   *)
(* the settlement reads of it is final.                                    *)
THEOREM EndedSeasonFrozenHolds == SeasonSpec => EndedSeasonFrozen
<1>1. ASSUME SeasonInv, [SeasonNext]_seasonVars, NEW i \in 0..(seasonIds - 1), isEndedSeasonById(i)
      PROVE  isEndedSeasonById(i)' /\ seasons'[i] = seasons[i]
  <2>1. isStartSeasonById(i)
    BY <1>1, WindowTypes DEF isStartSeasonById, isEndedSeasonById
  <2>2. seasons'[i] = seasons[i] /\ (block' = block \/ block' = block + 1)
    BY <1>1, <2>1, SeasonStep
  <2> QED BY <1>1, <2>2, WindowTypes DEF isEndedSeasonById
<1>2. SeasonInv /\ [SeasonNext]_seasonVars =>
        [\A id \in 0..(seasonIds - 1) :
            isEndedSeasonById(id) =>
                isEndedSeasonById(id)' /\ seasons'[id] = seasons[id]]_seasonVars
  BY <1>1
<1> QED
  BY <1>2, SeasonInitInv, SeasonNextInv, PTL DEF SeasonSpec, EndedSeasonFrozen

(* The record of a current season changes only by its window moving to     *)
(* blocks to come, so its collections are the same for the whole block.    *)
THEOREM CurrentSeasonStableHolds == SeasonSpec => CurrentSeasonStable
<1>1. ASSUME SeasonInv, [SeasonNext]_seasonVars, NEW i \in 0..(seasonIds - 1), isCurrentSeasonById(i)
      PROVE  /\ seasons'[i].uses = seasons[i].uses
             /\ \/ seasons'[i] = seasons[i]
                \/ block' < seasons'[i].startBlock
  <2>1. isStartSeasonById(i)
    BY <1>1 DEF isStartSeasonById, isCurrentSeasonById
  <2> QED BY <1>1, <2>1, SeasonStep
<1>2. SeasonInv /\ [SeasonNext]_seasonVars =>
        [\A id \in 0..(seasonIds - 1) :
            isCurrentSeasonById(id) =>
                /\ seasons'[id].uses = seasons[id].uses
                /\ \/ seasons'[id] = seasons[id]
                   \/ block' < seasons'[id].startBlock]_seasonVars
  BY <1>1
<1> QED
  BY <1>2, SeasonInitInv, SeasonNextInv, PTL DEF SeasonSpec, CurrentSeasonStable

----------------------------------------------------------------------------
(* The shop                                                                *)

Balances == [Coin -> [Account -> Nat]]
Amounts == [RankType -> Nat]

(* A move the payer can make leaves balances, and touches one coin only.   *)
LEMMA MovedType ==
    ASSUME NEW b \in Balances, NEW c \in Coin, NEW from \in Account, NEW to \in Account,
           NEW n \in Nat, CanPay(b, c, from, n)
    PROVE  Moved(b, c, from, to, n) \in Balances
<1>1. \A a \in Account :
         b[c][a] + (IF a = to THEN n ELSE 0) - (IF a = from THEN n ELSE 0) \in Nat
  BY DEF CanPay, Balances
<1>2. [a \in Account |-> b[c][a] + (IF a = to THEN n ELSE 0)
                                 - (IF a = from THEN n ELSE 0)] \in [Account -> Nat]
  BY <1>1
<1> QED BY <1>2 DEF Moved, Balances

(* An account that neither pays nor receives keeps what it has, in every   *)
(* coin.                                                                   *)
LEMMA MovedOther ==
    ASSUME NEW b \in Balances, NEW c \in Coin, NEW from \in Account, NEW to \in Account,
           NEW n \in Nat, NEW a \in Account, a # from, a # to, NEW d \in Coin
    PROVE  Moved(b, c, from, to, n)[d][a] = b[d][a]
<1>1. b[c][a] \in Nat /\ b[d][a] \in Nat
  BY DEF Balances
<1>2. CASE d = c
  BY <1>1, <1>2 DEF Moved, Balances
<1>3. CASE d # c
  BY <1>3 DEF Moved, Balances
<1> QED BY <1>2, <1>3

(* The ranks, one by one.                                                  *)
LEMMA RankFacts ==
    /\ RankType = 0..5
    /\ RankE \in RankType /\ RankD \in RankType /\ RankC \in RankType
    /\ RankB \in RankType /\ RankA \in RankType /\ RankS \in RankType
BY DEF RankType, RankE, RankD, RankC, RankB, RankA, RankS

(* A total over the ranks of natural numbers is one.                       *)
LEMMA TotalType == ASSUME NEW f \in Amounts PROVE Total(f) \in Nat
<1>1. /\ f[RankE] \in Nat /\ f[RankD] \in Nat /\ f[RankC] \in Nat
      /\ f[RankB] \in Nat /\ f[RankA] \in Nat /\ f[RankS] \in Nat
  BY RankFacts DEF Amounts
<1> QED BY <1>1 DEF Total

(* A sale costs a natural number of a coin there is.                       *)
LEMMA CostType ==
    ASSUME ShopTypeOK, NEW amounts \in Amounts
    PROVE  KeysCost(amounts) \in Nat /\ PayCoin \in Coin
<1>1. \A r \in RankType : keyPrice[priceMode][r] * amounts[r] \in Nat
  BY DEF ShopTypeOK, Amounts
<1>2. [r \in RankType |-> keyPrice[priceMode][r] * amounts[r]] \in Amounts
  BY <1>1 DEF Amounts
<1>3. PayCoin \in Coin
  BY DEF ShopTypeOK, PayCoin, Coin
<1> QED BY <1>2, <1>3, TotalType DEF KeysCost

(* What payForKeys does to the balances it starts from: the buyer's go     *)
(* down, the shop's go up, and no other account's change.                  *)
LEMMA PayForKeysType ==
    ASSUME ShopTypeOK, NEW b \in Balances, NEW buyer \in Account, NEW value,
           NEW price \in Nat, payForKeys(b, buyer, value, price)
    PROVE  /\ coin' \in Balances /\ PayCoin \in Coin
           /\ coin' = Moved(b, PayCoin, buyer, ShopAccount, price)
           /\ CanPay(b, PayCoin, buyer, price)
<1>1. ShopAccount \in Account /\ PayCoin \in Coin
  BY DEF Account, ShopTypeOK, PayCoin, Coin
<1> QED BY <1>1, MovedType DEF payForKeys

(* Some keys of one rank cost the price of that rank each.                 *)
LEMMA CostOfRank ==
    ASSUME NEW p \in Amounts, NEW rank \in RankType, NEW amount \in Nat
    PROVE  Total([r \in RankType |-> p[r] * KeysOf(rank, amount)[r]]) = p[rank] * amount
<1>1. \A r \in RankType : /\ p[r] \in Nat
                          /\ p[r] * KeysOf(rank, amount)[r] =
                                 IF r = rank THEN p[rank] * amount ELSE 0
  BY DEF KeysOf, Amounts
<1>2. PICK f : f = [r \in RankType |-> p[r] * KeysOf(rank, amount)[r]]
  OBVIOUS
<1>3. PICK cost \in Nat : cost = p[rank] * amount
  BY DEF Amounts
<1>4. \A r \in RankType : f[r] = IF r = rank THEN cost ELSE 0
  BY <1>1, <1>2, <1>3
<1>5. Total(f) = cost
  <2>1. /\ f[0] = (IF 0 = rank THEN cost ELSE 0) /\ f[1] = (IF 1 = rank THEN cost ELSE 0)
        /\ f[2] = (IF 2 = rank THEN cost ELSE 0) /\ f[3] = (IF 3 = rank THEN cost ELSE 0)
        /\ f[4] = (IF 4 = rank THEN cost ELSE 0) /\ f[5] = (IF 5 = rank THEN cost ELSE 0)
    BY <1>4, RankFacts
  <2>2. rank \in 0..5
    BY RankFacts
  <2> QED BY <2>1, <2>2 DEF Total, RankE, RankD, RankC, RankB, RankA, RankS
<1> QED BY <1>2, <1>3, <1>5

(* The sums of the ranks, in total, are the sum of the totals.             *)
LEMMA TotalOfSums ==
    ASSUME NEW D, IsFiniteSet(D), NEW f, \A r \in RankType, i \in D : f[r][i] \in Nat,
           NEW A, \A r \in RankType : A[r] = SumFunctionOnSet(f[r], D),
           NEW t, \A i \in D : t[i] = f[RankE][i] + f[RankD][i] + f[RankC][i]
                                        + f[RankB][i] + f[RankA][i] + f[RankS][i]
    PROVE  Total(A) = SumFunctionOnSet(t, D)
<1> DEFINE g1 == [i \in D |-> f[0][i] + f[1][i]]
           g2 == [i \in D |-> g1[i] + f[2][i]]
           g3 == [i \in D |-> g2[i] + f[3][i]]
           g4 == [i \in D |-> g3[i] + f[4][i]]
           g5 == [i \in D |-> g4[i] + f[5][i]]
<1>1. \A i \in D : /\ f[0][i] \in Nat /\ f[1][i] \in Nat /\ f[2][i] \in Nat
                   /\ f[3][i] \in Nat /\ f[4][i] \in Nat /\ f[5][i] \in Nat
  BY RankFacts
<1>2. /\ \A i \in D : g1[i] \in Nat /\ g1[i] = f[0][i] + f[1][i]
      /\ \A i \in D : g2[i] \in Nat /\ g2[i] = g1[i] + f[2][i]
      /\ \A i \in D : g3[i] \in Nat /\ g3[i] = g2[i] + f[3][i]
      /\ \A i \in D : g4[i] \in Nat /\ g4[i] = g3[i] + f[4][i]
      /\ \A i \in D : g5[i] \in Nat /\ g5[i] = g4[i] + f[5][i]
  BY <1>1
<1>3. \A i \in D : t[i] = g5[i]
  <2>1. \A i \in D : t[i] = f[0][i] + f[1][i] + f[2][i] + f[3][i] + f[4][i] + f[5][i]
    BY RankFacts DEF RankE, RankD, RankC, RankB, RankA, RankS
  <2> QED BY <1>1, <2>1
<1> HIDE DEF g1, g2, g3, g4, g5
<1>4. SumFunctionOnSet(g1, D) = SumFunctionOnSet(f[0], D) + SumFunctionOnSet(f[1], D)
  BY <1>1, <1>2, SumPlus
<1>5. SumFunctionOnSet(g2, D) = SumFunctionOnSet(g1, D) + SumFunctionOnSet(f[2], D)
  BY <1>1, <1>2, SumPlus
<1>6. SumFunctionOnSet(g3, D) = SumFunctionOnSet(g2, D) + SumFunctionOnSet(f[3], D)
  BY <1>1, <1>2, SumPlus
<1>7. SumFunctionOnSet(g4, D) = SumFunctionOnSet(g3, D) + SumFunctionOnSet(f[4], D)
  BY <1>1, <1>2, SumPlus
<1>8. SumFunctionOnSet(g5, D) = SumFunctionOnSet(g4, D) + SumFunctionOnSet(f[5], D)
  BY <1>1, <1>2, SumPlus
<1>9. SumFunctionOnSet(t, D) = SumFunctionOnSet(g5, D)
  BY <1>3, SumCongruence
<1>10. Total(A) = SumFunctionOnSet(f[0], D) + SumFunctionOnSet(f[1], D)
                  + SumFunctionOnSet(f[2], D) + SumFunctionOnSet(f[3], D)
                  + SumFunctionOnSet(f[4], D) + SumFunctionOnSet(f[5], D)
  BY RankFacts DEF Total, RankE, RankD, RankC, RankB, RankA, RankS
<1> QED BY <1>4, <1>5, <1>6, <1>7, <1>8, <1>9, <1>10

(* A batch costs what its keys cost, rank by rank, although it may name a  *)
(* rank at several positions: buyKeyBatch adds the prices position by      *)
(* position.                                                               *)
LEMMA BatchOfAmounts ==
    ASSUME ShopTypeOK, NEW batch \in KeyBatches
    PROVE  /\ BatchAmounts(batch) \in Amounts
           /\ BatchPrice(batch) = KeysCost(BatchAmounts(batch))
<1>1. PICK n \in 0..MaxBatch : batch \in [1..n -> [rank : KeyRanks, amount : 0..MaxKeys]]
  BY DEF KeyBatches
<1>2. PICK D : D = DOMAIN batch
  OBVIOUS
<1>3. IsFiniteSet(D)
  BY <1>1, <1>2, MaxKeysAssumption, FS_Interval
<1>4. \A i \in D : batch[i].rank \in RankType /\ batch[i].amount \in Nat
  BY <1>1, <1>2, KeyRanksAssumption, MaxKeysAssumption
<1>5. PICK p \in Amounts : p = keyPrice[priceMode]
  BY DEF ShopTypeOK, Amounts
<1> DEFINE k == [r \in RankType |->
                    [i \in D |-> KeysOf(batch[i].rank, batch[i].amount)[r]]]
           w == [r \in RankType |->
                    [i \in D |-> p[r] * KeysOf(batch[i].rank, batch[i].amount)[r]]]
           A == [r \in RankType |-> p[r] * BatchAmounts(batch)[r]]
           t == [i \in D |-> ItemPrice(batch[i])]
<1>6. \A r \in RankType, i \in D :
         /\ k[r][i] \in Nat /\ p[r] \in Nat
         /\ w[r][i] = p[r] * k[r][i] /\ w[r][i] \in Nat
  BY <1>4 DEF Amounts, KeysOf
<1>7. \A r \in RankType : BatchAmounts(batch)[r] = SumFunctionOnSet(k[r], D)
  BY <1>2 DEF BatchAmounts, SumFunction
<1>8. \A i \in D : t[i] = w[RankE][i] + w[RankD][i] + w[RankC][i]
                           + w[RankB][i] + w[RankA][i] + w[RankS][i]
  <2> SUFFICES ASSUME NEW i \in D
               PROVE  t[i] = Total([r \in RankType |-> w[r][i]])
    BY RankFacts DEF Total
  <2>1. [r \in RankType |-> w[r][i]]
          = [r \in RankType |-> p[r] * KeysOf(batch[i].rank, batch[i].amount)[r]]
    OBVIOUS
  <2>2. t[i] = p[batch[i].rank] * batch[i].amount
    BY <1>5 DEF ItemPrice
  <2> QED BY <2>1, <2>2, <1>4, CostOfRank
<1>9. BatchPrice(batch) = SumFunctionOnSet(t, D)
  BY <1>2 DEF BatchPrice, SumFunction
<1>10. KeysCost(BatchAmounts(batch)) = Total(A)
  BY <1>5 DEF KeysCost
<1>11. A = [r \in RankType |-> p[r] * BatchAmounts(batch)[r]]
  OBVIOUS
<1>12. BatchAmounts(batch) = [r \in RankType |-> BatchAmounts(batch)[r]]
  BY DEF BatchAmounts
<1> HIDE DEF k, w, A, t
<1>13. \A r \in RankType : SumFunctionOnSet(k[r], D) \in Nat
  BY <1>3, <1>6, SumNat
<1>14. \A r \in RankType : SumFunctionOnSet(w[r], D) = p[r] * SumFunctionOnSet(k[r], D)
  <2> SUFFICES ASSUME NEW r \in RankType
               PROVE  SumFunctionOnSet(w[r], D) = p[r] * SumFunctionOnSet(k[r], D)
    OBVIOUS
  <2>1. p[r] \in Nat /\ \A i \in D : k[r][i] \in Nat /\ w[r][i] = p[r] * k[r][i]
    BY <1>6 DEF Amounts
  <2> QED BY <1>3, <2>1, SumTimes
<1>15. \A r \in RankType : A[r] = SumFunctionOnSet(w[r], D)
  BY <1>7, <1>11, <1>14
<1>16. \A r \in RankType, i \in D : w[r][i] \in Nat
  BY <1>6
<1>17. Total(A) = SumFunctionOnSet(t, D)
  BY <1>3, <1>8, <1>15, <1>16, TotalOfSums
<1>18. BatchAmounts(batch) \in Amounts
  BY <1>7, <1>12, <1>13 DEF Amounts
<1> QED BY <1>9, <1>10, <1>17, <1>18

(* The inductive invariant: the types, no money with the gate and, once    *)
(* there are stones, the token of the stones open.                         *)
StoneOpened == stoneMinted > 0 => stoneOpen
ShopInv == ShopTypeOK /\ StoneOpened /\ \A c \in Coin : coin[c][GateAccount] = 0

(* The shop, the gate and the treasury are three accounts, none a hunter.  *)
LEMMA AccountFacts ==
    /\ ShopAccount \in Account /\ GateAccount \in Account /\ Treasury \in Account
    /\ ShopAccount # GateAccount /\ Treasury # GateAccount
    /\ \A h \in Hunters : h \in Account /\ h # GateAccount /\ h # ShopAccount
BY AccountsAssumption DEF Account, ShopAccount, GateAccount, Treasury

(* At first the hunters own all the coins and nothing is sold.             *)
LEMMA ShopInitInv == ShopInit => ShopInv
<1> SUFFICES ASSUME ShopInit PROVE ShopInv
  OBVIOUS
<1>1. coin \in Balances
  BY FundsAssumption DEF ShopInit, Balances
<1>2. \A c \in Coin : coin[c][GateAccount] = 0
  BY AccountFacts DEF ShopInit
<1>3. priceMode \in {MATIC, USD} /\ stoneUsdPrice \in Nat
      /\ keyPrice \in [{MATIC, USD} -> [RankType -> Nat]]
  BY PriceModesAssumption, PricesAssumption DEF ShopInit
<1> QED
  BY <1>1, <1>2, <1>3 DEF ShopInit, ShopInv, ShopTypeOK, StoneOpened, Balances

(* Keys minted keep the types of the keys.                                 *)
LEMMA MintKeysType ==
    ASSUME ShopTypeOK, NEW to \in Hunters, NEW amounts \in Amounts, mintKeys(to, amounts)
    PROVE  key' \in [Hunters -> [RankType -> Nat]] /\ keyMinted' \in [RankType -> Nat]
<1>1. [r \in RankType |-> key[to][r] + amounts[r]] \in [RankType -> Nat]
  BY DEF ShopTypeOK, Amounts
<1>2. [r \in RankType |-> keyMinted[r] + amounts[r]] \in [RankType -> Nat]
  BY DEF ShopTypeOK, Amounts
<1> QED BY <1>1, <1>2 DEF mintKeys, ShopTypeOK

(* Keys of one rank are a number of keys of each.                          *)
LEMMA KeysOfType == ASSUME NEW r \in RankType, NEW n \in Nat PROVE KeysOf(r, n) \in Amounts
BY DEF KeysOf, Amounts

(* A sale: the keys it mints, for what they cost.                          *)
Sale(buyer, value, to, amounts) ==
    /\ payForKeys(coin, buyer, value, KeysCost(amounts))
    /\ mintKeys(to, amounts)
    /\ UNCHANGED <<configVars, stoneVars>>

(* buyKey and buyKeyBatch sell.                                            *)
LEMMA BuyingIsASale ==
    ASSUME ShopTypeOK, NEW buyer \in Hunters, BuyKey(buyer) \/ BuyKeyBatch(buyer)
    PROVE  \E to \in Hunters, value \in Value, amounts \in Amounts :
               Sale(buyer, value, to, amounts)
<1>1. CASE BuyKey(buyer)
  <2>1. PICK to \in Hunters, value \in Value, rank \in KeyRanks, amount \in 0..MaxKeys :
             buyKey(buyer, value, to, rank, amount)
    BY <1>1 DEF BuyKey
  <2>2. rank \in RankType /\ amount \in Nat
    BY KeyRanksAssumption, MaxKeysAssumption
  <2>3. KeysCost(KeysOf(rank, amount)) = keyPrice[priceMode][rank] * amount
    <3>1. PICK p \in Amounts : p = keyPrice[priceMode]
      BY DEF ShopTypeOK, Amounts
    <3> QED BY <2>2, <3>1, CostOfRank DEF KeysCost
  <2>4. KeysOf(rank, amount) \in Amounts
    BY <2>2, KeysOfType
  <2>5. Sale(buyer, value, to, KeysOf(rank, amount))
    BY <2>1, <2>3 DEF buyKey, Sale
  <2> QED BY <2>4, <2>5
<1>2. CASE BuyKeyBatch(buyer)
  <2>1. PICK to \in Hunters, value \in Value, batch \in KeyBatches :
             buyKeyBatch(buyer, value, to, batch)
    BY <1>2 DEF BuyKeyBatch
  <2>2. Sale(buyer, value, to, BatchAmounts(batch))
    BY <2>1, BatchOfAmounts DEF buyKeyBatch, Sale
  <2> QED BY <2>2, BatchOfAmounts
<1> QED BY <1>1, <1>2

(* A sale is paid by the buyer and mints to one hunter.                    *)
LEMMA SaleStep ==
    ASSUME ShopTypeOK, NEW buyer \in Hunters, NEW to \in Hunters, NEW value,
           NEW amounts \in Amounts, Sale(buyer, value, to, amounts)
    PROVE  /\ coin' \in Balances
           /\ coin' = Moved(coin, PayCoin, buyer, ShopAccount, KeysCost(amounts))
           /\ KeysCost(amounts) \in Nat /\ PayCoin \in Coin
           /\ keyMinted' = [r \in RankType |-> keyMinted[r] + amounts[r]]
           /\ UNCHANGED configVars
<1>1. coin \in Balances /\ KeysCost(amounts) \in Nat
  BY CostType DEF ShopTypeOK, Balances
<1> QED BY <1>1, PayForKeysType, AccountFacts DEF Sale, mintKeys

(* A sale keeps the invariant, for any buyer who is a hunter.              *)
LEMMA SaleInv ==
    ASSUME ShopInv, NEW buyer \in Hunters, NEW to \in Hunters, NEW value,
           NEW amounts \in Amounts, Sale(buyer, value, to, amounts)
    PROVE  ShopInv'
<1>1. /\ coin' \in Balances
      /\ coin' = Moved(coin, PayCoin, buyer, ShopAccount, KeysCost(amounts))
      /\ KeysCost(amounts) \in Nat /\ PayCoin \in Coin
  BY SaleStep DEF ShopInv
<1>2. \A c \in Coin : coin'[c][GateAccount] = coin[c][GateAccount]
  <2>1. coin \in Balances /\ buyer \in Account /\ buyer # GateAccount
    BY AccountFacts DEF ShopInv, ShopTypeOK, Balances
  <2> QED BY <1>1, <2>1, MovedOther, AccountFacts
<1>3. key' \in [Hunters -> [RankType -> Nat]] /\ keyMinted' \in [RankType -> Nat]
  BY MintKeysType DEF Sale, ShopInv
<1> QED
  BY <1>1, <1>2, <1>3
     DEF Sale, ShopInv, ShopTypeOK, StoneOpened, Balances, configVars, stoneVars

(* buyStone keeps the invariant.                                           *)
LEMMA BuyStoneInv ==
    ASSUME ShopInv, NEW buyer \in Hunters, NEW to \in Hunters, NEW amount \in Nat,
           buyStone(buyer, to, amount)
    PROVE  ShopInv'
<1>1. PICK price : price = stoneUsdPrice * amount
  OBVIOUS
<1>2. /\ price \in Nat /\ usdTokenContract \in Coin /\ coin \in Balances
      /\ CanPay(coin, usdTokenContract, buyer, price)
      /\ coin' = Moved(coin, usdTokenContract, buyer, ShopAccount, price)
  BY <1>1 DEF buyStone, ShopInv, ShopTypeOK, Coin, Balances
<1>3. coin' \in Balances /\ \A c \in Coin : coin'[c][GateAccount] = coin[c][GateAccount]
  BY <1>2, MovedType, MovedOther, AccountFacts
<1>4. stone' \in [Hunters -> Nat] /\ stoneMinted' \in Nat /\ StoneOpened'
  BY DEF buyStone, ShopInv, ShopTypeOK, StoneOpened
<1> QED
  BY <1>3, <1>4 DEF buyStone, ShopInv, ShopTypeOK, Balances, configVars

(* withdraw takes what the shop has at most.                               *)
LEMMA WithdrawInv ==
    ASSUME ShopInv, NEW mode \in {MATIC, USD}, NEW amount \in Nat, withdraw(mode, amount)
    PROVE  ShopInv'
<1>1. PICK c : c = IF mode = MATIC THEN MATIC ELSE usdTokenContract
  OBVIOUS
<1>2. /\ c \in Coin /\ coin \in Balances
      /\ CanPay(coin, c, ShopAccount, amount)
      /\ coin' = Moved(coin, c, ShopAccount, Treasury, amount)
  BY <1>1 DEF withdraw, ShopInv, ShopTypeOK, Coin, Balances
<1>3. coin' \in Balances /\ \A d \in Coin : coin'[d][GateAccount] = coin[d][GateAccount]
  BY <1>2, MovedType, MovedOther, AccountFacts
<1> QED
  BY <1>3 DEF withdraw, ShopInv, ShopTypeOK, StoneOpened, Balances, configVars, tokenVars,
              stoneVars

(* The setters of the shop move neither money nor tokens.                  *)
LEMMA ConfigureShopInv == ShopInv /\ ConfigureShop => ShopInv'
<1> SUFFICES ASSUME ShopInv, ConfigureShop PROVE ShopInv'
  OBVIOUS
<1>1. CASE openStone \/ closeStone
  <2>1. UNCHANGED <<configVars, coin, key, keyMinted, stone, stoneMinted>>
    BY <1>1 DEF openStone, closeStone
  <2>2. stoneOpen' \in BOOLEAN
    BY <1>1, Zenon DEF openStone, closeStone
  <2>3. StoneOpened'
    <3>1. CASE openStone
      BY <3>1, Zenon DEF openStone, StoneOpened
    <3>2. CASE closeStone
      BY <3>2 DEF closeStone, StoneOpened
    <3> QED BY <1>1, <3>1, <3>2
  <2> QED BY <2>1, <2>2, <2>3 DEF ShopInv, ShopTypeOK, configVars
<1>2. CASE ~ (openStone \/ closeStone)
  <2>1. /\ UNCHANGED <<coin, key, keyMinted, stone, stoneMinted, stoneOpen>>
        /\ priceMode' \in {MATIC, USD} /\ stoneUsdPrice' \in Nat
        /\ keyPrice' \in [{MATIC, USD} -> [RankType -> Nat]]
        /\ sellPaused' \in BOOLEAN /\ usdTokenContract' \in UsdTokens
    BY <1>2, PriceModesAssumption, PricesAssumption, PauseStatesAssumption
       DEF ConfigureShop, setUSDTokenContract, setPriceMode, setKeyPricePerRank,
           setStoneUsdPrice, setSellPaused, ShopInv, ShopTypeOK, tokenVars, stoneVars
  <2> QED BY <2>1 DEF ShopInv, ShopTypeOK, StoneOpened
<1> QED BY <1>1, <1>2

(* Transfers and burns by the holders keep the invariant.                  *)
LEMMA HolderMovesInv ==
    ASSUME ShopInv, NEW h \in Hunters, HolderMoves(h)
    PROVE  ShopInv'
<1>1. ASSUME NEW from \in Hunters, NEW to \in Hunters, NEW rank \in RankType,
             transferKey(from, to, rank)
      PROVE  ShopInv'
  <2>1. /\ from # to /\ key[from][rank] > 0 /\ key \in [Hunters -> [RankType -> Nat]]
        /\ key' = [key EXCEPT ![from][rank] = key[from][rank] - 1,
                              ![to][rank] = key[to][rank] + 1]
    BY <1>1 DEF transferKey, ShopInv, ShopTypeOK
  <2>2. /\ [key[from] EXCEPT ![rank] = key[from][rank] - 1] \in [RankType -> Nat]
        /\ [key[to] EXCEPT ![rank] = key[to][rank] + 1] \in [RankType -> Nat]
    BY <2>1
  <2>3. key' \in [Hunters -> [RankType -> Nat]]
    BY <2>1, <2>2, Zenon
  <2> QED
    BY <1>1, <2>3 DEF transferKey, ShopInv, ShopTypeOK, StoneOpened, configVars, stoneVars
<1>2. ASSUME NEW from \in Hunters, NEW rank \in RankType, burnKey(from, rank)
      PROVE  ShopInv'
  BY <1>2 DEF burnKey, ShopInv, ShopTypeOK, StoneOpened, configVars, stoneVars
<1>3. ASSUME NEW from \in Hunters, NEW to \in Hunters, transferStone(from, to)
      PROVE  ShopInv'
  BY <1>3 DEF transferStone, ShopInv, ShopTypeOK, StoneOpened, configVars
<1>4. ASSUME NEW from \in Hunters, burnStone(from)
      PROVE  ShopInv'
  BY <1>4 DEF burnStone, ShopInv, ShopTypeOK, StoneOpened, configVars
<1> QED BY <1>1, <1>2, <1>3, <1>4 DEF HolderMoves

(* What a hunter buys and passes on keeps the invariant.                   *)
LEMMA HunterDealsInv ==
    ASSUME ShopInv, NEW h \in Hunters, HunterDeals(h)
    PROVE  ShopInv'
<1>1. CASE BuyKey(h) \/ BuyKeyBatch(h)
  BY <1>1, BuyingIsASale, SaleInv DEF ShopInv
<1>2. CASE BuyStone(h)
  BY <1>2, BuyStoneInv, MaxKeysAssumption DEF BuyStone
<1>3. CASE HolderMoves(h)
  BY <1>3, HolderMovesInv
<1> QED BY <1>1, <1>2, <1>3 DEF HunterDeals

(* What the operators do keeps the invariant.                              *)
LEMMA OperatorDealsInv ==
    ASSUME ShopInv, OperatorDeals
    PROVE  ShopInv'
<1>1. CASE Withdraw
  BY <1>1, WithdrawInv, FundsAssumption DEF Withdraw, Value
<1>2. CASE ConfigureShop
  BY <1>2, ConfigureShopInv
<1>3. CASE MintKey
  <2>1. PICK to \in Hunters, rank \in KeyRanks : mintKey(to, rank)
    BY <1>3 DEF MintKey
  <2>2. KeysOf(rank, 1) \in Amounts
    BY KeyRanksAssumption, KeysOfType
  <2>3. key' \in [Hunters -> [RankType -> Nat]] /\ keyMinted' \in [RankType -> Nat]
    BY <2>1, <2>2, MintKeysType DEF mintKey, ShopInv
  <2> QED
    BY <2>1, <2>3 DEF mintKey, ShopInv, ShopTypeOK, StoneOpened, configVars, stoneVars
<1> QED BY <1>1, <1>2, <1>3 DEF OperatorDeals

(* Every step of the shop and of its tokens keeps the invariant.           *)
LEMMA ShopNextInv == ShopInv /\ [ShopNext]_shopVars => ShopInv'
<1> SUFFICES ASSUME ShopInv, [ShopNext]_shopVars PROVE ShopInv'
  OBVIOUS
<1>1. CASE OperatorDeals
  BY <1>1, OperatorDealsInv
<1>2. CASE \E h \in Hunters : HunterDeals(h)
  BY <1>2, HunterDealsInv
<1>3. CASE UNCHANGED shopVars
  BY <1>3 DEF shopVars, configVars, tokenVars, stoneVars, ShopInv, ShopTypeOK, StoneOpened
<1> QED
  BY <1>1, <1>2, <1>3 DEF ShopNext

(* The variables keep their types; in particular no transaction of SLShop  *)
(* or of the tokens takes more than its payer owns.                        *)
THEOREM ShopTypeCorrect == ShopSpec => []ShopTypeOK
<1>1. ShopInv => ShopTypeOK
  BY DEF ShopInv
<1> QED BY <1>1, ShopInitInv, ShopNextInv, PTL DEF ShopSpec

----------------------------------------------------------------------------
(* Prices                                                                  *)

(* What a sale at the listed price does to the hunters and the shop.       *)
LEMMA SaleAtListPrice ==
    ASSUME ShopTypeOK, NEW buyer \in Hunters, NEW price \in Nat, PayCoin \in Coin,
           coin' = Moved(coin, PayCoin, buyer, ShopAccount, price), UNCHANGED configVars
    PROVE  /\ HuntersOwn(PayCoin) - (HuntersOwn(PayCoin))' = price
           /\ coin'[PayCoin][ShopAccount] - coin[PayCoin][ShopAccount] = price
<1>1. PICK f : f = coin[PayCoin]
  OBVIOUS
<1>2. PICK g : g = coin'[PayCoin]
  OBVIOUS
<1>3. \A a \in Account : f[a] \in Nat
  BY <1>1 DEF ShopTypeOK
<1>4. \A a \in Account :
         g[a] = f[a] + (IF a = ShopAccount THEN price ELSE 0)
                     - (IF a = buyer THEN price ELSE 0)
  BY <1>1, <1>2 DEF Moved, ShopTypeOK
<1>5. /\ g[buyer] = f[buyer] - price /\ g[ShopAccount] = f[ShopAccount] + price
      /\ \A h \in Hunters \ {buyer} : g[h] = f[h]
      /\ \A h \in Hunters : f[h] \in Int /\ g[h] \in Int
      /\ f[ShopAccount] \in Int /\ f[buyer] \in Int
  BY <1>3, <1>4, AccountFacts
<1>6. /\ SumFunctionOnSet(g, Hunters) = SumFunctionOnSet(f, Hunters) - f[buyer] + g[buyer]
      /\ SumFunctionOnSet(f, Hunters) \in Int
  BY <1>5, HuntersAssumption, SumUpdate
<1>7. SumFunctionOnSet(f, Hunters) - SumFunctionOnSet(g, Hunters) = price
  BY <1>5, <1>6
<1>8. PayCoin' = PayCoin
  BY DEF PayCoin, configVars
<1> QED BY <1>1, <1>2, <1>5, <1>7, <1>8 DEF HuntersOwn

(* What a hunter's step mints is sold.                                     *)
LEMMA SoldAtListPrice ==
    ASSUME ShopTypeOK, NEW h \in Hunters, HunterDeals(h), keyMinted' # keyMinted,
           NEW price, price = KeysCost([r \in RankType |-> keyMinted'[r] - keyMinted[r]])
    PROVE  /\ HuntersOwn(PayCoin) - (HuntersOwn(PayCoin))' = price
           /\ coin'[PayCoin][ShopAccount] - coin[PayCoin][ShopAccount] = price
<1>1. BuyKey(h) \/ BuyKeyBatch(h)
  BY DEF HunterDeals, BuyStone, buyStone, HolderMoves, transferKey, burnKey, transferStone,
         burnStone
<1>2. PICK to \in Hunters, value \in Value, amounts \in Amounts :
           Sale(h, value, to, amounts)
  BY <1>1, BuyingIsASale
<1>3. /\ coin' = Moved(coin, PayCoin, h, ShopAccount, KeysCost(amounts))
      /\ KeysCost(amounts) \in Nat /\ PayCoin \in Coin
      /\ keyMinted' = [r \in RankType |-> keyMinted[r] + amounts[r]]
      /\ UNCHANGED configVars
  BY <1>2, SaleStep
<1>4. [r \in RankType |-> keyMinted'[r] - keyMinted[r]] = amounts
  <2>1. \A r \in RankType : keyMinted[r] \in Nat /\ amounts[r] \in Nat
    BY DEF ShopTypeOK, Amounts
  <2>2. \A r \in RankType : keyMinted'[r] - keyMinted[r] = amounts[r]
    BY <1>3, <2>1
  <2> QED BY <2>2 DEF Amounts
<1>5. price = KeysCost(amounts)
  BY <1>4
<1> QED BY <1>3, <1>5, SaleAtListPrice

(* The operators mint keys with mintKey only.                              *)
LEMMA OperatorsMintNoOther ==
    ASSUME OperatorDeals, ~ MintKey
    PROVE  UNCHANGED <<key, keyMinted>>
BY DEF OperatorDeals, Withdraw, withdraw, ConfigureShop, setUSDTokenContract, setPriceMode,
       setKeyPricePerRank, setStoneUsdPrice, setSellPaused, openStone, closeStone, tokenVars

(* The keys of buyKey and buyKeyBatch are paid for, at the list price in   *)
(* force, in the coin in force, to the shop.                               *)
THEOREM KeysSoldAtListPriceHolds == ShopSpec => KeysSoldAtListPrice
<1>1. ShopTypeOK /\ [ShopNext]_shopVars =>
          [keyMinted' # keyMinted /\ ~ MintKey =>
              LET price == KeysCost([r \in RankType |-> keyMinted'[r] - keyMinted[r]])
              IN  /\ HuntersOwn(PayCoin) - (HuntersOwn(PayCoin))' = price
                  /\ coin'[PayCoin][ShopAccount] - coin[PayCoin][ShopAccount] = price]_shopVars
  BY SoldAtListPrice, OperatorsMintNoOther DEF ShopNext
<1> QED BY <1>1, ShopTypeCorrect, PTL DEF ShopSpec, KeysSoldAtListPrice

----------------------------------------------------------------------------
(* Keys and stones                                                         *)

KeysHeld(r) == SumFunction([h \in Hunters |-> key[h][r]])
KeyTypeOK == key \in [Hunters -> [RankType -> Nat]]

(* The keys held are a natural number; where one hunter's number changes,  *)
(* they change by as much.                                                 *)
LEMMA KeysHeldNat == ASSUME KeyTypeOK, NEW r \in RankType PROVE KeysHeld(r) \in Nat
<1> DEFINE f == [h \in Hunters |-> key[h][r]]
<1>1. \A h \in Hunters : f[h] \in Nat
  BY DEF KeyTypeOK
<1>2. SumFunctionOnSet(f, Hunters) \in Nat
  BY <1>1, HuntersAssumption, SumNat
<1> QED BY <1>2 DEF KeysHeld, SumFunction

(* The keys held of a rank change by what one hunter's do.                 *)
LEMMA KeysHeldUpdate ==
    ASSUME KeyTypeOK, KeyTypeOK', NEW r \in RankType, NEW h \in Hunters,
           \A k \in Hunters \ {h} : key'[k][r] = key[k][r]
    PROVE  KeysHeld(r)' = KeysHeld(r) - key[h][r] + key'[h][r]
<1> DEFINE f == [k \in Hunters |-> key[k][r]]
           g == [k \in Hunters |-> key'[k][r]]
<1>1. \A k \in Hunters : f[k] \in Int /\ g[k] \in Int
  BY DEF KeyTypeOK
<1>2. \A k \in Hunters \ {h} : g[k] = f[k]
  OBVIOUS
<1>3. f[h] = key[h][r] /\ g[h] = key'[h][r]
  OBVIOUS
<1>4. KeysHeld(r) = SumFunctionOnSet(f, Hunters)
  BY DEF KeysHeld, SumFunction
<1>5. KeysHeld(r)' = SumFunctionOnSet(g, Hunters)
  BY DEF KeysHeld, SumFunction
<1> HIDE DEF f, g
<1>6. SumFunctionOnSet(g, Hunters) = SumFunctionOnSet(f, Hunters) - f[h] + g[h]
  BY <1>1, <1>2, HuntersAssumption, SumUpdate
<1> QED BY <1>3, <1>4, <1>5, <1>6

(* A key that passes from one hunter to another leaves as many held.       *)
LEMMA KeysHeldMove ==
    ASSUME KeyTypeOK, NEW r \in RankType, NEW rank \in RankType,
           NEW from \in Hunters, NEW to \in Hunters, transferKey(from, to, rank)
    PROVE  KeysHeld(r)' = KeysHeld(r)
<1> DEFINE f == [k \in Hunters |-> key[k][r]]
           g == [k \in Hunters |-> key'[k][r]]
<1>1. KeysHeld(r) = SumFunctionOnSet(f, Hunters)
  BY DEF KeysHeld, SumFunction
<1>2. KeysHeld(r)' = SumFunctionOnSet(g, Hunters)
  BY DEF KeysHeld, SumFunction
<1>3. \A k \in Hunters : f[k] = key[k][r] /\ g[k] = key'[k][r] /\ f[k] \in Int
  BY DEF KeyTypeOK
<1> HIDE DEF f, g
<1>4. /\ from # to /\ key \in [Hunters -> [RankType -> Nat]]
      /\ key' = [key EXCEPT ![from][rank] = key[from][rank] - 1,
                            ![to][rank] = key[to][rank] + 1]
  BY DEF transferKey, KeyTypeOK
<1>5. CASE r = rank
  <2>1. /\ g[from] = f[from] - 1 /\ g[to] = f[to] + 1
        /\ \A k \in Hunters \ {from, to} : g[k] = f[k]
    BY <1>3, <1>4, <1>5
  <2>2. SumFunctionOnSet(g, Hunters) = SumFunctionOnSet(f, Hunters)
    BY <1>3, <1>4, <2>1, HuntersAssumption, SumMove
  <2> QED BY <1>1, <1>2, <2>2
<1>6. CASE r # rank
  <2>1. \A k \in Hunters : g[k] = f[k]
    BY <1>3, <1>4, <1>6
  <2> QED BY <1>1, <1>2, <2>1, HuntersAssumption, SumCongruence
<1> QED BY <1>5, <1>6

(* Minted together with the supply, the keys held rise as the supply does. *)
LEMMA KeysHeldMint ==
    ASSUME ShopTypeOK, NEW to \in Hunters, NEW amounts \in Amounts, mintKeys(to, amounts),
           NEW r \in RankType
    PROVE  KeysHeld(r)' - KeysHeld(r) = keyMinted'[r] - keyMinted[r]
<1>1. KeyTypeOK /\ KeyTypeOK' /\ keyMinted \in [RankType -> Nat] /\ amounts[r] \in Nat
  BY MintKeysType DEF ShopTypeOK, KeyTypeOK, Amounts
<1>2. /\ key'[to][r] = key[to][r] + amounts[r]
      /\ \A k \in Hunters \ {to} : key'[k][r] = key[k][r]
      /\ keyMinted'[r] = keyMinted[r] + amounts[r]
  BY <1>1 DEF mintKeys, KeyTypeOK
<1>3. KeysHeld(r)' = KeysHeld(r) - key[to][r] + key'[to][r]
  BY <1>1, <1>2, KeysHeldUpdate
<1>4. KeysHeld(r) \in Nat /\ key[to][r] \in Nat /\ keyMinted[r] \in Nat
  BY <1>1, KeysHeldNat DEF KeyTypeOK
<1> QED BY <1>1, <1>2, <1>3, <1>4

(* A step of the shop or of the holders brings no more keys into their     *)
(* hands than it mints.                                                    *)
LEMMA ShopKeepsKeys ==
    ASSUME ShopInv, ShopNext, NEW r \in RankType
    PROVE  KeysHeld(r)' - KeysHeld(r) <= keyMinted'[r] - keyMinted[r]
<1>1. /\ ShopTypeOK /\ KeyTypeOK /\ KeyTypeOK' /\ KeysHeld(r) \in Nat
      /\ keyMinted \in [RankType -> Nat]
  BY ShopNextInv, KeysHeldNat DEF ShopInv, ShopTypeOK, KeyTypeOK
<1>2. ASSUME NEW h \in Hunters, BuyKey(h) \/ BuyKeyBatch(h)
      PROVE  KeysHeld(r)' - KeysHeld(r) <= keyMinted'[r] - keyMinted[r]
  <2>1. PICK to \in Hunters, amounts \in Amounts : mintKeys(to, amounts)
    BY <1>1, <1>2, BuyingIsASale DEF Sale
  <2>2. KeysHeld(r)' - KeysHeld(r) = keyMinted'[r] - keyMinted[r]
    BY <1>1, <2>1, KeysHeldMint
  <2>3. keyMinted'[r] \in Nat
    BY <1>1, <2>1, MintKeysType
  <2> QED BY <1>1, <2>2, <2>3
<1>3. CASE MintKey
  <2>1. PICK to \in Hunters, rank \in KeyRanks : mintKeys(to, KeysOf(rank, 1))
    BY <1>3 DEF MintKey, mintKey
  <2>2. KeysOf(rank, 1) \in Amounts
    BY KeyRanksAssumption, KeysOfType
  <2>3. KeysHeld(r)' - KeysHeld(r) = keyMinted'[r] - keyMinted[r]
    BY <1>1, <2>1, <2>2, KeysHeldMint
  <2>4. keyMinted'[r] \in Nat
    BY <1>1, <2>1, <2>2, MintKeysType
  <2> QED BY <1>1, <2>3, <2>4
<1>4. ASSUME NEW from \in Hunters, NEW to \in Hunters, NEW rank \in RankType,
             transferKey(from, to, rank)
      PROVE  KeysHeld(r)' - KeysHeld(r) <= keyMinted'[r] - keyMinted[r]
  <2>1. keyMinted' = keyMinted /\ keyMinted[r] \in Nat
    BY <1>1, <1>4 DEF transferKey
  <2>2. KeysHeld(r)' = KeysHeld(r)
    BY <1>1, <1>4, KeysHeldMove
  <2> QED BY <1>1, <2>1, <2>2
<1>5. ASSUME NEW from \in Hunters, NEW rank \in RankType, burnKey(from, rank)
      PROVE  KeysHeld(r)' - KeysHeld(r) <= keyMinted'[r] - keyMinted[r]
  <2>1. keyMinted' = keyMinted /\ keyMinted[r] \in Nat
    BY <1>1, <1>5 DEF burnKey
  <2>2. /\ key'[from][r] = key[from][r] \/ key'[from][r] = key[from][r] - 1
        /\ \A k \in Hunters \ {from} : key'[k][r] = key[k][r]
        /\ key[from][r] \in Nat
    BY <1>1, <1>5 DEF burnKey, KeyTypeOK
  <2>3. KeysHeld(r)' = KeysHeld(r) - key[from][r] + key'[from][r]
    BY <1>1, <2>2, KeysHeldUpdate
  <2> QED BY <1>1, <2>1, <2>2, <2>3
<1>6. CASE UNCHANGED <<key, keyMinted>>
  <2>1. KeysHeld(r)' = KeysHeld(r)
    BY <1>6 DEF KeysHeld
  <2> QED BY <1>1, <1>6, <2>1
<1>7. ASSUME NEW h \in Hunters, BuyStone(h)
      PROVE  KeysHeld(r)' - KeysHeld(r) <= keyMinted'[r] - keyMinted[r]
  BY <1>6, <1>7 DEF BuyStone, buyStone
<1>8. ASSUME NEW h \in Hunters, HolderMoves(h)
      PROVE  KeysHeld(r)' - KeysHeld(r) <= keyMinted'[r] - keyMinted[r]
  BY <1>4, <1>5, <1>6, <1>8 DEF HolderMoves, transferStone, burnStone
<1>9. CASE OperatorDeals
  BY <1>3, <1>6, <1>9, OperatorsMintNoOther
<1> QED BY <1>2, <1>7, <1>8, <1>9 DEF ShopNext, HunterDeals

(* The same of the stones.                                                 *)
StonesHeld == SumFunction(stone)
StoneTypeOK == stone \in [Hunters -> Nat]

(* The stones held are a natural number; where one hunter's number         *)
(* changes, they change by as much.                                        *)
LEMMA StonesHeldNat == ASSUME StoneTypeOK PROVE StonesHeld \in Nat
<1>1. DOMAIN stone = Hunters /\ \A h \in Hunters : stone[h] \in Nat
  BY DEF StoneTypeOK
<1>2. SumFunctionOnSet(stone, Hunters) \in Nat
  BY <1>1, HuntersAssumption, SumNat
<1> QED BY <1>1, <1>2 DEF StonesHeld, SumFunction

(* The stones held change by what one hunter's do.                         *)
LEMMA StonesHeldUpdate ==
    ASSUME StoneTypeOK, StoneTypeOK', NEW h \in Hunters,
           \A k \in Hunters \ {h} : stone'[k] = stone[k]
    PROVE  StonesHeld' = StonesHeld - stone[h] + stone'[h]
<1>1. \A k \in Hunters : stone[k] \in Int /\ stone'[k] \in Int
  BY DEF StoneTypeOK
<1>2. SumFunctionOnSet(stone', Hunters)
          = SumFunctionOnSet(stone, Hunters) - stone[h] + stone'[h]
  BY <1>1, HuntersAssumption, SumUpdate
<1>3. DOMAIN stone = Hunters /\ DOMAIN stone' = Hunters
  BY DEF StoneTypeOK
<1> QED BY <1>2, <1>3 DEF StonesHeld, SumFunction

(* A stone that changes hands leaves the stones held as many.              *)
LEMMA StonesHeldMove ==
    ASSUME StoneTypeOK, NEW from \in Hunters, NEW to \in Hunters, transferStone(from, to)
    PROVE  StonesHeld' = StonesHeld
<1>1. /\ from # to /\ \A k \in Hunters : stone[k] \in Int
      /\ stone'[from] = stone[from] - 1 /\ stone'[to] = stone[to] + 1
      /\ \A k \in Hunters \ {from, to} : stone'[k] = stone[k]
      /\ DOMAIN stone = Hunters /\ DOMAIN stone' = Hunters
  BY DEF transferStone, StoneTypeOK
<1>2. SumFunctionOnSet(stone', Hunters) = SumFunctionOnSet(stone, Hunters)
  BY <1>1, HuntersAssumption, SumMove
<1> QED BY <1>1, <1>2 DEF StonesHeld, SumFunction

(* A step of the shop or of the holders brings no more stones into their   *)
(* hands than it mints.                                                    *)
LEMMA ShopKeepsStones ==
    ASSUME ShopInv, ShopNext
    PROVE  StonesHeld' - StonesHeld <= stoneMinted' - stoneMinted
<1>1. /\ ShopTypeOK /\ StoneTypeOK /\ StoneTypeOK' /\ StonesHeld \in Nat
      /\ stoneMinted \in Nat
  BY ShopNextInv, StonesHeldNat DEF ShopInv, ShopTypeOK, StoneTypeOK
<1>2. ASSUME NEW h \in Hunters, BuyStone(h)
      PROVE  StonesHeld' - StonesHeld <= stoneMinted' - stoneMinted
  <2>1. PICK to \in Hunters, amount \in 0..MaxStones : buyStone(h, to, amount)
    BY <1>2 DEF BuyStone
  <2>2. /\ stone'[to] = stone[to] + amount /\ stoneMinted' = stoneMinted + amount
        /\ \A k \in Hunters \ {to} : stone'[k] = stone[k]
        /\ stone[to] \in Nat /\ amount \in Nat
    BY <1>1, <2>1, MaxKeysAssumption DEF buyStone, StoneTypeOK
  <2>3. StonesHeld' = StonesHeld - stone[to] + stone'[to]
    BY <1>1, <2>2, StonesHeldUpdate
  <2> QED BY <1>1, <2>2, <2>3
<1>3. ASSUME NEW from \in Hunters, NEW to \in Hunters, transferStone(from, to)
      PROVE  StonesHeld' - StonesHeld <= stoneMinted' - stoneMinted
  <2>1. stoneMinted' = stoneMinted /\ StonesHeld' = StonesHeld
    BY <1>1, <1>3, StonesHeldMove DEF transferStone
  <2> QED BY <1>1, <2>1
<1>4. ASSUME NEW from \in Hunters, burnStone(from)
      PROVE  StonesHeld' - StonesHeld <= stoneMinted' - stoneMinted
  <2>1. /\ stoneMinted' = stoneMinted /\ stone'[from] = stone[from] - 1
        /\ \A k \in Hunters \ {from} : stone'[k] = stone[k]
        /\ stone[from] \in Nat
    BY <1>1, <1>4 DEF burnStone, StoneTypeOK
  <2>2. StonesHeld' = StonesHeld - stone[from] + stone'[from]
    BY <1>1, <2>1, StonesHeldUpdate
  <2> QED BY <1>1, <2>1, <2>2
<1>5. CASE UNCHANGED <<stone, stoneMinted>>
  <2>1. stoneMinted' = stoneMinted /\ StonesHeld' = StonesHeld
    BY <1>5 DEF StonesHeld
  <2> QED BY <1>1, <2>1
<1>6. ASSUME NEW h \in Hunters, BuyKey(h) \/ BuyKeyBatch(h)
      PROVE  StonesHeld' - StonesHeld <= stoneMinted' - stoneMinted
  BY <1>5, <1>6 DEF BuyKey, buyKey, BuyKeyBatch, buyKeyBatch, stoneVars
<1>7. CASE OperatorDeals
  BY <1>5, <1>7 DEF OperatorDeals, MintKey, mintKey, Withdraw, withdraw, ConfigureShop,
         setUSDTokenContract, setPriceMode, setKeyPricePerRank, setStoneUsdPrice,
         setSellPaused, openStone, closeStone, tokenVars, stoneVars
<1>8. ASSUME NEW h \in Hunters, HolderMoves(h)
      PROVE  StonesHeld' - StonesHeld <= stoneMinted' - stoneMinted
  BY <1>3, <1>4, <1>5, <1>8 DEF HolderMoves, transferKey, burnKey, stoneVars
<1> QED BY <1>2, <1>6, <1>7, <1>8 DEF ShopNext, HunterDeals
=============================================================================
