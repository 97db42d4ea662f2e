------------------------- MODULE DungeonGate_proof -------------------------
(***************************************************************************)
(* The safety of DungeonGate for any hunters, gates, seasons and tables.   *)
(* A step of the composition is one of a component, whose invariant the    *)
(* component's own proof keeps, or one of the gate, which reads the other  *)
(* components and moves keys, stones and money.                            *)
(***************************************************************************)
EXTENDS DungeonGate, SeasonShop_proof, FiniteSetTheorems

(* What is inductive of the gate itself, and of the whole.                 *)
(* GatesOfSeasons: a clear looks up the season its gate was entered in.    *)
GatesOfSeasons == \A g \in DOMAIN gates : gates[g].seasonId \in 0..(seasonIds - 1)

(* The signatures drawn from are of nonces used before.                    *)
SignaturesUsed == \A h \in Hunters : drawnFrom[h] \subseteq 0..(nonces[h] - 1)

PacksOpen == mintedPacks \subseteq openPacks

(* An entry under way is one into a season that is still current.  That of *)
(* a plain account is alone, and the rank it read is still the highest one *)
(* the account holds; that of a contract may be of a rank long exceeded.   *)
NoHigherRank(season, h, rank) ==
    \A q \in RankType : q > rank => rankToken[seasons[season].uses.hunterRank][h][q] = 0
EntryFits(e) ==
    /\ e.seasonId \in 0..(seasonIds - 1)
    /\ isCurrentSeasonById(e.seasonId)
    /\ e.hunter \notin Callers =>
           Len(waiting) = 1 /\ NoHigherRank(e.seasonId, e.hunter, e.hunterRank)
WaitingInv == \A i \in DOMAIN waiting : EntryFits(waiting[i])

BookInv ==
    GateTypeOK /\ SlotsExact /\ RankTokenUnique /\ SignaturesUsed /\ OneRewardPerSignature
        /\ PacksOpen
Inv == SeasonInv /\ ShopInv /\ BookInv /\ GatesOfSeasons /\ WaitingInv

(* The invariant contains the types of all the variables.                  *)
LEMMA TypesOfInv == Inv => TypeOK
BY DEF Inv, SeasonInv, ShopInv, BookInv, TypeOK

(* getHunterRank finds the highest token, and no rank above it is held.    *)
LEMMA HunterRankIsHighest ==
    ASSUME NEW tokens \in [RankType -> Nat]
    PROVE  /\ HunterRank(tokens) \in RankType
           /\ HunterRank(tokens) = RankE \/ tokens[HunterRank(tokens)] > 0
           /\ \A q \in RankType : q > HunterRank(tokens) => tokens[q] = 0
<1> DEFINE P(r) == /\ r = RankE \/ tokens[r] > 0
                   /\ \A q \in RankType : q > r => tokens[q] = 0
<1>1. /\ tokens[0] \in Nat /\ tokens[1] \in Nat /\ tokens[2] \in Nat
      /\ tokens[3] \in Nat /\ tokens[4] \in Nat /\ tokens[5] \in Nat
  BY RankFacts
<1>2. \E r \in RankType : P(r)
  <2>1. CASE tokens[5] > 0
    BY <2>1, RankFacts
  <2>2. CASE tokens[5] = 0 /\ tokens[4] > 0
    BY <2>2, RankFacts
  <2>3. CASE tokens[5] = 0 /\ tokens[4] = 0 /\ tokens[3] > 0
    BY <2>3, RankFacts
  <2>4. CASE tokens[5] = 0 /\ tokens[4] = 0 /\ tokens[3] = 0 /\ tokens[2] > 0
    BY <2>4, RankFacts
  <2>5. CASE tokens[5] = 0 /\ tokens[4] = 0 /\ tokens[3] = 0 /\ tokens[2] = 0 /\ tokens[1] > 0
    BY <2>5, RankFacts
  <2>6. CASE tokens[5] = 0 /\ tokens[4] = 0 /\ tokens[3] = 0 /\ tokens[2] = 0 /\ tokens[1] = 0
    BY <2>6, RankFacts DEF RankE
  <2> QED BY <1>1, <2>1, <2>2, <2>3, <2>4, <2>5, <2>6
<1>3. HunterRank(tokens) = CHOOSE r \in RankType : P(r)
  BY DEF HunterRank
<1>4. HunterRank(tokens) \in RankType /\ P(HunterRank(tokens))
  BY <1>2, <1>3, Zenon
<1> QED BY <1>4

(* A move of nothing changes nothing.                                      *)
LEMMA MovedNothing ==
    ASSUME NEW b \in Balances, NEW c \in Coin, NEW from \in Account, NEW to \in Account
    PROVE  Moved(b, c, from, to, 0) = b
<1>1. \A a \in Account : b[c][a] \in Nat
  BY DEF Balances
<1>2. [a \in Account |-> b[c][a] + (IF a = to THEN 0 ELSE 0) - (IF a = from THEN 0 ELSE 0)]
          = b[c]
  <2>1. \A a \in Account :
           b[c][a] + (IF a = to THEN 0 ELSE 0) - (IF a = from THEN 0 ELSE 0) = b[c][a]
    BY <1>1
  <2> QED BY <2>1 DEF Balances
<1> QED BY <1>2 DEF Moved, Balances

(* An amount that moves on at once has moved from the first account to the *)
(* last.                                                                   *)
LEMMA MovedOn ==
    ASSUME NEW b \in Balances, NEW c \in Coin, NEW from \in Account, NEW via \in Account,
           NEW to \in Account, NEW n \in Nat
    PROVE  Moved(Moved(b, c, from, via, n), c, via, to, n) = Moved(b, c, from, to, n)
<1>1. PICK d : d = Moved(b, c, from, via, n)
  OBVIOUS
<1>2. /\ DOMAIN d = Coin
      /\ \A e \in Coin \ {c} : d[e] = b[e]
      /\ \A a \in Account :
            d[c][a] = b[c][a] + (IF a = via THEN n ELSE 0) - (IF a = from THEN n ELSE 0)
  BY <1>1 DEF Moved, Balances
<1>3. \A a \in Account : b[c][a] \in Nat
  BY DEF Balances
<1>4. \A a \in Account :
         d[c][a] + (IF a = to THEN n ELSE 0) - (IF a = via THEN n ELSE 0)
           = b[c][a] + (IF a = to THEN n ELSE 0) - (IF a = from THEN n ELSE 0)
  BY <1>2, <1>3
<1>5. [a \in Account |-> d[c][a] + (IF a = to THEN n ELSE 0) - (IF a = via THEN n ELSE 0)]
        = [a \in Account |-> b[c][a] + (IF a = to THEN n ELSE 0)
                                     - (IF a = from THEN n ELSE 0)]
  BY <1>4
<1> DEFINE x == [a \in Account |-> b[c][a] + (IF a = to THEN n ELSE 0)
                                           - (IF a = from THEN n ELSE 0)]
<1>6. /\ Moved(d, c, via, to, n) = [d EXCEPT ![c] = x]
      /\ Moved(b, c, from, to, n) = [b EXCEPT ![c] = x]
  BY <1>5 DEF Moved
<1> HIDE DEF x
<1>7. [d EXCEPT ![c] = x] = [b EXCEPT ![c] = x]
  BY <1>2 DEF Balances
<1> QED BY <1>1, <1>6, <1>7

----------------------------------------------------------------------------
(* The coin and the keys of an entry                                       *)

(* One key of a rank costs its price.                                      *)
LEMMA OneKeyCost ==
    ASSUME ShopTypeOK, NEW rank \in RankType
    PROVE  /\ KeysCost(KeysOf(rank, 1)) = keyPrice[priceMode][rank]
           /\ keyPrice[priceMode][rank] \in Nat
<1>1. PICK p : p = keyPrice[priceMode]
  OBVIOUS
<1>2. p \in Amounts
  BY <1>1 DEF ShopTypeOK, Amounts
<1>3. Total([r \in RankType |-> p[r] * KeysOf(rank, 1)[r]]) = p[rank] * 1
  BY <1>2, CostOfRank
<1>4. p[rank] \in Nat
  BY <1>2 DEF Amounts
<1>5. p[rank] * 1 = p[rank]
  BY <1>4
<1> QED BY <1>1, <1>3, <1>4, <1>5 DEF KeysCost

(* A key bought on the way in: the gate passes on exactly what it drew,    *)
(* so that the price moves from the hunter to the shop.                    *)
LEMMA EntryPurchase ==
    ASSUME ShopTypeOK, NEW h \in Hunters, NEW season, NEW rank \in RankType,
           NEW value \in Nat, buyForEntry(h, season, rank, value)
    PROVE  /\ keyPrice[priceMode][rank] \in Nat /\ PayCoin \in Coin
           /\ CanPay(coin, PayCoin, h, keyPrice[priceMode][rank])
           /\ coin' = Moved(coin, PayCoin, h, ShopAccount, keyPrice[priceMode][rank])
<1>1. PICK price : price = keyPrice[priceMode][rank]
  OBVIOUS
<1>2. PICK received : received = Moved(coin, MATIC, h, GateAccount, value)
  OBVIOUS
<1>3. /\ coin \in Balances /\ MATIC \in Coin /\ usdTokenContract \in Coin
      /\ price \in Nat /\ h \in Account /\ PayCoin \in Coin
  BY <1>1, OneKeyCost, AccountFacts DEF ShopTypeOK, Balances, Coin, PayCoin
<1>4. CanPay(coin, MATIC, h, value)
  BY DEF buyForEntry
<1>5. received \in Balances
  BY <1>2, <1>3, <1>4, MovedType, AccountFacts
<1>6. CASE priceMode = MATIC
  <2>1. value = price /\ payForKeys(received, GateAccount, value, price)
    BY <1>6, <1>1, <1>2 DEF buyForEntry
  <2>2. PayCoin = MATIC
    BY <1>6 DEF PayCoin
  <2>3. coin' = Moved(received, MATIC, GateAccount, ShopAccount, price)
    BY <2>1, <2>2 DEF payForKeys
  <2>4. coin' = Moved(coin, MATIC, h, ShopAccount, price)
    BY <2>1, <2>3, <1>2, <1>3, MovedOn, AccountFacts
  <2> QED BY <2>1, <2>2, <2>4, <1>1, <1>3, <1>4
<1>7. CASE priceMode # MATIC
  <2>1. PICK drawn : drawn = Moved(received, usdTokenContract, h, GateAccount, price)
    OBVIOUS
  <2>2. /\ value = 0 /\ CanPay(received, usdTokenContract, h, price)
        /\ payForKeys(drawn, GateAccount, 0, price)
    BY <1>7, <1>1, <1>2, <2>1 DEF buyForEntry
  <2>3. received = coin
    BY <2>2, <1>2, <1>3, MovedNothing, AccountFacts
  <2>4. PayCoin = usdTokenContract
    BY <1>7 DEF PayCoin
  <2>5. coin' = Moved(drawn, usdTokenContract, GateAccount, ShopAccount, price)
    BY <2>2, <2>4 DEF payForKeys
  <2>6. coin' = Moved(coin, usdTokenContract, h, ShopAccount, price)
    BY <2>1, <2>3, <2>5, <1>3, MovedOn, AccountFacts
  <2> QED BY <2>2, <2>3, <2>4, <2>6, <1>1, <1>3
<1> QED BY <1>6, <1>7

(* So it leaves the gate with nothing.                                     *)
LEMMA EntryPurchaseInv ==
    ASSUME ShopInv, NEW h \in Hunters, NEW season, NEW rank \in RankType,
           NEW value \in Nat, buyForEntry(h, season, rank, value)
    PROVE  ShopInv'
<1>1. PICK price \in Nat, c \in Coin :
           CanPay(coin, c, h, price) /\ coin' = Moved(coin, c, h, ShopAccount, price)
  BY EntryPurchase DEF ShopInv
<1>2. coin \in Balances
  BY DEF ShopInv, ShopTypeOK, Balances
<1>3. coin' \in Balances /\ \A d \in Coin : coin'[d][GateAccount] = coin[d][GateAccount]
  BY <1>1, <1>2, MovedType, MovedOther, AccountFacts
<1>4. key' \in [Hunters -> [RankType -> Nat]] /\ keyMinted' \in [RankType -> Nat]
  BY MintKeysType, KeysOfType DEF buyForEntry, ShopInv
<1>5. UNCHANGED <<configVars, stoneVars>>
  BY DEF buyForEntry
<1> QED
  BY <1>3, <1>4, <1>5
     DEF ShopInv, ShopTypeOK, StoneOpened, Balances, configVars, stoneVars

(* An entry goes on with a key from the hunter's hand.                     *)
LEMMA BurnEntryKeyInv ==
    ASSUME ShopInv, NEW h \in Hunters, NEW rank \in RankType, burnEntryKey(h, rank),
           UNCHANGED <<configVars, coin, keyMinted, stoneVars>>
    PROVE  ShopInv'
<1>1. key' \in [Hunters -> [RankType -> Nat]]
  BY DEF burnEntryKey, ShopInv, ShopTypeOK
<1> QED BY <1>1 DEF ShopInv, ShopTypeOK, StoneOpened, configVars, stoneVars

----------------------------------------------------------------------------
(* Calls and callbacks                                                     *)

(* An entry that goes on: with the key the hunter had, at once, or with    *)
(* the one bought, when the hunter called back is done.                    *)
Enters(h, season, rank, hunterRank) ==
    /\ goOn(h, season, rank, hunterRank)
    /\ UNCHANGED coin
    /\ \/ /\ UNCHANGED waiting
          /\ Acting(h)
          /\ mayEnter(h, season, rank)
          /\ hunterRank = getHunterRank(season, h)
       \/ /\ waiting # <<>>
          /\ h = InnerEntry.hunter /\ season = InnerEntry.seasonId
          /\ hunterRank = InnerEntry.hunterRank
          /\ waiting' = SubSeq(waiting, 1, Len(waiting) - 1)

(* The entries under way, and the innermost.                               *)
LEMMA WaitingFacts ==
    ASSUME Inv, waiting # <<>>
    PROVE  /\ Len(waiting) \in Nat \ {0} /\ DOMAIN waiting = 1..Len(waiting)
           /\ Len(waiting) \in DOMAIN waiting /\ InnerEntry = waiting[Len(waiting)]
           /\ InnerEntry.hunter \in Hunters /\ InnerEntry.seasonId \in 0..(seasonIds - 1)
           /\ InnerEntry.gateRank \in RankType /\ InnerEntry.hunterRank \in RankType
<1>1. waiting \in Seq(Entry)
  BY DEF Inv, BookInv, GateTypeOK
<1>2. /\ Len(waiting) \in Nat \ {0} /\ DOMAIN waiting = 1..Len(waiting)
      /\ Len(waiting) \in DOMAIN waiting /\ waiting[Len(waiting)] \in Entry
  BY <1>1
<1>3. InnerEntry = waiting[Len(waiting)]
  BY DEF InnerEntry
<1>4. InnerEntry.seasonId \in 0..(seasonIds - 1)
  BY <1>2, <1>3 DEF Inv, WaitingInv, EntryFits
<1> QED BY <1>2, <1>3, <1>4 DEF Entry

(* While a contract acts no entry of a plain account is under way.         *)
LEMMA OnlyContractsWait ==
    ASSUME Inv, NEW h, Acting(h), NEW i \in DOMAIN waiting
    PROVE  waiting[i].hunter \in Callers /\ h \in Callers
<1>1. waiting \in Seq(Entry) /\ waiting # <<>>
  BY DEF Inv, BookInv, GateTypeOK
<1>2. h \in Callers /\ InnerEntry.hunter \in Callers
  BY <1>1 DEF Acting
<1>3. Len(waiting) = 1 => i = Len(waiting)
  BY <1>1
<1> QED BY <1>1, <1>2, <1>3, WaitingFacts DEF Inv, WaitingInv, EntryFits

(* The seasons there are.                                                  *)
LEMMA SeasonExists ==
    ASSUME Inv, NEW season \in SeasonId, isExistSeasonById(season)
    PROVE  season \in 0..(seasonIds - 1)
BY MaxSeasonsAssumption DEF isExistSeasonById, SeasonId, Inv, SeasonInv, SeasonTypeOK

(* The collection an entry mints ranks in.                                 *)
LEMMA RankCollection ==
    ASSUME Inv, NEW season \in 0..(seasonIds - 1)
    PROVE  seasons[season].uses.hunterRank \in HunterRankCollections /\ season \in SeasonId
BY MaxSeasonsAssumption
   DEF Inv, SeasonInv, SeasonTypeOK, Season, Collections, SeasonId

(* What the hunter's rank is.                                              *)
LEMMA RankRead ==
    ASSUME Inv, NEW h \in Hunters, NEW season \in 0..(seasonIds - 1)
    PROVE  /\ getHunterRank(season, h) \in RankType
           /\ NoHigherRank(season, h, getHunterRank(season, h))
           /\ \/ getHunterRank(season, h) = RankE
              \/ rankToken[seasons[season].uses.hunterRank][h][getHunterRank(season, h)] > 0
<1>1. seasons[season].uses.hunterRank \in HunterRankCollections
  BY RankCollection
<1>2. rankToken \in [HunterRankCollections -> [Hunters -> [RankType -> Nat]]]
  BY DEF Inv, BookInv, GateTypeOK
<1>3. rankToken[seasons[season].uses.hunterRank][h] \in [RankType -> Nat]
  BY <1>1, <1>2
<1> QED BY <1>3, HunterRankIsHighest DEF getHunterRank, NoHigherRank

(* Whatever entry goes on is one into a current season, by the rank it     *)
(* read, which for a plain account is still the highest it holds.          *)
LEMMA EntersFacts ==
    ASSUME Inv, NEW h \in Hunters, NEW season \in SeasonId, NEW rank \in RankType,
           NEW hunterRank, Enters(h, season, rank, hunterRank)
    PROVE  /\ season \in 0..(seasonIds - 1) /\ isCurrentSeasonById(season)
           /\ hunterRank \in RankType
           /\ h \notin Callers => NoHigherRank(season, h, hunterRank)
<1>1. CASE mayEnter(h, season, rank) /\ hunterRank = getHunterRank(season, h)
  BY <1>1, SeasonExists, RankRead DEF mayEnter
<1>2. CASE /\ waiting # <<>>
           /\ h = InnerEntry.hunter /\ season = InnerEntry.seasonId
           /\ hunterRank = InnerEntry.hunterRank
  BY <1>2, WaitingFacts DEF Inv, WaitingInv, EntryFits
<1> QED BY <1>1, <1>2 DEF Enters

(* The entries under way stay as they are said to be where seasons, ranks  *)
(* and entries do not change.                                              *)
LEMMA WaitingFrame ==
    ASSUME WaitingInv, UNCHANGED <<seasonVars, waiting, rankToken>>
    PROVE  WaitingInv'
BY DEF WaitingInv, EntryFits, NoHigherRank, isCurrentSeasonById, seasonVars

(* A contract may change ranks while contracts wait.                       *)
LEMMA WaitingOfActing ==
    ASSUME Inv, NEW h, Acting(h), UNCHANGED <<seasonVars, waiting>>
    PROVE  WaitingInv'
BY OnlyContractsWait DEF Inv, WaitingInv, EntryFits, isCurrentSeasonById, seasonVars

(* When an entry is done those around it are contracts'.                   *)
LEMMA WaitingAfterEntry ==
    ASSUME Inv, NEW h \in Hunters, NEW season \in SeasonId, NEW rank \in RankType,
           NEW hunterRank, Enters(h, season, rank, hunterRank)
    PROVE  waiting' \in Seq(Entry) /\ WaitingInv'
<1>1. waiting \in Seq(Entry) /\ UNCHANGED seasonVars
  BY DEF Inv, BookInv, GateTypeOK, Enters, goOn
<1>2. CASE UNCHANGED waiting /\ Acting(h)
  BY <1>1, <1>2, WaitingOfActing
<1>3. CASE waiting # <<>> /\ waiting' = SubSeq(waiting, 1, Len(waiting) - 1)
  <2>1. Len(waiting) \in Nat \ {0}
    BY <1>3, WaitingFacts
  <2>2. /\ waiting' \in Seq(Entry)
        /\ \A i \in DOMAIN waiting' : /\ i \in DOMAIN waiting /\ waiting'[i] = waiting[i]
                                      /\ Len(waiting) # 1
    BY <1>1, <1>3, <2>1
  <2> QED
    BY <1>1, <2>2 DEF Inv, WaitingInv, EntryFits, isCurrentSeasonById, seasonVars
<1> QED BY <1>2, <1>3, <1>1 DEF Enters

(* An entry that buys its key is added to those under way.                 *)
LEMMA WaitingAfterPurchase ==
    ASSUME Inv, NEW h \in Hunters, NEW season \in SeasonId, NEW rank \in RankType,
           NEW value, Acting(h), buyForEntry(h, season, rank, value)
    PROVE  waiting' \in Seq(Entry) /\ WaitingInv'
<1>1. PICK e : e = [hunter |-> h, seasonId |-> season, gateRank |-> rank,
                    hunterRank |-> getHunterRank(season, h)]
  OBVIOUS
<1>2. /\ waiting \in Seq(Entry) /\ waiting' = Append(waiting, e)
      /\ UNCHANGED <<seasonVars, rankToken>> /\ mayEnter(h, season, rank)
  BY <1>1 DEF Inv, BookInv, GateTypeOK, buyForEntry, rankVars
<1>3. /\ season \in 0..(seasonIds - 1) /\ isCurrentSeasonById(season)
      /\ getHunterRank(season, h) \in RankType
      /\ NoHigherRank(season, h, getHunterRank(season, h))
  BY <1>2, SeasonExists, RankRead DEF mayEnter
<1>4. /\ e \in Entry /\ e.hunter = h /\ e.seasonId = season
      /\ e.hunterRank = getHunterRank(season, h)
  BY <1>1, <1>3 DEF Entry
<1>5. /\ waiting' \in Seq(Entry) /\ Len(waiting') = Len(waiting) + 1
      /\ \A i \in DOMAIN waiting' :
            \/ i \in DOMAIN waiting /\ waiting'[i] = waiting[i]
            \/ waiting'[i] = e
  BY <1>2, <1>4
<1>6. h \notin Callers => Len(waiting) = 0
  BY <1>2 DEF Acting
<1>7. ASSUME NEW f, f = e \/ \E i \in DOMAIN waiting : f = waiting[i]
      PROVE  EntryFits(f)'
  <2>1. CASE f = e
    BY <2>1, <1>2, <1>3, <1>4, <1>5, <1>6
       DEF EntryFits, NoHigherRank, isCurrentSeasonById, seasonVars
  <2>2. ASSUME NEW i \in DOMAIN waiting, f = waiting[i]
        PROVE  EntryFits(f)'
    <3>1. EntryFits(f) /\ f.hunter \in Callers
      BY <2>2, OnlyContractsWait DEF Inv, WaitingInv
    <3> QED BY <3>1, <1>2 DEF EntryFits, isCurrentSeasonById, seasonVars
  <2> QED BY <1>7, <2>1, <2>2
<1>8. WaitingInv'
  BY <1>5, <1>7 DEF WaitingInv, EntryFits, NoHigherRank, isCurrentSeasonById
<1> QED BY <1>5, <1>8

----------------------------------------------------------------------------
(* The record, the slot, the count and the rank of an entry                *)

(* A rank-up adds one token, of the rank after that read; where no higher  *)
(* rank is held, as of a plain account, that token is the only one.        *)
LEMMA RankUpType ==
    ASSUME Inv, NEW h \in Hunters, NEW season \in 0..(seasonIds - 1),
           NEW hunterRank \in RankType, NEW count, rankUp(season, h, hunterRank, count),
           h \notin Callers => NoHigherRank(season, h, hunterRank)
    PROVE  /\ rankToken' \in [HunterRankCollections -> [Hunters -> [RankType -> Nat]]]
           /\ RankTokenUnique'
<1>1. PICK c : c = seasons[season].uses.hunterRank
  OBVIOUS
<1>2. c \in HunterRankCollections
  BY <1>1, RankCollection
<1>3. /\ rankToken \in [HunterRankCollections -> [Hunters -> [RankType -> Nat]]]
      /\ RankTokenUnique
  BY DEF Inv, BookInv, GateTypeOK
<1>4. h \notin Callers => \A q \in RankType : q > hunterRank => rankToken[c][h][q] = 0
  BY <1>1 DEF NoHigherRank
<1>5. CASE UNCHANGED rankToken
  BY <1>3, <1>5 DEF RankTokenUnique
<1>6. CASE /\ hunterRank # RankS
           /\ rankToken' = [rankToken EXCEPT ![c][h][hunterRank + 1] = @ + 1]
  <2>1. hunterRank + 1 \in RankType /\ hunterRank + 1 # RankE /\ hunterRank + 1 > hunterRank
    BY <1>6, RankFacts DEF RankS, RankE
  <2>2. PICK tokens : tokens = [rankToken[c][h] EXCEPT
                                  ![hunterRank + 1] = rankToken[c][h][hunterRank + 1] + 1]
    OBVIOUS
  <2>3. rankToken' = [rankToken EXCEPT ![c] = [rankToken[c] EXCEPT ![h] = tokens]]
    BY <1>6, <2>1, <2>2
  <2>4. tokens \in [RankType -> Nat]
    <3>1. rankToken[c][h] \in [RankType -> Nat]
      BY <1>2, <1>3
    <3>2. rankToken[c][h][hunterRank + 1] + 1 \in Nat
      BY <3>1, <2>1
    <3> QED BY <2>2, <3>1, <3>2
  <2>5. h \notin Callers => tokens[RankE] = 0 /\ \A q \in RankType : tokens[q] <= 1
    <3>1. h \notin Callers => rankToken[c][h][hunterRank + 1] = 0
      BY <1>4, <2>1
    <3>2. h \notin Callers => /\ rankToken[c][h][RankE] = 0
                              /\ \A q \in RankType : rankToken[c][h][q] <= 1
      BY <1>2, <1>3 DEF RankTokenUnique
    <3> QED BY <1>2, <1>3, <2>1, <2>2, <3>1, <3>2, RankFacts
  <2>6. [rankToken[c] EXCEPT ![h] = tokens] \in [Hunters -> [RankType -> Nat]]
    BY <1>2, <1>3, <2>4
  <2>7. rankToken' \in [HunterRankCollections -> [Hunters -> [RankType -> Nat]]]
    BY <1>3, <2>3, <2>6
  <2>8. ASSUME NEW d \in HunterRankCollections, NEW k \in Hunters
        PROVE  (k = h /\ rankToken'[d][k] = tokens) \/ rankToken'[d][k] = rankToken[d][k]
    BY <1>3, <2>3, <2>6
  <2>9. RankTokenUnique'
    BY <1>3, <2>5, <2>8 DEF RankTokenUnique
  <2> QED BY <2>7, <2>9
<1> QED
  BY <1>1, <1>5, <1>6 DEF rankUp

(* The gates after an entry: the old ones and one of the hunter, open.     *)
LEMMA RecordGateStep ==
    ASSUME Inv, NEW h \in Hunters, NEW season \in SeasonId, NEW rank \in RankType,
           recordGate(season, rank, h)
    PROVE  /\ gates' \in Seq(Gate) /\ Len(gates') = Len(gates) + 1 /\ Len(gates) \in Nat
           /\ DOMAIN gates = 1..Len(gates) /\ DOMAIN gates' = 1..(Len(gates) + 1)
           /\ \A g \in 1..Len(gates) : gates'[g] = gates[g]
           /\ gates'[Len(gates) + 1].hunter = h
           /\ gates'[Len(gates) + 1].seasonId = season
           /\ gates'[Len(gates) + 1].gateRank = rank
           /\ gates'[Len(gates) + 1].usedStone = 0
           /\ ~ gates'[Len(gates) + 1].cleared
<1>1. PICK new : new = [seasonId |-> season, endBlock |-> block + gateBlockPerRank[rank],
                        usedStone |-> 0, cleared |-> FALSE, gateRank |-> rank, hunter |-> h]
  OBVIOUS
<1>2. gates \in Seq(Gate) /\ gates' = Append(gates, new)
  BY <1>1 DEF recordGate, Inv, BookInv, GateTypeOK
<1>3. block + gateBlockPerRank[rank] \in Nat
  BY TablesAssumption DEF Inv, SeasonInv, SeasonTypeOK, Block, BookInv, GateTypeOK
<1>4. /\ new \in Gate /\ new.hunter = h /\ new.seasonId = season /\ ~ new.cleared
      /\ new.gateRank = rank /\ new.usedStone = 0
  BY <1>1, <1>3 DEF Gate
<1> QED BY <1>2, <1>4

(* An entry puts the new gate, and no other, into the slots.               *)
LEMMA EnterSlots ==
    ASSUME Inv, NEW h \in Hunters, NEW season \in SeasonId, NEW rank \in RankType,
           recordGate(season, rank, h)
    PROVE  /\ gateOfHunterSlot' \in [Hunters -> SUBSET (1..Len(gates'))]
           /\ SlotsExact'
<1>1. /\ gateOfHunterSlot \in [Hunters -> SUBSET (1..Len(gates))] /\ SlotsExact
      /\ gateOfHunterSlot' = [gateOfHunterSlot EXCEPT
                                ![h] = gateOfHunterSlot[h] \union {Len(gates) + 1}]
  BY DEF recordGate, Inv, BookInv, GateTypeOK
<1>2. /\ Len(gates') = Len(gates) + 1 /\ Len(gates) \in Nat
      /\ DOMAIN gates = 1..Len(gates) /\ DOMAIN gates' = 1..(Len(gates) + 1)
      /\ \A g \in 1..Len(gates) : gates'[g] = gates[g]
      /\ gates'[Len(gates) + 1].hunter = h
      /\ ~ gates'[Len(gates) + 1].cleared
  BY RecordGateStep
<1>3. ASSUME NEW k \in Hunters
      PROVE  gateOfHunterSlot'[k] =
                {g \in DOMAIN gates' : gates'[g].hunter = k /\ ~ gates'[g].cleared}
  <2>1. gateOfHunterSlot[k] =
           {g \in 1..Len(gates) : gates[g].hunter = k /\ ~ gates[g].cleared}
    BY <1>1, <1>2 DEF SlotsExact
  <2>2. \A g : g \in DOMAIN gates' <=> g \in 1..Len(gates) \/ g = Len(gates) + 1
    BY <1>2
  <2>3. Len(gates) + 1 \notin 1..Len(gates)
    BY <1>2
  <2>4. CASE k = h
    <3>1. gateOfHunterSlot'[k] = gateOfHunterSlot[k] \union {Len(gates) + 1}
      BY <1>1, <2>4
    <3> QED BY <3>1, <1>2, <2>1, <2>2, <2>3, <2>4
  <2>5. CASE k # h
    <3>1. gateOfHunterSlot'[k] = gateOfHunterSlot[k]
      BY <1>1, <2>5
    <3> QED BY <3>1, <1>2, <2>1, <2>2, <2>3, <2>5
  <2> QED BY <2>4, <2>5
<1>4. gateOfHunterSlot' \in [Hunters -> SUBSET (1..Len(gates'))]
  <2>1. Len(gates) + 1 \in 1..Len(gates') /\ 1..Len(gates) \subseteq 1..Len(gates')
    BY <1>2
  <2> QED BY <1>1, <2>1
<1> QED BY <1>3, <1>4 DEF SlotsExact

(* The gate counts stay numbers.                                           *)
LEMMA CountGateType ==
    ASSUME Inv, NEW h \in Hunters, NEW season \in SeasonId, NEW rank \in RankType,
           countGate(season, rank, h)
    PROVE  gateCountOfSeason' \in [SeasonId -> [Hunters -> Nat]]
<1>1. gateCountOfSeason \in [SeasonId -> [Hunters -> Nat]]
  BY DEF Inv, BookInv, GateTypeOK
<1>2. GateWeight(rank) \in Nat
  BY RankFacts DEF GateWeight
<1> QED BY <1>1, <1>2 DEF countGate

(* What goes on keeps the invariant.                                       *)
LEMMA EntersInv ==
    ASSUME Inv, NEW h \in Hunters, NEW season \in SeasonId, NEW rank \in RankType,
           NEW hunterRank, Enters(h, season, rank, hunterRank)
    PROVE  Inv'
<1>1. SeasonInv'
  BY SeasonNextInv DEF Enters, goOn, Inv
<1>2. ShopInv'
  BY BurnEntryKeyInv DEF Enters, goOn, Inv
<1>3. /\ season \in 0..(seasonIds - 1) /\ hunterRank \in RankType
      /\ h \notin Callers => NoHigherRank(season, h, hunterRank)
  BY EntersFacts
<1>4. /\ rankToken' \in [HunterRankCollections -> [Hunters -> [RankType -> Nat]]]
      /\ RankTokenUnique'
  BY <1>3, RankUpType DEF Enters, goOn
<1>5. gates' \in Seq(Gate)
  BY RecordGateStep DEF Enters, goOn
<1>6. gateOfHunterSlot' \in [Hunters -> SUBSET (1..Len(gates'))] /\ SlotsExact'
  BY EnterSlots DEF Enters, goOn
<1>7. gateCountOfSeason' \in [SeasonId -> [Hunters -> Nat]]
  BY CountGateType DEF Enters, goOn
<1>8. UNCHANGED <<tableVars, approved, canMint, rewardVars, stockVars>>
  BY DEF Enters, goOn
<1>9. waiting' \in Seq(Entry) /\ WaitingInv'
  BY WaitingAfterEntry
<1>10. GateTypeOK'
  BY <1>4, <1>5, <1>6, <1>7, <1>8, <1>9
     DEF Inv, BookInv, GateTypeOK, tableVars, rewardVars, stockVars
<1>11. SignaturesUsed' /\ OneRewardPerSignature' /\ PacksOpen'
  BY <1>8 DEF Inv, BookInv, SignaturesUsed, OneRewardPerSignature, PacksOpen, rewardVars,
              stockVars
<1>12. GatesOfSeasons'
  <2>1. /\ DOMAIN gates = 1..Len(gates) /\ DOMAIN gates' = 1..(Len(gates) + 1)
        /\ \A g \in 1..Len(gates) : gates'[g] = gates[g]
        /\ gates'[Len(gates) + 1].seasonId = season /\ Len(gates) \in Nat
    BY RecordGateStep DEF Enters, goOn
  <2>2. seasonIds' = seasonIds
    BY DEF Enters, goOn, seasonVars
  <2>3. \A g \in DOMAIN gates' : g \in DOMAIN gates \/ g = Len(gates) + 1
    BY <2>1
  <2> QED BY <2>1, <2>2, <2>3, <1>3 DEF Inv, GatesOfSeasons
<1> QED BY <1>1, <1>2, <1>4, <1>6, <1>9, <1>10, <1>11, <1>12 DEF Inv, BookInv

(* The key bought is the hunter's and the books wait.                      *)
LEMMA BuyForEntryInv ==
    ASSUME Inv, NEW h \in Hunters, NEW season \in SeasonId, NEW rank \in RankType,
           NEW value \in Nat, Acting(h), buyForEntry(h, season, rank, value)
    PROVE  Inv'
<1>1. /\ UNCHANGED <<seasonVars, bookVars, tableVars, approved, rankVars, rewardVars, stockVars>>
  BY DEF buyForEntry
<1>2. SeasonInv'
  BY <1>1, SeasonNextInv DEF Inv
<1>3. ShopInv'
  BY EntryPurchaseInv DEF Inv
<1>4. waiting' \in Seq(Entry) /\ WaitingInv'
  BY WaitingAfterPurchase
<1>5. BookInv'
  BY <1>1, <1>4
     DEF Inv, BookInv, GateTypeOK, SlotsExact, RankTokenUnique, SignaturesUsed,
         OneRewardPerSignature, PacksOpen, bookVars, tableVars, rankVars, rewardVars, stockVars
<1>6. GatesOfSeasons'
  BY <1>1 DEF Inv, GatesOfSeasons, bookVars, seasonVars
<1> QED BY <1>2, <1>3, <1>4, <1>5, <1>6 DEF Inv

----------------------------------------------------------------------------
(* clearGate                                                               *)

(* What a clear burns is a number of stones.                               *)
LEMMA RequiredStoneType ==
    ASSUME Inv, NEW g \in DOMAIN gates
    PROVE  getRequiredStoneForClear(g) \in Nat
<1>1. gates[g] \in Gate /\ block \in Nat /\ boostBlockCount \in Nat \ {0}
  BY TablesAssumption DEF Inv, SeasonInv, SeasonTypeOK, Block, BookInv, GateTypeOK
<1>2. PICK remaining : remaining = getGateRemainingBlock(g)
  OBVIOUS
<1>3. remaining \in Nat
  BY <1>1, <1>2 DEF getGateRemainingBlock, Gate
<1>4. (remaining + boostBlockCount - 1) \div boostBlockCount \in Nat
  BY <1>1, <1>3
<1> QED BY <1>2, <1>4 DEF getRequiredStoneForClear

(* The record, the slot and the flags after a clear.                       *)
LEMMA ClearBook ==
    ASSUME Inv, NEW h \in Hunters, NEW g \in DOMAIN gates, NEW signatures,
           clearGate(h, g, signatures)
    PROVE  /\ gates' \in Seq(Gate) /\ Len(gates') = Len(gates)
           /\ DOMAIN gates' = DOMAIN gates /\ DOMAIN gates = 1..Len(gates)
           /\ \A i \in DOMAIN gates : /\ gates'[i].hunter = gates[i].hunter
                                     /\ gates'[i].seasonId = gates[i].seasonId
                                     /\ gates'[i].gateRank = gates[i].gateRank
           /\ gates'[g].usedStone = gates[g].usedStone + getRequiredStoneForClear(g)
           /\ \A i \in DOMAIN gates : i # g => gates'[i] = gates[i]
           /\ gates'[g].cleared /\ ~ gates[g].cleared /\ gates[g].hunter = h
<1>1. PICK required : required = getRequiredStoneForClear(g)
  OBVIOUS
<1>2. required \in Nat /\ gates \in Seq(Gate) /\ gates[g] \in Gate
  BY <1>1, RequiredStoneType DEF Inv, BookInv, GateTypeOK
<1>3. PICK new : new = [gates[g] EXCEPT !.cleared = TRUE,
                                        !.usedStone = gates[g].usedStone + required]
  OBVIOUS
<1>4. gates' = [gates EXCEPT ![g] = new]
  BY <1>1, <1>3, <1>2 DEF clearGate, recordClear, payStones
<1>5. /\ new \in Gate /\ new.hunter = gates[g].hunter /\ new.cleared
      /\ new.seasonId = gates[g].seasonId /\ new.gateRank = gates[g].gateRank
      /\ new.usedStone = gates[g].usedStone + required
  <2>1. new = [seasonId |-> gates[g].seasonId, endBlock |-> gates[g].endBlock,
               usedStone |-> gates[g].usedStone + required, cleared |-> TRUE,
               gateRank |-> gates[g].gateRank, hunter |-> gates[g].hunter]
    BY <1>2, <1>3 DEF Gate
  <2>2. gates[g].usedStone + required \in Nat
    BY <1>2 DEF Gate
  <2> QED BY <1>2, <2>1, <2>2 DEF Gate
<1>6. ~ gates[g].cleared /\ gates[g].hunter = h
  BY DEF clearGate, recordClear, payStones
<1> QED BY <1>1, <1>2, <1>4, <1>5, <1>6

(* A clear takes the gate, and no other, out of the slots.                 *)
LEMMA ClearSlots ==
    ASSUME Inv, NEW h \in Hunters, NEW g \in DOMAIN gates, NEW signatures,
           clearGate(h, g, signatures)
    PROVE  /\ gateOfHunterSlot' \in [Hunters -> SUBSET (1..Len(gates'))]
           /\ SlotsExact'
<1>1. /\ gateOfHunterSlot \in [Hunters -> SUBSET (1..Len(gates))] /\ SlotsExact
      /\ gateOfHunterSlot' = [gateOfHunterSlot EXCEPT ![h] = gateOfHunterSlot[h] \ {g}]
  BY DEF clearGate, recordClear, payStones, Inv, BookInv, GateTypeOK
<1>2. /\ Len(gates') = Len(gates) /\ DOMAIN gates' = DOMAIN gates
      /\ \A i \in DOMAIN gates : gates'[i].hunter = gates[i].hunter
      /\ \A i \in DOMAIN gates : i # g => gates'[i] = gates[i]
      /\ gates'[g].cleared /\ gates[g].hunter = h
  BY ClearBook
<1>3. ASSUME NEW k \in Hunters
      PROVE  gateOfHunterSlot'[k] =
                {i \in DOMAIN gates' : gates'[i].hunter = k /\ ~ gates'[i].cleared}
  <2>1. gateOfHunterSlot[k] =
           {i \in DOMAIN gates : gates[i].hunter = k /\ ~ gates[i].cleared}
    BY <1>1 DEF SlotsExact
  <2>2. CASE k = h
    <3>1. gateOfHunterSlot'[k] = gateOfHunterSlot[k] \ {g}
      BY <1>1, <2>2
    <3> QED BY <3>1, <1>2, <2>1, <2>2
  <2>3. CASE k # h
    <3>1. gateOfHunterSlot'[k] = gateOfHunterSlot[k]
      BY <1>1, <2>3
    <3>2. g \notin gateOfHunterSlot[k]
      BY <1>2, <2>1, <2>3
    <3> QED BY <3>1, <3>2, <1>2, <2>1
  <2> QED BY <2>2, <2>3
<1>4. gateOfHunterSlot' \in [Hunters -> SUBSET (1..Len(gates'))]
  BY <1>1, <1>2
<1> QED BY <1>3, <1>4 DEF SlotsExact

(* The signatures of the next nonces are as many as nonces they use up.    *)
LEMMA NextSignatures ==
    ASSUME NEW n \in Nat, NEW count \in Nat, NEW signatures,
           \A i \in 1..count : signatures[i] = n + i - 1
    PROVE  /\ {signatures[i] : i \in 1..count} = n..(n + count - 1)
           /\ IsFiniteSet(n..(n + count - 1)) /\ Cardinality(n..(n + count - 1)) = count
<1>1. \A m \in n..(n + count - 1) : m - n + 1 \in 1..count /\ signatures[m - n + 1] = m
  BY Z3
<1>2. \A i \in 1..count : signatures[i] \in n..(n + count - 1)
  BY Z3
<1>3. {signatures[i] : i \in 1..count} = n..(n + count - 1)
  BY <1>1, <1>2
<1>4. n + count - 1 \in Int /\ n \in Int
  OBVIOUS
<1>5. /\ IsFiniteSet(n..(n + count - 1))
      /\ Cardinality(n..(n + count - 1))
             = IF n > n + count - 1 THEN 0 ELSE (n + count - 1) - n + 1
  BY <1>4, FS_Interval
<1>6. (IF n > n + count - 1 THEN 0 ELSE (n + count - 1) - n + 1) = count
  OBVIOUS
<1> QED BY <1>3, <1>5, <1>6

(* The rewards and their signatures: those drawn from are of the nonces    *)
(* that the rewards use up, which no reward was drawn from before.         *)
LEMMA MintRewardsInv ==
    ASSUME Inv, NEW h \in Hunters, NEW season \in 0..(seasonIds - 1), NEW reward \in Reward,
           NEW signatures, mintRewards(h, season, reward, signatures), UNCHANGED openPacks
    PROVE  /\ monster' \in [Hunters -> Nat] /\ seasonPack' \in [Hunters -> Nat]
           /\ nonces' \in [Hunters -> Nat] /\ mintedPacks' \subseteq SeasonPackCollections
           /\ drawnFrom' \in [Hunters -> SUBSET Nat]
           /\ SignaturesUsed' /\ OneRewardPerSignature' /\ PacksOpen'
<1>1. PICK packs : packs = seasons[season].uses.seasonPack
  OBVIOUS
<1>2. PICK packCount : packCount = IF packs \in openPacks THEN reward.packs ELSE 0
  OBVIOUS
<1>3. PICK monsterCount : monsterCount = Total(reward.monsters)
  OBVIOUS
<1>4. packCount \in Nat /\ monsterCount \in Nat /\ packs \in SeasonPackCollections
  <2>1. reward.packs \in Nat /\ reward.monsters \in Amounts
    BY DEF Reward, Amounts
  <2>2. packs \in SeasonPackCollections
    BY <1>1 DEF Inv, SeasonInv, SeasonTypeOK, Season, Collections
  <2> QED BY <2>1, <2>2, <1>2, <1>3, TotalType
<1>5. /\ monster \in [Hunters -> Nat] /\ seasonPack \in [Hunters -> Nat]
      /\ nonces \in [Hunters -> Nat] /\ mintedPacks \subseteq SeasonPackCollections
      /\ drawnFrom \in [Hunters -> SUBSET Nat]
      /\ SignaturesUsed /\ OneRewardPerSignature /\ PacksOpen
  BY DEF Inv, BookInv, GateTypeOK
<1>6. PICK count : count = monsterCount + packCount
  OBVIOUS
<1>7. PICK new : new = {signatures[i] : i \in 1..count}
  OBVIOUS
<1>8. PICK old : old = drawnFrom[h]
  OBVIOUS
<1>9. PICK n : n = nonces[h]
  OBVIOUS
<1>10. /\ \A i \in 1..count : signatures[i] = n + i - 1
       /\ monster' = [monster EXCEPT ![h] = monster[h] + monsterCount]
       /\ seasonPack' = [seasonPack EXCEPT ![h] = seasonPack[h] + packCount]
       /\ nonces' = [nonces EXCEPT ![h] = n + count]
       /\ drawnFrom' = [drawnFrom EXCEPT ![h] = old \union new]
       /\ mintedPacks' = IF packCount > 0 THEN mintedPacks \union {packs} ELSE mintedPacks
  BY <1>1, <1>2, <1>3, <1>6, <1>7, <1>8, <1>9 DEF mintRewards, useNonces
<1>11. /\ n \in Nat /\ count \in Nat
       /\ new = n..(n + count - 1) /\ IsFiniteSet(new) /\ Cardinality(new) = count
  <2>1. n \in Nat /\ count \in Nat
    BY <1>4, <1>5, <1>6, <1>9
  <2>2. \A i \in 1..count : signatures[i] = n + i - 1
    BY <1>10
  <2>3. /\ {signatures[i] : i \in 1..count} = n..(n + count - 1)
        /\ IsFiniteSet(n..(n + count - 1)) /\ Cardinality(n..(n + count - 1)) = count
    BY <2>1, <2>2, NextSignatures
  <2> QED BY <2>1, <2>3, <1>7
<1>12. old \subseteq 0..(n - 1) /\ Cardinality(old) = monster[h] + seasonPack[h]
  BY <1>5, <1>8, <1>9 DEF SignaturesUsed, OneRewardPerSignature
<1>13. IsFiniteSet(old) /\ old \intersect new = {}
  <2>1. IsFiniteSet(0..(n - 1))
    BY <1>11, FS_Interval
  <2>2. \A m \in 0..(n - 1) : m \notin n..(n + count - 1)
    BY <1>11
  <2> QED BY <2>1, <2>2, <1>11, <1>12, FS_Subset
<1>14. Cardinality(old \union new) = Cardinality(old) + count
  <2>1. Cardinality(old \union new) = Cardinality(old) + Cardinality(new) - 0
    BY <1>11, <1>13, FS_Union, FS_EmptySet
  <2>2. Cardinality(old) \in Nat
    BY <1>13, FS_CardinalityType
  <2> QED BY <1>11, <2>1, <2>2
<1>15. old \union new \subseteq 0..(n + count - 1) /\ old \union new \in SUBSET Nat
  <2>1. 0..(n - 1) \subseteq 0..(n + count - 1) /\ n..(n + count - 1) \subseteq 0..(n + count - 1)
    BY <1>11
  <2>2. 0..(n + count - 1) \subseteq Nat
    OBVIOUS
  <2> QED BY <2>1, <2>2, <1>11, <1>12
<1>16. n + count \in Nat /\ monster[h] + monsterCount \in Nat /\ seasonPack[h] + packCount \in Nat
  BY <1>4, <1>5, <1>11
<1>17. /\ monster' \in [Hunters -> Nat] /\ seasonPack' \in [Hunters -> Nat]
       /\ nonces' \in [Hunters -> Nat] /\ mintedPacks' \subseteq SeasonPackCollections
       /\ drawnFrom' \in [Hunters -> SUBSET Nat]
  BY <1>4, <1>5, <1>10, <1>15, <1>16
<1>18. SignaturesUsed'
  <2> SUFFICES ASSUME NEW k \in Hunters PROVE drawnFrom'[k] \subseteq 0..(nonces'[k] - 1)
    BY DEF SignaturesUsed
  <2>1. CASE k = h
    <3>1. PICK top : top = n + count
      OBVIOUS
    <3>2. old \union new \subseteq 0..(top - 1)
      BY <3>1, <1>11, <1>15
    <3>3. drawnFrom'[k] = old \union new /\ nonces'[k] = top
      BY <2>1, <3>1, <1>5, <1>10
    <3> QED BY <3>2, <3>3, Zenon
  <2>2. CASE k # h
    BY <2>2, <1>5, <1>10 DEF SignaturesUsed
  <2> QED BY <2>1, <2>2
<1>19. OneRewardPerSignature'
  <2> SUFFICES ASSUME NEW k \in Hunters
               PROVE  Cardinality(drawnFrom'[k]) = monster'[k] + seasonPack'[k]
    BY DEF OneRewardPerSignature
  <2>1. CASE k = h
    <3>1. /\ drawnFrom'[k] = old \union new
          /\ monster'[k] = monster[h] + monsterCount
          /\ seasonPack'[k] = seasonPack[h] + packCount
      BY <2>1, <1>5, <1>10
    <3>2. monster[h] \in Nat /\ seasonPack[h] \in Nat
      BY <1>5
    <3> QED BY <3>1, <3>2, <1>4, <1>6, <1>12, <1>14
  <2>2. CASE k # h
    BY <2>2, <1>5, <1>10 DEF OneRewardPerSignature
  <2> QED BY <2>1, <2>2
<1>20. PacksOpen'
  BY <1>2, <1>5, <1>10 DEF PacksOpen
<1> QED BY <1>17, <1>18, <1>19, <1>20

(* clearGate keeps the invariant.                                          *)
LEMMA ClearGateInv ==
    ASSUME Inv, NEW h \in Hunters, NEW g \in DOMAIN gates, NEW signatures,
           clearGate(h, g, signatures)
    PROVE  Inv'
<1>1. SeasonInv'
  BY SeasonNextInv DEF clearGate, Inv
<1>2. PICK reward : reward = rewardTokensPerRank[gates[g].gateRank]
  OBVIOUS
<1>3. reward \in Reward
  <2>1. gates[g].gateRank \in RankType
    <3>1. gates[g] \in Gate
      BY DEF Inv, BookInv, GateTypeOK
    <3> QED BY <3>1 DEF Gate
  <2>2. rewardTokensPerRank \in [RankType -> Reward]
    BY TablesAssumption DEF Inv, BookInv, GateTypeOK
  <2> QED BY <1>2, <2>1, <2>2
<1>4. stone' \in [Hunters -> Nat] /\ stoneMinted' \in Nat /\ StoneOpened' /\ UNCHANGED stoneOpen
  <2>1. PICK required : required = getRequiredStoneForClear(g)
    OBVIOUS
  <2>2. required \in Nat /\ stone[h] >= required /\ reward.stones \in Nat
        /\ stone \in [Hunters -> Nat] /\ stoneMinted \in Nat /\ StoneOpened
    BY <2>1, <1>3, RequiredStoneType
       DEF clearGate, payStones, Reward, Inv, ShopInv, ShopTypeOK
  <2>3. /\ stone' = [stone EXCEPT ![h] = stone[h] - required + reward.stones]
        /\ stoneMinted' = stoneMinted + reward.stones
        /\ reward.stones > 0 => stoneOpen
        /\ UNCHANGED stoneOpen
    BY <1>2, <2>1 DEF clearGate, payStones
  <2> QED BY <2>2, <2>3 DEF StoneOpened
<1>5. ShopInv'
  BY <1>4 DEF clearGate, Inv, ShopInv, ShopTypeOK, configVars
<1>6. gates' \in Seq(Gate)
  BY ClearBook
<1>7. gateOfHunterSlot' \in [Hunters -> SUBSET (1..Len(gates'))] /\ SlotsExact'
  BY ClearSlots
<1>8. UNCHANGED <<seasonVars, gateCountOfSeason, waiting, tableVars, approved, rankVars, stockVars>>
  BY DEF clearGate
<1>9. /\ monster' \in [Hunters -> Nat] /\ seasonPack' \in [Hunters -> Nat]
      /\ nonces' \in [Hunters -> Nat] /\ mintedPacks' \subseteq SeasonPackCollections
      /\ drawnFrom' \in [Hunters -> SUBSET Nat]
      /\ SignaturesUsed' /\ OneRewardPerSignature' /\ PacksOpen'
  <2>1. mintRewards(h, gates[g].seasonId, reward, signatures) /\ UNCHANGED openPacks
    BY <1>2 DEF clearGate, stockVars
  <2>2. gates[g].seasonId \in 0..(seasonIds - 1)
    BY DEF Inv, GatesOfSeasons
  <2> QED BY <2>1, <2>2, <1>3, MintRewardsInv
<1>10. GateTypeOK' /\ RankTokenUnique'
  BY <1>6, <1>7, <1>8, <1>9
     DEF Inv, BookInv, GateTypeOK, RankTokenUnique, tableVars, rankVars, stockVars
<1>11. GatesOfSeasons'
  <2>1. seasonIds' = seasonIds
    BY <1>8 DEF seasonVars
  <2> QED BY <2>1, ClearBook DEF Inv, GatesOfSeasons
<1>12. WaitingInv'
  BY <1>8, WaitingFrame DEF Inv, rankVars
<1> QED BY <1>1, <1>5, <1>7, <1>9, <1>10, <1>11, <1>12 DEF Inv, BookInv

----------------------------------------------------------------------------
(* The other steps                                                         *)

(* The books, the counts and the rewards are functions of gateVars alone.  *)
LEMMA BookFrame ==
    ASSUME BookInv,
           UNCHANGED <<bookVars, waiting, tableVars, approved, rankVars, rewardVars, stockVars>>
    PROVE  BookInv'
BY DEF BookInv, GateTypeOK, SlotsExact, RankTokenUnique, SignaturesUsed, OneRewardPerSignature,
       PacksOpen, bookVars, tableVars, rankVars, rewardVars, stockVars

(* A step that leaves the seasons, the shop, the gates and the ranks keeps *)
(* all that is said of them.                                               *)
LEMMA OtherFrame ==
    ASSUME Inv, UNCHANGED <<seasonVars, shopVars, gates, waiting, rankToken>>
    PROVE  SeasonInv' /\ ShopInv' /\ GatesOfSeasons' /\ WaitingInv'
BY SeasonNextInv, ShopNextInv, WaitingFrame DEF Inv, GatesOfSeasons, seasonVars

(* A nonce used outside a clear only raises the nonces.                    *)
LEMMA VerifyRandomSignatureInv == Inv /\ VerifyRandomSignature => Inv'
<1> SUFFICES ASSUME Inv, NEW h \in Hunters, verifyRandomSignature(h) PROVE Inv'
  BY DEF VerifyRandomSignature
<1>1. SeasonInv' /\ ShopInv' /\ GatesOfSeasons' /\ WaitingInv'
  BY OtherFrame DEF verifyRandomSignature, bookVars, rankVars
<1>2. /\ nonces \in [Hunters -> Nat] /\ nonces' = [nonces EXCEPT ![h] = nonces[h] + 1]
      /\ drawnFrom' = drawnFrom /\ SignaturesUsed
  BY DEF verifyRandomSignature, useNonces, Inv, BookInv, GateTypeOK
<1>3. nonces' \in [Hunters -> Nat] /\ SignaturesUsed'
  <2>1. \A k \in Hunters : nonces[k] \in Nat /\ nonces'[k] \in Nat /\ nonces[k] <= nonces'[k]
    BY <1>2
  <2>2. nonces' \in [Hunters -> Nat]
    BY <1>2
  <2>3. ASSUME NEW k \in Hunters PROVE drawnFrom[k] \subseteq 0..(nonces'[k] - 1)
    <3>1. 0..(nonces[k] - 1) \subseteq 0..(nonces'[k] - 1)
      BY <2>1
    <3> QED BY <3>1, <1>2 DEF SignaturesUsed
  <2> QED BY <1>2, <2>2, <2>3 DEF SignaturesUsed
<1>4. BookInv'
  BY <1>3 DEF verifyRandomSignature, Inv, BookInv, GateTypeOK, SlotsExact, RankTokenUnique,
              OneRewardPerSignature, PacksOpen, bookVars, tableVars, rankVars, stockVars
<1> QED BY <1>1, <1>4 DEF Inv

(* A burned rank token leaves at most one of each rank.                    *)
LEMMA BurnRankTokenInv == Inv /\ BurnRankToken => Inv'
<1> SUFFICES ASSUME Inv, NEW h \in Hunters, NEW c \in HunterRankCollections,
                    NEW rank \in RankType, Acting(h), burnRankToken(h, c, rank)
             PROVE  Inv'
  BY DEF BurnRankToken
<1>1. SeasonInv' /\ ShopInv' /\ GatesOfSeasons' /\ WaitingInv'
  <2>1. UNCHANGED <<seasonVars, shopVars, gates, waiting>>
    BY DEF burnRankToken, bookVars
  <2> QED
    BY <2>1, SeasonNextInv, ShopNextInv, WaitingOfActing DEF Inv, GatesOfSeasons, seasonVars
<1>2. /\ rankToken \in [HunterRankCollections -> [Hunters -> [RankType -> Nat]]]
      /\ rankToken[c][h][rank] > 0
      /\ rankToken' = [rankToken EXCEPT ![c][h][rank] = rankToken[c][h][rank] - 1]
      /\ RankTokenUnique
  BY DEF burnRankToken, Inv, BookInv, GateTypeOK
<1>3. rankToken' \in [HunterRankCollections -> [Hunters -> [RankType -> Nat]]]
  BY <1>2
<1>4. ASSUME NEW d \in HunterRankCollections, NEW k \in Hunters, NEW r \in RankType
      PROVE  rankToken'[d][k][r] <= rankToken[d][k][r]
  <2>1. rankToken[d][k][r] \in Nat
    BY <1>2
  <2>2. CASE d = c /\ k = h /\ r = rank
    BY <1>2, <2>1, <2>2
  <2>3. CASE ~ (d = c /\ k = h /\ r = rank)
    BY <1>2, <2>1, <2>3
  <2> QED BY <2>2, <2>3
<1>5. RankTokenUnique'
  <2> SUFFICES ASSUME NEW d \in HunterRankCollections, NEW k \in Hunters \ Callers
               PROVE  /\ rankToken'[d][k][RankE] = 0
                      /\ \A r \in RankType : rankToken'[d][k][r] <= 1
    BY DEF RankTokenUnique
  <2>1. /\ rankToken[d][k][RankE] = 0
        /\ \A r \in RankType : /\ rankToken[d][k][r] <= 1
                                /\ rankToken[d][k][r] \in Nat
                                /\ rankToken'[d][k][r] \in Nat
                                /\ rankToken'[d][k][r] <= rankToken[d][k][r]
    BY <1>2, <1>3, <1>4 DEF RankTokenUnique
  <2>2. RankE \in RankType
    BY RankFacts
  <2> QED BY <2>1, <2>2
<1>6. BookInv'
  BY <1>3, <1>5 DEF burnRankToken, Inv, BookInv, GateTypeOK, SlotsExact, SignaturesUsed,
                    OneRewardPerSignature, PacksOpen, bookVars, tableVars, rewardVars, stockVars
<1> QED BY <1>1, <1>6 DEF Inv

(* The setters of the gate keep the invariant.                             *)
LEMMA ConfigureGateInv == Inv /\ ConfigureGate => Inv'
<1> SUFFICES ASSUME Inv, ConfigureGate PROVE Inv'
  OBVIOUS
<1>1. /\ UNCHANGED <<seasonVars, shopVars, bookVars, waiting, rankToken, rewardVars, stockVars>>
      /\ slotPerHunterRank' \in SlotTables /\ requiredGateCountForRankUp' \in RequiredCounts
      /\ gateBlockPerRank' \in GateBlockTables /\ rewardTokensPerRank' \in RewardTables
      /\ boostBlockCount' \in BoostBlockCounts /\ approved' \subseteq UsdTokens
      /\ canMint' \in [HunterRankCollections -> BOOLEAN]
  <2>1. CASE ConfigureTables
    BY <2>1 DEF ConfigureTables, setSlotPerHunterRank, setRequiredGateCountForRankUp,
                setGateBlockPerRank, setGateRewardPerRank, setBoostBlockCount, tableVars,
                rankVars, Inv, BookInv, GateTypeOK
  <2>2. CASE \E c \in HunterRankCollections, able \in MintStates : setCanMint(c, able)
    BY <2>2, MintStatesAssumption DEF setCanMint, tableVars, Inv, BookInv, GateTypeOK
  <2>3. CASE setApproveUSDTokenContract
    BY <2>3 DEF setApproveUSDTokenContract, tableVars, rankVars, Inv, BookInv, GateTypeOK,
                ShopInv, ShopTypeOK
  <2> QED BY <2>1, <2>2, <2>3 DEF ConfigureGate
<1>2. SeasonInv' /\ ShopInv' /\ GatesOfSeasons' /\ WaitingInv'
  BY <1>1, OtherFrame DEF bookVars
<1>3. BookInv'
  BY <1>1 DEF Inv, BookInv, GateTypeOK, SlotsExact, RankTokenUnique, SignaturesUsed,
              OneRewardPerSignature, PacksOpen, bookVars, rewardVars, stockVars
<1> QED BY <1>2, <1>3 DEF Inv

(* Monsters and packs that come and go keep the invariant.                 *)
LEMMA StockInv == Inv /\ Stock => Inv'
<1> SUFFICES ASSUME Inv, Stock PROVE Inv'
  OBVIOUS
<1>1. /\ UNCHANGED <<seasonVars, shopVars, bookVars, waiting, tableVars, approved, rankVars,
                     rewardVars>>
      /\ stocked' \subseteq RankType /\ openPacks' \subseteq SeasonPackCollections
      /\ mintedPacks \subseteq openPacks'
  BY RanksAssumption DEF Stock, addMonster, setMonsterRankType, openToken, closeToken,
     stockVarsOnly, Inv, BookInv, GateTypeOK, PacksOpen
<1>2. SeasonInv' /\ ShopInv' /\ GatesOfSeasons' /\ WaitingInv'
  BY <1>1, OtherFrame DEF bookVars, rankVars
<1>3. BookInv'
  BY <1>1 DEF Inv, BookInv, GateTypeOK, SlotsExact, RankTokenUnique, SignaturesUsed,
              OneRewardPerSignature, PacksOpen, bookVars, tableVars, rankVars, rewardVars
<1> QED BY <1>2, <1>3 DEF Inv

(* The entries of the next-state relation are Enters and buyForEntry.      *)
LEMMA EntryThatGoesOn ==
    ASSUME Inv, EnterWithKey \/ finishEntry
    PROVE  \E h \in Hunters, season \in SeasonId, rank \in RankType, hunterRank \in RankType :
               Enters(h, season, rank, hunterRank)
<1>1. CASE EnterWithKey
  <2>1. PICK h \in Hunters, season \in SeasonId, rank \in KeyRanks, value \in Value :
             Acting(h) /\ enterWithKey(h, season, rank, value)
    BY <1>1 DEF EnterWithKey
  <2>2. rank \in RankType /\ Enters(h, season, rank, getHunterRank(season, h))
    BY <2>1, KeyRanksAssumption DEF enterWithKey, sendNothing, Enters
  <2> QED BY <2>2, EntersFacts
<1>2. CASE finishEntry
  <2>1. /\ waiting # <<>> /\ UNCHANGED coin
        /\ goOn(InnerEntry.hunter, InnerEntry.seasonId, InnerEntry.gateRank,
                InnerEntry.hunterRank)
        /\ waiting' = SubSeq(waiting, 1, Len(waiting) - 1)
    BY <1>2 DEF finishEntry
  <2>2. /\ InnerEntry.hunter \in Hunters /\ InnerEntry.seasonId \in SeasonId
        /\ InnerEntry.gateRank \in RankType /\ InnerEntry.hunterRank \in RankType
    BY <2>1, WaitingFacts, RankCollection
  <2>3. Enters(InnerEntry.hunter, InnerEntry.seasonId, InnerEntry.gateRank,
               InnerEntry.hunterRank)
    BY <2>1 DEF Enters
  <2> QED BY <2>2, <2>3
<1> QED BY <1>1, <1>2

(* The bounded purchase is one.                                            *)
LEMMA EntryThatBuys ==
    ASSUME BuyForEntry
    PROVE  \E h \in Hunters, season \in SeasonId, rank \in RankType, value \in Nat :
               Acting(h) /\ buyForEntry(h, season, rank, value)
BY KeyRanksAssumption, FundsAssumption DEF BuyForEntry, Value

(* Every transaction, callback and new block keeps the invariant.          *)
LEMMA NextInv == Inv /\ [Next]_vars => Inv'
<1> SUFFICES ASSUME Inv, [Next]_vars PROVE Inv'
  OBVIOUS
<1>1. CASE EnterWithKey \/ finishEntry
  BY <1>1, EntryThatGoesOn, EntersInv
<1>2. CASE BuyForEntry
  BY <1>2, EntryThatBuys, BuyForEntryInv
<1>3. CASE \E g \in DOMAIN gates : ClearGate(g)
  BY <1>3, ClearGateInv DEF ClearGate
<1>4. CASE VerifyRandomSignature \/ BurnRankToken \/ ConfigureGate \/ Stock
  BY <1>4, VerifyRandomSignatureInv, BurnRankTokenInv, ConfigureGateInv, StockInv
<1>5. CASE waiting = <<>> /\ SeasonNext /\ UNCHANGED <<shopVars, gateVars>>
  <2>1. SeasonInv'
    BY <1>5, SeasonNextInv DEF Inv
  <2>2. ShopInv'
    BY <1>5, ShopNextInv DEF Inv
  <2>3. BookInv'
    BY <1>5, BookFrame DEF Inv, gateVars
  <2>4. GatesOfSeasons'
    <3>1. gates' = gates
      BY <1>5 DEF gateVars, bookVars
    <3>2. seasonIds' = seasonIds \/ seasonIds' = seasonIds + 1
      BY <1>5, SeasonsOnlyAdded DEF Inv
    <3>3. seasonIds \in Nat
      BY MaxSeasonsAssumption DEF Inv, SeasonInv, SeasonTypeOK
    <3> QED BY <3>1, <3>2, <3>3 DEF Inv, GatesOfSeasons
  <2>5. WaitingInv'
    BY <1>5 DEF gateVars, WaitingInv
  <2> QED BY <2>1, <2>2, <2>3, <2>4, <2>5 DEF Inv
<1>6. CASE ShopNext /\ UNCHANGED <<seasonVars, gateVars>>
  <2>1. SeasonInv'
    BY <1>6, SeasonNextInv DEF Inv
  <2>2. ShopInv'
    BY <1>6, ShopNextInv DEF Inv
  <2>3. BookInv'
    BY <1>6, BookFrame DEF Inv, gateVars
  <2>4. GatesOfSeasons'
    BY <1>6 DEF Inv, GatesOfSeasons, gateVars, bookVars, seasonVars
  <2>5. WaitingInv'
    BY <1>6, WaitingFrame DEF Inv, gateVars, rankVars
  <2> QED BY <2>1, <2>2, <2>3, <2>4, <2>5 DEF Inv
<1>7. CASE UNCHANGED vars
  <2>1. SeasonInv' /\ ShopInv' /\ GatesOfSeasons' /\ WaitingInv'
    BY <1>7, OtherFrame DEF vars, gateVars, bookVars, rankVars
  <2>2. BookInv'
    BY <1>7, BookFrame DEF Inv, vars, gateVars
  <2> QED BY <2>1, <2>2 DEF Inv
<1> QED
  BY <1>1, <1>2, <1>3, <1>4, <1>5, <1>6, <1>7 DEF Next, HuntersNext, OthersNext, ShopNext

(* The contracts as deployed satisfy the invariant.                        *)
LEMMA InitInv == Init => Inv
<1> SUFFICES ASSUME Init PROVE Inv
  OBVIOUS
<1>1. SeasonInv /\ ShopInv
  BY SeasonInitInv, ShopInitInv DEF Init
<1>2. gates = <<>> /\ gates \in Seq(Gate) /\ Len(gates) = 0 /\ DOMAIN gates = {}
  BY DEF Init, GateInit
<1>3. waiting = <<>> /\ waiting \in Seq(Entry) /\ DOMAIN waiting = {}
  BY DEF Init, GateInit
<1>4. usdTokenContract \in UsdTokens
  BY DEF Init, ShopInit
<1>5. GateTypeOK
  BY <1>2, <1>3, <1>4 DEF Init, GateInit, GateTypeOK
<1>6. SlotsExact /\ GatesOfSeasons /\ WaitingInv
  BY <1>2, <1>3 DEF Init, GateInit, SlotsExact, GatesOfSeasons, WaitingInv
<1>7. RankTokenUnique
  BY RankFacts DEF Init, GateInit, RankTokenUnique
<1>8. SignaturesUsed /\ OneRewardPerSignature /\ PacksOpen
  BY FS_EmptySet DEF Init, GateInit, SignaturesUsed, OneRewardPerSignature, PacksOpen
<1> QED BY <1>1, <1>5, <1>6, <1>7, <1>8 DEF Inv, BookInv

----------------------------------------------------------------------------
(* The invariant holds in every behaviour of the composition.              *)
THEOREM InvariantHolds == Spec => []Inv
BY InitInv, NextInv, PTL DEF Spec

(* The variables of the gate, the shop, the tokens and the seasons keep    *)
(* their types; no balance goes negative.                                  *)
THEOREM TypeCorrect == Spec => []TypeOK
BY InvariantHolds, TypesOfInv, PTL

(* enterToGate and clearGate keep the slots equal to the open gates.       *)
THEOREM SlotsExactHolds == Spec => []SlotsExact
<1>1. Inv => SlotsExact
  BY DEF Inv, BookInv
<1> QED BY <1>1, InvariantHolds, PTL

(* The rank-up of enterToGate never mints a token that a hunter who is a   *)
(* plain account holds, whatever contracts do within and between calls:    *)
(* the rank read before the key is bought is still the hunter's then.      *)
THEOREM RankTokenUniqueHolds == Spec => []RankTokenUnique
<1>1. Inv => RankTokenUnique
  BY DEF Inv, BookInv
<1> QED BY <1>1, InvariantHolds, PTL

(* No two monsters or packs of clearGate are drawn from one signature: a   *)
(* clear draws from signatures of nonces never used before, and uses up    *)
(* all those it draws from.                                                *)
THEOREM OneRewardPerSignatureHolds == Spec => []OneRewardPerSignature
<1>1. Inv => OneRewardPerSignature
  BY DEF Inv, BookInv
<1> QED BY <1>1, InvariantHolds, PTL

(* closeToken can close neither packs nor stones that were minted, in      *)
(* whatever way: by a clear or, for stones, by a sale.                     *)
THEOREM MintedTokensOpenHolds == Spec => []MintedTokensOpen
<1>1. Inv => MintedTokensOpen
  BY DEF Inv, BookInv, ShopInv, PacksOpen, StoneOpened, MintedTokensOpen
<1> QED BY <1>1, InvariantHolds, PTL

(* The purchase inside enterToGate leaves no coin in the gate.             *)
THEOREM GateKeepsNothingHolds == Spec => []GateKeepsNothing
<1>1. Inv => GateKeepsNothing
  BY DEF Inv, ShopInv, GateKeepsNothing
<1> QED BY <1>1, InvariantHolds, PTL

----------------------------------------------------------------------------
(* What a step of the game is to the books, the ranks, the keys and the    *)
(* coins: the entries and clears, a burned rank, a step of the seasons or  *)
(* of the shop, or nothing.                                                *)
LEMMA StepsOfGame ==
    ASSUME Inv, [Next]_vars
    PROVE  \/ \E h \in Hunters, season \in SeasonId, rank \in RankType, hunterRank \in RankType :
                  Enters(h, season, rank, hunterRank)
           \/ \E h \in Hunters, season \in SeasonId, rank \in RankType, value \in Nat :
                  Acting(h) /\ buyForEntry(h, season, rank, value)
           \/ \E h \in Hunters, g \in DOMAIN gates : \E signatures : clearGate(h, g, signatures)
           \/ BurnRankToken
           \/ SeasonNext /\ UNCHANGED <<shopVars, gateVars>>
           \/ ShopNext /\ UNCHANGED <<seasonVars, gateVars>>
           \/ UNCHANGED <<seasonVars, shopVars, bookVars, waiting, rankToken>>
<1>1. CASE EnterWithKey \/ finishEntry
  BY <1>1, EntryThatGoesOn
<1>2. CASE BuyForEntry
  BY <1>2, EntryThatBuys
<1>3. CASE \E g \in DOMAIN gates : ClearGate(g)
  BY <1>3 DEF ClearGate
<1>4. CASE VerifyRandomSignature \/ ConfigureGate \/ Stock \/ UNCHANGED vars
  BY <1>4 DEF VerifyRandomSignature, verifyRandomSignature, ConfigureGate, ConfigureTables,
        setCanMint, setApproveUSDTokenContract, Stock, addMonster, setMonsterRankType,
        openToken, closeToken, stockVarsOnly, vars, gateVars, rankVars
<1> QED
  BY <1>1, <1>2, <1>3, <1>4 DEF Next, HuntersNext, OthersNext, ShopNext

(* The slots of a hunter are finitely many.                                *)
LEMMA SlotsFinite ==
    ASSUME Inv, NEW h \in Hunters
    PROVE  /\ IsFiniteSet(gateOfHunterSlot[h]) /\ getHunterUsingSlot(h) \in Nat
           /\ Len(gates) + 1 \notin gateOfHunterSlot[h]
<1>1. gateOfHunterSlot[h] \subseteq 1..Len(gates) /\ Len(gates) \in Nat
  BY DEF Inv, BookInv, GateTypeOK
<1>2. IsFiniteSet(1..Len(gates))
  BY <1>1, FS_Interval
<1>3. IsFiniteSet(gateOfHunterSlot[h])
  BY <1>1, <1>2, FS_Subset
<1> QED BY <1>1, <1>3, FS_CardinalityType DEF getHunterUsingSlot

(* Only an entry takes a slot, and it found one free.                      *)
LEMMA SlotsBoundedStep == Inv /\ SlotsBounded /\ [Next]_vars => SlotsBounded'
<1> SUFFICES ASSUME Inv, SlotsBounded, [Next]_vars, NEW k \in Hunters
             PROVE  \E table \in SlotTables, r \in RankType :
                       Cardinality(gateOfHunterSlot'[k]) <= table[r]
  BY DEF SlotsBounded, getHunterUsingSlot
<1>1. \E table \in SlotTables, r \in RankType :
         Cardinality(gateOfHunterSlot[k]) <= table[r] /\ table[r] \in Nat
  BY TablesAssumption DEF SlotsBounded, getHunterUsingSlot
<1>2. ASSUME NEW h \in Hunters, NEW season \in SeasonId, NEW rank \in RankType,
             NEW hunterRank, Enters(h, season, rank, hunterRank)
      PROVE  \E table \in SlotTables, r \in RankType :
                Cardinality(gateOfHunterSlot'[k]) <= table[r]
  <2>1. CASE k = h
    <3>1. gateOfHunterSlot'[k] = gateOfHunterSlot[k] \union {Len(gates) + 1}
      BY <1>2, <2>1 DEF Enters, goOn, recordGate, Inv, BookInv, GateTypeOK
    <3>2. Cardinality(gateOfHunterSlot'[k]) = getHunterUsingSlot(k) + 1
      BY <3>1, SlotsFinite, FS_AddElement DEF getHunterUsingSlot
    <3>3. PICK r : r = getHunterRank(season, h)
      OBVIOUS
    <3>4. getHunterUsingSlot(k) < slotPerHunterRank[r]
      BY <1>2, <2>1, <3>3 DEF Enters, goOn, hasFreeSlot
    <3>5. r \in RankType
      BY <1>2, <3>3, EntersFacts, RankRead
    <3>6. slotPerHunterRank \in SlotTables /\ slotPerHunterRank[r] \in Nat
      BY <3>5, TablesAssumption DEF Inv, BookInv, GateTypeOK
    <3> QED BY <3>2, <3>4, <3>5, <3>6, SlotsFinite
  <2>2. CASE k # h
    <3>1. gateOfHunterSlot'[k] = gateOfHunterSlot[k]
      BY <1>2, <2>2 DEF Enters, goOn, recordGate, Inv, BookInv, GateTypeOK
    <3> QED BY <3>1, <1>1
  <2> QED BY <2>1, <2>2
<1>3. ASSUME NEW h \in Hunters, NEW g \in DOMAIN gates, NEW signatures,
             clearGate(h, g, signatures)
      PROVE  \E table \in SlotTables, r \in RankType :
                Cardinality(gateOfHunterSlot'[k]) <= table[r]
  <2>1. gateOfHunterSlot'[k] \subseteq gateOfHunterSlot[k]
    BY <1>3 DEF clearGate, recordClear, Inv, BookInv, GateTypeOK
  <2>2. /\ Cardinality(gateOfHunterSlot'[k]) <= Cardinality(gateOfHunterSlot[k])
        /\ IsFiniteSet(gateOfHunterSlot'[k])
    BY <2>1, SlotsFinite, FS_Subset
  <2>3. Cardinality(gateOfHunterSlot'[k]) \in Nat /\ Cardinality(gateOfHunterSlot[k]) \in Nat
    BY <2>2, SlotsFinite, FS_CardinalityType
  <2> QED BY <1>1, <2>2, <2>3
<1>4. CASE UNCHANGED gateOfHunterSlot
  BY <1>1, <1>4
<1>5. CASE \E h \in Hunters, season \in SeasonId, rank \in RankType, hunterRank \in RankType :
            Enters(h, season, rank, hunterRank)
  BY <1>2, <1>5
<1>6. CASE \E h \in Hunters, season \in SeasonId, rank \in RankType, value \in Nat :
            Acting(h) /\ buyForEntry(h, season, rank, value)
  <2>1. UNCHANGED gateOfHunterSlot
    BY <1>6 DEF buyForEntry, bookVars
  <2> QED BY <2>1, <1>4
<1>7. CASE \E h \in Hunters, g \in DOMAIN gates : \E signatures : clearGate(h, g, signatures)
  BY <1>3, <1>7
<1>8. CASE BurnRankToken
  <2>1. UNCHANGED gateOfHunterSlot
    BY <1>8 DEF BurnRankToken, burnRankToken, bookVars
  <2> QED BY <2>1, <1>4
<1>9. CASE \/ SeasonNext /\ UNCHANGED <<shopVars, gateVars>>
           \/ ShopNext /\ UNCHANGED <<seasonVars, gateVars>>
           \/ UNCHANGED <<seasonVars, shopVars, bookVars, waiting, rankToken>>
  <2>1. UNCHANGED gateOfHunterSlot
    BY <1>9 DEF gateVars, bookVars
  <2> QED BY <2>1, <1>4
<1> QED
  BY <1>5, <1>6, <1>7, <1>8, <1>9, StepsOfGame

(* The check of enterToGate bounds the open gates of a hunter by a slot    *)
(* number that was in force, in every behaviour, although the hunter may   *)
(* enter other gates between the purchase of the key and the check.        *)
THEOREM SlotsBoundedHolds == Spec => []SlotsBounded
<1>1. Init => SlotsBounded
  <2> SUFFICES ASSUME Init, NEW h \in Hunters
               PROVE  \E table \in SlotTables, r \in RankType : getHunterUsingSlot(h) <= table[r]
    BY DEF SlotsBounded
  <2>1. getHunterUsingSlot(h) = 0
    BY FS_EmptySet DEF Init, GateInit, getHunterUsingSlot
  <2>2. slotPerHunterRank \in SlotTables /\ slotPerHunterRank[RankE] \in Nat /\ RankE \in RankType
    BY RankFacts, TablesAssumption DEF Init, GateInit
  <2> QED BY <2>1, <2>2
<1> QED BY <1>1, SlotsBoundedStep, InvariantHolds, PTL DEF Spec

----------------------------------------------------------------------------
(* Ranks and what was entered for them                                     *)

(* The gates a hunter ever entered; those open are the hunter's slots.     *)
EnteredBy(h) == {g \in DOMAIN gates : gates[g].hunter = h}

(* They are finitely many, and an entry adds one to the hunter's own.      *)
LEMMA EnteredFinite ==
    ASSUME Inv, NEW h \in Hunters
    PROVE  IsFiniteSet(EnteredBy(h)) /\ Cardinality(EnteredBy(h)) \in Nat
<1>1. gates \in Seq(Gate) /\ EnteredBy(h) \subseteq 1..Len(gates) /\ Len(gates) \in Nat
  BY DEF Inv, BookInv, GateTypeOK, EnteredBy
<1>2. IsFiniteSet(1..Len(gates))
  BY <1>1, FS_Interval
<1> QED BY <1>1, <1>2, FS_Subset, FS_CardinalityType

(* Their number is one.                                                    *)
LEMMA EnteredNat == Inv => \A k \in Hunters : Cardinality(EnteredBy(k)) \in Nat
BY EnteredFinite

(* An entry adds one to the gates its hunter entered, and to no other's.   *)
LEMMA EntryAddsOne ==
    ASSUME Inv, NEW h \in Hunters, NEW season \in SeasonId, NEW rank \in RankType,
           recordGate(season, rank, h), NEW k \in Hunters
    PROVE  Cardinality(EnteredBy(k)') =
              IF k = h THEN Cardinality(EnteredBy(k)) + 1 ELSE Cardinality(EnteredBy(k))
<1>1. /\ Len(gates) \in Nat
      /\ DOMAIN gates = 1..Len(gates) /\ DOMAIN gates' = 1..(Len(gates) + 1)
      /\ \A g \in 1..Len(gates) : gates'[g] = gates[g]
      /\ gates'[Len(gates) + 1].hunter = h
  BY RecordGateStep
<1>2. \A g : g \in DOMAIN gates' <=> g \in 1..Len(gates) \/ g = Len(gates) + 1
  BY <1>1
<1>3. Len(gates) + 1 \notin EnteredBy(k)
  BY <1>1 DEF EnteredBy
<1>4. CASE k = h
  <2>1. EnteredBy(k)' = EnteredBy(k) \union {Len(gates) + 1}
    BY <1>1, <1>2, <1>4 DEF EnteredBy
  <2> QED BY <2>1, <1>3, <1>4, EnteredFinite, FS_AddElement
<1>5. CASE k # h
  <2>1. EnteredBy(k)' = EnteredBy(k)
    BY <1>1, <1>2, <1>5 DEF EnteredBy
  <2> QED BY <2>1, <1>5
<1> QED BY <1>4, <1>5

(* A rank-up gives the rank after the one read to a hunter whose count     *)
(* then reaches what the table in force asks for; no other token changes.  *)
LEMMA RankUpStep ==
    ASSUME Inv, NEW h \in Hunters, NEW season \in 0..(seasonIds - 1),
           NEW hunterRank \in RankType, NEW count, rankUp(season, h, hunterRank, count),
           NEW c \in HunterRankCollections, NEW k \in Hunters, NEW r \in RankD..RankS,
           rankToken'[c][k][r] > 0
    PROVE  \/ rankToken[c][k][r] > 0
           \/ k = h /\ r - 1 = hunterRank /\ requiredGateCountForRankUp[r - 1] <= count
<1>1. PICK d : d = seasons[season].uses.hunterRank
  OBVIOUS
<1>2. d \in HunterRankCollections
  BY <1>1, RankCollection
<1>3. rankToken \in [HunterRankCollections -> [Hunters -> [RankType -> Nat]]]
  BY DEF Inv, BookInv, GateTypeOK
<1>4. CASE UNCHANGED rankToken
  BY <1>4
<1>5. CASE /\ requiredGateCountForRankUp[hunterRank] <= count
           /\ rankToken' = [rankToken EXCEPT ![d][h][hunterRank + 1] = @ + 1]
  <2>1. CASE c = d /\ k = h /\ r = hunterRank + 1
    <3>1. r - 1 = hunterRank
      BY <2>1, RankFacts
    <3> QED BY <3>1, <2>1, <1>5
  <2>2. CASE ~ (c = d /\ k = h /\ r = hunterRank + 1)
    BY <2>2, <1>3, <1>5
  <2> QED BY <2>1, <2>2
<1> QED BY <1>1, <1>2, <1>4, <1>5 DEF rankUp

(* Where no gate is entered, the gates' hunters and the counts stay, and   *)
(* rank tokens are only ever burned.                                       *)
LEMMA NoEntryStep ==
    ASSUME Inv, [Next]_vars,
           ~ (\E h \in Hunters, season \in SeasonId, rank \in RankType, hunterRank \in RankType :
                  Enters(h, season, rank, hunterRank))
    PROVE  /\ \A k : EnteredBy(k)' = EnteredBy(k)
           /\ gateCountOfSeason' = gateCountOfSeason
           /\ \A c \in HunterRankCollections, k \in Hunters, r \in RankType :
                  rankToken'[c][k][r] > 0 => rankToken[c][k][r] > 0
<1>1. ASSUME NEW h \in Hunters, NEW g \in DOMAIN gates, NEW signatures,
             clearGate(h, g, signatures)
      PROVE  /\ \A k : EnteredBy(k)' = EnteredBy(k)
             /\ gateCountOfSeason' = gateCountOfSeason /\ UNCHANGED rankToken
  <2>1. /\ DOMAIN gates' = DOMAIN gates
        /\ \A i \in DOMAIN gates : gates'[i].hunter = gates[i].hunter
    BY <1>1, ClearBook
  <2> QED BY <1>1, <2>1 DEF EnteredBy, clearGate, rankVars
<1>2. ASSUME NEW h \in Hunters, NEW d \in HunterRankCollections, NEW rank \in RankType,
             burnRankToken(h, d, rank)
      PROVE  /\ UNCHANGED bookVars
             /\ \A c \in HunterRankCollections, k \in Hunters, r \in RankType :
                    rankToken'[c][k][r] > 0 => rankToken[c][k][r] > 0
  <2>1. /\ rankToken \in [HunterRankCollections -> [Hunters -> [RankType -> Nat]]]
        /\ rankToken[d][h][rank] > 0
        /\ rankToken' = [rankToken EXCEPT ![d][h][rank] = rankToken[d][h][rank] - 1]
    BY <1>2 DEF burnRankToken, Inv, BookInv, GateTypeOK
  <2>2. ASSUME NEW c \in HunterRankCollections, NEW k \in Hunters, NEW r \in RankType,
               rankToken'[c][k][r] > 0
        PROVE  rankToken[c][k][r] > 0
    <3>1. CASE c = d /\ k = h /\ r = rank
      BY <2>1, <3>1
    <3>2. CASE ~ (c = d /\ k = h /\ r = rank)
      BY <2>1, <2>2, <3>2
    <3> QED BY <3>1, <3>2
  <2> QED BY <1>2, <2>2 DEF burnRankToken
<1>3. CASE UNCHANGED <<bookVars, rankToken>>
  BY <1>3 DEF bookVars, EnteredBy
<1>4. CASE BurnRankToken
  BY <1>4, <1>2 DEF BurnRankToken, bookVars, EnteredBy
<1>5. CASE \/ SeasonNext /\ UNCHANGED <<shopVars, gateVars>>
           \/ ShopNext /\ UNCHANGED <<seasonVars, gateVars>>
           \/ UNCHANGED <<seasonVars, shopVars, bookVars, waiting, rankToken>>
  <2>1. UNCHANGED <<bookVars, rankToken>>
    BY <1>5 DEF gateVars, rankVars
  <2> QED BY <2>1, <1>3
<1>6. CASE \E h \in Hunters, season \in SeasonId, rank \in RankType, value \in Nat :
               Acting(h) /\ buyForEntry(h, season, rank, value)
  <2>1. UNCHANGED <<bookVars, rankToken>>
    BY <1>6 DEF buyForEntry, rankVars
  <2> QED BY <2>1, <1>3
<1>7. CASE \E h \in Hunters, g \in DOMAIN gates : \E signatures : clearGate(h, g, signatures)
  BY <1>7, <1>1
<1> QED
  BY <1>4, <1>5, <1>6, <1>7, StepsOfGame

(* A hunter who entered as many gates as an entry under way read in rank.  *)
EnteredForRank(e) == Cardinality(EnteredBy(e.hunter)) >= e.hunterRank
WaitingEarned == \A i \in DOMAIN waiting : EnteredForRank(waiting[i])

(* An entry keeps it: the rank below was earned, and this gate is one more.*)
LEMMA RankEarnedStep ==
    Inv /\ RankEarned /\ WaitingEarned /\ [Next]_vars => RankEarned'
<1> SUFFICES ASSUME Inv, RankEarned, WaitingEarned, [Next]_vars,
                    NEW c \in HunterRankCollections, NEW k \in Hunters, NEW r \in RankD..RankS,
                    rankToken'[c][k][r] > 0
             PROVE  /\ Cardinality(EnteredBy(k)') >= r
                    /\ \E s \in SeasonId, table \in RequiredCounts :
                           table[r - 1] <= gateCountOfSeason'[s][k]
  BY DEF RankEarned, EnteredBy
<1>1. r \in RankType /\ r \in Nat /\ r - 1 \in RankE..RankA
  BY RankFacts DEF RankE, RankD, RankA, RankS
<1>2. Cardinality(EnteredBy(k)) \in Nat
  BY EnteredFinite
<1>3. gateCountOfSeason \in [SeasonId -> [Hunters -> Nat]]
  BY DEF Inv, BookInv, GateTypeOK
<1>4. ASSUME rankToken[c][k][r] > 0
      PROVE  /\ Cardinality(EnteredBy(k)) >= r
             /\ \E s \in SeasonId, table \in RequiredCounts :
                    table[r - 1] <= gateCountOfSeason[s][k]
  BY <1>4 DEF RankEarned, EnteredBy
<1>5. ASSUME NEW h \in Hunters, NEW season \in SeasonId, NEW rank \in RankType,
             NEW hunterRank \in RankType, Enters(h, season, rank, hunterRank)
      PROVE  /\ Cardinality(EnteredBy(k)') >= r
             /\ \E s \in SeasonId, table \in RequiredCounts :
                    table[r - 1] <= gateCountOfSeason'[s][k]
  <2>1. season \in 0..(seasonIds - 1)
    BY <1>5, EntersFacts
  <2>2. PICK count : count = gateCountOfSeason[season][h] + GateWeight(rank)
    OBVIOUS
  <2>3. /\ rankUp(season, h, hunterRank, count)
        /\ gateCountOfSeason' = [gateCountOfSeason EXCEPT ![season][h] = count]
    BY <1>5, <2>2 DEF Enters, goOn, countGate
  <2>4. GateWeight(rank) \in Nat
    BY RankFacts DEF GateWeight
  <2>5. /\ gateCountOfSeason'[season][h] = count
        /\ \A s \in SeasonId : gateCountOfSeason[s][k] <= gateCountOfSeason'[s][k]
                               /\ gateCountOfSeason'[s][k] \in Nat
                               /\ gateCountOfSeason[s][k] \in Nat
    BY <1>3, <2>2, <2>3, <2>4
  <2>6. Cardinality(EnteredBy(k)') =
           IF k = h THEN Cardinality(EnteredBy(k)) + 1 ELSE Cardinality(EnteredBy(k))
    BY <1>5, EntryAddsOne DEF Enters, goOn
  <2>7. CASE rankToken[c][k][r] > 0
    <3>1. PICK s \in SeasonId, table \in RequiredCounts :
               table[r - 1] <= gateCountOfSeason[s][k]
      BY <1>4, <2>7
    <3>2. table[r - 1] \in Nat
      BY <1>1, TablesAssumption DEF RankOfUpgrade
    <3>3. table[r - 1] <= gateCountOfSeason'[s][k]
      BY <2>5, <3>1, <3>2
    <3>4. Cardinality(EnteredBy(k)') >= r
      BY <1>1, <1>2, <1>4, <2>6, <2>7
    <3> QED BY <3>3, <3>4
  <2>8. CASE k = h /\ r - 1 = hunterRank /\ requiredGateCountForRankUp[r - 1] <= count
    <3>1. Cardinality(EnteredBy(k)) >= r - 1
      <4>1. CASE mayEnter(h, season, rank) /\ hunterRank = getHunterRank(season, h)
        <5>1. \/ r - 1 = RankE
              \/ rankToken[seasons[season].uses.hunterRank][k][r - 1] > 0
          BY <2>1, <2>8, <4>1, RankRead
        <5>2. seasons[season].uses.hunterRank \in HunterRankCollections
          BY <2>1, RankCollection
        <5>3. r - 1 # RankE => r - 1 \in RankD..RankS
          BY RankFacts DEF RankE, RankD, RankA, RankS
        <5>4. CASE r - 1 = RankE
          BY <1>2, <5>4 DEF RankE
        <5>5. CASE r - 1 # RankE
          BY <5>1, <5>2, <5>3, <5>5 DEF RankEarned, EnteredBy
        <5> QED BY <5>4, <5>5
      <4>2. CASE waiting # <<>> /\ h = InnerEntry.hunter /\ hunterRank = InnerEntry.hunterRank
        BY <2>8, <4>2, WaitingFacts DEF WaitingEarned, EnteredForRank
      <4> QED BY <1>5, <4>1, <4>2 DEF Enters
    <3>2. Cardinality(EnteredBy(k)') >= r
      BY <1>1, <1>2, <2>6, <2>8, <3>1
    <3>3. requiredGateCountForRankUp \in RequiredCounts
      BY DEF Inv, BookInv, GateTypeOK
    <3> QED BY <2>5, <2>8, <3>2, <3>3
  <2> QED BY <2>1, <2>3, <2>7, <2>8, RankUpStep
<1>6. CASE ~ (\E h \in Hunters, season \in SeasonId, rank \in RankType, hunterRank \in RankType :
                 Enters(h, season, rank, hunterRank))
  <2>1. rankToken[c][k][r] > 0
    BY <1>1, <1>6, NoEntryStep
  <2> QED BY <1>4, <1>6, <2>1, NoEntryStep
<1> QED BY <1>5, <1>6

(* The rank an entry under way has read was earned when it read it, and    *)
(* gates entered stay entered.                                             *)
LEMMA WaitingEarnedStep ==
    Inv /\ RankEarned /\ WaitingEarned /\ [Next]_vars => WaitingEarned'
<1> SUFFICES ASSUME Inv, RankEarned, WaitingEarned, [Next]_vars PROVE WaitingEarned'
  OBVIOUS
<1>1. waiting \in Seq(Entry)
  BY DEF Inv, BookInv, GateTypeOK
<1>2. ASSUME NEW i \in DOMAIN waiting
      PROVE  /\ waiting[i].hunter \in Hunters /\ waiting[i].hunterRank \in Nat
             /\ Cardinality(EnteredBy(waiting[i].hunter)) >= waiting[i].hunterRank
  <2>1. waiting[i] \in Entry
    BY <1>1
  <2> QED BY <2>1, RankFacts DEF Entry, WaitingEarned, EnteredForRank
<1>3. ASSUME NEW k \in Hunters
      PROVE  Cardinality(EnteredBy(k)') >= Cardinality(EnteredBy(k))
  <2>1. Cardinality(EnteredBy(k)) \in Nat
    BY EnteredFinite
  <2>2. ASSUME NEW h \in Hunters, NEW season \in SeasonId, NEW rank \in RankType,
               NEW hunterRank, Enters(h, season, rank, hunterRank)
        PROVE  Cardinality(EnteredBy(k)') >= Cardinality(EnteredBy(k))
    BY <2>1, <2>2, EntryAddsOne DEF Enters, goOn
  <2> QED BY <2>1, <2>2, NoEntryStep
<1>4. ASSUME NEW f, f.hunter \in Hunters, f.hunterRank \in Nat,
             Cardinality(EnteredBy(f.hunter)) >= f.hunterRank
      PROVE  EnteredForRank(f)'
  <2>1. Cardinality(EnteredBy(f.hunter)) \in Nat /\ Cardinality(EnteredBy(f.hunter)') \in Nat
    <3>1. Inv'
      BY NextInv
    <3>2. (Inv => \A k \in Hunters : Cardinality(EnteredBy(k)) \in Nat)'
      BY EnteredNat, PTL
    <3> QED BY <1>4, <3>1, <3>2, EnteredNat
  <2>2. Cardinality(EnteredBy(f.hunter)') >= Cardinality(EnteredBy(f.hunter))
    BY <1>3, <1>4
  <2>3. Cardinality(EnteredBy(f.hunter)') >= f.hunterRank
    BY <1>4, <2>1, <2>2
  <2> QED BY <2>3 DEF EnteredForRank
<1>5. CASE \E h \in Hunters, season \in SeasonId, rank \in RankType, hunterRank \in RankType :
               Enters(h, season, rank, hunterRank)
  <2>1. \/ UNCHANGED waiting
        \/ waiting # <<>> /\ waiting' = SubSeq(waiting, 1, Len(waiting) - 1)
    BY <1>5 DEF Enters
  <2>2. waiting # <<>> => Len(waiting) \in Nat \ {0}
    BY WaitingFacts
  <2>3. \A i \in DOMAIN waiting' : i \in DOMAIN waiting /\ waiting'[i] = waiting[i]
    BY <1>1, <2>1, <2>2
  <2> QED BY <1>2, <1>4, <2>3 DEF WaitingEarned, EnteredForRank, EnteredBy
<1>6. ASSUME NEW h \in Hunters, NEW season \in SeasonId, NEW rank \in RankType, NEW value,
             buyForEntry(h, season, rank, value)
      PROVE  WaitingEarned'
  <2>1. PICK q : q = getHunterRank(season, h)
    OBVIOUS
  <2>2. PICK e : e = [hunter |-> h, seasonId |-> season, gateRank |-> rank, hunterRank |-> q]
    OBVIOUS
  <2>3. waiting' = Append(waiting, e) /\ mayEnter(h, season, rank)
    BY <1>6, <2>1, <2>2 DEF buyForEntry
  <2>4. season \in 0..(seasonIds - 1)
    BY <2>3, SeasonExists DEF mayEnter
  <2>5. /\ q \in RankType
        /\ q = RankE \/ rankToken[seasons[season].uses.hunterRank][h][q] > 0
    BY <2>1, <2>4, RankRead
  <2>6. Cardinality(EnteredBy(h)) >= q
    <3>1. seasons[season].uses.hunterRank \in HunterRankCollections
      BY <2>4, RankCollection
    <3>2. Cardinality(EnteredBy(h)) \in Nat
      BY EnteredFinite
    <3>3. CASE q = RankE
      BY <3>2, <3>3 DEF RankE
    <3>4. CASE q # RankE
      <4>1. q \in RankD..RankS
        BY <2>5, <3>4, RankFacts DEF RankD, RankS, RankE
      <4> QED BY <2>5, <3>1, <3>4, <4>1 DEF RankEarned, EnteredBy
    <3> QED BY <3>3, <3>4
  <2>7. e.hunter = h /\ e.hunterRank = q /\ q \in Nat
    BY <2>2, <2>5, RankFacts
  <2>8. EnteredForRank(e)'
    BY <1>4, <2>6, <2>7
  <2>9. ASSUME NEW i \in DOMAIN waiting'
        PROVE  \/ waiting'[i] = e
               \/ i \in DOMAIN waiting /\ waiting'[i] = waiting[i]
    <3>1. e \in Entry
      BY <2>2, <2>5 DEF Entry
    <3> QED BY <1>1, <2>3, <3>1
  <2> QED BY <1>2, <1>4, <2>8, <2>9 DEF WaitingEarned, EnteredForRank, EnteredBy
<1>7. CASE UNCHANGED waiting
  BY <1>2, <1>4, <1>7 DEF WaitingEarned, EnteredForRank, EnteredBy
<1>8. CASE \E h \in Hunters, g \in DOMAIN gates : \E signatures : clearGate(h, g, signatures)
  <2>1. UNCHANGED waiting
    BY <1>8 DEF clearGate
  <2> QED BY <2>1, <1>7
<1>9. CASE BurnRankToken
  <2>1. UNCHANGED waiting
    BY <1>9 DEF BurnRankToken, burnRankToken
  <2> QED BY <2>1, <1>7
<1>10. CASE \/ SeasonNext /\ UNCHANGED <<shopVars, gateVars>>
            \/ ShopNext /\ UNCHANGED <<seasonVars, gateVars>>
            \/ UNCHANGED <<seasonVars, shopVars, bookVars, waiting, rankToken>>
  <2>1. UNCHANGED waiting
    BY <1>10 DEF gateVars
  <2> QED BY <2>1, <1>7
<1> QED
  BY <1>5, <1>6, <1>8, <1>9, <1>10, StepsOfGame

(* A hunter of a rank entered at least as many gates, and some season's    *)
(* count reached what a table asked for the rank: enterToGate is the only  *)
(* way up, a rank at a time, for contracts that enter from within an entry *)
(* too.                                                                    *)
THEOREM RankEarnedHolds == Spec => []RankEarned
<1>1. Init => RankEarned /\ WaitingEarned
  <2>1. RankD..RankS \subseteq RankType
    BY RankFacts DEF RankD, RankS
  <2>2. Init => waiting = <<>> /\ DOMAIN waiting = {}
    BY DEF Init, GateInit
  <2> QED BY <2>1, <2>2 DEF Init, GateInit, RankEarned, WaitingEarned
<1> QED BY <1>1, RankEarnedStep, WaitingEarnedStep, InvariantHolds, PTL DEF Spec

----------------------------------------------------------------------------
(* Keys, stones and gate counts                                            *)

(* The key an entry buys is sold as any other.                             *)
LEMMA EntrySellsAtListPrice ==
    ASSUME Inv, NEW h \in Hunters, NEW season \in SeasonId, NEW rank \in RankType,
           NEW value \in Nat, buyForEntry(h, season, rank, value),
           NEW price, price = KeysCost([r \in RankType |-> keyMinted'[r] - keyMinted[r]])
    PROVE  /\ HuntersOwn(PayCoin) - (HuntersOwn(PayCoin))' = price
           /\ coin'[PayCoin][ShopAccount] - coin[PayCoin][ShopAccount] = price
<1>1. ShopTypeOK /\ keyMinted \in [RankType -> Nat]
  BY DEF Inv, ShopInv, ShopTypeOK
<1>2. PICK p : p = keyPrice[priceMode][rank]
  OBVIOUS
<1>3. /\ p \in Nat /\ PayCoin \in Coin
      /\ coin' = Moved(coin, PayCoin, h, ShopAccount, p)
  BY <1>1, <1>2, EntryPurchase
<1>4. [r \in RankType |-> keyMinted'[r] - keyMinted[r]] = KeysOf(rank, 1)
  <2>1. \A r \in RankType : keyMinted'[r] - keyMinted[r] = IF r = rank THEN 1 ELSE 0
    BY <1>1 DEF buyForEntry, mintKeys, KeysOf
  <2> QED BY <2>1 DEF KeysOf
<1>5. price = p
  BY <1>1, <1>2, <1>4, OneKeyCost
<1>6. UNCHANGED configVars
  BY DEF buyForEntry
<1> QED BY <1>1, <1>3, <1>5, <1>6, SaleAtListPrice

(* In the whole game every key that is minted is paid for by hunters, at   *)
(* the list price, to the shop, but for those the operators mint.          *)
THEOREM KeysSoldAtListPriceInGame == Spec => KeysSoldAtListPrice
<1>1. ASSUME Inv, [Next]_vars, keyMinted' # keyMinted, ~ MintKey,
             NEW price, price = KeysCost([r \in RankType |-> keyMinted'[r] - keyMinted[r]])
      PROVE  /\ HuntersOwn(PayCoin) - (HuntersOwn(PayCoin))' = price
             /\ coin'[PayCoin][ShopAccount] - coin[PayCoin][ShopAccount] = price
  <2>1. \/ \E h \in Hunters, season \in SeasonId, rank \in RankType, value \in Nat :
               buyForEntry(h, season, rank, value)
        \/ ShopNext
    <3>1. ASSUME NEW h, NEW season, NEW rank, NEW hunterRank, Enters(h, season, rank, hunterRank)
          PROVE  keyMinted' = keyMinted
      BY <3>1 DEF Enters, goOn
    <3>2. ASSUME NEW h, NEW g, NEW signatures, clearGate(h, g, signatures)
          PROVE  keyMinted' = keyMinted
      BY <3>2 DEF clearGate
    <3>3. BurnRankToken => keyMinted' = keyMinted
      BY DEF BurnRankToken, burnRankToken, shopVars, tokenVars
    <3>4. UNCHANGED shopVars => keyMinted' = keyMinted
      BY DEF shopVars, tokenVars
    <3> QED BY <1>1, <3>1, <3>2, <3>3, <3>4, StepsOfGame DEF gateVars
  <2>2. CASE ShopNext
    BY <1>1, <2>2, SoldAtListPrice, OperatorsMintNoOther DEF ShopNext, Inv, ShopInv
  <2>3. CASE \E h \in Hunters, season \in SeasonId, rank \in RankType, value \in Nat :
                 buyForEntry(h, season, rank, value)
    BY <1>1, <2>3, EntrySellsAtListPrice
  <2> QED BY <2>1, <2>2, <2>3
<1>2. Inv /\ [Next]_vars =>
          [keyMinted' # keyMinted /\ ~ MintKey =>
              LET price == KeysCost([r \in RankType |-> keyMinted'[r] - keyMinted[r]])
              IN  /\ HuntersOwn(PayCoin) - (HuntersOwn(PayCoin))' = price
                  /\ coin'[PayCoin][ShopAccount] - coin[PayCoin][ShopAccount] = price]_shopVars
  BY <1>1
<1> QED BY <1>2, InvariantHolds, PTL DEF Spec, KeysSoldAtListPrice

(* The gates of a rank are finitely many, and an entry adds one to those   *)
(* of its rank.                                                            *)
GatesOfRank(r) == {g \in DOMAIN gates : gates[g].gateRank = r}

(* The gates of a rank can be counted.                                     *)
LEMMA GatesOfRankFinite ==
    ASSUME Inv, NEW r
    PROVE  IsFiniteSet(GatesOfRank(r)) /\ Cardinality(GatesOfRank(r)) \in Nat
<1>1. gates \in Seq(Gate) /\ GatesOfRank(r) \subseteq 1..Len(gates) /\ Len(gates) \in Nat
  BY DEF Inv, BookInv, GateTypeOK, GatesOfRank
<1>2. IsFiniteSet(1..Len(gates))
  BY <1>1, FS_Interval
<1> QED BY <1>1, <1>2, FS_Subset, FS_CardinalityType

(* An entry adds a gate of its rank.                                       *)
LEMMA EntryAddsGateOfRank ==
    ASSUME Inv, NEW h \in Hunters, NEW season \in SeasonId, NEW rank \in RankType,
           recordGate(season, rank, h), NEW r
    PROVE  Cardinality(GatesOfRank(r)')
               = Cardinality(GatesOfRank(r)) + (IF r = rank THEN 1 ELSE 0)
<1>1. /\ Len(gates) \in Nat
      /\ DOMAIN gates = 1..Len(gates) /\ DOMAIN gates' = 1..(Len(gates) + 1)
      /\ \A g \in 1..Len(gates) : gates'[g] = gates[g]
      /\ gates'[Len(gates) + 1].gateRank = rank
  BY RecordGateStep
<1>2. \A g : g \in DOMAIN gates' <=> g \in 1..Len(gates) \/ g = Len(gates) + 1
  BY <1>1
<1>3. Len(gates) + 1 \notin GatesOfRank(r)
  BY <1>1 DEF GatesOfRank
<1>4. CASE r = rank
  <2>1. GatesOfRank(r)' = GatesOfRank(r) \union {Len(gates) + 1}
    BY <1>1, <1>2, <1>4 DEF GatesOfRank
  <2> QED BY <2>1, <1>3, <1>4, GatesOfRankFinite, FS_AddElement
<1>5. CASE r # rank
  <2>1. GatesOfRank(r)' = GatesOfRank(r)
    BY <1>1, <1>2, <1>5 DEF GatesOfRank
  <2> QED BY <2>1, <1>5, GatesOfRankFinite
<1> QED BY <1>4, <1>5

(* The key an entry burns pays for its gate.                               *)
LEMMA EntryKeepsKeys ==
    ASSUME Inv, NEW h \in Hunters, NEW season \in SeasonId, NEW rank \in RankType,
           NEW hunterRank, Enters(h, season, rank, hunterRank), NEW r \in RankType
    PROVE  /\ KeysHeld(r)' + Cardinality(GatesOfRank(r)')
                  = KeysHeld(r) + Cardinality(GatesOfRank(r))
           /\ keyMinted' = keyMinted
<1>1. KeyTypeOK /\ KeysHeld(r) \in Nat /\ Cardinality(GatesOfRank(r)) \in Nat
  BY KeysHeldNat, GatesOfRankFinite DEF Inv, ShopInv, ShopTypeOK, KeyTypeOK
<1>2. Cardinality(GatesOfRank(r)')
          = Cardinality(GatesOfRank(r)) + (IF r = rank THEN 1 ELSE 0)
  BY EntryAddsGateOfRank DEF Enters, goOn
<1>3. key[h][rank] > 0 /\ key' = [key EXCEPT ![h][rank] = @ - 1] /\ keyMinted' = keyMinted
  BY DEF Enters, goOn, burnEntryKey
<1>4. /\ KeyTypeOK' /\ key[h][r] \in Nat
      /\ key'[h][r] = key[h][r] - (IF r = rank THEN 1 ELSE 0)
      /\ \A k \in Hunters \ {h} : key'[k][r] = key[k][r]
  BY <1>1, <1>3 DEF KeyTypeOK
<1>5. KeysHeld(r)' = KeysHeld(r) - key[h][r] + key'[h][r]
  BY <1>1, <1>4, KeysHeldUpdate
<1> QED BY <1>1, <1>2, <1>3, <1>4, <1>5

(* No key pays for two gates, and none that was burned or passed on pays   *)
(* for another, not even one a contract that is called back uses for an    *)
(* entry of its own: what is minted of a rank covers the keys held and the *)
(* gates entered, in every behaviour.                                      *)
THEOREM KeyAccountingHolds == Spec => []KeyAccounting
<1> DEFINE K == \A r \in RankType :
                    KeysHeld(r) + Cardinality(GatesOfRank(r)) <= keyMinted[r]
<1>1. KeyAccounting <=> K
  BY DEF KeyAccounting, KeysHeld, GatesOfRank
<1>2. Init => K
  <2> SUFFICES ASSUME Init, NEW r \in RankType
               PROVE  KeysHeld(r) + Cardinality(GatesOfRank(r)) <= keyMinted[r]
    OBVIOUS
  <2> DEFINE f == [h \in Hunters |-> key[h][r]]
  <2>1. \A h \in Hunters : f[h] = 0
    BY DEF Init, ShopInit
  <2>2. SumFunctionOnSet(f, Hunters) = 0
    BY <2>1, HuntersAssumption, SumZero
  <2>3. KeysHeld(r) = 0
    BY <2>2 DEF KeysHeld, SumFunction
  <2>4. GatesOfRank(r) = {}
    BY DEF Init, GateInit, GatesOfRank
  <2>5. keyMinted[r] = 0
    BY DEF Init, ShopInit
  <2> QED BY <2>3, <2>4, <2>5, FS_EmptySet
<1>3. Inv /\ K /\ [Next]_vars => K'
  <2> SUFFICES ASSUME Inv, K, [Next]_vars, NEW r \in RankType
               PROVE  KeysHeld(r)' + Cardinality(GatesOfRank(r)') <= keyMinted'[r]
    OBVIOUS
  <2>1. Inv' /\ KeysHeld(r) + Cardinality(GatesOfRank(r)) <= keyMinted[r]
    BY NextInv
  <2>2. /\ KeysHeld(r) \in Nat /\ Cardinality(GatesOfRank(r)) \in Nat
        /\ keyMinted[r] \in Nat /\ keyMinted'[r] \in Nat
    BY <2>1, KeysHeldNat, GatesOfRankFinite DEF Inv, ShopInv, ShopTypeOK, KeyTypeOK
  <2>3. KeysHeld(r)' \in Nat /\ Cardinality(GatesOfRank(r)') \in Nat
    <3> USE <2>1
    <3>1. (Inv => KeysHeld(r) \in Nat /\ Cardinality(GatesOfRank(r)) \in Nat)'
      BY KeysHeldNat, GatesOfRankFinite, PTL DEF Inv, ShopInv, ShopTypeOK, KeyTypeOK
    <3> QED BY <3>1
  <2> HIDE DEF K
  <2>4. ASSUME NEW h \in Hunters, NEW season \in SeasonId, NEW rank \in RankType,
               NEW hunterRank, Enters(h, season, rank, hunterRank)
        PROVE  KeysHeld(r)' + Cardinality(GatesOfRank(r)') <= keyMinted'[r]
    BY <2>1, <2>4, EntryKeepsKeys
  <2>5. ASSUME NEW h \in Hunters, NEW season \in SeasonId, NEW rank \in RankType,
               NEW value, buyForEntry(h, season, rank, value)
        PROVE  KeysHeld(r)' + Cardinality(GatesOfRank(r)') <= keyMinted'[r]
    <3>1. GatesOfRank(r)' = GatesOfRank(r)
      BY <2>5 DEF buyForEntry, bookVars, GatesOfRank
    <3>2. mintKeys(h, KeysOf(rank, 1)) /\ KeysOf(rank, 1) \in Amounts
      BY <2>5 DEF buyForEntry, KeysOf, Amounts
    <3>3. KeysHeld(r)' - KeysHeld(r) = keyMinted'[r] - keyMinted[r]
      BY <3>2, KeysHeldMint DEF Inv, ShopInv
    <3> QED BY <2>1, <2>2, <2>3, <3>1, <3>3
  <2>6. CASE ShopNext /\ UNCHANGED <<seasonVars, gateVars>>
    <3>1. GatesOfRank(r)' = GatesOfRank(r)
      BY <2>6 DEF gateVars, bookVars, GatesOfRank
    <3>2. KeysHeld(r)' - KeysHeld(r) <= keyMinted'[r] - keyMinted[r]
      BY <2>6, ShopKeepsKeys DEF Inv
    <3> QED BY <2>1, <2>2, <2>3, <3>1, <3>2
  <2>7. ASSUME UNCHANGED <<key, keyMinted>>, GatesOfRank(r)' = GatesOfRank(r)
        PROVE  KeysHeld(r)' + Cardinality(GatesOfRank(r)') <= keyMinted'[r]
    <3>1. KeysHeld(r)' = KeysHeld(r)
      BY <2>7 DEF KeysHeld
    <3> QED BY <2>1, <2>7, <3>1
  <2>8. ASSUME NEW h \in Hunters, NEW g \in DOMAIN gates, NEW signatures,
               clearGate(h, g, signatures)
        PROVE  KeysHeld(r)' + Cardinality(GatesOfRank(r)') <= keyMinted'[r]
    <3>1. GatesOfRank(r)' = GatesOfRank(r)
      BY <2>8, ClearBook DEF GatesOfRank
    <3>2. UNCHANGED <<key, keyMinted>>
      BY <2>8 DEF clearGate
    <3> QED BY <2>7, <3>1, <3>2
  <2>9. CASE UNCHANGED <<shopVars, bookVars>>
    BY <2>7, <2>9 DEF shopVars, tokenVars, bookVars, GatesOfRank
  <2>10. CASE SeasonNext /\ UNCHANGED <<shopVars, gateVars>>
    BY <2>9, <2>10 DEF gateVars
  <2>11. CASE BurnRankToken
    BY <2>9, <2>11 DEF BurnRankToken, burnRankToken
  <2> QED BY <2>4, <2>5, <2>6, <2>8, <2>9, <2>10, <2>11, StepsOfGame
<1> HIDE DEF K
<1>4. Spec => []K
  BY <1>2, <1>3, InvariantHolds, PTL DEF Spec
<1> QED BY <1>1, <1>4, PTL

(* What the gates record as used: a natural number, to which an entry adds *)
(* nothing and a clear what it requires.                                   *)
StonesUsed == SumFunction([g \in DOMAIN gates |-> gates[g].usedStone])

(* There are finitely many gates, each with the stones used in it.         *)
LEMMA GatesFinite ==
    ASSUME Inv
    PROVE  /\ gates \in Seq(Gate) /\ Len(gates) \in Nat /\ DOMAIN gates = 1..Len(gates)
           /\ IsFiniteSet(DOMAIN gates)
           /\ \A g \in DOMAIN gates : /\ gates[g] \in Gate /\ gates[g].usedStone \in Nat
                                      /\ gates[g].gateRank \in RankType
<1>1. gates \in Seq(Gate) /\ Len(gates) \in Nat /\ DOMAIN gates = 1..Len(gates)
  BY DEF Inv, BookInv, GateTypeOK
<1>2. IsFiniteSet(1..Len(gates))
  BY <1>1, FS_Interval
<1>3. \A g \in DOMAIN gates : gates[g] \in Gate
  BY <1>1
<1> QED BY <1>1, <1>2, <1>3 DEF Gate

(* The stones used are a number.                                           *)
LEMMA StonesUsedNat == ASSUME Inv PROVE StonesUsed \in Nat
<1> DEFINE f == [g \in DOMAIN gates |-> gates[g].usedStone]
<1>1. \A g \in DOMAIN gates : f[g] \in Nat
  BY GatesFinite
<1>2. SumFunctionOnSet(f, DOMAIN gates) \in Nat
  BY <1>1, GatesFinite, SumNat
<1> QED BY <1>2 DEF StonesUsed, SumFunction

(* Entering a gate uses no stone.                                          *)
LEMMA EntryUsesNoStone ==
    ASSUME Inv, NEW h \in Hunters, NEW season \in SeasonId, NEW rank \in RankType,
           recordGate(season, rank, h)
    PROVE  StonesUsed' = StonesUsed
<1> DEFINE f == [g \in DOMAIN gates |-> gates[g].usedStone]
           k == [g \in DOMAIN gates' |-> gates'[g].usedStone]
           n == Len(gates) + 1
<1>1. StonesUsed = SumFunctionOnSet(f, DOMAIN gates)
  BY DEF StonesUsed, SumFunction
<1>2. StonesUsed' = SumFunctionOnSet(k, DOMAIN gates')
  BY DEF StonesUsed, SumFunction
<1>3. PICK D : D = DOMAIN gates /\ IsFiniteSet(D)
  BY GatesFinite
<1>4. /\ \A g : g \in DOMAIN gates' <=> g \in D \/ g = n
      /\ n \notin D
  BY <1>3, RecordGateStep
<1>5. DOMAIN gates' = D \union {n}
  BY <1>4
<1>6. k[n] = 0 /\ \A g \in D : f[g] \in Int /\ k[g] = f[g]
  BY <1>3, <1>4, RecordGateStep, GatesFinite
<1> HIDE DEF f, k, n
<1>7. /\ SumFunctionOnSet(k, D \union {n}) = SumFunctionOnSet(f, D) + k[n]
      /\ SumFunctionOnSet(f, D) \in Int
  <2>1. IsFiniteSet(D) /\ n \notin D /\ k[n] \in Int
    BY <1>3, <1>4, <1>6
  <2>2. \A g \in D : f[g] \in Int /\ k[g] = f[g]
    BY <1>6
  <2> QED BY <2>1, <2>2, SumExtend
<1> QED BY <1>1, <1>2, <1>3, <1>5, <1>6, <1>7

(* Clearing a gate uses the stones it requires.                            *)
LEMMA ClearUsesStones ==
    ASSUME Inv, NEW h \in Hunters, NEW g \in DOMAIN gates, NEW signatures,
           clearGate(h, g, signatures)
    PROVE  StonesUsed' = StonesUsed + getRequiredStoneForClear(g)
<1> DEFINE f == [i \in DOMAIN gates |-> gates[i].usedStone]
           k == [i \in DOMAIN gates |-> gates'[i].usedStone]
<1>1. DOMAIN gates' = DOMAIN gates
  BY ClearBook
<1>2. StonesUsed = SumFunctionOnSet(f, DOMAIN gates)
  BY DEF StonesUsed, SumFunction
<1>3. StonesUsed' = SumFunctionOnSet(k, DOMAIN gates)
  BY <1>1 DEF StonesUsed, SumFunction
<1>4. /\ k[g] = f[g] + getRequiredStoneForClear(g)
      /\ \A i \in DOMAIN gates \ {g} : k[i] = f[i]
      /\ \A i \in DOMAIN gates : f[i] \in Int
      /\ getRequiredStoneForClear(g) \in Nat
  BY ClearBook, GatesFinite, RequiredStoneType
<1>5. PICK D : D = DOMAIN gates /\ IsFiniteSet(D) /\ g \in D
  BY GatesFinite
<1> HIDE DEF f, k
<1>6. \A i \in D : f[i] \in Int /\ k[i] \in Int
  BY <1>4, <1>5
<1>7. \A i \in D \ {g} : k[i] = f[i]
  BY <1>4, <1>5
<1>8. /\ SumFunctionOnSet(k, D) = SumFunctionOnSet(f, D) - f[g] + k[g]
      /\ SumFunctionOnSet(f, D) \in Int
  BY <1>5, <1>6, <1>7, SumUpdate
<1> QED BY <1>2, <1>3, <1>4, <1>5, <1>6, <1>8

(* The stones a clear requires are burned, those it rewards are minted.    *)
LEMMA ClearKeepsStones ==
    ASSUME Inv, NEW h \in Hunters, NEW g \in DOMAIN gates, NEW signatures,
           clearGate(h, g, signatures)
    PROVE  StonesHeld' + StonesUsed' - stoneMinted'
               = StonesHeld + StonesUsed - stoneMinted
<1>1. PICK required : required = getRequiredStoneForClear(g)
  OBVIOUS
<1>2. PICK rewarded : rewarded = rewardTokensPerRank[gates[g].gateRank].stones
  OBVIOUS
<1>3. rewarded \in Nat
  <2>1. rewardTokensPerRank \in [RankType -> Reward]
    BY TablesAssumption DEF Inv, BookInv, GateTypeOK
  <2>2. rewardTokensPerRank[gates[g].gateRank] \in Reward
    BY <2>1, GatesFinite
  <2> QED BY <1>2, <2>2 DEF Reward
<1>4. /\ StoneTypeOK /\ stoneMinted \in Nat /\ required \in Nat
      /\ StonesHeld \in Nat /\ StonesUsed \in Nat
  BY <1>1, RequiredStoneType, StonesHeldNat, StonesUsedNat
     DEF Inv, ShopInv, ShopTypeOK, StoneTypeOK
<1>5. /\ stone[h] >= required
      /\ stone' = [stone EXCEPT ![h] = @ - required + rewarded]
      /\ stoneMinted' = stoneMinted + rewarded
  BY <1>1, <1>2 DEF clearGate, payStones
<1>6. /\ StoneTypeOK' /\ stone[h] \in Nat /\ stone'[h] = stone[h] - required + rewarded
      /\ \A k \in Hunters \ {h} : stone'[k] = stone[k]
  BY <1>3, <1>4, <1>5 DEF StoneTypeOK
<1>7. StonesHeld' = StonesHeld - stone[h] + stone'[h]
  BY <1>4, <1>6, StonesHeldUpdate
<1>8. StonesUsed' = StonesUsed + required
  BY <1>1, ClearUsesStones
<1> QED BY <1>3, <1>4, <1>5, <1>6, <1>7, <1>8

(* A stone that a gate records as used was burned for that gate alone: the *)
(* stones minted cover those held and those used, in every behaviour.      *)
THEOREM StoneAccountingHolds == Spec => []StoneAccounting
<1> DEFINE K == StonesHeld + StonesUsed <= stoneMinted
<1>1. StoneAccounting <=> K
  BY DEF StoneAccounting, StonesHeld, StonesUsed
<1>2. Init => K
  <2> SUFFICES ASSUME Init PROVE K
    OBVIOUS
  <2>1. DOMAIN stone = Hunters /\ (\A h \in Hunters : stone[h] = 0) /\ stoneMinted = 0
    BY DEF Init, ShopInit
  <2>2. StonesHeld = 0
    BY <2>1, HuntersAssumption, SumZero DEF StonesHeld, SumFunction
  <2> DEFINE f == [g \in DOMAIN gates |-> gates[g].usedStone]
  <2>3. DOMAIN gates = {}
    BY DEF Init, GateInit
  <2>4. SumFunctionOnSet(f, DOMAIN gates) = 0
    BY <2>3, SumEmpty
  <2>5. StonesUsed = 0
    BY <2>4 DEF StonesUsed, SumFunction
  <2> QED BY <2>1, <2>2, <2>5
<1>3. Inv /\ K /\ [Next]_vars => K'
  <2> SUFFICES ASSUME Inv, K, [Next]_vars PROVE StonesHeld' + StonesUsed' <= stoneMinted'
    OBVIOUS
  <2>0. StonesHeld + StonesUsed <= stoneMinted
    OBVIOUS
  <2>1. /\ StonesHeld \in Nat /\ StonesUsed \in Nat /\ stoneMinted \in Nat
    BY StonesHeldNat, StonesUsedNat DEF Inv, ShopInv, ShopTypeOK, StoneTypeOK
  <2>2. StonesHeld' \in Nat /\ StonesUsed' \in Nat /\ stoneMinted' \in Nat
    <3>1. Inv'
      BY NextInv
    <3>2. (Inv => StonesHeld \in Nat /\ StonesUsed \in Nat /\ stoneMinted \in Nat)'
      BY StonesHeldNat, StonesUsedNat, PTL DEF Inv, ShopInv, ShopTypeOK, StoneTypeOK
    <3> QED BY <3>1, <3>2
  <2> HIDE DEF K
  <2>a. PICK held, used, minted :
            held = StonesHeld /\ used = StonesUsed /\ minted = stoneMinted
    OBVIOUS
  <2>b. PICK held1, used1, minted1 :
            held1 = StonesHeld' /\ used1 = StonesUsed' /\ minted1 = stoneMinted'
    OBVIOUS
  <2>c. /\ held \in Nat /\ used \in Nat /\ minted \in Nat
        /\ held1 \in Nat /\ used1 \in Nat /\ minted1 \in Nat
        /\ held + used <= minted
    BY <2>0, <2>1, <2>2, <2>a, <2>b
  <2>3. ASSUME NEW h \in Hunters, NEW season \in SeasonId, NEW rank \in RankType,
               NEW hunterRank, Enters(h, season, rank, hunterRank)
        PROVE  StonesHeld' + StonesUsed' <= stoneMinted'
    <3>1. StonesUsed' = StonesUsed
      BY <2>3, EntryUsesNoStone DEF Enters, goOn
    <3>2. StonesHeld' = StonesHeld /\ stoneMinted' = stoneMinted
      BY <2>3 DEF Enters, goOn, stoneVars, StonesHeld
    <3> QED BY <2>0, <3>1, <3>2
  <2>4. ASSUME NEW h \in Hunters, NEW g \in DOMAIN gates, NEW signatures,
               clearGate(h, g, signatures)
        PROVE  StonesHeld' + StonesUsed' <= stoneMinted'
    <3>1. StonesHeld' + StonesUsed' - stoneMinted' = StonesHeld + StonesUsed - stoneMinted
      BY <2>4, ClearKeepsStones
    <3>2. held1 + used1 - minted1 = held + used - minted
      BY <2>a, <2>b, <3>1
    <3>3. held1 + used1 <= minted1
      BY <2>c, <3>2
    <3> QED BY <2>b, <3>3
  <2>5. CASE ShopNext /\ UNCHANGED <<seasonVars, gateVars>>
    <3>1. StonesUsed' = StonesUsed
      BY <2>5 DEF gateVars, bookVars, StonesUsed
    <3>2. StonesHeld' - StonesHeld <= stoneMinted' - stoneMinted
      BY <2>5, ShopKeepsStones DEF Inv
    <3>3. used1 = used /\ held1 - held <= minted1 - minted
      BY <2>a, <2>b, <3>1, <3>2
    <3>4. held1 + used1 <= minted1
      BY <2>c, <3>3
    <3> QED BY <2>b, <3>4
  <2>6. CASE UNCHANGED <<stoneVars, bookVars>>
    BY <2>0, <2>6 DEF stoneVars, bookVars, StonesHeld, StonesUsed
  <2>7. CASE \/ UNCHANGED <<shopVars, bookVars>>
             \/ SeasonNext /\ UNCHANGED <<shopVars, gateVars>>
             \/ BurnRankToken
    BY <2>6, <2>7 DEF gateVars, shopVars, tokenVars, BurnRankToken, burnRankToken
  <2>8. CASE \E h \in Hunters, season \in SeasonId, rank \in RankType, value \in Nat :
                 Acting(h) /\ buyForEntry(h, season, rank, value)
    BY <2>6, <2>8 DEF buyForEntry
  <2> QED BY <2>3, <2>4, <2>5, <2>7, <2>8, StepsOfGame
<1> HIDE DEF K
<1>4. Spec => []K
  BY <1>2, <1>3, InvariantHolds, PTL DEF Spec
<1> QED BY <1>1, <1>4, PTL

(* The score the gates of a hunter in a season add up to.                  *)
ScoreOfGates(s, h) == SumFunction([g \in GatesOf(s, h) |-> GateWeight(gates[g].gateRank)])

(* A hunter's gates of a season can be counted and weigh a number.         *)
LEMMA GatesOfFinite ==
    ASSUME Inv, NEW s, NEW h
    PROVE  /\ IsFiniteSet(GatesOf(s, h))
           /\ \A g \in GatesOf(s, h) : GateWeight(gates[g].gateRank) \in Int
<1>1. GatesOf(s, h) \subseteq DOMAIN gates
  BY DEF GatesOf
<1>2. \A r \in RankType : GateWeight(r) \in Int
  BY RankFacts DEF GateWeight
<1> QED BY <1>1, <1>2, GatesFinite, FS_Subset

(* An entry adds its weight to the hunter's score of the season, and to no *)
(* other score.                                                            *)
LEMMA EntryScores ==
    ASSUME Inv, NEW h \in Hunters, NEW season \in SeasonId, NEW rank \in RankType,
           recordGate(season, rank, h), NEW s \in SeasonId, NEW k \in Hunters
    PROVE  ScoreOfGates(s, k)' =
               ScoreOfGates(s, k) + (IF s = season /\ k = h THEN GateWeight(rank) ELSE 0)
<1> DEFINE A == GatesOf(s, k)
           B == GatesOf(s, k)'
           f == [g \in A |-> GateWeight(gates[g].gateRank)]
           e == [g \in B |-> GateWeight(gates'[g].gateRank)]
           n == Len(gates) + 1
<1>1. ScoreOfGates(s, k) = SumFunctionOnSet(f, A)
  BY DEF ScoreOfGates, SumFunction
<1>2. ScoreOfGates(s, k)' = SumFunctionOnSet(e, B)
  BY DEF ScoreOfGates, SumFunction
<1>3. /\ \A g : g \in DOMAIN gates' <=> g \in DOMAIN gates \/ g = n
      /\ n \notin DOMAIN gates /\ \A g \in DOMAIN gates : gates'[g] = gates[g]
      /\ gates'[n].hunter = h /\ gates'[n].seasonId = season /\ gates'[n].gateRank = rank
  BY RecordGateStep
<1>4. /\ IsFiniteSet(A) /\ n \notin A
      /\ \A g \in A : f[g] \in Int /\ gates'[g] = gates[g]
  <2>1. A \subseteq DOMAIN gates
    BY DEF GatesOf
  <2>2. IsFiniteSet(A) /\ \A g \in A : f[g] \in Int
    BY GatesOfFinite
  <2> QED BY <1>3, <2>1, <2>2
<1> HIDE DEF n
<1>5. CASE s = season /\ k = h
  <2>1. B = A \union {n}
    BY <1>3, <1>5 DEF GatesOf
  <2>2. e[n] = GateWeight(rank) /\ \A g \in A : e[g] = f[g]
    BY <1>3, <1>4, <2>1
  <2>3. GateWeight(rank) \in Int
    BY RankFacts DEF GateWeight
  <2> HIDE DEF A, B, f, e
  <2>4. SumFunctionOnSet(e, B) = SumFunctionOnSet(f, A) + e[n]
    BY <1>4, <2>1, <2>2, <2>3, SumExtend
  <2> QED BY <1>1, <1>2, <1>5, <2>2, <2>4
<1>6. CASE ~ (s = season /\ k = h)
  <2>1. B = A
    BY <1>3, <1>6 DEF GatesOf
  <2>2. \A g \in A : e[g] = f[g]
    BY <1>4, <2>1
  <2> HIDE DEF A, B, f, e
  <2>3. SumFunctionOnSet(e, B) = SumFunctionOnSet(f, A) /\ SumFunctionOnSet(f, A) \in Int
    BY <1>4, <2>1, <2>2, SumCongruence, SumInt
  <2> QED BY <1>1, <1>2, <1>6, <2>3
<1> QED BY <1>5, <1>6

(* Where gates keep their hunters, seasons and ranks, the scores stay.     *)
LEMMA ScoreOfGatesKept ==
    ASSUME DOMAIN gates' = DOMAIN gates,
           \A g \in DOMAIN gates : /\ gates'[g].hunter = gates[g].hunter
                                   /\ gates'[g].seasonId = gates[g].seasonId
                                   /\ gates'[g].gateRank = gates[g].gateRank,
           NEW s, NEW h
    PROVE  ScoreOfGates(s, h)' = ScoreOfGates(s, h)
<1>1. GatesOf(s, h)' = GatesOf(s, h)
  BY DEF GatesOf
<1>2. [g \in GatesOf(s, h) |-> GateWeight(gates'[g].gateRank)]
        = [g \in GatesOf(s, h) |-> GateWeight(gates[g].gateRank)]
  BY DEF GatesOf
<1> QED BY <1>1, <1>2 DEF ScoreOfGates

(* The level score the settlement reads is that of the gates the hunter    *)
(* entered in the season, each once and at its own weight, in every        *)
(* behaviour.                                                              *)
THEOREM LevelScoreExactHolds == Spec => []LevelScoreExact
<1> DEFINE K == \A s \in SeasonId, h \in Hunters :
                    gateCountOfSeason[s][h] = ScoreOfGates(s, h)
<1>1. LevelScoreExact <=> K
  BY DEF LevelScoreExact, ScoreOfGates
<1>2. Init => K
  <2> SUFFICES ASSUME Init, NEW s \in SeasonId, NEW h \in Hunters
               PROVE  gateCountOfSeason[s][h] = ScoreOfGates(s, h)
    OBVIOUS
  <2> DEFINE f == [g \in GatesOf(s, h) |-> GateWeight(gates[g].gateRank)]
  <2>1. GatesOf(s, h) = {} /\ gateCountOfSeason[s][h] = 0
    BY DEF Init, GateInit, GatesOf
  <2>2. SumFunctionOnSet(f, GatesOf(s, h)) = 0
    BY <2>1, SumEmpty
  <2> QED BY <2>1, <2>2 DEF ScoreOfGates, SumFunction
<1>3. Inv /\ K /\ [Next]_vars => K'
  <2> SUFFICES ASSUME Inv, K, [Next]_vars, NEW s \in SeasonId, NEW k \in Hunters
               PROVE  gateCountOfSeason'[s][k] = ScoreOfGates(s, k)'
    OBVIOUS
  <2>1. gateCountOfSeason[s][k] = ScoreOfGates(s, k)
    OBVIOUS
  <2>2. ASSUME NEW h \in Hunters, NEW season \in SeasonId, NEW rank \in RankType,
               NEW hunterRank, Enters(h, season, rank, hunterRank)
        PROVE  gateCountOfSeason'[s][k] = ScoreOfGates(s, k)'
    <3>1. ScoreOfGates(s, k)' =
              ScoreOfGates(s, k) + (IF s = season /\ k = h THEN GateWeight(rank) ELSE 0)
      BY <2>2, EntryScores DEF Enters, goOn
    <3>2. /\ gateCountOfSeason \in [SeasonId -> [Hunters -> Nat]]
          /\ gateCountOfSeason' =
                 [gateCountOfSeason EXCEPT ![season][h] = @ + GateWeight(rank)]
      BY <2>2 DEF Enters, goOn, countGate, Inv, BookInv, GateTypeOK
    <3>3. gateCountOfSeason'[s][k] = gateCountOfSeason[s][k]
              + (IF s = season /\ k = h THEN GateWeight(rank) ELSE 0)
      BY <3>2
    <3> QED BY <2>1, <3>1, <3>3
  <2>3. ASSUME NEW h \in Hunters, NEW g \in DOMAIN gates, NEW signatures,
               clearGate(h, g, signatures)
        PROVE  gateCountOfSeason'[s][k] = ScoreOfGates(s, k)'
    <3>1. ScoreOfGates(s, k)' = ScoreOfGates(s, k)
      BY <2>3, ClearBook, ScoreOfGatesKept
    <3>2. gateCountOfSeason' = gateCountOfSeason
      BY <2>3 DEF clearGate
    <3> QED BY <2>1, <3>1, <3>2
  <2> HIDE DEF K
  <2>4. CASE UNCHANGED bookVars
    <3>1. UNCHANGED gates /\ UNCHANGED gateCountOfSeason
      BY <2>4 DEF bookVars
    <3>2. ScoreOfGates(s, k)' = ScoreOfGates(s, k)
      BY <3>1, ScoreOfGatesKept
    <3> QED BY <2>1, <3>1, <3>2
  <2>5. CASE \/ SeasonNext /\ UNCHANGED <<shopVars, gateVars>>
             \/ ShopNext /\ UNCHANGED <<seasonVars, gateVars>>
             \/ BurnRankToken
    BY <2>4, <2>5 DEF gateVars, BurnRankToken, burnRankToken
  <2>6. CASE \E h \in Hunters, season \in SeasonId, rank \in RankType, value \in Nat :
                 Acting(h) /\ buyForEntry(h, season, rank, value)
    BY <2>4, <2>6 DEF buyForEntry
  <2> QED BY <2>2, <2>3, <2>4, <2>5, <2>6, StepsOfGame
<1> HIDE DEF K
<1>4. Spec => []K
  BY <1>2, <1>3, InvariantHolds, PTL DEF Spec
<1> QED BY <1>1, <1>4, PTL

----------------------------------------------------------------------------
(* What the composition implements                                         *)

(* To the seasons, the rest of the game only reads: the composition is a   *)
(* behaviour of SLSeason, and what was proved of seasons holds in it.      *)
THEOREM SeasonImplemented == Spec => SeasonSpec
<1>1. Init => SeasonInit
  BY DEF Init
<1>2. Inv /\ [Next]_vars => [SeasonNext]_seasonVars
  <2> SUFFICES ASSUME Inv, [Next]_vars PROVE [SeasonNext]_seasonVars
    OBVIOUS
  <2>1. ASSUME NEW h, NEW season, NEW rank, NEW hunterRank, Enters(h, season, rank, hunterRank)
        PROVE  UNCHANGED seasonVars
    BY <2>1 DEF Enters, goOn
  <2>2. ASSUME NEW h, NEW g, NEW signatures, clearGate(h, g, signatures)
        PROVE  UNCHANGED seasonVars
    BY <2>2 DEF clearGate
  <2>3. BurnRankToken => UNCHANGED seasonVars
    BY DEF BurnRankToken, burnRankToken
  <2>4. ASSUME NEW h, NEW season, NEW rank, NEW value, buyForEntry(h, season, rank, value)
        PROVE  UNCHANGED seasonVars
    BY <2>4 DEF buyForEntry
  <2> QED BY <2>1, <2>2, <2>3, <2>4, StepsOfGame
<1> QED BY <1>1, <1>2, InvariantHolds, PTL DEF Spec, SeasonSpec

(* An ended season's gate counts are final: an entry counts in a season    *)
(* that is current, and a clear, however late, counts nowhere.             *)
THEOREM EndedSeasonScoreFrozenHolds == Spec => EndedSeasonScoreFrozen
<1>1. ASSUME Inv, [Next]_vars, NEW s \in 0..(seasonIds - 1), isEndedSeasonById(s)
      PROVE  gateCountOfSeason'[s] = gateCountOfSeason[s]
  <2>1. ASSUME NEW h \in Hunters, NEW season \in SeasonId, NEW rank \in RankType,
               NEW hunterRank \in RankType, Enters(h, season, rank, hunterRank)
        PROVE  gateCountOfSeason'[s] = gateCountOfSeason[s]
    <3>1. isCurrentSeasonById(season)
      BY <1>1, <2>1, EntersFacts
    <3>2. seasons[s] \in Season /\ block \in Nat
      BY <1>1 DEF Inv, SeasonInv, SeasonTypeOK, Block
    <3>3. s # season
      BY <3>1, <3>2, <1>1 DEF isCurrentSeasonById, isEndedSeasonById, Season, Block
    <3>4. s \in SeasonId
      BY <1>1, MaxSeasonsAssumption DEF Inv, SeasonInv, SeasonTypeOK, SeasonId
    <3> QED
      BY <1>1, <2>1, <3>3, <3>4 DEF Enters, goOn, countGate, Inv, BookInv, GateTypeOK
  <2>2. CASE ~ (\E h \in Hunters, season \in SeasonId, rank \in RankType, hunterRank \in RankType :
                   Enters(h, season, rank, hunterRank))
    BY <1>1, <2>2, NoEntryStep
  <2> QED BY <2>1, <2>2
<1>2. Inv /\ [Next]_vars =>
        [\A s \in 0..(seasonIds - 1) :
            isEndedSeasonById(s) => gateCountOfSeason'[s] = gateCountOfSeason[s]]_vars
  BY <1>1
<1> QED
  BY <1>2, InvariantHolds, PTL DEF Spec, EndedSeasonScoreFrozen

(* Under the refinement mapping an entry enters in the ledger, a clear     *)
(* clears in it, and every other step of the game leaves it as it is.      *)
THEOREM LedgerKeptHolds == Spec => LedgerKept
<1> DEFINE owner == [g \in DOMAIN gates |-> gates[g].hunter]
<1>1. Init => Ledger!LedgerInit
  <2> SUFFICES ASSUME Init PROVE Ledger!LedgerInit
    OBVIOUS
  <2>1. gates = <<>> /\ DOMAIN gates = {} /\ gateOfHunterSlot = [h \in Hunters |-> {}]
    BY DEF Init, GateInit
  <2>2. owner = <<>>
    BY <2>1
  <2> QED BY <2>1, <2>2 DEF Ledger!LedgerInit
<1>2. Inv /\ [Next]_vars => [Ledger!LedgerNext]_(Ledger!ledgerVars)
  <2> SUFFICES ASSUME Inv, [Next]_vars
               PROVE  [Ledger!LedgerNext]_(Ledger!ledgerVars)
    OBVIOUS
  <2>1. ASSUME NEW h \in Hunters, NEW season \in SeasonId, NEW rank \in RankType,
               NEW hunterRank, Enters(h, season, rank, hunterRank)
        PROVE  Ledger!LedgerNext
    <3>1. recordGate(season, rank, h)
      BY <2>1 DEF Enters, goOn
    <3>2. /\ DOMAIN gates = 1..Len(gates) /\ DOMAIN gates' = 1..(Len(gates) + 1)
          /\ \A g \in 1..Len(gates) : gates'[g] = gates[g]
          /\ gates'[Len(gates) + 1].hunter = h /\ Len(gates) \in Nat
      BY <3>1, RecordGateStep
    <3>3. PICK n : n = Len(gates)
      OBVIOUS
    <3>4. PICK o : o = owner
      OBVIOUS
    <3>5. PICK o1 : o1 = [g \in DOMAIN gates' |-> gates'[g].hunter]
      OBVIOUS
    <3>6. o = [g \in 1..n |-> gates[g].hunter] /\ n \in Nat
      BY <3>2, <3>3, <3>4
    <3>7. gates \in Seq(Gate)
      BY DEF Inv, BookInv, GateTypeOK
    <3>8. \A g \in 1..n : gates[g].hunter \in Hunters
      <4>1. \A g \in 1..n : gates[g] \in Gate
        BY <3>3, <3>7
      <4> QED BY <4>1 DEF Gate
    <3>9. o \in Seq(Hunters) /\ Len(o) = n
      BY <3>6, <3>8
    <3>10. o1 = Append(o, h)
      <4>1. o1 = [g \in 1..(n + 1) |-> gates'[g].hunter]
        BY <3>2, <3>3, <3>5
      <4>2. /\ DOMAIN o1 = 1..(n + 1)
            /\ \A g \in 1..n : o1[g] = o[g]
            /\ o1[n + 1] = h
        BY <4>1, <3>2, <3>3, <3>6
      <4>3. \A g \in 1..(n + 1) : gates'[g].hunter = IF g = n + 1 THEN h ELSE o[g]
        <5>1. \A g \in 1..(n + 1) : g = n + 1 \/ g \in 1..n
          BY <3>6
        <5>2. gates'[n + 1].hunter = h /\ \A g \in 1..n : gates'[g].hunter = o[g]
          BY <3>2, <3>3, <3>6
        <5> QED BY <5>1, <5>2, <3>6
      <4>4. o1 = [g \in 1..(n + 1) |-> IF g = n + 1 THEN h ELSE o[g]]
        BY <4>1, <4>3
      <4> QED BY <4>4, <3>6, <3>9
    <3>11. gateOfHunterSlot' = [gateOfHunterSlot EXCEPT
                                  ![h] = gateOfHunterSlot[h] \union {Len(o) + 1}]
      BY <3>1, <3>3, <3>9 DEF recordGate
    <3>12. Ledger!Enter(h)
      BY <3>4, <3>5, <3>10, <3>11 DEF Ledger!Enter
    <3> QED BY <3>12 DEF Ledger!LedgerNext
  <2>2. ASSUME NEW h \in Hunters, NEW g \in DOMAIN gates, NEW signatures,
               clearGate(h, g, signatures)
        PROVE  Ledger!LedgerNext
    <3>1. clearGate(h, g, signatures)
      BY <2>2
    <3>2. /\ DOMAIN gates' = DOMAIN gates /\ ~ gates[g].cleared /\ gates[g].hunter = h
          /\ \A i \in DOMAIN gates : gates'[i].hunter = gates[i].hunter
      BY <3>1, ClearBook
    <3>3. g \in gateOfHunterSlot[h]
      BY <3>2 DEF Inv, BookInv, SlotsExact
    <3>4. [i \in DOMAIN gates' |-> gates'[i].hunter] = owner
      BY <3>2
    <3>5. gateOfHunterSlot' = [gateOfHunterSlot EXCEPT ![h] = gateOfHunterSlot[h] \ {g}]
      BY <3>1 DEF clearGate, recordClear, payStones
    <3>6. Ledger!Clear(h, g)
      BY <3>3, <3>4, <3>5 DEF Ledger!Clear
    <3> QED BY <3>3, <3>6 DEF Ledger!LedgerNext
  <2>3. CASE UNCHANGED bookVars
    <3>1. gates' = gates /\ gateOfHunterSlot' = gateOfHunterSlot
      BY <2>3 DEF bookVars
    <3> QED BY <3>1 DEF Ledger!ledgerVars
  <2>4. CASE \/ SeasonNext /\ UNCHANGED <<shopVars, gateVars>>
             \/ ShopNext /\ UNCHANGED <<seasonVars, gateVars>>
             \/ BurnRankToken
    BY <2>3, <2>4 DEF gateVars, BurnRankToken, burnRankToken
  <2>5. CASE \E h \in Hunters, season \in SeasonId, rank \in RankType, value \in Nat :
                 Acting(h) /\ buyForEntry(h, season, rank, value)
    BY <2>3, <2>5 DEF buyForEntry
  <2> QED BY <2>1, <2>2, <2>3, <2>4, <2>5, StepsOfGame
<1> QED
  BY <1>1, <1>2, InvariantHolds, PTL DEF Spec, LedgerKept, Ledger!LedgerSpec

----------------------------------------------------------------------------
(* A clear that is allowed                                                 *)

(* What a clear asks for: of the gate and the hunter, and of the           *)
(* signatures.                                                             *)
ClearAllowed(h, g) ==
    /\ ~ gates[g].cleared
    /\ gates[g].hunter = h
    /\ stone[h] >= getRequiredStoneForClear(g)
    /\ RewardsDrawable(g)
PacksOf(g) ==
    IF seasons[gates[g].seasonId].uses.seasonPack \in openPacks
    THEN rewardTokensPerRank[gates[g].gateRank].packs ELSE 0
MonstersOf(g) == Total(rewardTokensPerRank[gates[g].gateRank].monsters)
Signed(h, g, signatures) ==
    /\ Len(signatures) = getRequiredRandomSignature(rewardTokensPerRank[gates[g].gateRank])
    /\ \A i \in 1..(MonstersOf(g) + PacksOf(g)) : signatures[i] = nonces[h] + i - 1

(* What a clear makes of the state.                                        *)
Cleared(h, g, signatures) ==
    LET required == getRequiredStoneForClear(g)
        rewarded == rewardTokensPerRank[gates[g].gateRank].stones
        packs == seasons[gates[g].seasonId].uses.seasonPack
        packCount == PacksOf(g)
        monsterCount == MonstersOf(g)
    IN  << [gates EXCEPT ![g].cleared = TRUE, ![g].usedStone = @ + required],
           [gateOfHunterSlot EXCEPT ![h] = @ \ {g}],
           [stone EXCEPT ![h] = @ - required + rewarded],
           stoneMinted + rewarded,
           [monster EXCEPT ![h] = @ + monsterCount],
           [seasonPack EXCEPT ![h] = @ + packCount],
           IF packCount > 0 THEN mintedPacks \union {packs} ELSE mintedPacks,
           [nonces EXCEPT ![h] = @ + (monsterCount + packCount)],
           [drawnFrom EXCEPT ![h] =
               @ \union {signatures[i] : i \in 1..(monsterCount + packCount)}],
           stoneOpen, seasonVars, configVars, coin, key, keyMinted, gateCountOfSeason,
           waiting, tableVars, approved, rankVars, stockVars >>

(* A clear is possible just when it is allowed and signed: then it         *)
(* determines the next value of every variable.                            *)
LEMMA ClearIsItsGuard ==
    ASSUME NEW h, NEW g \in DOMAIN gates, NEW signatures
    PROVE  clearGate(h, g, signatures) <=>
               /\ ClearAllowed(h, g)
               /\ Signed(h, g, signatures)
               /\ <<gates, gateOfHunterSlot, stone, stoneMinted, monster, seasonPack,
                    mintedPacks, nonces, drawnFrom, stoneOpen, seasonVars, configVars, coin,
                    key, keyMinted, gateCountOfSeason, waiting, tableVars, approved,
                    rankVars, stockVars>>' = Cleared(h, g, signatures)
BY DEF clearGate, payStones, recordClear, mintRewards, useNonces, ClearAllowed, Signed,
       RewardsDrawable, Cleared, PacksOf, MonstersOf

(* No stone is needed when the blocks are over.                            *)
LEMMA NoStoneWhenExpired ==
    ASSUME Inv, NEW g \in DOMAIN gates, gates[g].endBlock <= block
    PROVE  getRequiredStoneForClear(g) = 0
<1>1. gates[g] \in Gate /\ block \in Nat /\ boostBlockCount \in Nat \ {0}
  BY TablesAssumption DEF Inv, SeasonInv, SeasonTypeOK, Block, BookInv, GateTypeOK
<1>2. getGateRemainingBlock(g) = 0
  BY <1>1 DEF getGateRemainingBlock, Gate
<1>3. (0 + boostBlockCount - 1) \div boostBlockCount = 0
  BY <1>1
<1> QED BY <1>2, <1>3 DEF getRequiredStoneForClear

(* See ExpiredGateClearable: the clear is allowed, with a list of          *)
(* signatures, which is all that is needed for it to be possible           *)
(* (ClearIsItsGuard).                                                      *)
ExpiredGateAllowed ==
    \A g \in DOMAIN gates :
        ~ gates[g].cleared /\ gates[g].endBlock <= block /\ RewardsDrawable(g)
            => /\ ClearAllowed(gates[g].hunter, g)
               /\ \E signatures \in Seq(Nat) : Signed(gates[g].hunter, g, signatures)

(* In every reachable state, for any hunters, tables and seasons: a gate   *)
(* whose blocks are over and whose rewards can be drawn is one its hunter  *)
(* may clear, without a stone, with the signatures of the next nonces      *)
(* (clearGate).                                                            *)
THEOREM ExpiredGateAllowedHolds == Spec => []ExpiredGateAllowed
<1>1. ASSUME Inv, NEW g \in DOMAIN gates,
             ~ gates[g].cleared, gates[g].endBlock <= block, RewardsDrawable(g)
      PROVE  /\ ClearAllowed(gates[g].hunter, g)
             /\ \E signatures \in Seq(Nat) : Signed(gates[g].hunter, g, signatures)
  <2>1. gates[g] \in Gate
    BY <1>1 DEF Inv, BookInv, GateTypeOK
  <2>2. PICK h \in Hunters : h = gates[g].hunter
    BY <2>1 DEF Gate
  <2>3. stone[h] \in Nat
    BY <1>1 DEF Inv, ShopInv, ShopTypeOK
  <2>4. ClearAllowed(h, g)
    BY <1>1, <2>2, <2>3, NoStoneWhenExpired DEF ClearAllowed
  <2>5. PICK n \in Nat : n = nonces[h]
    BY <1>1 DEF Inv, BookInv, GateTypeOK
  <2>6. /\ MonstersOf(g) \in Nat
        /\ rewardTokensPerRank[gates[g].gateRank].packs \in Nat
    <3>1. rewardTokensPerRank \in [RankType -> Reward] /\ gates[g].gateRank \in RankType
      BY <1>1, <2>1, TablesAssumption DEF Inv, BookInv, GateTypeOK, Gate
    <3>2. PICK reward \in Reward : reward = rewardTokensPerRank[gates[g].gateRank]
      BY <3>1
    <3>3. reward.monsters \in [RankType -> Nat] /\ reward.packs \in Nat
      BY <3>2 DEF Reward
    <3>4. Total(reward.monsters) \in Nat
      BY <3>3, TotalType DEF Amounts
    <3> QED BY <3>2, <3>3, <3>4 DEF MonstersOf
  <2>7. PICK length \in Nat :
             length = MonstersOf(g) + rewardTokensPerRank[gates[g].gateRank].packs
    BY <2>6
  <2>8. PICK signatures : signatures = [i \in 1..length |-> n + (i - 1)]
    OBVIOUS
  <2>9. \A i \in 1..length : n + (i - 1) \in Nat /\ n + (i - 1) = n + i - 1
    BY <2>5, <2>7
  <2>10. signatures \in Seq(Nat) /\ Len(signatures) = length
    BY <2>7, <2>8, <2>9
  <2>11. PacksOf(g) \in Nat /\ MonstersOf(g) + PacksOf(g) <= length
    BY <2>6, <2>7 DEF PacksOf
  <2>12. \A i \in 1..(MonstersOf(g) + PacksOf(g)) : i \in 1..length
    BY <2>6, <2>7, <2>11
  <2>13. \A i \in 1..(MonstersOf(g) + PacksOf(g)) : signatures[i] = nonces[h] + i - 1
    BY <2>5, <2>8, <2>9, <2>12
  <2>14. Signed(h, g, signatures)
    BY <2>7, <2>10, <2>13 DEF Signed, getRequiredRandomSignature, MonstersOf
  <2> QED BY <2>2, <2>4, <2>10, <2>14
<1>2. Inv => ExpiredGateAllowed
  BY <1>1 DEF ExpiredGateAllowed
<1> QED BY <1>2, InvariantHolds, PTL

----------------------------------------------------------------------------
(* What the settlement sees of the gate                                    *)

(* The ranks a claim tells apart.                                          *)
SettledRank(tokens) == IF HunterRank(tokens) = RankS THEN RankS ELSE RankE
settledRank == [c \in HunterRankCollections |->
                   [h \in Hunters |-> SettledRank(rankToken[c][h])]]

(* The gate's counts and ranks, as module Settlement has them.             *)
Counts == INSTANCE GateCounts WITH gateCount <- gateCountOfSeason, hunterRank <- settledRank
GateWeights == {1, 3, 5, 8, 10, 15}
CountedEntry(s, h) ==
    /\ isCurrentSeasonById(s)
    /\ \E weight \in GateWeights, rank \in {RankE, RankS} :
           Counts!Enter(s, seasons[s].uses.hunterRank, h, weight, rank)
CountedStep ==
    \/ \E s \in 0..(seasonIds - 1), h \in Hunters : CountedEntry(s, h)
    \/ \E c \in HunterRankCollections, h \in Hunters, rank \in {RankE, RankS} :
           Counts!Burn(c, h, rank)

(* More tokens, no lower rank.                                             *)
LEMMA MoreTokensNoLowerRank ==
    ASSUME NEW a \in [RankType -> Nat], NEW b \in [RankType -> Nat],
           \A r \in RankType : a[r] <= b[r]
    PROVE  HunterRank(a) <= HunterRank(b)
<1>1. PICK p \in RankType : p = HunterRank(a)
  BY HunterRankIsHighest
<1>2. PICK q \in RankType : q = HunterRank(b)
  BY HunterRankIsHighest
<1>3. /\ p = RankE \/ a[p] > 0
      /\ \A r \in RankType : r > q => b[r] = 0
  BY <1>1, <1>2, HunterRankIsHighest
<1>4. ~ (p > q)
  <2> SUFFICES ASSUME p > q PROVE FALSE
    OBVIOUS
  <2>1. b[p] = 0 /\ a[p] <= b[p] /\ a[p] \in Nat
    BY <1>3
  <2>2. p = RankE
    BY <1>3, <2>1
  <2> QED BY <2>2, RankFacts DEF RankE
<1> QED BY <1>1, <1>2, <1>4, RankFacts

(* More tokens, no lower settled rank.                                     *)
LEMMA MoreTokensNoLowerSettled ==
    ASSUME NEW a \in [RankType -> Nat], NEW b \in [RankType -> Nat],
           \A r \in RankType : a[r] <= b[r]
    PROVE  SettledRank(a) <= SettledRank(b) /\ SettledRank(a) \in {RankE, RankS}
<1>1. PICK p \in RankType : p = HunterRank(a)
  BY HunterRankIsHighest
<1>2. PICK q \in RankType : q = HunterRank(b)
  BY HunterRankIsHighest
<1>3. p <= q
  BY <1>1, <1>2, MoreTokensNoLowerRank
<1>4. p = RankS => q = RankS
  BY <1>3, RankFacts DEF RankS
<1> QED BY <1>1, <1>2, <1>4 DEF SettledRank, RankE, RankS

(* Where one hunter's tokens in one collection change, only the rank they  *)
(* give does.                                                              *)
LEMMA SettledRankUpdate ==
    ASSUME NEW c \in HunterRankCollections, NEW h \in Hunters,
           \A d \in HunterRankCollections, k \in Hunters :
               d # c \/ k # h => rankToken'[d][k] = rankToken[d][k],
           NEW rank, rank = SettledRank(rankToken'[c][h])
    PROVE  /\ settledRank' = [settledRank EXCEPT ![c][h] = rank]
           /\ settledRank[c][h] = SettledRank(rankToken[c][h])
<1>1. settledRank' = [d \in HunterRankCollections |->
                         [k \in Hunters |-> SettledRank(rankToken'[d][k])]]
  BY DEF settledRank, SettledRank, HunterRank
<1>2. settledRank = [d \in HunterRankCollections |->
                        [k \in Hunters |-> SettledRank(rankToken[d][k])]]
  BY DEF settledRank
<1>3. \A d \in HunterRankCollections, k \in Hunters :
          SettledRank(rankToken'[d][k])
              = IF d = c /\ k = h THEN rank ELSE SettledRank(rankToken[d][k])
  OBVIOUS
<1> HIDE DEF settledRank
<1>4. [settledRank EXCEPT ![c][h] = rank]
          = [d \in HunterRankCollections |-> [k \in Hunters |->
                IF d = c /\ k = h THEN rank ELSE SettledRank(rankToken[d][k])]]
  BY <1>2
<1> QED BY <1>1, <1>2, <1>3, <1>4

(* An entry counts by its weight and gives no lower rank.                  *)
LEMMA EntryIsCounted ==
    ASSUME Inv, NEW h \in Hunters, NEW season \in SeasonId, NEW rank \in RankType,
           NEW hunterRank \in RankType, Enters(h, season, rank, hunterRank)
    PROVE  season \in 0..(seasonIds - 1) /\ CountedEntry(season, h)
<1>1. season \in 0..(seasonIds - 1) /\ isCurrentSeasonById(season)
  BY EntersFacts
<1>2. PICK c \in HunterRankCollections : c = seasons[season].uses.hunterRank
  BY <1>1, RankCollection
<1>3. rankToken \in [HunterRankCollections -> [Hunters -> [RankType -> Nat]]]
  BY DEF Inv, BookInv, GateTypeOK
<1>4. PICK weight : weight = GateWeight(rank)
  OBVIOUS
<1>5. weight \in GateWeights
  BY <1>4, RankFacts DEF GateWeight, GateWeights
<1>6. gateCountOfSeason' = [gateCountOfSeason EXCEPT ![season][h] = @ + weight]
  BY <1>4 DEF Enters, goOn, countGate
<1>7. PICK count : rankUp(season, h, hunterRank, count)
  BY DEF Enters, goOn
<1>8. \/ UNCHANGED rankToken
      \/ /\ hunterRank # RankS
         /\ rankToken' = [rankToken EXCEPT ![c][h][hunterRank + 1] = @ + 1]
  BY <1>2, <1>7 DEF rankUp
<1>9. /\ \A d \in HunterRankCollections, k \in Hunters : d # c \/ k # h =>
               rankToken'[d][k] = rankToken[d][k]
      /\ rankToken'[c][h] \in [RankType -> Nat]
      /\ \A r \in RankType : rankToken[c][h][r] <= rankToken'[c][h][r]
  <2>1. CASE UNCHANGED rankToken
    BY <1>3, <2>1
  <2>2. CASE /\ hunterRank # RankS
             /\ rankToken' = [rankToken EXCEPT ![c][h][hunterRank + 1] = @ + 1]
    <3>1. PICK tokens : tokens = [rankToken[c][h] EXCEPT
                                    ![hunterRank + 1] = rankToken[c][h][hunterRank + 1] + 1]
      OBVIOUS
    <3>2. hunterRank + 1 \in RankType
      BY <2>2, RankFacts DEF RankS
    <3>3. /\ tokens \in [RankType -> Nat]
          /\ \A r \in RankType : rankToken[c][h][r] <= tokens[r]
      BY <1>3, <3>1, <3>2
    <3>4. rankToken' = [rankToken EXCEPT ![c] = [rankToken[c] EXCEPT ![h] = tokens]]
      BY <2>2, <3>1
    <3>5. /\ rankToken'[c][h] = tokens
          /\ \A d \in HunterRankCollections, k \in Hunters : d # c \/ k # h =>
                 rankToken'[d][k] = rankToken[d][k]
      BY <1>3, <3>4
    <3> QED BY <3>3, <3>5
  <2> QED BY <1>8, <2>1, <2>2
<1>10. PICK a \in [RankType -> Nat] : a = rankToken[c][h]
  BY <1>3
<1>11. PICK b \in [RankType -> Nat] : b = rankToken'[c][h]
  BY <1>9
<1>12. \A r \in RankType : a[r] <= b[r] /\ b[r] <= b[r]
  BY <1>9, <1>10, <1>11
<1>13. SettledRank(a) <= SettledRank(b) /\ SettledRank(b) \in {RankE, RankS}
  BY <1>12, MoreTokensNoLowerSettled
<1>14. PICK r : r = SettledRank(b)
  OBVIOUS
<1>15. /\ settledRank' = [settledRank EXCEPT ![c][h] = r]
       /\ settledRank[c][h] = SettledRank(a)
  BY <1>9, <1>10, <1>11, <1>14, SettledRankUpdate
<1>16. Counts!Enter(season, c, h, weight, r)
  BY <1>6, <1>13, <1>14, <1>15 DEF Counts!Enter
<1> QED BY <1>1, <1>2, <1>5, <1>13, <1>14, <1>16 DEF CountedEntry

(* A burn counts nothing and gives no higher rank.                         *)
LEMMA BurnIsCounted ==
    ASSUME Inv, NEW h \in Hunters, NEW c \in HunterRankCollections, NEW rank \in RankType,
           burnRankToken(h, c, rank)
    PROVE  \/ \E r \in {RankE, RankS} : Counts!Burn(c, h, r)
           \/ UNCHANGED <<gateCountOfSeason, settledRank>>
<1>1. /\ rankToken \in [HunterRankCollections -> [Hunters -> [RankType -> Nat]]]
      /\ rankToken[c][h][rank] > 0
      /\ rankToken' = [rankToken EXCEPT ![c][h][rank] = @ - 1]
      /\ UNCHANGED gateCountOfSeason
  BY DEF burnRankToken, Inv, BookInv, GateTypeOK, bookVars
<1>2. /\ \A d \in HunterRankCollections, k \in Hunters : d # c \/ k # h =>
               rankToken'[d][k] = rankToken[d][k]
      /\ rankToken'[c][h] \in [RankType -> Nat]
      /\ \A r \in RankType : rankToken'[c][h][r] <= rankToken[c][h][r]
  <2>1. rankToken[c][h][rank] - 1 \in Nat
    BY <1>1
  <2>2. PICK tokens : tokens = [rankToken[c][h] EXCEPT ![rank] = rankToken[c][h][rank] - 1]
    OBVIOUS
  <2>3. tokens \in [RankType -> Nat] /\ \A r \in RankType : tokens[r] <= rankToken[c][h][r]
    BY <1>1, <2>1, <2>2
  <2>4. rankToken' = [rankToken EXCEPT ![c] = [rankToken[c] EXCEPT ![h] = tokens]]
    BY <1>1, <2>2
  <2>5. /\ rankToken'[c][h] = tokens
        /\ \A d \in HunterRankCollections, k \in Hunters : d # c \/ k # h =>
               rankToken'[d][k] = rankToken[d][k]
    BY <1>1, <2>4
  <2> QED BY <2>3, <2>5
<1>3. PICK a \in [RankType -> Nat] : a = rankToken[c][h]
  BY <1>1
<1>4. PICK b \in [RankType -> Nat] : b = rankToken'[c][h]
  BY <1>2
<1>5. \A r \in RankType : b[r] <= a[r]
  BY <1>2, <1>3, <1>4
<1>6. SettledRank(b) <= SettledRank(a) /\ SettledRank(b) \in {RankE, RankS}
  BY <1>5, MoreTokensNoLowerSettled
<1>7. PICK r : r = SettledRank(b)
  OBVIOUS
<1>8. /\ settledRank' = [settledRank EXCEPT ![c][h] = r]
      /\ settledRank[c][h] = SettledRank(a)
  BY <1>2, <1>3, <1>4, <1>7, SettledRankUpdate
<1>9. SettledRank(a) \in {RankE, RankS}
  BY DEF SettledRank
<1>10. CASE r = SettledRank(a)
  <2>1. settledRank' = settledRank
    <3>1. settledRank = [d \in HunterRankCollections |->
                            [k \in Hunters |-> SettledRank(rankToken[d][k])]]
      BY DEF settledRank
    <3> HIDE DEF settledRank
    <3> QED BY <1>8, <1>10, <3>1
  <2> QED BY <1>1, <2>1
<1>11. CASE r # SettledRank(a)
  <2>1. r < settledRank[c][h]
    BY <1>6, <1>7, <1>8, <1>9, <1>11 DEF RankE, RankS
  <2> QED BY <1>1, <1>6, <1>7, <1>8, <2>1 DEF Counts!Burn
<1> QED BY <1>10, <1>11

(* The gate does to the counts and the ranks that claims are made of what  *)
(* module Settlement lets it do (enterToGate: an entry in a season that is *)
(* current, counted by one of the weights; the burn of a rank token), and  *)
(* nothing else, whatever the gate, its tables and the seasons are.        *)
THEOREM SettlementSeesEntries == Spec => [][CountedStep]_<<gateCountOfSeason, settledRank>>
<1>1. ASSUME Inv, [Next]_vars
      PROVE  [CountedStep]_<<gateCountOfSeason, settledRank>>
  <2>1. CASE \E h \in Hunters, season \in SeasonId, rank \in RankType, hunterRank \in RankType :
                 Enters(h, season, rank, hunterRank)
    BY <1>1, <2>1, EntryIsCounted DEF CountedStep
  <2>2. CASE BurnRankToken
    BY <1>1, <2>2, BurnIsCounted DEF BurnRankToken, CountedStep
  <2>3. CASE UNCHANGED <<gateCountOfSeason, rankToken>>
    <3>1. settledRank' = settledRank
      BY <2>3 DEF settledRank, SettledRank, HunterRank
    <3> QED BY <2>3, <3>1
  <2>4. CASE \/ SeasonNext /\ UNCHANGED <<shopVars, gateVars>>
             \/ ShopNext /\ UNCHANGED <<seasonVars, gateVars>>
             \/ UNCHANGED <<seasonVars, shopVars, bookVars, waiting, rankToken>>
    BY <2>3, <2>4 DEF gateVars, bookVars, rankVars
  <2>5. CASE \E h \in Hunters, season \in SeasonId, rank \in RankType, value \in Nat :
                 Acting(h) /\ buyForEntry(h, season, rank, value)
    BY <2>3, <2>5 DEF buyForEntry, bookVars, rankVars
  <2>6. CASE \E h \in Hunters, g \in DOMAIN gates : \E signatures : clearGate(h, g, signatures)
    BY <2>3, <2>6 DEF clearGate, rankVars
  <2> QED BY <1>1, <2>1, <2>2, <2>4, <2>5, <2>6, StepsOfGame
<1> QED BY <1>1, InvariantHolds, PTL DEF Spec
=============================================================================
