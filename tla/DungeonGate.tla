---------------------------- MODULE DungeonGate ----------------------------
(***************************************************************************)
(* SLDungeonGate (contracts/dungeonGate/): hunters enter gates with a key, *)
(* wait or burn essence stones, and clear them for monsters, season packs  *)
(* and stones.  Composed here with the contracts an entry and a clear call *)
(* into: the seasons (Season), the shop with the keys and stones (Shop),   *)
(* the rank tokens (SLHunterRank), the nonces of the random signatures     *)
(* (SLRandom) and, as far as the rewards need them, the monster factory    *)
(* and the season packs.                                                   *)
(*                                                                         *)
(* An action is one transaction, but for an entry that buys its key.  The  *)
(* mint of the key calls back a hunter that is a contract, which may call  *)
(* on before the entry goes on, so that entries nest; the calls begun and  *)
(* not finished are in `waiting'.  Other tokens take no such turn: they    *)
(* come last in a call, or, like the monsters of a clear, leave open only  *)
(* which nonces its packs are then drawn from, so what a contract does     *)
(* when it gets them is as good as done after the call.                    *)
(* A call that cannot finish undoes all done since it began: it is no      *)
(* behaviour of the contracts, and here one that goes no further.          *)
(*                                                                         *)
(* A hunter has approved the gate to draw USD and to burn keys and stones; *)
(* calls without that revert.  Each season pack collection has a single    *)
(* token here.                                                             *)
(***************************************************************************)
EXTENDS Season, Shop, Sequences

CONSTANTS
    Callers,            \* the hunters that are contracts and call on when they
                        \* are called back
    MaxWaiting,         \* bound: entries begun inside one another
    MaxGates,           \* bound: gates ever entered
    MaxNonce,           \* bound: nonce up to which signatures are used alone
    SlotTables,         \* bound: the tables the operators set, per rank:
    RequiredCounts,     \*   slots, gate counts for a rank up,
    GateBlockTables,    \*   blocks of a gate and
    RewardTables,       \*   rewards of a gate
    BoostBlockCounts,   \* bound: blocks a stone saves
    MaxSignatures,      \* bound: signatures sent with a clear
    MintStates,         \* bound: the values of canMint in use
    MonsterRanks        \* bound: ranks monsters are added to

RankOfUpgrade == RankE..RankA
Reward == [monsters : [RankType -> Nat], packs : Nat, stones : Nat]

ASSUME CallersAssumption == Callers \subseteq Hunters
ASSUME MaxGatesAssumption == {MaxGates, MaxWaiting, MaxNonce, MaxSignatures} \subseteq Nat
ASSUME TablesAssumption ==
    /\ SlotTables \subseteq [RankType -> Nat \ {0}]     \* setSlotPerHunterRank
    /\ RequiredCounts \subseteq [RankOfUpgrade -> Nat]
    /\ GateBlockTables \subseteq [RankType -> Nat]
    /\ RewardTables \subseteq [RankType -> Reward]
    /\ BoostBlockCounts \subseteq Nat \ {0}             \* setBoostBlockCount
ASSUME RanksAssumption == MonsterRanks \subseteq RankType
ASSUME MintStatesAssumption == MintStates \subseteq BOOLEAN

GateId == 1..MaxGates
Gate == [seasonId : SeasonId, endBlock : Nat, usedStone : Nat,
         cleared : BOOLEAN, gateRank : RankType, hunter : Hunters]
Entry == [hunter : Hunters, seasonId : SeasonId, gateRank : RankType, hunterRank : RankType]

VARIABLES
    gates,                      \* gates[id], the ids counted from 1
    gateOfHunterSlot,           \* hunter -> ids of the gates in the slots
    gateCountOfSeason,          \* season -> hunter -> gate count
    waiting,                    \* the entries that have bought their key and go on
                                \*   when the hunter called back is done, innermost last
    slotPerHunterRank, requiredGateCountForRankUp, gateBlockPerRank,
    rewardTokensPerRank, boostBlockCount,
    approved,                   \* the USD tokens the shop may draw from the gate
    rankToken,                  \* SLHunterRank: collection -> hunter -> rank -> balance
    canMint,                    \*   collection -> whether the gate can mint: minting
                                \*   is enabled and the gate a controller
    nonces,                     \* SLRandom: hunter -> signatures used
    monster, seasonPack,        \* hunter -> rewards received
    drawnFrom,                  \* hunter -> the signatures rewards were drawn from
    stocked,                    \* the ranks with a normal monster
    openPacks, mintedPacks      \* pack collections with an open, a minted token

tableVars == <<slotPerHunterRank, requiredGateCountForRankUp, gateBlockPerRank,
               rewardTokensPerRank, boostBlockCount>>
bookVars == <<gates, gateOfHunterSlot, gateCountOfSeason>>
rankVars == <<rankToken, canMint>>
rewardVars == <<nonces, monster, seasonPack, drawnFrom, mintedPacks>>
stockVars == <<stocked, openPacks>>
gateVars == <<bookVars, waiting, tableVars, approved, rankVars, rewardVars, stockVars>>
vars == <<seasonVars, shopVars, gateVars>>

----------------------------------------------------------------------------
(* Views                                                                   *)

(* The highest rank the hunter has a token of; no token stands for rank E. *)
HunterRankByCount(tokens) ==                \* faulty: the number of tokens
    Cardinality({r \in RankType : tokens[r] > 0})
HunterRank(tokens) ==
    CHOOSE r \in RankType :
        /\ r = RankE \/ tokens[r] > 0
        /\ \A q \in RankType : q > r => tokens[q] = 0
getHunterRank(season, h) == HunterRank(rankToken[seasons[season].uses.hunterRank][h])

getHunterUsingSlot(h) == Cardinality(gateOfHunterSlot[h])
hasFreeSlotOrFull(season, h) ==             \* faulty: one gate more than slots
    getHunterUsingSlot(h) <= slotPerHunterRank[getHunterRank(season, h)]
hasFreeSlot(season, h) ==
    getHunterUsingSlot(h) < slotPerHunterRank[getHunterRank(season, h)]

getGateRemainingBlock(g) ==
    IF gates[g].endBlock < block THEN 0 ELSE gates[g].endBlock - block
getRequiredStoneRoundedUp(g) ==             \* faulty: one too many at a boundary
    getGateRemainingBlock(g) \div boostBlockCount + 1
getRequiredStoneForClear(g) ==
    (getGateRemainingBlock(g) + boostBlockCount - 1) \div boostBlockCount

getRequiredRandomSignature(reward) == Total(reward.monsters) + reward.packs

(* What an entry adds to the gate count, the hunter's level score.         *)
GateWeight(rank) == <<1, 3, 5, 8, 10, 15>>[rank + 1]

----------------------------------------------------------------------------
GateInit ==
    /\ gates = <<>>
    /\ gateOfHunterSlot = [h \in Hunters |-> {}]
    /\ gateCountOfSeason = [s \in SeasonId |-> [h \in Hunters |-> 0]]
    /\ waiting = <<>>
    /\ slotPerHunterRank \in SlotTables
    /\ requiredGateCountForRankUp \in RequiredCounts
    /\ gateBlockPerRank \in GateBlockTables
    /\ rewardTokensPerRank \in RewardTables
    /\ boostBlockCount \in BoostBlockCounts
    /\ approved = {usdTokenContract}
    /\ rankToken = [c \in HunterRankCollections |->
                       [h \in Hunters |-> [r \in RankType |-> 0]]]
    /\ canMint = [c \in HunterRankCollections |-> TRUE]
    /\ nonces = [h \in Hunters |-> 0]
    /\ monster = [h \in Hunters |-> 0]
    /\ seasonPack = [h \in Hunters |-> 0]
    /\ drawnFrom = [h \in Hunters |-> {}]
    /\ stocked = {}
    /\ openPacks = {}
    /\ mintedPacks = {}

Init == SeasonInit /\ ShopInit /\ GateInit

----------------------------------------------------------------------------
(* enterToGate                                                             *)

(* Whose calls there can be: anyone's between two transactions, within one *)
(* those of contracts, when it is a contract that was called back.         *)
InnerEntry == waiting[Len(waiting)]
Acting(h) == waiting # <<>> => {h, InnerEntry.hunter} \subseteq Callers

mayEnter(h, season, rank) ==
    /\ isExistSeasonById(season)
    /\ isCurrentSeasonById(season)
    /\ rank <= getHunterRank(season, h)

recordGate(season, rank, h) ==
    /\ gates' = Append(gates,
                   [seasonId |-> season, endBlock |-> block + gateBlockPerRank[rank],
                    usedStone |-> 0, cleared |-> FALSE, gateRank |-> rank, hunter |-> h])
    /\ gateOfHunterSlot' =
           [gateOfHunterSlot EXCEPT ![h] = @ \union {Len(gates) + 1}]

countGateFlat(season, rank, h) ==           \* faulty: all ranks weigh the same
    gateCountOfSeason' = [gateCountOfSeason EXCEPT ![season][h] = @ + 1]
countGate(season, rank, h) ==
    gateCountOfSeason' = [gateCountOfSeason EXCEPT ![season][h] = @ + GateWeight(rank)]

(* A hunter whose count, with this gate, suffices for the rank after       *)
(* `hunterRank', which was read before the key, gets the token of that     *)
(* rank, in the rank collection of the season: while the gate cannot mint  *)
(* there, such a hunter's entries revert.                                  *)
rankUpLikeE(season, h, hunterRank, count) ==    \* faulty: every rank costs what D does
    LET c == seasons[season].uses.hunterRank
    IN  IF hunterRank # RankS /\ requiredGateCountForRankUp[RankE] <= count
        THEN rankToken' = [rankToken EXCEPT ![c][h][hunterRank + 1] = @ + 1]
        ELSE UNCHANGED rankToken
rankUp(season, h, hunterRank, count) ==
    LET c == seasons[season].uses.hunterRank
    IN  IF hunterRank # RankS /\ requiredGateCountForRankUp[hunterRank] <= count
        THEN /\ canMint[c]
             /\ rankToken' = [rankToken EXCEPT ![c][h][hunterRank + 1] = @ + 1]
        ELSE UNCHANGED rankToken

burnNoKey(h, rank) ==                       \* faulty: a key is for ever
    key[h][rank] > 0 /\ UNCHANGED key
burnEntryKey(h, rank) ==
    /\ key[h][rank] > 0
    /\ key' = [key EXCEPT ![h][rank] = @ - 1]

(* From the burn of the key on nothing calls back, but for the rank token  *)
(* at the end.                                                             *)
goOn(h, season, rank, hunterRank) ==
    /\ burnEntryKey(h, rank)
    /\ hasFreeSlot(season, h)
    /\ recordGate(season, rank, h)
    /\ countGate(season, rank, h)
    /\ rankUp(season, h, hunterRank, gateCountOfSeason[season][h] + GateWeight(rank))
    /\ UNCHANGED <<seasonVars, configVars, keyMinted, stoneVars, tableVars, approved,
                   canMint, rewardVars, stockVars>>

(* The MATIC sent with the call reaches the gate first.  A hunter who      *)
(* holds a key must send none.                                             *)
sendAnything(h, value) ==                   \* faulty: key holders may send MATIC
    /\ CanPay(coin, MATIC, h, value)
    /\ coin' = Moved(coin, MATIC, h, GateAccount, value)
sendNothing(h, value) == value = 0 /\ UNCHANGED coin
enterWithKey(h, season, rank, value) ==
    /\ mayEnter(h, season, rank)
    /\ key[h][rank] > 0
    /\ sendNothing(h, value)
    /\ goOn(h, season, rank, getHunterRank(season, h))
    /\ UNCHANGED waiting

(* For a hunter without a key the gate buys one at the shop with what it   *)
(* has just drawn from the hunter, who is called back now.                 *)
buyForEntry(h, season, rank, value) ==
    LET price == keyPrice[priceMode][rank]
        received == Moved(coin, MATIC, h, GateAccount, value)
        drawn == Moved(received, usdTokenContract, h, GateAccount, price)
    IN  /\ mayEnter(h, season, rank)
        /\ key[h][rank] = 0
        /\ CanPay(coin, MATIC, h, value)
        /\ IF priceMode = MATIC
           THEN /\ value = price
                /\ payForKeys(received, GateAccount, value, price)
           ELSE /\ value = 0
                /\ CanPay(received, usdTokenContract, h, price)
                /\ price > 0 => usdTokenContract \in approved
                /\ payForKeys(drawn, GateAccount, 0, price)
        /\ mintKeys(h, KeysOf(rank, 1))
        /\ waiting' = Append(waiting, [hunter |-> h, seasonId |-> season, gateRank |-> rank,
                                       hunterRank |-> getHunterRank(season, h)])
        /\ UNCHANGED <<seasonVars, configVars, stoneVars, bookVars, tableVars, approved,
                       rankVars, rewardVars, stockVars>>

(* The hunter called back is done.                                         *)
finishEntry ==
    LET e == InnerEntry
    IN  /\ waiting # <<>>
        /\ goOn(e.hunter, e.seasonId, e.gateRank, e.hunterRank)
        /\ waiting' = SubSeq(waiting, 1, Len(waiting) - 1)
        /\ UNCHANGED coin

----------------------------------------------------------------------------
(* clearGate                                                               *)

(* A signature is told by the nonce it signs.  verifyRandomSignature       *)
(* accepts the one of the hunter's next nonce only, and uses it up.        *)
useNoncesOnce(h, count) == nonces' = [nonces EXCEPT ![h] = @ + 1] \* faulty: once per call
useNonces(h, count) == nonces' = [nonces EXCEPT ![h] = @ + count]

(* Monsters, then season packs, are drawn from the signatures in turn, so  *)
(* these must be of the hunter's next nonces.  A rank without monsters to  *)
(* draw from is a division by zero; a pack collection without an open      *)
(* token gives no pack, and the signatures meant for packs stay unused.    *)
mintRewards(h, season, reward, signatures) ==
    LET packs == seasons[season].uses.seasonPack
        packCount == IF packs \in openPacks THEN reward.packs ELSE 0
        drawn == 1..(Total(reward.monsters) + packCount)
    IN  /\ \A r \in RankType : reward.monsters[r] > 0 => r \in stocked
        /\ \A i \in drawn : signatures[i] = nonces[h] + i - 1
        /\ useNonces(h, Total(reward.monsters) + packCount)
        /\ drawnFrom' = [drawnFrom EXCEPT ![h] = @ \union {signatures[i] : i \in drawn}]
        /\ monster' = [monster EXCEPT ![h] = @ + Total(reward.monsters)]
        /\ seasonPack' = [seasonPack EXCEPT ![h] = @ + packCount]
        /\ mintedPacks' = IF packCount > 0 THEN mintedPacks \union {packs} ELSE mintedPacks

(* The stones are burned before the rewards are minted: the stones of the  *)
(* reward cannot pay for the clear, and can be minted while the token is   *)
(* open only.                                                              *)
payStonesUnchecked(h, required, rewarded) ==        \* faulty: no balance check
    /\ stone' = [stone EXCEPT ![h] = @ - required + rewarded]
    /\ stoneMinted' = stoneMinted + rewarded
    /\ UNCHANGED stoneOpen
payStonesUnburned(h, required, rewarded) ==         \* faulty: only checked
    /\ stone[h] >= required
    /\ stone' = [stone EXCEPT ![h] = @ + rewarded]
    /\ stoneMinted' = stoneMinted + rewarded
    /\ UNCHANGED stoneOpen
payStones(h, required, rewarded) ==
    /\ stone[h] >= required
    /\ rewarded > 0 => stoneOpen
    /\ stone' = [stone EXCEPT ![h] = @ - required + rewarded]
    /\ stoneMinted' = stoneMinted + rewarded
    /\ UNCHANGED stoneOpen

recordClearOnly(h, g, required) ==                  \* faulty: the slot stays taken
    /\ gates' = [gates EXCEPT ![g].cleared = TRUE, ![g].usedStone = @ + required]
    /\ UNCHANGED gateOfHunterSlot
recordClearOfAll(h, g, required) ==                 \* faulty: frees all the slots
    /\ gates' = [gates EXCEPT ![g].cleared = TRUE, ![g].usedStone = @ + required]
    /\ gateOfHunterSlot' = [gateOfHunterSlot EXCEPT ![h] = {}]
recordClear(h, g, required) ==
    /\ gates' = [gates EXCEPT ![g].cleared = TRUE, ![g].usedStone = @ + required]
    /\ gateOfHunterSlot' = [gateOfHunterSlot EXCEPT ![h] = @ \ {g}]

clearGate(h, g, signatures) ==
    LET required == getRequiredStoneForClear(g)
        reward == rewardTokensPerRank[gates[g].gateRank]
    IN  /\ ~ gates[g].cleared
        /\ gates[g].hunter = h
        /\ Len(signatures) = getRequiredRandomSignature(reward)
        /\ payStones(h, required, reward.stones)
        /\ recordClear(h, g, required)
        /\ mintRewards(h, gates[g].seasonId, reward, signatures)
        /\ UNCHANGED <<seasonVars, configVars, coin, key, keyMinted, gateCountOfSeason,
                       waiting, tableVars, approved, rankVars, stockVars>>

----------------------------------------------------------------------------
(* The other transactions that reach this state                            *)

(* verifyRandomSignature is external: called on its own with the signature *)
(* of the hunter's next nonce, it uses the nonce up outside a clear.       *)
verifyRandomSignature(h) ==
    /\ useNonces(h, 1)
    /\ UNCHANGED <<seasonVars, shopVars, bookVars, waiting, tableVars, approved, rankVars,
                   monster, seasonPack, drawnFrom, mintedPacks, stockVars>>

(* Rank tokens are not transferable, but their holders can burn them.      *)
burnRankToken(h, c, rank) ==
    /\ rankToken[c][h][rank] > 0
    /\ rankToken' = [rankToken EXCEPT ![c][h][rank] = @ - 1]
    /\ UNCHANGED <<seasonVars, shopVars, bookVars, waiting, tableVars, approved, canMint,
                   rewardVars, stockVars>>

(* setMintEnabled, or the gate becomes a controller or stops being one.    *)
setCanMint(c, able) ==
    /\ canMint' = [canMint EXCEPT ![c] = able]
    /\ UNCHANGED <<seasonVars, shopVars, bookVars, waiting, tableVars, approved, rankToken,
                   rewardVars, stockVars>>

setApproveUSDTokenContract ==
    /\ approved' = approved \union {usdTokenContract}
    /\ UNCHANGED <<seasonVars, shopVars, bookVars, waiting, tableVars, rankVars, rewardVars,
                   stockVars>>

(* The five setters of the gate, one table at a time.                      *)
setSlotPerHunterRank(table) ==
    /\ slotPerHunterRank' = table
    /\ UNCHANGED <<requiredGateCountForRankUp, gateBlockPerRank,
                   rewardTokensPerRank, boostBlockCount>>
setRequiredGateCountForRankUp(table) ==
    /\ requiredGateCountForRankUp' = table
    /\ UNCHANGED <<slotPerHunterRank, gateBlockPerRank,
                   rewardTokensPerRank, boostBlockCount>>
setGateBlockPerRank(table) ==
    /\ gateBlockPerRank' = table
    /\ UNCHANGED <<slotPerHunterRank, requiredGateCountForRankUp,
                   rewardTokensPerRank, boostBlockCount>>
setGateRewardPerRank(table) ==
    /\ rewardTokensPerRank' = table
    /\ UNCHANGED <<slotPerHunterRank, requiredGateCountForRankUp,
                   gateBlockPerRank, boostBlockCount>>
setBoostBlockCount(count) ==
    /\ boostBlockCount' = count
    /\ UNCHANGED <<slotPerHunterRank, requiredGateCountForRankUp,
                   gateBlockPerRank, rewardTokensPerRank>>

(* addMonster puts a normal monster into a rank; setMonsterRankType moves  *)
(* one to another rank, and the rank it leaves may be empty then.          *)
stockVarsOnly == UNCHANGED <<seasonVars, shopVars, bookVars, waiting, tableVars, approved,
                             rankVars, rewardVars>>
addMonster(rank) ==
    /\ stocked' = stocked \union {rank}
    /\ UNCHANGED openPacks
    /\ stockVarsOnly
setMonsterRankType(before, after, emptied) ==
    /\ before \in stocked
    /\ stocked' = (IF emptied THEN stocked \ {before} ELSE stocked) \union {after}
    /\ UNCHANGED openPacks
    /\ stockVarsOnly

(* A pack token can be closed until one of it has been minted.             *)
openToken(packs) ==
    /\ openPacks' = openPacks \union {packs}
    /\ UNCHANGED stocked
    /\ stockVarsOnly
closeTokenAlways(packs) ==                  \* faulty: minted or not
    /\ openPacks' = openPacks \ {packs}
    /\ UNCHANGED stocked
    /\ stockVarsOnly
closeToken(packs) ==
    /\ packs \notin mintedPacks
    /\ openPacks' = openPacks \ {packs}
    /\ UNCHANGED stocked
    /\ stockVarsOnly

----------------------------------------------------------------------------
EnterWithKey ==
    /\ Len(gates) + Len(waiting) < MaxGates
    /\ \E h \in Hunters, s \in SeasonId, rank \in KeyRanks, value \in Value :
           Acting(h) /\ enterWithKey(h, s, rank, value)
BuyForEntry ==
    /\ Len(gates) + Len(waiting) < MaxGates /\ Len(waiting) < MaxWaiting
    /\ \E h \in Hunters, s \in SeasonId, rank \in KeyRanks, value \in Value :
           Acting(h) /\ buyForEntry(h, s, rank, value)
(* Lists of signatures: of the nonce used last, and of those to come as    *)
(* far as a clear can use them.                                            *)
Signature(h) == {n \in 0..(nonces[h] + MaxSignatures - 1) : n >= nonces[h] - 1}
Signatures(h) == UNION {[1..n -> Signature(h)] : n \in 0..MaxSignatures}
ClearGate(g) ==
    \E h \in Hunters : Acting(h) /\ \E signatures \in Signatures(h) :
        clearGate(h, g, signatures)
VerifyRandomSignature ==
    \E h \in Hunters : Acting(h) /\ nonces[h] < MaxNonce /\ verifyRandomSignature(h)
BurnRankToken ==
    \E h \in Hunters, c \in HunterRankCollections, rank \in RankType :
        Acting(h) /\ burnRankToken(h, c, rank)
ConfigureTables ==
    /\ \/ \E t \in SlotTables : setSlotPerHunterRank(t)
       \/ \E t \in RequiredCounts : setRequiredGateCountForRankUp(t)
       \/ \E t \in GateBlockTables : setGateBlockPerRank(t)
       \/ \E t \in RewardTables : setGateRewardPerRank(t)
       \/ \E n \in BoostBlockCounts : setBoostBlockCount(n)
    /\ UNCHANGED <<seasonVars, shopVars, bookVars, waiting, approved, rankVars, rewardVars,
                   stockVars>>
ConfigureGate ==
    \/ ConfigureTables
    \/ \E c \in HunterRankCollections, able \in MintStates : setCanMint(c, able)
    \/ setApproveUSDTokenContract
Stock ==
    \/ \E rank \in MonsterRanks : addMonster(rank)
    \/ \E before, after \in MonsterRanks, emptied \in BOOLEAN :
           setMonsterRankType(before, after, emptied)
    \/ \E packs \in SeasonPackCollections : openToken(packs) \/ closeToken(packs)

HuntersNext ==
    \/ EnterWithKey \/ BuyForEntry
    \/ \E g \in DOMAIN gates : ClearGate(g)
    \/ VerifyRandomSignature \/ BurnRankToken
    \/ \E h \in Hunters : Acting(h) /\ HunterDeals(h) /\ UNCHANGED <<seasonVars, gateVars>>
(* The operators and the chain take no part in a transaction of a hunter.  *)
OthersNext ==
    /\ waiting = <<>>
    /\ \/ ConfigureGate \/ Stock
       \/ SeasonNext /\ UNCHANGED <<shopVars, gateVars>>
       \/ OperatorDeals /\ UNCHANGED <<seasonVars, gateVars>>

Next == HuntersNext \/ finishEntry \/ OthersNext

Spec == Init /\ [][Next]_vars

(* Transactions end, blocks go on being mined, and the hunters clear what  *)
(* they can clear.                                                         *)
FairSpec ==
    /\ Spec
    /\ []<>(waiting = <<>>)
    /\ WF_vars(waiting = <<>> /\ mineBlock /\ UNCHANGED <<shopVars, gateVars>>)
    /\ \A g \in GateId : WF_vars(g \in DOMAIN gates /\ ClearGate(g))

----------------------------------------------------------------------------
(* The types of the variables.                                             *)
GateTypeOK ==
    /\ gates \in Seq(Gate)
    /\ gateOfHunterSlot \in [Hunters -> SUBSET (1..Len(gates))]
    /\ gateCountOfSeason \in [SeasonId -> [Hunters -> Nat]]
    /\ waiting \in Seq(Entry)
    /\ slotPerHunterRank \in SlotTables
    /\ requiredGateCountForRankUp \in RequiredCounts
    /\ gateBlockPerRank \in GateBlockTables
    /\ rewardTokensPerRank \in RewardTables
    /\ boostBlockCount \in BoostBlockCounts
    /\ approved \subseteq UsdTokens
    /\ rankToken \in [HunterRankCollections -> [Hunters -> [RankType -> Nat]]]
    /\ canMint \in [HunterRankCollections -> BOOLEAN]
    /\ nonces \in [Hunters -> Nat]
    /\ monster \in [Hunters -> Nat]
    /\ seasonPack \in [Hunters -> Nat]
    /\ drawnFrom \in [Hunters -> SUBSET Nat]
    /\ stocked \subseteq RankType
    /\ openPacks \subseteq SeasonPackCollections
    /\ mintedPacks \subseteq SeasonPackCollections
TypeOK == SeasonTypeOK /\ ShopTypeOK /\ GateTypeOK

(* The slots of a hunter hold exactly the hunter's gates that are not      *)
(* cleared, so a cleared gate frees its slot and only its own.             *)
SlotsExact ==
    \A h \in Hunters :
        gateOfHunterSlot[h] =
            {g \in DOMAIN gates : gates[g].hunter = h /\ ~ gates[g].cleared}

(* No hunter ever has more open gates than the slots some rank was given,  *)
(* although entries nest, and the hunter called back in one may rank up    *)
(* and burn ranks before it counts the slots.                              *)
SlotsBounded ==
    \A h \in Hunters : \E table \in SlotTables, r \in RankType :
        getHunterUsingSlot(h) <= table[r]

(* The gate count of a hunter in a season is the weighted number of the    *)
(* gates the hunter entered in it, cleared or not, whatever happens to the *)
(* season and the tables later.                                            *)
GatesOf(season, h) ==
    {g \in DOMAIN gates : gates[g].seasonId = season /\ gates[g].hunter = h}
LevelScoreExact ==
    \A s \in SeasonId, h \in Hunters :
        gateCountOfSeason[s][h] =
            SumFunction([g \in GatesOf(s, h) |-> GateWeight(gates[g].gateRank)])

(* A rank is earned: the hunter entered at least as many gates as ranks    *)
(* were climbed (an entry gives one rank at most), and some season's count *)
(* reaches what a table the operators have set asks for that rank.         *)
RankEarned ==
    \A c \in HunterRankCollections, h \in Hunters, r \in RankD..RankS :
        rankToken[c][h][r] > 0 =>
            /\ Cardinality({g \in DOMAIN gates : gates[g].hunter = h}) >= r
            /\ \E s \in SeasonId, table \in RequiredCounts :
                   table[r - 1] <= gateCountOfSeason[s][h]

(* A hunter that is a plain account holds at most one token of a rank,     *)
(* also after burning some and after seasons that share a collection: the  *)
(* highest token is the rank, what an entry mints is one above it, and     *)
(* nothing changes the rank between the reading and the mint.  A contract  *)
(* that enters again when it is called back can get a second one.          *)
RankTokenUnique ==
    \A c \in HunterRankCollections, h \in Hunters \ Callers :
        /\ rankToken[c][h][RankE] = 0
        /\ \A r \in RankType : rankToken[c][h][r] <= 1

(* The gate counts of an ended season never change again, in particular    *)
(* not by clearing its gates late: the settlement takes them as final.     *)
EndedSeasonScoreFrozen ==
    [][\A s \in 0..(seasonIds - 1) :
          isEndedSeasonById(s) => gateCountOfSeason'[s] = gateCountOfSeason[s]]_vars

(* Every gate cost a key: the keys minted of a rank cover those still held *)
(* and one for each gate of that rank ever entered.                        *)
KeyAccounting ==
    \A r \in RankType :
        SumFunction([h \in Hunters |-> key[h][r]])
            + Cardinality({g \in DOMAIN gates : gates[g].gateRank = r}) <= keyMinted[r]

(* What the gates record as used stones was burned: with the stones held   *)
(* it stays within the stones minted.                                      *)
StoneAccounting ==
    SumFunction(stone) + SumFunction([g \in DOMAIN gates |-> gates[g].usedStone])
        <= stoneMinted

(* No two random rewards were ever drawn from one signature, neither in a  *)
(* clear, where one list serves monsters and packs, nor in several.        *)
OneRewardPerSignature ==
    \A h \in Hunters : Cardinality(drawnFrom[h]) = monster[h] + seasonPack[h]

(* What hunters were given tokens of, packs and stones, is never closed    *)
(* again: a reward that could be minted once can be minted for good.       *)
MintedTokensOpen == mintedPacks \subseteq openPacks /\ (stoneMinted > 0 => stoneOpen)

(* The gate, which cannot pay anything out, keeps no coin: an entry passes *)
(* on all it drew from the hunter, in either price mode.                   *)
GateKeepsNothing == \A c \in Coin : coin[c][GateAccount] = 0

(* Once a gate's blocks are over its hunter can clear it without any       *)
(* stone, with some list of signatures, provided the ranks of its rewards  *)
(* have monsters and the stones of its reward are open: whatever nonces    *)
(* were used and whichever tables are in force, and whether or not packs   *)
(* are open, nothing keeps the slot occupied.  (The gate keeps its rights  *)
(* and collections here.)                                                  *)
RewardsDrawable(g) ==
    g \in DOMAIN gates =>
        LET reward == rewardTokensPerRank[gates[g].gateRank]
        IN  /\ \A r \in RankType : reward.monsters[r] > 0 => r \in stocked
            /\ reward.stones > 0 => stoneOpen
ExpiredGateClearable ==
    \A g \in DOMAIN gates :
        /\ waiting = <<>>
        /\ ~ gates[g].cleared /\ gates[g].endBlock <= block /\ RewardsDrawable(g)
        => ENABLED ClearGate(g)

(* The gates behave as the ledger promises.                                *)
Ledger == INSTANCE GateLedger WITH
              owner <- [g \in DOMAIN gates |-> gates[g].hunter],
              open <- gateOfHunterSlot
LedgerKept == Ledger!LedgerSpec

(* Every gate entered is cleared in the end, when the blocks it takes fall *)
(* within the bound on blocks and its rewards can be drawn from then on.   *)
GatesCleared ==
    \A g \in GateId :
        (g \in DOMAIN gates /\ gates[g].endBlock <= MaxBlock /\ []RewardsDrawable(g))
            ~> (g \in DOMAIN gates /\ gates[g].cleared)
=============================================================================
