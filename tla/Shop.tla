-------------------------------- MODULE Shop --------------------------------
(***************************************************************************)
(* SLShop (contracts/shop/SLShop.sol): gate keys and essence stones for    *)
(* MATIC or for a USD token, and the two tokens it mints, as far as the    *)
(* shop and their holders change them (SLGateKey, SLEssenceStone).         *)
(*                                                                         *)
(* A transaction either completes or has no effect, so an action's guard   *)
(* is the conjunction of what the code requires along the way.  Hunters    *)
(* have approved the shop and the dungeon gate to draw USD: one that has   *)
(* not is one whose purchases revert.  A hunter that is a contract is      *)
(* called back when it gets keys or stones; here these come last in a call,*)
(* so what it does then is as good as done after it.                       *)
(***************************************************************************)
EXTENDS Ranks, FiniteSets, Functions, Sequences

CONSTANTS
    Hunters,
    UsdTokens,      \* the USD contracts the operators may choose from
    Funds,          \* bound: what every hunter owns of each coin
    KeyPrices,      \* bound: the price lists the operators set, rank -> price
    StonePrices,    \* bound: the prices of a stone the operators set
    PriceModes,     \* the price modes in use, {MATIC, USD} or one of them
    PauseStates,    \* the values of sellPaused in use
    StoneStates,    \* bound: those of stoneOpen the operators set
    KeyRanks,       \* bound: the ranks of the keys and gates in use
    MaxKeys,        \* bound: keys for a sale or a gift to go on
    MaxBatch,       \* bound: positions of a batch of keys
    MaxStones       \* bound: stones minted for a sale to go on

MATIC == "MATIC"
USD == "USD"

ASSUME FundsAssumption == Funds \in Nat
ASSUME HuntersAssumption == IsFiniteSet(Hunters)
ASSUME PricesAssumption ==
    KeyPrices \subseteq [RankType -> Nat] /\ StonePrices \subseteq Nat
ASSUME PriceModesAssumption == PriceModes \subseteq {MATIC, USD}
ASSUME PauseStatesAssumption == PauseStates \subseteq BOOLEAN /\ StoneStates \subseteq BOOLEAN
ASSUME KeyRanksAssumption == KeyRanks \subseteq RankType
ASSUME CoinsAssumption == MATIC \notin UsdTokens
ASSUME MaxKeysAssumption == MaxKeys \in Nat /\ MaxStones \in Nat /\ MaxBatch \in Nat

ShopAccount == "SLShop"
GateAccount == "SLDungeonGate"
Treasury == "treasury"
Account == Hunters \union {ShopAccount, GateAccount, Treasury}
ASSUME AccountsAssumption ==
    Hunters \intersect {ShopAccount, GateAccount, Treasury} = {}

Coin == UsdTokens \union {MATIC}

VARIABLES
    priceMode, keyPrice, stoneUsdPrice, sellPaused, usdTokenContract,
    coin,           \* coin -> account -> balance
    key,            \* hunter -> rank -> keys held
    keyMinted,      \* rank -> mintedSupplyOfToken
    stone,          \* hunter -> essence stones held
    stoneMinted,    \* mintedSupplyOfToken of the stone
    stoneOpen       \* tokenOpened of the stone: whether it can be minted

configVars == <<priceMode, keyPrice, stoneUsdPrice, sellPaused, usdTokenContract>>
stoneVars == <<stone, stoneMinted, stoneOpen>>
tokenVars == <<key, keyMinted, stoneVars>>
shopVars == <<configVars, coin, tokenVars>>

----------------------------------------------------------------------------
PayCoin == IF priceMode = MATIC THEN MATIC ELSE usdTokenContract

(* The balances once `amount' of `c' has moved (a transferFrom, or the     *)
(* value of a call); the transaction reverts when the payer lacks it.      *)
CanPay(balances, c, from, amount) == balances[c][from] >= amount
Moved(balances, c, from, to, amount) ==
    [balances EXCEPT ![c] = [a \in Account |->
        balances[c][a] + (IF a = to THEN amount ELSE 0)
                       - (IF a = from THEN amount ELSE 0)]]

Total(f) == f[RankE] + f[RankD] + f[RankC] + f[RankB] + f[RankA] + f[RankS]
KeysCost(amounts) ==
    Total([r \in RankType |-> keyPrice[priceMode][r] * amounts[r]])
KeysOf(rank, amount) == [r \in RankType |-> IF r = rank THEN amount ELSE 0]

(* A batch names a rank and an amount at each position, in any order, the  *)
(* same rank more than once and amounts of zero too.                       *)
BatchItem == [rank : RankType, amount : Nat]
ItemPrice(item) == keyPrice[priceMode][item.rank] * item.amount
BatchPriceOnce(batch) ==                    \* faulty: what is named again is free
    SumFunction([item \in Range(batch) |-> ItemPrice(item)])
BatchPrice(batch) == SumFunction([i \in DOMAIN batch |-> ItemPrice(batch[i])])
BatchAmounts(batch) ==
    [r \in RankType |->
        SumFunction([i \in DOMAIN batch |-> KeysOf(batch[i].rank, batch[i].amount)[r]])]

(* Minting raises the balance and the minted supply together.              *)
mintKeys(to, amounts) ==
    /\ keyMinted' = [r \in RankType |-> keyMinted[r] + amounts[r]]
    /\ key' = [key EXCEPT ![to] = [r \in RankType |-> key[to][r] + amounts[r]]]

----------------------------------------------------------------------------
ShopInit ==
    /\ priceMode \in PriceModes
    /\ keyPrice \in [{MATIC, USD} -> KeyPrices]
    /\ stoneUsdPrice \in StonePrices
    /\ sellPaused = FALSE
    /\ usdTokenContract \in UsdTokens
    /\ coin = [c \in Coin |-> [a \in Account |-> IF a \in Hunters THEN Funds ELSE 0]]
    /\ key = [h \in Hunters |-> [r \in RankType |-> 0]]
    /\ keyMinted = [r \in RankType |-> 0]
    /\ stone = [h \in Hunters |-> 0]
    /\ stoneMinted = 0
    /\ stoneOpen = TRUE

(* The sale of buyKey and buyKeyBatch, up to the mint: `value' is what the *)
(* call brings in MATIC and `balances' what the accounts own by now.       *)
payForKeysInUsd(balances, buyer, value, price) ==       \* faulty: never in MATIC
    /\ ~ sellPaused
    /\ CanPay(balances, usdTokenContract, buyer, price)
    /\ coin' = Moved(balances, usdTokenContract, buyer, ShopAccount, price)
payForKeys(balances, buyer, value, price) ==
    /\ ~ sellPaused
    /\ value = (IF priceMode = MATIC THEN price ELSE 0)
    /\ CanPay(balances, PayCoin, buyer, price)
    /\ coin' = Moved(balances, PayCoin, buyer, ShopAccount, price)

buyKey(buyer, value, to, rank, amount) ==
    /\ payForKeys(coin, buyer, value, keyPrice[priceMode][rank] * amount)
    /\ mintKeys(to, KeysOf(rank, amount))
    /\ UNCHANGED <<configVars, stoneVars>>

buyKeyBatch(buyer, value, to, batch) ==
    /\ payForKeys(coin, buyer, value, BatchPrice(batch))
    /\ mintKeys(to, BatchAmounts(batch))
    /\ UNCHANGED <<configVars, stoneVars>>

(* A stone is always paid in USD, whatever the price mode is.              *)
buyStone(buyer, to, amount) ==
    LET price == stoneUsdPrice * amount
    IN  /\ ~ sellPaused
        /\ CanPay(coin, usdTokenContract, buyer, price)
        /\ coin' = Moved(coin, usdTokenContract, buyer, ShopAccount, price)
        /\ stoneOpen
        /\ stone' = [stone EXCEPT ![to] = @ + amount]
        /\ stoneMinted' = stoneMinted + amount
        /\ UNCHANGED <<configVars, key, keyMinted, stoneOpen>>

(* Only the USD token in use can be withdrawn, not one used before.        *)
withdraw(mode, amount) ==
    LET c == IF mode = MATIC THEN MATIC ELSE usdTokenContract
    IN  /\ CanPay(coin, c, ShopAccount, amount)
        /\ coin' = Moved(coin, c, ShopAccount, Treasury, amount)
        /\ UNCHANGED <<configVars, tokenVars>>

setUSDTokenContract(token) ==
    /\ usdTokenContract' = token
    /\ UNCHANGED <<priceMode, keyPrice, stoneUsdPrice, sellPaused, coin, tokenVars>>
setPriceMode(mode) ==
    /\ priceMode' = mode
    /\ UNCHANGED <<keyPrice, stoneUsdPrice, sellPaused, usdTokenContract, coin, tokenVars>>
setKeyPricePerRank(mode, prices) ==
    /\ keyPrice' = [keyPrice EXCEPT ![mode] = prices]
    /\ UNCHANGED <<priceMode, stoneUsdPrice, sellPaused, usdTokenContract, coin, tokenVars>>
setStoneUsdPrice(price) ==
    /\ stoneUsdPrice' = price
    /\ UNCHANGED <<priceMode, keyPrice, sellPaused, usdTokenContract, coin, tokenVars>>
setSellPaused(paused) ==
    /\ sellPaused' = paused
    /\ UNCHANGED <<priceMode, keyPrice, stoneUsdPrice, usdTokenContract, coin, tokenVars>>

(* The stone can be closed until one of it has been minted.                *)
openStone ==
    /\ stoneOpen' = TRUE
    /\ UNCHANGED <<configVars, coin, key, keyMinted, stone, stoneMinted>>
closeStone ==
    /\ stoneMinted = 0
    /\ stoneOpen' = FALSE
    /\ UNCHANGED <<configVars, coin, key, keyMinted, stone, stoneMinted>>

(* Keys also come from the operators (mintKey and the like).  Keys and     *)
(* stones are ordinary tokens: their holders pass them on and burn them.   *)
mintKey(to, rank) ==
    /\ mintKeys(to, KeysOf(rank, 1))
    /\ UNCHANGED <<configVars, coin, stoneVars>>
transferKey(from, to, rank) ==
    /\ from # to
    /\ key[from][rank] > 0
    /\ key' = [key EXCEPT ![from][rank] = @ - 1, ![to][rank] = @ + 1]
    /\ UNCHANGED <<configVars, coin, keyMinted, stoneVars>>
burnKey(from, rank) ==
    /\ key[from][rank] > 0
    /\ key' = [key EXCEPT ![from][rank] = @ - 1]
    /\ UNCHANGED <<configVars, coin, keyMinted, stoneVars>>
transferStone(from, to) ==
    /\ from # to
    /\ stone[from] > 0
    /\ stone' = [stone EXCEPT ![from] = @ - 1, ![to] = @ + 1]
    /\ UNCHANGED <<configVars, coin, key, keyMinted, stoneMinted, stoneOpen>>
burnStone(from) ==
    /\ stone[from] > 0
    /\ stone' = [stone EXCEPT ![from] = @ - 1]
    /\ UNCHANGED <<configVars, coin, key, keyMinted, stoneMinted, stoneOpen>>

----------------------------------------------------------------------------
(* Within the bounds: no key beyond MaxKeys is ever sold by the shop       *)
(* itself or minted by the operators.                                      *)
KeysWithinBound(amounts) == Total(keyMinted) + Total(amounts) <= MaxKeys
KeyBatches == UNION {[1..n -> [rank : KeyRanks, amount : 0..MaxKeys]] : n \in 0..MaxBatch}
Value == 0..Funds

BuyKey(buyer) ==
    \E to \in Hunters, value \in Value, rank \in KeyRanks, amount \in 0..MaxKeys :
        /\ KeysWithinBound(KeysOf(rank, amount))
        /\ buyKey(buyer, value, to, rank, amount)
BuyKeyBatch(buyer) ==
    \E batch \in KeyBatches :
        /\ KeysWithinBound(BatchAmounts(batch))
        /\ \E to \in Hunters, value \in Value : buyKeyBatch(buyer, value, to, batch)
BuyStone(buyer) ==
    \E to \in Hunters, amount \in 0..MaxStones :
        /\ stoneMinted + amount <= MaxStones
        /\ buyStone(buyer, to, amount)
HolderMoves(from) ==
    \/ \E to \in Hunters, rank \in RankType : transferKey(from, to, rank)
    \/ \E rank \in RankType : burnKey(from, rank)
    \/ \E to \in Hunters : transferStone(from, to)
    \/ burnStone(from)
Withdraw == \E mode \in {MATIC, USD}, amount \in Value : withdraw(mode, amount)
ConfigureShop ==
    \/ \E token \in UsdTokens : setUSDTokenContract(token)
    \/ \E mode \in PriceModes : setPriceMode(mode)
    \/ \E mode \in PriceModes, prices \in KeyPrices : setKeyPricePerRank(mode, prices)
    \/ \E price \in StonePrices : setStoneUsdPrice(price)
    \/ \E paused \in PauseStates : setSellPaused(paused)
    \/ TRUE \in StoneStates /\ openStone
    \/ FALSE \in StoneStates /\ closeStone
MintKey ==
    \E to \in Hunters, rank \in KeyRanks :
        KeysWithinBound(KeysOf(rank, 1)) /\ mintKey(to, rank)

HunterDeals(h) == BuyKey(h) \/ BuyKeyBatch(h) \/ BuyStone(h) \/ HolderMoves(h)
OperatorDeals == Withdraw \/ ConfigureShop \/ MintKey
ShopNext == OperatorDeals \/ \E h \in Hunters : HunterDeals(h)

ShopSpec == ShopInit /\ [][ShopNext]_shopVars

----------------------------------------------------------------------------
(* The types of the variables; no balance is ever negative.                *)
ShopTypeOK ==
    /\ priceMode \in {MATIC, USD}
    /\ keyPrice \in [{MATIC, USD} -> [RankType -> Nat]]
    /\ stoneUsdPrice \in Nat
    /\ sellPaused \in BOOLEAN
    /\ usdTokenContract \in UsdTokens
    /\ coin \in [Coin -> [Account -> Nat]]
    /\ key \in [Hunters -> [RankType -> Nat]]
    /\ keyMinted \in [RankType -> Nat]
    /\ stone \in [Hunters -> Nat]
    /\ stoneMinted \in Nat
    /\ stoneOpen \in BOOLEAN

(* Whatever way a key is bought (buyKey, buyKeyBatch, an entry to a gate), *)
(* the hunters pay the listed price of every key minted, in the coin of    *)
(* the price mode, and all of it reaches the shop.  Only the operators     *)
(* mint keys for nothing.                                                  *)
HuntersOwn(c) == SumFunctionOnSet(coin[c], Hunters)
KeysSoldAtListPrice ==
    [][keyMinted' # keyMinted /\ ~ MintKey =>
          LET price == KeysCost([r \in RankType |-> keyMinted'[r] - keyMinted[r]])
          IN  /\ HuntersOwn(PayCoin) - (HuntersOwn(PayCoin))' = price
              /\ coin'[PayCoin][ShopAccount] - coin[PayCoin][ShopAccount] = price]_shopVars
=============================================================================
