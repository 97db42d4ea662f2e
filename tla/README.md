# Solo Leveling contracts: a TLA+ verification project

The repository holds the contracts of a game. Hunters buy keys, enter dungeon gates,
clear them for monsters, climb ranks within seasons and collect monsters that they raise
to shadows; operators run the seasons, the prices, the rewards and the registry of
monsters. Scripts in TypeScript deploy the contracts, fill them and replace them, and
client classes call them. Paths below are relative to `src/contracts/`, those of
`scripts/` and `helpers/` to `src/`.

A transaction runs to its end without another in between, and a `revert` undoes all of
it. So an action of these models is one whole call with every call it makes to other
contracts, and its guard is the conjunction of all the conditions under which it does
not revert. One call is more: an ERC-1155 token calls its receiver back when that is a
contract, and an entry that buys its key reads state before this call and uses it after
it (`dungeonGate/parts/Gate.sol:36`, `:57`, `:69`). There the entry is two actions, and
the hunter called back may do anything a hunter can do in between, another entry
included. Where the other tokens are minted, what is left of the call reads nothing a
receiver can change, but which nonces are next and whether a balance still covers what
the call takes; so what a receiver does there is as good as done in a transaction after
it, or the call reverts.

What is hard is the order of the transactions of many accounts: state that was checked
when it was stored and is read much later, copies kept in step by hand, counters spread
over contracts, and operators who change tables under open gates.

A script is many transactions, with a file read at its start and written at its end. It
may stop between any two of them, be started again, or run beside another one. A
client's method waits for the node and for the receipt while other methods run. There an
action is one transaction, one access to the file or one answer.

## 1. Inventory

| Part | State | Operations | Talks to | What makes it correct |
|---|---|---|---|---|
| `season/` | seasons (window of blocks, collections) | addSeason, setSeasonCollection, setSeasonBlock; views current/started/ended, getHunterRank | project; read by gate, quest, settlement | windows ordered and disjoint; a started season keeps its collections; an ended one is final |
| `dungeonGate/` | gates, slots and gate counts of hunters; tables of slots, counts, blocks, rewards; boost | enterToGate, clearGate, seven setters | season, shop, keys, stones, rank tokens, factory, packs, random | a key per gate, one clear per gate, slots exact, ranks earned, stones burned, gates clearable |
| `shop/` | prices, price mode, pause, USD token, balances | buyKey, buyKeyBatch, buyStone, withdraw, setters | keys, stones, USD token; called by the gate | every key paid at the list price, no money lost |
| `monsterFactory/` | monsters of each rank and kind, arise pairings, scores | addMonster, setMonsterRankType, setAriseMonster(Batch), setMonsterScore | read by gate, system, monster tokens | the copies of ranks and pairings agree |
| `random/` | nonce of every hunter | verifyRandomSignature, setRandomSigner | gate, system | a signature draws one reward |
| `collections/gateKey`, `essenceStone`, `hunterRank`, `seasonPack` | balances, minted supply, mint switch, open packs | mint, burn, transfer, open/close, whitelist mint | shop, gate, system | supply and balances agree; minted packs stay open |
| `collections/monster` | balances, collecting scores by block | mint, burn, transfer | factory, gate, system, settlement | a score is the sum over the monsters held |
| `system/` | stones and odds of arise and upgrade, counters | ariseMonster, upgradeMonster, returnMonster | factory, monsters, stones, random | a burned monster per minted one, stones paid |
| `seasonQuest/` | quests, completions, quest scores | addQuest, setters, three confirms | season, monsters, hunter items | completions within limit and prerequisites |
| `seasonSettlement/` | claims, score rates | claimSeasonReward, setters | season, gate counts, quest scores, collecting scores | a claim per hunter and season, scores final |
| `SJWOffering/`, `SJWDistribution/` | offerings, ownerships, reserved supply; shares | mintOfOffering, airdrop, claimOwnership, withdraw | shadowMonarch | supply never exceeded, shares add up |
| `collectionTrait/` | types, values, tokens, collections of traits | add and remove | project | the four indexes agree |
| `project/` | universes, collections by id and by contract, roles | add, set | every contract | ids and contracts are inverse |
| `wallet/SLRoleWallet.sol` | masters, managers | add, remove, renounce, execute | every operator-only call | there is always somebody to act |
| `collections/achievement`, `shadowMonarch`, others | balances, definitions | claim, mint | project | an achievement per hunter |
| `scripts/deploy_contract.ts`, `verify_etherscan.ts` | `deployed.json`, a copy of it per run | deploy, note, add a collection, write; submit | every contract's constructor and initializer | a section of the file is one whole, working deployment |
| `scripts/set_initial_data.ts` | none of its own; ids it expects | four collections, packs, a season, the registry | project, season, factory, packs | an attempt that stops leaves nothing a later one makes worse |
| `scripts/script.ts` | none of its own | deploys a gate and gives it its rights | settlement, approvals, collections | the gate that counts can do its work |
| `helpers/client`, `error-handler.ts` | the signer; ABI, table of errors | a method per call, naming of errors | node, token, gate | an answer is the caller's own, an Error can be told apart |

Not core: the legacy gate and shop, faucet, price feed, and the vendored code under
`openzeppelin/`, `standard/` and `utils/`. `PROJECT.json` lists every part with its
status, and under "hazards" what is hard to test in it, line by line.

## 2. Modules

| Module | Models | State and actions |
|---|---|---|
| `Ranks` | `core/BaseStorage.sol` `RankType` | ranks E..S as 0..5, as Solidity stores them |
| `Season` | `season/` | `block`, `seasonIds`, `seasons`; an action per operation and `mineBlock` |
| `Shop` | `shop/SLShop.sol`, keys and stones as their holders change them | `coin[c][account]` for MATIC and every USD token, `key`, `stone`, their minted supplies, the shop's settings |
| `MonsterFactory` | `monsterFactory/parts/Monster.sol` | the two copies of the ranks and of the pairings; an action per operation; `LastWins` says what a batch should leave |
| `DungeonGate` | `dungeonGate/`, composed with `Season` and `Shop`, and with rank tokens, nonces, stocked monster ranks and packs | `enterToGate` as `enterWithKey`, or as `buyForEntry` and `finishEntry`, with the entries begun in `waiting`; `clearGate`, the setters, and the transactions on the other contracts that change what an entry or a clear reads |
| `GateLedger` | the abstract promise of the gate | `owner`, `open`; `Enter`, `Clear` |
| `GateCounts` | what a settlement reads of gate and rank tokens, and the two ways it changes | `gateCount`, `hunterRank`; `Enter`, `Burn` |
| `Collecting` | `collections/monster/`, `system/parts/Arise.sol` and the returns, `setMonsterScore`, over an instance of `MonsterFactory` | `tokens[kind]` with balances and the history of the collecting scores by block; mint, transfer, burn, arise, return |
| `Settlement` | `seasonSettlement/`, on top of `Collecting` and `GateCounts` | what is claimed and minted; entries and ranks in as much as a claim reads them; `atEnd` notes what a hunter had when a season ended |
| `DeployPlan` | the table of `scripts/deploy_contract.ts` | no state: a row per contract, with the addresses and ids it is passed and those it lets in |
| `Deployment` | runs of that script, `helpers/deployed-address.ts`, and `verify_etherscan.ts` | `file` for `deployed.json`, a copy and a progress per run; `Start`, `Deploy`, `AddCollection`, `WriteFile`, `Stop`; what is verified is an operator on `file` |
| `InitialData` | `scripts/set_initial_data.ts` | `at` and `turn`, the transaction it is about to send, on instances of `Season` and `MonsterFactory`; an action per transaction, `Begin` and `StopAttempt` |
| `GateReplacement` | `scripts/script.ts`, on top of `InitialData` | the gates and their rights; an action per transaction, `StopReplacing` |
| `ErrorNames` | `getErrorName` of `helpers/client/Contract.ts`, `helpers/error-handler.ts` | no state: the errors that can be thrown, the two decoders, and `Agree`, which says how far they are meant to differ |
| `TokenClient` | `helpers/client/`, with `ErrorNames` | `calls`, with what was sent for each and what it was answered; balances, keys and approvals on the chain |
| `MC*` | instances for TLC | values of the constants, bounds and symmetry |
| `SumTheorems` | nothing of the code | facts about sums over finite sets that the balances need |
| `*_proof` | theorems and proofs | `MonsterFactory_proof`, `SeasonShop_proof` (the two contracts the gate is composed with), `DungeonGate_proof`, `Settlement_proof` (with the theorem of `Collecting`), `Deployment_proof`, `GateReplacement_proof` (with the theorems of `InitialData`), `TokenClient_proof` |

`enterToGate` is put together from the parts of the function in its order: `mayEnter`,
the season and rank checks; a key held (`enterWithKey`) or bought (`buyForEntry`, which
is the shop's own `payForKeys`, with the gate as the buyer, on the balances after the
transfer to the gate, and `mintKeys`); and `goOn`, the rest: `burnEntryKey`,
`hasFreeSlot`, `recordGate`, `countGate` and `rankUp`. After `buyForEntry` the entry is
in `waiting`, with the rank that was read before the key. `finishEntry` goes on with it:
the slots and the count are those of then, the rank is the one remembered. While an
entry waits, nobody acts but the hunter called back, if it is a contract (`Callers`),
and other contracts that it calls (`Acting`). An inner call is done before the outer one
goes on, which is what the order of `waiting` says. An outer call that cannot go on (the
key is gone, the slots are full, the gate cannot mint a rank token) reverts, and with it
all the inner ones: there is no such behaviour of the contracts, and in the model it is
one that goes no further. The states on the way to it are checked like any other.

`clearGate` is `payStones`, `recordClear` and `mintRewards`. A signature is told by the
nonce it signs. A clear is sent any list of them, of the number the reward asks for; the
code verifies them in turn, for the monsters and then for the packs, and each must be of
the next nonce. `drawnFrom` keeps those a reward was drawn from.

A token's `_updateCollectingScore` moves the receiver's score first and the sender's
after it, on what the first left; sending to oneself depends on that. `ariseMonster` is
one action: the burn, the tries up to the first success, the stones for the tries made,
and the mint of the shadow that the pairing names. Its result comes with the signature,
so it is an input here.

The scripts' actions are their transactions in the order they are awaited, and the loops
are counted by `turn`. Contracts already modelled are not modelled again: `InitialData`
uses the actions of `Season` and `MonsterFactory`, so a transaction that would revert
there is not enabled, and the attempt can only stop. `DeployPlan` is a table because the
script is one: what can go wrong in it is a reference to what is not there yet, an id
nobody gets, or a right not given.

In `ErrorNames` an error is anything that can be thrown: an `Error` or not, with a name
found by `ethers` or none, a message or none, and at four depths no data, a string or an
object with bytes in it, which are those of a revert (a reason, a panic, a custom error,
or cut off), `0x`, or a text of the node. The client's decoder and the handler's are
written out one beside the other, each from its own code. In `TokenClient` a call may be
answered with any of these names while it is refused, and with any that is not of a
revert at any time after it was sent, by a node that fails or refuses while the method
waits.

Definitions whose comment says "faulty" stand beside the operation they distort. No
specification uses them: they are there to be put in the place of the operation, to see
that a property notices.

### What is abstracted

- Only calls that pass `onlyOperator` and the like are actions; who holds a role is not
  modelled. Collections and USD tokens are model values from sets of valid ones.
- Hunters have approved gate and shop; calls without that revert. Signatures are those
  the game gives out, one per nonce; a clear may be sent the wrong ones.
  `setRandomSigner`, the list of controllers (but for `canMint`: whether the gate can
  mint rank tokens) and the setters that point a contract at others, or at other
  collections, are left out. So `ExpiredGateClearable` is about a gate that keeps its
  rights and collections.
- While an entry waits for a contract called back, operators and blocks take no part: it
  is one transaction.
- The monsters of a rank are in `DungeonGate` only *some or none* (`stocked`), which is
  all a draw depends on; which one is drawn is not told apart, so monsters and packs
  received are numbers. A pack collection has one token.
- `uint` widths are not modelled: blocks and counts stay far below 2^32 in any run of a
  chain, and there is no arithmetic that wraps (Solidity 0.8 reverts). A deduction below
  zero would be a type violation here (`TypeOK`).
- Transfers of keys and stones move one token at a time; more is several steps.
- In `Settlement` an entry counts by a weight and may raise the rank, and a holder may
  burn rank tokens (`GateCounts`): when, and by which weight, is what `DungeonGate` is
  about. That every step of the gate is one of these two, or none, is the theorem
  `SettlementSeesEntries`. The quest contract is not among what is deployed, so its
  scores are nothing.
- An address in `deployed.json` is told by the run that deployed the contract, which is
  all that a mixed file or a lost update is about. Delays, implementation addresses and
  the prompts' wording are left out.
- The blocks of the first season, 5284050 and 5290000, stand for a block to come and a
  later one. The tables of packs, monsters and pairings are taken as they are.
- `MaxNumber` stands for 2^53 - 1, beyond which `toNumber` throws.
- Of an error's data, what the decoders throw at is left out: data that is `null`, and a
  panic code too large for `toNumber`.
- A script's write of `deployed.json` is one action: a stop inside `writeFileSync` is
  not modelled.

## 3. Runs

| Run | Question | Bounds, and why they are enough |
|---|---|---|
| `monster_factory` | do the copies agree, and what does a batch leave | 2 monsters of each kind, batches of up to 2 pairs: every conflict between a new pair and old ones (same monster, same shadow, both) needs two on a side |
| `monster_factory_stale` | do pairings keep to their ranks? No | the same registry; see the finding below |
| `season` | windows, end, stability | 3 seasons, so that one has neighbours on both sides; 9 blocks leave room to add, move, start and end all; 2 rank collections |
| `shop` | list price | 2 buyers, 2 price lists, ranks E and D, both price modes, 2 keys, batches of up to 2 positions, as two suffice to name a rank twice, with amounts of 0 to 2; a stone that is opened, closed, sold, passed on and burned; symmetry over buyers; 80,944 states |
| `gate_ranks` | counts, ranks, slots, final scores | 2 hunters, one of whom is a contract, 2 seasons that share a rank collection, 3 gates, up to 2 entries within one another, 2 tables of required counts, burns of rank tokens; slots 1 for E and 2 above so that a rank-up frees a slot; keys cost nothing, so every entry that lacks one can buy it; 589,532 states |
| `gate_rewards` | slots, stones, signatures, packs, refinement | 2 hunters, 2 gates of 3 blocks, a stone saves 2 (so there is a boundary), lists of up to 3 signatures from the last one used to the last one needed, 2 reward tables with different numbers of them, monsters of 2 ranks that come and go, packs and stones opened and closed, a signature used outside a clear; symmetry over hunters, who differ in nothing; 311,976 states |
| `gate_payments` | keys, money, and whether every gate is cleared in the end | 1 hunter, a contract whose entries nest, so no symmetry, 2 gates, both price modes, 2 USD tokens of which the gate has approved one at first, a pause, prices 1 and 2, funds 2, blocks to 3, by when gates have run out; 216,416 states |
| `deployment` | is a section of `deployed.json` one working deployment, which updates are lost, is what is submitted for verification what was deployed | 2 runs, as two suffice to overlap or to follow each other, that stop anywhere and answer as they like; a network the file lists, one it does not, and one no update is asked for; 87,139 states; symmetry over runs |
| `rollout` | the registry, the season and the rights after scripts that stopped | 2 attempts, so that a second meets what a first left, each stopped at any transaction; 2 replacements, so that a gate stopped halfway is replaced too; the script's tables in full; 68,550 states |
| `rollout_rank_up` | can the gate that counts rank hunters up? No | the same; see the findings below |
| `settlement` | do scores follow the holdings, does a claim pay what was earned by the end | 2 hunters who trade, one of whom plays and claims; 2 seasons of a block each, one claimed while the other is played, with one rank collection or two; 2 monsters of each kind in the registry, from rank S to shadow to next shadow; `Weights` 1 and 3, gate counts up to 3; `MaxPlayed`: 2 monsters minted, so that a set has several, or 1 and entries in one season, or entries in both; `MaxChanges`: 1 change of a rank, of scores, of rates or of the gate, before or under the holders, and burns of rank tokens; 235,696 states |
| `client` | whose answer is it, and what does an Error tell | 2 overlapping calls by 2 signers who may approve each other, a receiver that may send on, a balance that fits a number and one that does not, a custom error the client's table lists and one it does not, errors of every shape; 803,657 states; symmetry over signers |

`TypeOK` says that no balance is negative. The types of `Season`, `Shop` and
`Deployment` are proved for every instance and so are not run. `SlotsBounded`,
`RankEarned`, `LevelScoreExact` and `RankTokenUnique` relate what an entry did to what
is left of it after table changes, burns and moves of the season. `RankTokenUnique` is
about hunters that are plain accounts, among contracts that enter again when called
back. `KeyAccounting` and `StoneAccounting` are balances over all accounts.
`OneRewardPerSignature` counts the signatures rewards were drawn from, clears with stale
lists and clears without packs included. `KeysSoldAtListPrice` is a statement about
every step in which keys appear, in the shop and in the gate alike.
`ExpiredGateClearable` asks with `ENABLED` whether a clear would go through.
`LedgerKept` is the refinement of `GateLedger`, with the hunter of each gate for `owner`
and the slots for `open`.

`FileNeverMixes` is about a file read whole and written whole, minutes apart, by runs
that stop and overlap; `SerialWritesKept` says exactly which updates may be lost: those
of a run that another had not seen when it read the file, and those listed anew.
`ScoreIsOfHoldings` is an account over all mints, transfers, burns, arises and returns;
`ClaimPaysEndOfSeason` relates a claim to a state many blocks before it.
`NamedErrorsMovedNothing` says what a caller may do with an Error: repeat the call if it
names a revert, look first if it has a message or says "Unknown Error". `DecodersAgree`
compares, for whatever may have been thrown, what the caller was told with what
`error-handler.ts` would report.

`season`, `deployment`, `rollout` and `rollout_rank_up` disable the deadlock check: when
the last block of the bounded chain is reached and all seasons are over, or when all
runs of a script have finished or stopped, nothing can happen any more. The three runs
of the gate disable it too: an entry that cannot go on after its key was bought stands
there for a revert.

### Fairness

`FairSpec` has three assumptions. Transactions end (`[]<>(waiting = <<>>)`): an entry
that has begun goes on or reverts, so behaviours that stand for a revert are left out.
Blocks go on being mined: that is the chain, up to the bound on blocks. And a hunter who
can clear a gate does so in the end: the contract cannot force that, it is what hunters
do who want the reward, and without it no gate would ever be cleared. Weak fairness is
enough because at the end of a gate's blocks a clear stays possible until it happens, as
long as the rewards can be drawn; that is what `GatesCleared` and `ExpiredGateClearable`
check of the code. Nothing is assumed of operators, and a gate whose reward names a rank
with no monster, or a stone while the stone is closed, is excluded by name
(`RewardsDrawable`): such a clear divides by zero, or is refused by the token. The
scripts and the clients have no fairness: they may stop anywhere, and nobody has to
start them again.

### Findings

`monster_factory_stale` shows that `setMonsterRankType` leaves pairings that
`setAriseMonster` would refuse: a pairing for rank B outlives its shadow's move to
another rank, while `MonsterFactoryBase.sol:31` describes the map by those ranks.
`ariseMonster` checks the rank of the monster it burns and takes the one it mints from
the map.

`rollout_rank_up` shows that a completed replacement of the gate leaves the gate whose
entries count without the right to mint rank tokens. `script.ts` makes it a controller
of stones, monsters and packs, but not of the season's rank collection, whose
controllers are the dungeon gate according to
`collections/hunterRank/SLHunterRank.sol:30`. Every entry of a hunter due for a rank-up
then reverts, and does so until an operator adds the controller by hand.

### Met on the way

What the models had to take over from the code, without a text in the repository that
says otherwise:

- `deploy_contract.ts` writes its copy even when the run is no update. So a run begun
  before another one wrote undoes what that one listed, of any network.
  `SerialWritesKept` is stated around it.
- Off polygon a run that is not testing always stops at the gate, which approves the USD
  coin of polygon.
- `set_initial_data.ts` names collections by the ids they get on its first attempt. An
  attempt started after one that had added some gets other ids: its season may name a
  rank collection as its pack (both have the interface the season asks for), or the
  collections of an attempt that stopped. `SeasonAsMeant` and `CountedGateHasRights`
  exclude these by name. An attempt that stopped after `addSeason` cannot be made up for
  by starting the script again, as a season at the same blocks is refused.
- A gate put in the place of another starts with counts of zero, and the settlement
  reads the new one only: what was entered before counts no longer
  (`setDungeonGateContract`; `recounted` excludes it).
- A transfer deducts at the ranks and scores of the moment, and reverts where that is
  more than the sender has: monsters held since before their score went up may be stuck.
- `burnBatch` passes four arguments to a function of three and is never sent. The event
  `GateCreated` of the client's ABI has six parameters
  (`helpers/client/ABI/DungeonGateABI.json:187`), that of `DungeonGateBase.sol:123`
  eight, so every successful `enterToGate` is answered with an Error that has a message.
  `AnswersAreOwn` is about what is answered with a value.
- The table of the client lacks errors that the contracts have by now (`SellPaused`,
  `AlreadyClearGate` and others): "Unknown Error" (`CUSTOM_ERROR` is a subset of
  `CustomErrors`). `error-handler.ts` answers the same for an error whose name `ethers`
  has found or that has a message only, which the client returns, and throws for what is
  no `Error`. `Agree` names these differences, and there are no others.
- "Unknown Error" may answer a call that is mined: what is thrown while a method waits
  may have no message, data without bytes (a node that limits its callers), or be no
  `Error`.
- A contract that enters again when it is called back for its key, and ranks up there,
  gets the token of the same rank once more when the outer entry ends, as that goes by
  the rank it read first (`Gate.sol:36`, `:141`). Its rank, read off the highest token,
  is the same with one or two. `RankTokenUnique` is about plain accounts; slots, counts,
  keys and money hold for all.

## 4. Proofs

The theorems hold for all values of the constants that meet the named ASSUMEs: any
number of hunters, seasons, gates, blocks, runs and calls, any prices and tables,
batches of any length. The ASSUMEs are types, and besides them

- `CoinsAssumption`, `AccountsAssumption`, `HuntersAssumption` and `NooneAssumption`:
  MATIC is no USD token, hunters are neither a contract nor the address 0, and the
  hunters of the gate are finitely many, so that their balances have a sum;
- `TablesAssumption`: the setters of the gate let no table in that has a rank without a
  slot or a boost of no blocks;
- `SeasonEndAssumption`: in `Settlement` the seasons end one after the other, which is
  `SeasonsOrdered`, proved of `Season`.

What the operators may set, and in which order the steps come, is assumed nowhere.

### Sums, recursive functions and batches

The prover cannot use the induction theorems of the library. `SumTheorems` does without:
if a family does not have every subset of a finite set, it lacks one of least size
(`LeastNat`, `SubsetInduction`). So the recursion of `SumFunctionOnSet` has a solution
on every finite set (`SumTableUpTo`, `SumTableRec`), the sum takes its elements in any
order (`SumRemove`), and follows a change of one value, a move between two, and a new
element (`SumUpdate`, `SumMove`, `SumExtend`). `PairEachTurns` shows in the same way
that the recursive function behind a batch of pairings satisfies its equations.

### Component by component

- `SeasonShop_proof`, seasons: the invariant is types and `SeasonsOrdered`. A move
  compares with the neighbours only, so the proof steps from neighbours to all pairs by
  the order already there. `AtMostOneCurrent` follows, and so do the action properties
  `EndedSeasonFrozen` and `CurrentSeasonStable`.
- `SeasonShop_proof`, shop: types, where the point is that each deduction is covered by
  the check before it, also in a batch. `KeysSoldAtListPrice` needs that the price of a
  batch, a sum over its positions, is the price of the keys it mints, a sum over ranks,
  however often a rank is named (`BatchOfAmounts`), and that a sale moves it from the
  hunters to the shop (`SaleAtListPrice`).
- `MonsterFactory_proof`: types, `RankSetsAgree`, `AriseInverse` and `ArisePairsExist`
  are inductive together: the copies agree only among ids that exist. One pairing keeps
  all of it (`PairOK`), and a batch does by the least turn at which it would not.
  `BatchLastWins` follows the links from turn to turn: those after a turn are the pairs
  so far that no later one of them displaces. `AriseRanksAgree`, which fails of the
  contract (section 3), is proved of one whose operators change no rank of a monster in
  a pair (`CarefulSpec`): so that call, `setMonsterRankType` of a monster in a pair, is
  all that breaks it, and what the code does not check is exactly this.
- `DungeonGate_proof`: the invariant adds to those of `Season` and `Shop` the facts of
  the gate and `GatesOfSeasons`, that every gate's season exists, without which the
  reward of a clear is not defined. A step of a component keeps the component's
  invariant by the component's lemma, and every step of the gate is one of a few
  (`StepsOfGame`), an entry being the same whether it goes on at once or after its key.
  `RankTokenUnique` needs the rank to be the highest token (`HunterRankIsHighest`), so
  that what is minted is new, and that a rank read before the key is still the highest
  one when a plain account's entry goes on: `WaitingInv` says that such an entry waits
  alone, nobody else having been called back. `OneRewardPerSignature` needs that what
  was drawn from was used (`SignaturesUsed`), so that the next nonces are new.
  `LedgerKept` needs `SlotsExact`, as the code checks `cleared` and the ledger checks
  the slots; `EndedSeasonScoreFrozen` uses that an entry requires a current season. The
  accounts (`KeyAccounting`, `StoneAccounting`, `LevelScoreExact`) compare what a step
  adds to one side with what it adds to the other: an entry burns a key and adds a gate
  and its weight, a clear burns what it records. `RankEarned` needs that gates and gate
  counts never shrink, and that the rank an entry read before its key was earned by then
  (`WaitingEarned`). An entry that buys is taken apart into the payment to the gate and
  the shop's own sale, for which the shop's lemmas hold. `SeasonImplemented` carries the
  theorems of the seasons over to the whole. `ClearIsItsGuard` takes `clearGate` apart
  into when it goes through (`ClearAllowed`) and the one state it leads to;
  `ExpiredGateAllowed` says that the hunter of an open gate whose blocks are over may
  clear it without a stone, with the signatures of the next nonces, if its rewards can
  be drawn. `SettlementSeesEntries` reads the counts and ranks of the gate as those of
  module `GateCounts`, through an instance, and says that each step is `Enter` in the
  current season with a weight of 1 to 15, `Burn`, or neither (`CountedStep`): the same
  two actions `Settlement` is made of.
- `Settlement_proof`: `Follows` says what an update of the tokens does: the latest score
  of each hunter moves by the score of what the hunter gets or gives, and no block
  before the current one changes. It holds of a mint, a move and a burn, and chains
  (`FollowsChain`), so it holds of every operation made of these, sending to oneself and
  an arise within one token included; that is `ScoreIsOfHoldings`. For the claims the
  invariant adds that an ended season keeps what it ended with (`EndedKept`): the
  histories still tell `atEnd`, the counts too unless an operator recounted; a rank may
  only have fallen, by a burn, unless the rank collection was used again. `ClaimsKept`
  adds that nothing is paid before the claim. `RegistryOnlyRead` says that of the
  registry only the operators' `setMonsterRankType` is ever called, and `RanksKept` that
  the set of the monsters of a rank is the set of those that have it: so
  `returnMonster`, which looks in the set, and `returnMonsterBatch`, which reads the
  rank, pay the same (`ReturnsPayAlike`; the factor comes out of the sum by `SumTimes`).
- `Deployment_proof`: up to `SerialWritesKept` the proofs use of the plan that it is a
  sequence, so they hold for any plan. `FileNeverMixes` is not inductive, as a file is
  written from a copy: the invariant (`IInv`) adds that the copy of a run that deploys
  is whole in every network the run does not list anew, and that in its own network all
  it has deployed so far is noted. When it writes, that is all of the plan.
  `SerialWritesKept` needs the same of copies (`CopyKept`, in `KInv`): the copy of a run
  holds what was written before the run read the file, unless that may have been undone
  since; `WritersFinished` and `ReadsPast` say that a run writes once and reads what is
  past. For `ListedSystemsWork` and `SubmissionsMatch` the plan matters: its rows are
  found by the lemmas on concatenation (`ConcatFacts`, `PlanRows`), the seven
  collections are its last rows, in the order of the ids (`PlanOrder`), and whoever
  needs a right is given it (`PlanRights`). The invariant (`LInv`) adds that a run has
  added its collections in that order, and that a run an entry of the file names has
  finished.
- `GateReplacement_proof`: the invariant has a part for each thing the scripts fill
  (`RolloutInv`). A second season is never added, as it would start no later than the
  first one ends (`SeasonOK`); so only one attempt gets as far as the registry, and the
  loops fill it in the order of their tables (`RegistryOK`), which is
  `MonstersAsTabled`. For `SeasonAsMeant`, an attempt whose predecessors added nothing
  gets the ids it expects (`OwnOK`) and the packs are opened turn by turn (`PacksOK`).
  For `CountedGateHasRights` the rights follow the transactions mined (`RightsOK`);
  those on the packs are with the initial data, so it needs that the collection the
  season uses as packs is one of an attempt's and never loses a controller
  (`PackInUse`). For `AriseChainsComplete` the theorems of `MonsterFactory_proof` are
  used through an instance: a batch that names nobody twice leaves all its pairs
  (`DistinctBatchPairs`, from `BatchLastWins`), and the batches are of different ranks.
  Which monsters have rank S is read off the table (`NormalRankS`). The rollout also
  implements the contracts it sends to: for the seasons that is `SeasonsAsContract`; for
  the registry `ScriptFillsCarefully`, under `CarefulSpec`, so that `AriseRanksAgree`
  holds of what the scripts leave (`FilledRanksAgree`).
- `TokenClient_proof`: the invariant (`CallOK`) says of each call that the first event
  under its name is its own once it is mined, that a value is taken from there, and that
  a name that is neither a message nor "Unknown Error" comes before anything is sent or
  from a revert. For the last the errors that are of no revert are taken through the
  decoder: whatever their shape, they get one of those two (`OtherNamesAreVague`). The
  calls do not disturb one another (`OneCallChanges`); what a receiver does in a
  transaction comes after the event of the transfer (`RunKeeps`). `DecodersAgree` takes
  both decoders apart, by where each finds its data and by what the bytes start with
  (`SameBytesAgree`, `OtherDecodesAgree`).

### Checked by TLC only

`GatesCleared` is a liveness property and `ExpiredGateClearable` an `ENABLED`: both are
out of the prover's reach. Of the second everything but the word is proved: that the
guard holds (`ExpiredGateAllowedHolds`) and that where it does the step has a next state
(`ClearIsItsGuard`). Every other property of a passing run is a theorem.
`AriseRanksAgree` and `CountedGateRanksUp` are the properties the code violates.

## 5. What is not modelled

Done: the seasons, the shop, the monster registry, the gate with them, the monster
tokens with the settlement, the scripts that deploy, fill and replace, and the clients.
Left out within these parts: `setRandomSigner`, whitelist mints of keys, the mint
switches of keys, monsters and packs, collection-id and contract setters; the upgrade of
monsters (its result is drawn from the signature) and the counters of `system/`; quest
scores; `setContractAddress` of a client, and the views that read one thing and answer
as the one modelled does (two of them, `getRequiredBrokenStoneForClear` and
`isClaimedGate`, ask for what the contract no longer has).

Not modelled, with what would be hard to test there:

- `seasonQuest`: not among the deployed contracts.
- `SJWOffering`: offerings reserve supply one after the other, each checked against what
  is minted (`parts/Offering.sol:39`). `SJWDistribution`: each share is rounded on its
  own (`parts/Distribution.sol:110`).
- `collectionTrait`: a token leaves the index of a type without a look at its value
  (`parts/TraitToken.sol:53`).
- `achievement`: a claim is read off a balance that may be gone again
  (`SLAchievement.sol:261`).
- `wallet`: masters renounce one by one, the last one too (`SLRoleWallet.sol:68`).
- `project`, controllers, `approvalController`: lists kept by operators; the models take
  from them who may call, and `InitialData` the ids.
- `deploy_old_contract.ts`: superseded; it passes four arguments to the `initialize` of
  the season, which takes one, so it stops there.
- Tables of errors and uploads of ABIs are generated or pure I/O; the bridge and oracle
  trials, the legacy gate and shop, the faucet and the price feed are not part of the
  running system; vendored code is modelled by what is used of it.

## 6. Running

`tlc -config MCGateRanks.cfg MCDungeonGate` (likewise for the other `.cfg` files; the
module is the `MC` module of the component) and `tlapm DungeonGate_proof.tla`.
