-------------------------- MODULE Settlement_proof --------------------------
(***************************************************************************)
(* For every number of hunters, monsters, seasons and blocks: the          *)
(* collecting scores are those of the monsters held, a claim pays what the *)
(* season ended with, and rank S is rewarded once, to who had it then.     *)
(***************************************************************************)
EXTENDS Settlement, SumTheorems

Party == Hunters \union {Noone}
AmountType == [MonsterId -> Nat]
HistoryType == [Block -> Int]
Token == [balances : [Hunters -> AmountType], collectingScores : [Hunters -> HistoryType]]

(* The types of what the collecting scores are made of.                    *)
CollectingTypeOK ==
    /\ block \in Block
    /\ monsterRankTypes \in [Kind -> [MonsterId -> RankType]]
    /\ monsterScores \in [Kind -> [RankType -> Nat]]
    /\ tokens \in [Kind -> Token]
    /\ rescored \in BOOLEAN

(* A history does not change from the current block on.                    *)
Settled(history) == \A b \in Block : b >= block => history[b] = latest(history)
HistoriesSettled(token) == \A h \in Hunters : Settled(token.collectingScores[h])

(* The scores of a token are those of its balances.                        *)
Scored(kind, token) ==
    \A h \in Hunters :
        latest(token.collectingScores[h]) = TransferScore(kind, token.balances[h])

(* What every operation on a token keeps.                                  *)
Follows(kind, old, new) ==
    /\ new \in Token
    /\ HistoriesSettled(old) => HistoriesSettled(new)
    /\ \A h \in Hunters, b \in Block :
           b < block => new.collectingScores[h][b] = old.collectingScores[h][b]
    /\ Scored(kind, old) => Scored(kind, new)

CollectingInv ==
    /\ CollectingTypeOK
    /\ \A kind \in Kind : HistoriesSettled(tokens[kind])
    /\ ScoreIsOfHoldings

-----------------------------------------------------------------------------

(* The ids of the monsters and the blocks are intervals of numbers.        *)
LEMMA Intervals ==
    /\ IsFiniteSet(MonsterId)
    /\ MaxBlock \in Block /\ 1 \in Block /\ Block \subseteq Nat
    /\ \A b \in Block : b <= MaxBlock
<1>1. MaxMonsters \in Nat
  BY BoundsAssumption
<1>2. MonsterId = 1..MaxMonsters
  BY DEF MonsterId, Factory!MonsterId
<1>3. IsFiniteSet(MonsterId)
  BY <1>1, <1>2, FS_Interval
<1> QED BY <1>3, BoundsAssumption DEF Block

(* The term a monster adds to a score is a number.                         *)
LEMMA TermType ==
    ASSUME CollectingTypeOK, NEW kind \in Kind, NEW amounts \in AmountType, NEW id \in MonsterId
    PROVE  monsterScores[kind][monsterRankTypes[kind][id]] * amounts[id] \in Int
<1>1. monsterScores[kind][monsterRankTypes[kind][id]] \in Nat /\ amounts[id] \in Nat
  BY DEF CollectingTypeOK, AmountType
<1> QED BY <1>1

(* The score of a transfer is a number.                                    *)
LEMMA TransferScoreType ==
    ASSUME CollectingTypeOK, NEW kind \in Kind, NEW amounts \in AmountType
    PROVE  TransferScore(kind, amounts) \in Int
<1> DEFINE f == [id \in MonsterId |-> monsterScores[kind][monsterRankTypes[kind][id]] * amounts[id]]
<1>1. \A id \in MonsterId : f[id] \in Int
  BY TermType
<1>2. TransferScore(kind, amounts) = SumFunctionOnSet(f, MonsterId)
  BY DEF TransferScore, SumFunction
<1> HIDE DEF f
<1>3. SumFunctionOnSet(f, MonsterId) \in Int
  BY <1>1, Intervals, SumInt
<1> QED BY <1>2, <1>3

(* No monsters, no score, whatever the ranks and the table.                *)
LEMMA ScoreOfNothing ==
    ASSUME CollectingTypeOK, NEW kind \in Kind
    PROVE  TransferScore(kind, Nothing) = 0
<1> DEFINE f == [id \in MonsterId |-> monsterScores[kind][monsterRankTypes[kind][id]] * Nothing[id]]
<1>1. ASSUME NEW id \in MonsterId PROVE f[id] = 0
  <2>1. monsterScores[kind][monsterRankTypes[kind][id]] \in Nat /\ Nothing[id] = 0
    BY DEF CollectingTypeOK, Nothing
  <2>2. f[id] = monsterScores[kind][monsterRankTypes[kind][id]] * Nothing[id]
    OBVIOUS
  <2> QED BY <2>1, <2>2
<1>2. TransferScore(kind, Nothing) = SumFunctionOnSet(f, MonsterId)
  BY DEF TransferScore, SumFunction
<1> HIDE DEF f
<1>3. SumFunctionOnSet(f, MonsterId) = 0
  BY <1>1, Intervals, SumZero
<1> QED BY <1>2, <1>3

(* Multiplication distributes over a sum, in the form the score needs.     *)
LEMMA Distributes ==
    ASSUME NEW w \in Int, NEW a \in Int, NEW b \in Int
    PROVE  w * (a + b) = w * a + w * b
OBVIOUS

(* The score of two amounts together is the sum of theirs.                 *)
LEMMA ScoreOfPlus ==
    ASSUME CollectingTypeOK, NEW kind \in Kind, NEW a \in AmountType, NEW b \in AmountType
    PROVE  /\ Plus(a, b) \in AmountType
           /\ TransferScore(kind, Plus(a, b)) = TransferScore(kind, a) + TransferScore(kind, b)
<1> DEFINE w(id) == monsterScores[kind][monsterRankTypes[kind][id]]
           f == [id \in MonsterId |-> w(id) * a[id]]
           g == [id \in MonsterId |-> w(id) * b[id]]
           k == [id \in MonsterId |-> w(id) * Plus(a, b)[id]]
<1>1. Plus(a, b) \in AmountType
  BY DEF Plus, AmountType
<1>2. ASSUME NEW id \in MonsterId
      PROVE  f[id] \in Int /\ g[id] \in Int /\ k[id] = f[id] + g[id]
  <2>1. f[id] \in Int /\ g[id] \in Int
    BY TermType
  <2>2. w(id) \in Int /\ a[id] \in Int /\ b[id] \in Int /\ Plus(a, b)[id] = a[id] + b[id]
    BY DEF CollectingTypeOK, AmountType, Plus
  <2>3. k[id] = w(id) * (a[id] + b[id])
    BY <2>2
  <2> HIDE DEF w
  <2>4. w(id) * (a[id] + b[id]) = w(id) * a[id] + w(id) * b[id]
    BY <2>2, Distributes
  <2> QED BY <2>1, <2>3, <2>4
<1>3. /\ TransferScore(kind, a) = SumFunctionOnSet(f, MonsterId)
      /\ TransferScore(kind, b) = SumFunctionOnSet(g, MonsterId)
      /\ TransferScore(kind, Plus(a, b)) = SumFunctionOnSet(k, MonsterId)
  BY DEF TransferScore, SumFunction
<1> HIDE DEF f, g, k
<1>4. SumFunctionOnSet(k, MonsterId)
          = SumFunctionOnSet(f, MonsterId) + SumFunctionOnSet(g, MonsterId)
  BY <1>2, Intervals, SumPlus
<1> QED BY <1>1, <1>3, <1>4

(* What is taken from an amount that covers it takes its score along.      *)
LEMMA ScoreOfMinus ==
    ASSUME CollectingTypeOK, NEW kind \in Kind, NEW a \in AmountType, NEW b \in AmountType,
           \A id \in MonsterId : b[id] <= a[id]
    PROVE  /\ Minus(a, b) \in AmountType
           /\ TransferScore(kind, Minus(a, b)) = TransferScore(kind, a) - TransferScore(kind, b)
<1>1. Minus(a, b) \in AmountType
  BY DEF Minus, AmountType
<1>2. Plus(Minus(a, b), b) = a
  BY DEF Plus, Minus, AmountType
<1>3. TransferScore(kind, a) = TransferScore(kind, Minus(a, b)) + TransferScore(kind, b)
  BY <1>1, <1>2, ScoreOfPlus
<1>4. TransferScore(kind, Minus(a, b)) \in Int /\ TransferScore(kind, b) \in Int
  BY <1>1, TransferScoreType
<1> QED BY <1>1, <1>3, <1>4

-----------------------------------------------------------------------------

(* A value pushed on a history is its value from this block on.            *)
LEMMA Pushed ==
    ASSUME block \in Block, NEW history \in HistoryType, NEW value \in Int
    PROVE  /\ push(history, value) \in HistoryType
           /\ latest(push(history, value)) = value
           /\ \A b \in Block : b >= block => push(history, value)[b] = value
           /\ \A b \in Block : b < block => push(history, value)[b] = history[b]
<1>1. MaxBlock \in Block /\ MaxBlock >= block
  BY Intervals DEF Block
<1>2. \A b \in Block : ~(b < block /\ b >= block)
  BY DEF Block
<1> QED BY <1>1, <1>2 DEF push, latest, HistoryType

(* The latest entry of a history is a number.                              *)
LEMMA LatestType == ASSUME NEW history \in HistoryType PROVE latest(history) \in Int
  BY Intervals DEF HistoryType, latest

(* The receiver's score grows, the sender's shrinks, and who is both keeps *)
(* its score; nothing before the current block changes.                    *)
LEMMA UpdatedScores ==
    ASSUME block \in Block, NEW scores \in [Hunters -> HistoryType],
           NEW from \in Party, NEW to \in Party, NEW score \in Int,
           NEW new, new = _updateCollectingScore(scores, from, to, score), NEW h \in Hunters
    PROVE  /\ new \in [Hunters -> HistoryType]
           /\ latest(new[h]) = (latest(scores[h]) + (IF h = to THEN score ELSE 0))
                                   - (IF h = from THEN score ELSE 0)
           /\ \A b \in Block : b < block => new[h][b] = scores[h][b]
           /\ Settled(scores[h]) => Settled(new[h])
<1> DEFINE received == Received(scores, to, score)
<1>1. /\ received \in [Hunters -> HistoryType]
      /\ latest(received[h]) = latest(scores[h]) + (IF h = to THEN score ELSE 0)
      /\ \A b \in Block : b < block => received[h][b] = scores[h][b]
      /\ Settled(scores[h]) => Settled(received[h])
  <2>1. CASE to = Noone
    <3>1. received = scores /\ h # to
      BY <2>1, HuntersAssumption DEF Received
    <3>2. latest(scores[h]) \in Int
      BY LatestType
    <3> QED BY <3>1, <3>2
  <2>2. CASE to # Noone
    <3> DEFINE top == push(scores[to], latest(scores[to]) + score)
    <3>0. to \in Hunters /\ scores[to] \in HistoryType
      BY <2>2 DEF Party
    <3>1. to \in Hunters /\ latest(scores[to]) + score \in Int /\ latest(scores[h]) \in Int
      BY <3>0, LatestType
    <3>2. received = [scores EXCEPT ![to] = top]
      BY <2>2 DEF Received
    <3>3. /\ top \in HistoryType /\ latest(top) = latest(scores[to]) + score
          /\ \A b \in Block : b >= block => top[b] = latest(scores[to]) + score
          /\ \A b \in Block : b < block => top[b] = scores[to][b]
      BY <3>0, <3>1, Pushed
    <3> HIDE DEF top
    <3>4. received \in [Hunters -> HistoryType]
      BY <3>1, <3>2, <3>3
    <3>5. CASE h = to
      <4>1. received[h] = top
        BY <3>1, <3>2, <3>5
      <4>2. Settled(top)
        BY <3>3 DEF Settled
      <4> QED BY <3>3, <3>4, <3>5, <4>1, <4>2
    <3>6. CASE h # to
      <4>1. received[h] = scores[h]
        BY <3>1, <3>2, <3>6
      <4> QED BY <3>1, <3>4, <3>6, <4>1
    <3> QED BY <3>5, <3>6
  <2> QED BY <2>1, <2>2
<1>2. CASE from = Noone
  <2>1. new = received /\ h # from
    BY <1>2, HuntersAssumption DEF _updateCollectingScore
  <2>2. latest(received[h]) \in Int
    BY <1>1, LatestType
  <2> QED BY <1>1, <2>1, <2>2
<1>3. CASE from # Noone
  <2> DEFINE top == push(received[from], latest(received[from]) - score)
  <2>1. from \in Hunters /\ received[from] \in HistoryType
    BY <1>1, <1>3 DEF Party
  <2>2. /\ latest(received[from]) \in Int /\ latest(received[h]) \in Int
        /\ latest(received[from]) - score \in Int
    BY <1>1, <2>1, LatestType
  <2>3. new = [received EXCEPT ![from] = top]
    BY <1>3 DEF _updateCollectingScore
  <2>4. /\ top \in HistoryType /\ latest(top) = latest(received[from]) - score
        /\ \A b \in Block : b >= block => top[b] = latest(received[from]) - score
        /\ \A b \in Block : b < block => top[b] = received[from][b]
    BY <2>1, <2>2, Pushed
  <2> HIDE DEF top, received
  <2>5. new \in [Hunters -> HistoryType]
    BY <1>1, <2>1, <2>3, <2>4
  <2>6. CASE h = from
    <3>1. new[h] = top
      BY <1>1, <2>1, <2>3, <2>6
    <3>2. Settled(new[h])
      BY <2>4, <3>1 DEF Settled
    <3>3. latest(new[h]) = (latest(scores[h]) + (IF h = to THEN score ELSE 0)) - score
      BY <1>1, <2>4, <2>6, <3>1
    <3>4. \A b \in Block : b < block => new[h][b] = scores[h][b]
      BY <1>1, <2>4, <2>6, <3>1
    <3> QED BY <2>5, <2>6, <3>2, <3>3, <3>4
  <2>7. CASE h # from
    <3>1. new[h] = received[h]
      BY <1>1, <2>1, <2>3, <2>7
    <3> QED BY <1>1, <2>2, <2>5, <2>7, <3>1
  <2> QED BY <2>6, <2>7
<1> QED BY <1>2, <1>3

(* What a hunter gets or gives changes the score of what it holds as much. *)
LEMMA MovedBalances ==
    ASSUME CollectingTypeOK, NEW kind \in Kind, NEW token \in Token,
           NEW from \in Party, NEW to \in Party, NEW amounts \in AmountType,
           CanMove(token, kind, from, to, amounts),
           NEW balances, balances = Moved(token, kind, from, to, amounts).balances,
           NEW h \in Hunters
    PROVE  /\ balances \in [Hunters -> AmountType]
           /\ TransferScore(kind, balances[h]) =
                  (TransferScore(kind, token.balances[h])
                      + (IF h = to THEN TransferScore(kind, amounts) ELSE 0))
                  - (IF h = from THEN TransferScore(kind, amounts) ELSE 0)
<1> DEFINE old == token.balances
           sent == IF from = Noone THEN old ELSE [old EXCEPT ![from] = Minus(@, amounts)]
           score == TransferScore(kind, amounts)
<1>0. old \in [Hunters -> AmountType] /\ score \in Int
  BY TransferScoreType DEF Token
<1>1. balances = IF to = Noone THEN sent ELSE [sent EXCEPT ![to] = Plus(@, amounts)]
  BY DEF Moved
<1>2. /\ sent \in [Hunters -> AmountType]
      /\ \A k \in Hunters : TransferScore(kind, sent[k]) =
             TransferScore(kind, old[k]) - (IF k = from THEN score ELSE 0)
  <2>0. \A k \in Hunters : TransferScore(kind, old[k]) \in Int
    BY <1>0, TransferScoreType
  <2>1. CASE from = Noone
    <3>1. sent = old /\ \A k \in Hunters : k # from
      BY <2>1, HuntersAssumption
    <3> HIDE DEF sent, old, score
    <3> QED BY <1>0, <2>0, <3>1
  <2>2. CASE from # Noone
    <3>1. from \in Hunters /\ sent = [old EXCEPT ![from] = Minus(old[from], amounts)]
      BY <1>0, <2>2 DEF Party
    <3>2. \A id \in MonsterId : amounts[id] <= old[from][id]
      BY <2>2 DEF CanMove
    <3> HIDE DEF sent, old
    <3>3. /\ Minus(old[from], amounts) \in AmountType
          /\ TransferScore(kind, Minus(old[from], amounts)) = TransferScore(kind, old[from]) - score
      BY <1>0, <3>1, <3>2, ScoreOfMinus
    <3> HIDE DEF score
    <3>4. sent \in [Hunters -> AmountType] /\ sent[from] = Minus(old[from], amounts)
      BY <1>0, <3>1, <3>3
    <3>5. ASSUME NEW k \in Hunters, k # from PROVE sent[k] = old[k]
      BY <1>0, <3>1, <3>5
    <3> QED BY <2>0, <3>3, <3>4, <3>5
  <2> QED BY <2>1, <2>2
<1> HIDE DEF sent, old, score
<1>3. \A k \in Hunters : TransferScore(kind, sent[k]) \in Int /\ TransferScore(kind, old[k]) \in Int
  BY <1>0, <1>2, TransferScoreType
<1>4. /\ balances \in [Hunters -> AmountType]
      /\ TransferScore(kind, balances[h]) =
             TransferScore(kind, sent[h]) + (IF h = to THEN score ELSE 0)
  <2>1. CASE to = Noone
    <3>1. balances = sent /\ h # to
      BY <1>1, <2>1, HuntersAssumption
    <3> QED BY <1>2, <1>3, <3>1
  <2>2. CASE to # Noone
    <3>1. to \in Hunters /\ balances = [sent EXCEPT ![to] = Plus(sent[to], amounts)]
      BY <1>1, <1>2, <2>2 DEF Party
    <3>2. /\ Plus(sent[to], amounts) \in AmountType
          /\ TransferScore(kind, Plus(sent[to], amounts)) = TransferScore(kind, sent[to]) + score
      BY <1>2, <3>1, ScoreOfPlus DEF score
    <3>3. balances \in [Hunters -> AmountType] /\ balances[to] = Plus(sent[to], amounts)
      BY <1>2, <3>1, <3>2
    <3>4. h # to => balances[h] = sent[h]
      BY <1>2, <3>1
    <3> QED BY <1>3, <3>2, <3>3, <3>4
  <2> QED BY <2>1, <2>2
<1>5. TransferScore(kind, balances[h]) =
          (TransferScore(kind, old[h]) + (IF h = to THEN score ELSE 0))
              - (IF h = from THEN score ELSE 0)
  BY <1>0, <1>2, <1>3, <1>4
<1> QED BY <1>4, <1>5 DEF old, score

(* A mint, a transfer and a burn move a score with the monsters.           *)
LEMMA MovedFollows ==
    ASSUME CollectingTypeOK, NEW kind \in Kind, NEW token \in Token,
           NEW from \in Party, NEW to \in Party, NEW amounts \in AmountType,
           CanMove(token, kind, from, to, amounts),
           NEW new, new = Moved(token, kind, from, to, amounts)
    PROVE  Follows(kind, token, new)
<1> DEFINE score == TransferScore(kind, amounts)
           balances == new.balances
           scores == new.collectingScores
<1>1. /\ new = [balances |-> balances, collectingScores |-> scores]
      /\ balances = Moved(token, kind, from, to, amounts).balances
      /\ scores = _updateCollectingScore(token.collectingScores, from, to, score)
  BY DEF Moved
<1>2. /\ block \in Block /\ score \in Int
      /\ token.collectingScores \in [Hunters -> HistoryType]
      /\ token.balances \in [Hunters -> AmountType]
  BY TransferScoreType DEF CollectingTypeOK, Token
<1> HIDE DEF score, balances, scores
<1>3. ASSUME NEW h \in Hunters
      PROVE  /\ scores \in [Hunters -> HistoryType]
             /\ latest(scores[h]) = (latest(token.collectingScores[h]) + (IF h = to THEN score ELSE 0))
                                        - (IF h = from THEN score ELSE 0)
             /\ \A b \in Block : b < block => scores[h][b] = token.collectingScores[h][b]
             /\ Settled(token.collectingScores[h]) => Settled(scores[h])
  BY <1>1, <1>2, UpdatedScores
<1>4. ASSUME NEW h \in Hunters
      PROVE  /\ balances \in [Hunters -> AmountType]
             /\ TransferScore(kind, balances[h]) =
                    (TransferScore(kind, token.balances[h]) + (IF h = to THEN score ELSE 0))
                        - (IF h = from THEN score ELSE 0)
  BY <1>1, MovedBalances DEF score
<1>5. new \in Token
  <2>1. CASE Hunters = {}
    <3>1. to = Noone /\ from = Noone
      BY <2>1 DEF Party
    <3>2. balances = token.balances /\ scores = token.collectingScores
      BY <1>1, <3>1 DEF Moved, _updateCollectingScore, Received
    <3> QED BY <1>1, <1>2, <3>2 DEF Token
  <2>2. CASE Hunters # {}
    BY <1>1, <1>3, <1>4, <2>2 DEF Token
  <2> QED BY <2>1, <2>2
<1>6. new.balances = balances /\ new.collectingScores = scores
  BY DEF balances, scores
<1>7. HistoriesSettled(token) => HistoriesSettled(new)
  BY <1>3, <1>6 DEF HistoriesSettled
<1>8. Scored(kind, token) => Scored(kind, new)
  BY <1>3, <1>4, <1>6 DEF Scored
<1> QED BY <1>3, <1>5, <1>6, <1>7, <1>8 DEF Follows

(* Operations follow one another.                                          *)
LEMMA FollowsChain ==
    ASSUME NEW kind, NEW a \in Token, NEW b, NEW c, Follows(kind, a, b), Follows(kind, b, c)
    PROVE  Follows(kind, a, c)
<1>1. \A h \in Hunters, n \in Block :
          n < block => c.collectingScores[h][n] = a.collectingScores[h][n]
  BY DEF Follows
<1> QED BY <1>1 DEF Follows

(* A token that does not change keeps everything.                          *)
LEMMA FollowsSelf == ASSUME NEW kind, NEW a \in Token PROVE Follows(kind, a, a)
  BY DEF Follows

(* The amounts the operations take, and the parties, have their types.     *)
LEMMA AmountFacts ==
    /\ AnyAmounts \subseteq AmountType /\ Amounts \subseteq AmountType
    /\ \A id : One(id) \in AmountType
    /\ \A sets \in AmountsOfBoth, kind \in Kind : sets[kind] \in AmountType
    /\ Noone \in Party /\ Hunters \subseteq Party
    /\ "normal" \in Kind /\ "shadow" \in Kind
<1>1. AnyAmounts \subseteq AmountType
  BY BoundsAssumption DEF AnyAmounts, AmountType
<1>2. \A id : One(id) \in AmountType
  BY DEF One, AmountType
<1>3. \A sets \in AmountsOfBoth, kind \in Kind : sets[kind] \in AnyAmounts
  BY DEF AmountsOfBoth
<1> QED BY <1>1, <1>2, <1>3 DEF Amounts, Party, Kind, Factory!Kind

-----------------------------------------------------------------------------

(* What the operations of the hunters leave alone.                         *)
Kept == block' = block /\ monsterRankTypes' = monsterRankTypes
            /\ monsterScores' = monsterScores /\ rescored' = rescored

(* Every operation of the hunters on the tokens is made of mints, moves    *)
(* and burns that their guards allow.                                      *)
TokensFollow == \A kind \in Kind : Follows(kind, tokens[kind], tokens'[kind])
TokensStep == Kept /\ tokens' = [kind \in Kind |-> tokens'[kind]] /\ TokensFollow

(* One token changes: the others are as they were.                         *)
LEMMA OneFollows ==
    ASSUME CollectingTypeOK, NEW kind \in Kind, NEW token, Follows(kind, tokens[kind], token),
           tokens' = [tokens EXCEPT ![kind] = token], Kept
    PROVE  TokensStep
<1>1. tokens \in [Kind -> Token]
  BY DEF CollectingTypeOK
<1>2. tokens'[kind] = token /\ \A k \in Kind \ {kind} : tokens'[k] = tokens[k]
  BY <1>1
<1>3. tokens' = [k \in Kind |-> tokens'[k]]
  BY <1>1
<1>4. ASSUME NEW k \in Kind PROVE Follows(k, tokens[k], tokens'[k])
  <2>1. CASE k = kind
    BY <1>2, <2>1
  <2>2. CASE k # kind
    BY <1>1, <1>2, <2>2, FollowsSelf
  <2> QED BY <2>1, <2>2
<1> QED BY <1>3, <1>4 DEF TokensStep, TokensFollow

(* Minting follows from one update of one token.                           *)
LEMMA MintStep ==
    ASSUME CollectingTypeOK, NEW h \in Hunters, NEW amounts \in Amounts, mintMonsters(h, amounts)
    PROVE  TokensStep
<1> DEFINE token == Moved(tokens["normal"], "normal", Noone, h, amounts)
<1>1. tokens \in [Kind -> Token]
  BY DEF CollectingTypeOK
<1>2. Follows("normal", tokens["normal"], token)
  <2>1. CanMove(tokens["normal"], "normal", Noone, h, amounts)
    BY DEF CanMove
  <2> QED BY <1>1, <2>1, AmountFacts, MovedFollows
<1>3. tokens' = [tokens EXCEPT !["normal"] = token] /\ Kept
  BY <1>1, AmountFacts DEF mintMonsters, registryVars, changeVars, Kept
<1> HIDE DEF token
<1> QED BY <1>2, <1>3, AmountFacts, OneFollows

(* So does a transfer of monsters.                                         *)
LEMMA TransferStep ==
    ASSUME CollectingTypeOK, NEW kind \in Kind, NEW from \in Hunters, NEW to \in Party,
           NEW amounts \in Amounts, transferMonsters(kind, from, to, amounts)
    PROVE  TokensStep
<1> DEFINE token == Moved(tokens[kind], kind, from, to, amounts)
<1>1. tokens \in [Kind -> Token]
  BY DEF CollectingTypeOK
<1>2. Follows(kind, tokens[kind], token)
  <2>1. CanMove(tokens[kind], kind, from, to, amounts)
    BY DEF transferMonsters
  <2> QED BY <1>1, <2>1, AmountFacts, MovedFollows
<1>3. tokens' = [tokens EXCEPT ![kind] = token] /\ Kept
  BY <1>1 DEF transferMonsters, registryVars, changeVars, Kept
<1> HIDE DEF token
<1> QED BY <1>2, <1>3, OneFollows

(* So does the return of monsters of one kind.                             *)
LEMMA ReturnStep ==
    ASSUME CollectingTypeOK, NEW h \in Hunters, NEW rank \in RankType, NEW kind \in Kind,
           NEW amounts \in Amounts, returnMonster(h, rank, kind, amounts)
    PROVE  TokensStep
<1> DEFINE token == Moved(tokens[kind], kind, h, Noone, amounts)
<1>1. tokens \in [Kind -> Token]
  BY DEF CollectingTypeOK
<1>2. Follows(kind, tokens[kind], token)
  <2>1. CanMove(tokens[kind], kind, h, Noone, amounts)
    BY DEF returnMonster
  <2> QED BY <1>1, <2>1, AmountFacts, MovedFollows
<1>3. tokens' = [tokens EXCEPT ![kind] = token] /\ Kept
  BY <1>1 DEF returnMonster, registryVars, changeVars, Kept
<1> HIDE DEF token
<1> QED BY <1>2, <1>3, OneFollows

(* The return of both kinds together updates each token once.              *)
LEMMA ReturnBatchStep ==
    ASSUME CollectingTypeOK, NEW h \in Hunters, NEW sets \in AmountsOfBoth,
           returnMonsterBatch(h, sets)
    PROVE  TokensStep
<1>1. tokens \in [Kind -> Token]
  BY DEF CollectingTypeOK
<1>2. tokens' = [kind \in Kind |-> IF sets[kind] = Nothing THEN tokens[kind]
                                   ELSE Moved(tokens[kind], kind, h, Noone, sets[kind])]
  BY DEF returnMonsterBatch
<1>3. ASSUME NEW kind \in Kind PROVE Follows(kind, tokens[kind], tokens'[kind])
  <2>1. CASE sets[kind] = Nothing
    <3>1. tokens'[kind] = tokens[kind]
      BY <1>2, <2>1
    <3> QED BY <1>1, <3>1, FollowsSelf
  <2>2. CASE sets[kind] # Nothing
    <3>1. tokens'[kind] = Moved(tokens[kind], kind, h, Noone, sets[kind])
      BY <1>2, <2>2
    <3>2. CanMove(tokens[kind], kind, h, Noone, sets[kind])
      BY DEF returnMonsterBatch
    <3> QED BY <1>1, <3>1, <3>2, AmountFacts, MovedFollows
  <2> QED BY <2>1, <2>2
<1>4. Kept
  BY DEF returnMonsterBatch, registryVars, changeVars, Kept
<1>5. tokens' = [kind \in Kind |-> tokens'[kind]]
  BY <1>2
<1> QED BY <1>3, <1>4, <1>5 DEF TokensStep, TokensFollow

(* An arise burns a monster of the kind below and mints the shadow it      *)
(* becomes, on the same token when a shadow becomes the next.              *)
LEMMA AriseStep ==
    ASSUME CollectingTypeOK, NEW h \in Hunters, NEW rank, NEW id, NEW requests, NEW count,
           NEW isSuccess \in BOOLEAN, ariseMonster(h, rank, id, requests, count, isSuccess)
    PROVE  TokensStep
<1> DEFINE kind == Factory!BeforeKind(rank)
           next == ariseNextMonsterIds[rank][id]
           less == Moved(tokens[kind], kind, h, Noone, One(id))
           burnt == [tokens EXCEPT ![kind] = less]
           more == Moved(burnt["shadow"], "shadow", Noone, h, One(next))
<1>1. tokens \in [Kind -> Token] /\ kind \in Kind
  BY AmountFacts DEF CollectingTypeOK, Factory!BeforeKind
<1>2. Kept
  BY DEF ariseMonster, registryVars, changeVars, Kept
<1>3. CASE isSuccess
  <2>1. /\ CanMove(tokens[kind], kind, h, Noone, One(id))
        /\ tokens' = [burnt EXCEPT !["shadow"] = more]
    BY <1>1, <1>3 DEF ariseMonster
  <2>2. Follows(kind, tokens[kind], less)
    BY <1>1, <2>1, AmountFacts, MovedFollows
  <2>3. less \in Token
    BY <2>2 DEF Follows
  <2> HIDE DEF kind, less
  <2>4. burnt \in [Kind -> Token] /\ burnt[kind] = less
        /\ \A k \in Kind \ {kind} : burnt[k] = tokens[k]
    BY <1>1, <2>3
  <2> HIDE DEF burnt
  <2>5. Follows("shadow", burnt["shadow"], more)
    <3>1. CanMove(burnt["shadow"], "shadow", Noone, h, One(next))
      BY DEF CanMove
    <3> QED BY <2>4, <3>1, AmountFacts, MovedFollows
  <2> HIDE DEF more
  <2>6. /\ tokens'["shadow"] = more /\ tokens' = [k \in Kind |-> tokens'[k]]
        /\ \A k \in Kind \ {"shadow"} : tokens'[k] = burnt[k]
    BY <2>1, <2>4, AmountFacts
  <2>7. ASSUME NEW k \in Kind PROVE Follows(k, tokens[k], burnt[k])
    BY <1>1, <2>2, <2>4, <2>7, FollowsSelf
  <2>8. ASSUME NEW k \in Kind PROVE Follows(k, burnt[k], tokens'[k])
    BY <2>4, <2>5, <2>6, <2>8, FollowsSelf
  <2>9. ASSUME NEW k \in Kind PROVE Follows(k, tokens[k], tokens'[k])
    BY <1>1, <2>7, <2>8, FollowsChain
  <2> QED BY <1>2, <2>6, <2>9 DEF TokensStep, TokensFollow
<1>4. CASE ~isSuccess
  <2>1. tokens' = tokens
    BY <1>4 DEF ariseMonster
  <2>2. tokens' = [k \in Kind |-> tokens'[k]]
    BY <1>1, <2>1
  <2>3. \A k \in Kind : Follows(k, tokens[k], tokens'[k])
    BY <1>1, <2>1, FollowsSelf
  <2> QED BY <1>2, <2>2, <2>3 DEF TokensStep, TokensFollow
<1> QED BY <1>3, <1>4

(* Steps that follow keep the invariant of the tokens.                     *)
LEMMA TokensStepKeeps == CollectingInv /\ TokensStep => CollectingInv'
<1> SUFFICES ASSUME CollectingInv, TokensStep PROVE CollectingInv'
  OBVIOUS
<1> USE DEF TokensStep, Kept, TokensFollow
<1>1. CollectingTypeOK'
  <2>1. tokens' \in [Kind -> Token]
    BY DEF Follows
  <2> QED BY <2>1 DEF CollectingInv, CollectingTypeOK
<1>2. ASSUME NEW kind \in Kind PROVE HistoriesSettled(tokens[kind])'
  <2>1. HistoriesSettled(tokens'[kind])
    BY DEF CollectingInv, Follows
  <2> QED BY <2>1 DEF HistoriesSettled, Settled, latest
<1>3. ScoreIsOfHoldings'
  <2>1. SUFFICES ASSUME ~rescored', NEW kind \in Kind, NEW h \in Hunters
                 PROVE  (latest(tokens[kind].collectingScores[h])
                             = TransferScore(kind, tokens[kind].balances[h]))'
    BY DEF ScoreIsOfHoldings
  <2>2. Scored(kind, tokens[kind])
    BY <2>1 DEF CollectingInv, ScoreIsOfHoldings, Scored
  <2>3. latest(tokens'[kind].collectingScores[h]) = TransferScore(kind, tokens'[kind].balances[h])
    BY <2>2 DEF Follows, Scored
  <2>4. (TransferScore(kind, tokens[kind].balances[h]))'
            = TransferScore(kind, tokens'[kind].balances[h])
    BY DEF TransferScore
  <2> QED BY <2>3, <2>4 DEF latest
<1> QED BY <1>1, <1>2, <1>3 DEF CollectingInv

(* The operators change a rank or the scores.                              *)
ScoresChange ==
    \/ \E kind \in Kind, id \in MonsterId, rank \in RanksInUse : setMonsterRankType(kind, id, rank)
    \/ \E kind \in Kind, scores \in ScoreTables : setMonsterScore(kind, scores)

(* A change while nobody holds a monster leaves every score at zero; one   *)
(* while somebody does is remembered.                                      *)
LEMMA ScoresChangeKeeps ==
    ASSUME CollectingInv, ScoresChange
    PROVE  CollectingInv' /\ block' = block /\ tokens' = tokens
<1>0. CollectingTypeOK
  BY DEF CollectingInv
<1> DEFINE Changed ==
               /\ block' = block /\ tokens' = tokens /\ rescored' = (rescored \/ Holding)
               /\ monsterRankTypes' \in [Kind -> [MonsterId -> RankType]]
               /\ monsterScores' \in [Kind -> [RankType -> Nat]]
<1>1. Changed
  <2>1. ASSUME NEW kind \in Kind, NEW id \in MonsterId, NEW rank \in RanksInUse,
               setMonsterRankType(kind, id, rank)
        PROVE  Changed
    <3>1. /\ block' = block /\ tokens' = tokens /\ rescored' = (rescored \/ Holding)
          /\ monsterScores' = monsterScores
          /\ monsterRankTypes' = [monsterRankTypes EXCEPT ![kind][id] = rank]
      BY <2>1 DEF setMonsterRankType, Factory!setMonsterRankType, CountChange
    <3>2. monsterRankTypes' \in [Kind -> [MonsterId -> RankType]]
      BY <1>0, <3>1, RegistryAssumption DEF CollectingTypeOK
    <3> QED BY <1>0, <3>1, <3>2 DEF CollectingTypeOK
  <2>2. ASSUME NEW kind \in Kind, NEW scores \in ScoreTables, setMonsterScore(kind, scores)
        PROVE  Changed
    <3>1. /\ block' = block /\ tokens' = tokens /\ rescored' = (rescored \/ Holding)
          /\ monsterRankTypes' = monsterRankTypes
          /\ monsterScores' = [monsterScores EXCEPT ![kind] = scores]
      BY <2>2 DEF setMonsterScore, registryVars, CountChange
    <3>2. monsterScores' \in [Kind -> [RankType -> Nat]]
      BY <1>0, <3>1, RegistryAssumption DEF CollectingTypeOK
    <3> QED BY <1>0, <3>1, <3>2 DEF CollectingTypeOK
  <2> HIDE DEF Changed
  <2> QED BY <2>1, <2>2 DEF ScoresChange
<1>2. CollectingTypeOK'
  BY <1>0, <1>1 DEF CollectingTypeOK, Holding
<1>3. ASSUME NEW kind \in Kind PROVE HistoriesSettled(tokens[kind])'
  BY <1>1 DEF CollectingInv, HistoriesSettled, Settled, latest
<1>4. ScoreIsOfHoldings'
  <2>1. SUFFICES ASSUME ~rescored', NEW kind \in Kind, NEW h \in Hunters
                 PROVE  (latest(tokens[kind].collectingScores[h])
                             = TransferScore(kind, tokens[kind].balances[h]))'
    BY DEF ScoreIsOfHoldings
  <2>2. ~rescored /\ tokens[kind].balances[h] = Nothing
    BY <1>0, <1>1, <2>1 DEF Holding, CollectingTypeOK
  <2>3. latest(tokens[kind].collectingScores[h]) = 0
    BY <1>0, <2>2, ScoreOfNothing DEF CollectingInv, ScoreIsOfHoldings
  <2>4. (CollectingTypeOK => TransferScore(kind, Nothing) = 0)'
    BY ScoreOfNothing, PTL
  <2>5. tokens'[kind].balances[h] = Nothing /\ latest(tokens'[kind].collectingScores[h]) = 0
    BY <1>1, <2>2, <2>3
  <2>6. (TransferScore(kind, tokens[kind].balances[h]))' = TransferScore(kind, Nothing)'
    BY <2>5 DEF TransferScore
  <2> QED BY <1>2, <2>4, <2>5, <2>6 DEF latest
<1> QED BY <1>1, <1>2, <1>3, <1>4 DEF CollectingInv

(* What was recorded of the blocks that are over.                          *)
PastKept ==
    \A kind \in Kind, h \in Hunters, b \in Block :
        b < block => tokens'[kind].collectingScores[h][b] = tokens[kind].collectingScores[h][b]

(* Every operation on monsters keeps the collecting invariant, changes no  *)
(* block before the current one and does not move the clock.               *)
LEMMA CollectingStep ==
    ASSUME CollectingInv, CollectingNext
    PROVE  CollectingInv' /\ block' = block /\ PastKept
<1>0. CollectingTypeOK
  BY DEF CollectingInv
<1>1. CASE TokensStep
  <2>1. block' = block /\ PastKept
    BY <1>1 DEF TokensStep, Kept, TokensFollow, Follows, PastKept
  <2> QED BY <1>1, <2>1, TokensStepKeeps
<1>2. CASE ScoresChange
  BY <1>2, ScoresChangeKeeps DEF PastKept
<1>3. TokensStep \/ ScoresChange
  <2>1. ASSUME NEW h \in Hunters, NEW amounts \in Amounts, mintMonsters(h, amounts)
        PROVE  TokensStep
    BY <1>0, <2>1, MintStep
  <2>2. ASSUME NEW kind \in Kind, NEW from \in Hunters, NEW to \in Hunters \union {Noone},
               NEW amounts \in Amounts, transferMonsters(kind, from, to, amounts)
        PROVE  TokensStep
    BY <1>0, <2>2, TransferStep DEF Party
  <2>3. ASSUME NEW h \in Hunters, NEW rank \in RankType, NEW id \in MonsterId,
               NEW requests \in 1..MaxRequests, NEW count \in 1..MaxRequests,
               NEW isSuccess \in BOOLEAN, ariseMonster(h, rank, id, requests, count, isSuccess)
        PROVE  TokensStep
    BY <1>0, <2>3, AriseStep
  <2>4. ASSUME NEW h \in Hunters, NEW rank \in RankType, NEW kind \in Kind,
               NEW amounts \in Amounts, returnMonster(h, rank, kind, amounts)
        PROVE  TokensStep
    BY <1>0, <2>4, ReturnStep
  <2>5. ASSUME NEW h \in Hunters, NEW sets \in AmountsOfBoth, returnMonsterBatch(h, sets)
        PROVE  TokensStep
    BY <1>0, <2>5, ReturnBatchStep
  <2> QED BY <2>1, <2>2, <2>3, <2>4, <2>5 DEF CollectingNext, ScoresChange
<1> QED BY <1>1, <1>2, <1>3

(* Nobody has monsters or a score at the start.                            *)
LEMMA CollectingStarts == CollectingInit => CollectingInv
<1> SUFFICES ASSUME CollectingInit PROVE CollectingInv
  OBVIOUS
<1>1. Nothing \in AmountType
  BY DEF Nothing, AmountType
<1>2. \A kind \in Kind, h \in Hunters :
          /\ tokens[kind].balances[h] = Nothing
          /\ tokens[kind].collectingScores[h] = [b \in Block |-> 0]
  BY DEF CollectingInit
<1>3. CollectingTypeOK
  <2>1. [balances |-> [h \in Hunters |-> Nothing],
         collectingScores |-> [h \in Hunters |-> [b \in Block |-> 0]]] \in Token
    BY <1>1 DEF Token, HistoryType
  <2>2. tokens \in [Kind -> Token]
    BY <2>1 DEF CollectingInit
  <2> QED BY <2>2, Intervals, RegistryAssumption DEF CollectingInit, CollectingTypeOK
<1>4. \A kind \in Kind : HistoriesSettled(tokens[kind])
  BY <1>2, Intervals DEF HistoriesSettled, Settled, latest
<1>5. ScoreIsOfHoldings
  BY <1>2, <1>3, Intervals, ScoreOfNothing DEF ScoreIsOfHoldings, latest
<1> QED BY <1>3, <1>4, <1>5 DEF CollectingInv

(* The next block begins with the scores the last one ended with.          *)
LEMMA MineBlockKeeps == CollectingInv /\ MineBlock => CollectingInv'
<1> SUFFICES ASSUME CollectingInv, MineBlock PROVE CollectingInv'
  OBVIOUS
<1>1. /\ block' = block + 1 /\ block' \in Block /\ block \in Nat
      /\ UNCHANGED <<monsterRankTypes, monsterScores, tokens, rescored>>
  BY BoundsAssumption DEF MineBlock, registryVars, changeVars, CollectingInv, CollectingTypeOK, Block
<1>2. CollectingTypeOK'
  BY <1>1 DEF CollectingInv, CollectingTypeOK
<1>3. ASSUME NEW kind \in Kind PROVE HistoriesSettled(tokens[kind])'
  <2>1. \A b \in Block : b >= block' => b >= block
    BY <1>1 DEF Block
  <2> QED BY <1>1, <2>1 DEF CollectingInv, HistoriesSettled, Settled, latest
<1>4. ScoreIsOfHoldings'
  BY <1>1 DEF CollectingInv, ScoreIsOfHoldings, latest, TransferScore
<1> QED BY <1>2, <1>3, <1>4 DEF CollectingInv

(* A step that leaves monsters and scores alone keeps the invariant.       *)
LEMMA CollectingUnchanged ==
    ASSUME CollectingInv, UNCHANGED <<block, monsterRankTypes, monsterScores, tokens, rescored>>
    PROVE  CollectingInv'
BY DEF CollectingInv, CollectingTypeOK, HistoriesSettled, Settled, ScoreIsOfHoldings, latest,
       TransferScore

-----------------------------------------------------------------------------

(* The types of what a claim reads and writes.                             *)
PlayTypeOK ==
    /\ hunterRankCollection \in RankCollections
    /\ hunterRank \in [RankCollection -> [Claimants -> RankType]]
    /\ gateCount \in [Season -> [Claimants -> Nat]]
    /\ scoreRate \in ScoreRates
    /\ scorePerGate \in ScoresPerGate
    /\ rewardClaimed \in [Season -> [Claimants -> BOOLEAN]]
    /\ seasonScore \in [Season -> [Claimants -> Int]]
    /\ legendaryScene \in [Season -> [Claimants -> Nat]]
    /\ recounted \in BOOLEAN

(* What a claim of a season that has ended reads is what the season ended  *)
(* with: the entries unless the operators touched what is counted, no rank *)
(* S its end did not have unless a later season gives ranks of the same    *)
(* collection.                                                             *)
EndedStays(s, h) ==
    /\ ~recounted => gateCount[s][h] = atEnd[s][h].entries
    /\ CollectingScoreAtEnd(s, h) = atEnd[s][h].collecting
    /\ getHunterRank(s, h) = RankS => atEnd[s][h].rank = RankS \/ RankCollectionReused(s)
EndedKept == \A s \in Season, h \in Claimants : isEndedSeasonById(s) => EndedStays(s, h)

(* Only a season that has ended has been claimed, and before it is claimed *)
(* it has paid nothing.                                                    *)
ClaimsKept ==
    \A s \in Season, h \in Claimants :
        /\ rewardClaimed[s][h] => isEndedSeasonById(s)
        /\ ~rewardClaimed[s][h] => seasonScore[s][h] = 0 /\ legendaryScene[s][h] = 0

SettlementInv == CollectingInv /\ PlayTypeOK /\ EndedKept /\ ClaimsKept /\ RankRewardEarned

-----------------------------------------------------------------------------

(* A season that has ended did so in a block whose scores are recorded.    *)
LEMMA EndedSeason ==
    ASSUME CollectingTypeOK, NEW s \in Season
    PROVE  /\ SeasonEnd[s] \in Nat \ {0} /\ block \in Nat
           /\ isEndedSeasonById(s) => SeasonEnd[s] \in Block
           /\ SeasonEnd[s] = block => SeasonEnd[s] \in Block
<1>1. SeasonEnd[s] \in Nat \ {0} /\ block \in 1..MaxBlock /\ MaxBlock \in Nat
  BY SeasonEndAssumption, BoundsAssumption DEF CollectingTypeOK, Block
<1> QED BY <1>1 DEF isEndedSeasonById, Block

(* The rank collection of a season is one of the two.                      *)
LEMMA RankCollectionOf ==
    ASSUME PlayTypeOK, NEW s \in Season
    PROVE  hunterRankCollection[s] \in RankCollection
BY DEF PlayTypeOK, RankCollection

(* The score at the end of a season is read from the histories.            *)
LEMMA ScoreAtEndFrom ==
    ASSUME NEW s, NEW h,
           \A kind \in Kind : tokens'[kind].collectingScores[h][SeasonEnd[s]]
                                  = tokens[kind].collectingScores[h][SeasonEnd[s]]
    PROVE  CollectingScoreAtEnd(s, h)' = CollectingScoreAtEnd(s, h)
BY DEF CollectingScoreAtEnd, getAtBlock

(* What a claim mints is a number.                                         *)
LEMMA EndedScoreType ==
    ASSUME CollectingTypeOK, PlayTypeOK, NEW s \in Season, NEW h \in Claimants,
           isEndedSeasonById(s)
    PROVE  getEndedSeasonScore(s, h) \in Int
<1> DEFINE f == [kind \in Kind |-> tokens[kind].collectingScores[h][SeasonEnd[s]]]
<1>1. SeasonEnd[s] \in Block /\ h \in Hunters
  BY EndedSeason, ClaimantsAssumption
<1>2. \A kind \in Kind : f[kind] \in Int
  BY <1>1 DEF CollectingTypeOK, Token, HistoryType
<1>3. CollectingScoreAtEnd(s, h) = SumFunctionOnSet(f, Kind)
  BY DEF CollectingScoreAtEnd, getAtBlock, SumFunction
<1> HIDE DEF f
<1>4. IsFiniteSet(Kind)
  <2>1. IsFiniteSet({"normal"}) /\ Kind = {"normal"} \union {"shadow"}
    BY FS_Singleton DEF Kind, Factory!Kind
  <2> QED BY <2>1, FS_AddElement
<1>5. CollectingScoreAtEnd(s, h) \in Int
  BY <1>2, <1>3, <1>4, SumInt
<1>6. /\ gateCount[s][h] \in Nat /\ scorePerGate \in Nat
      /\ scoreRate.activity \in Nat /\ scoreRate.collecting \in Nat
      /\ DENOMINATOR \in Nat /\ DENOMINATOR > 0
  BY ScoreAssumption DEF PlayTypeOK
<1>7. \A entries \in Nat, collecting \in Int : Converted(entries, collecting) \in Int
  <2>1. SUFFICES ASSUME NEW entries \in Nat, NEW collecting \in Int
                 PROVE  Converted(entries, collecting) \in Int
    OBVIOUS
  <2>2. PICK x, y : x = entries * scorePerGate * scoreRate.activity
                        /\ y = collecting * scoreRate.collecting
    OBVIOUS
  <2>3. x \in Int /\ y \in Int
    BY <1>6, <2>2
  <2>4. x \div DENOMINATOR \in Int /\ y \div DENOMINATOR \in Int
    BY <1>6, <2>3
  <2> QED BY <2>2, <2>4 DEF Converted
<1> QED BY <1>5, <1>6, <1>7 DEF getEndedSeasonScore

-----------------------------------------------------------------------------

(* Each action leaves what the ended seasons ended with.                   *)
LEMMA CollectKeepsEnded == SettlementInv /\ Collect => EndedKept'
<1> SUFFICES ASSUME SettlementInv, Collect, NEW s \in Season, NEW h \in Claimants,
                    isEndedSeasonById(s)'
             PROVE  EndedStays(s, h)'
  BY DEF EndedKept
<1>1. block' = block /\ PastKept
  BY CollectingStep DEF SettlementInv, Collect
<1>2. isEndedSeasonById(s)
  BY <1>1 DEF isEndedSeasonById
<1>3. SeasonEnd[s] \in Block /\ SeasonEnd[s] < block /\ h \in Hunters
  BY <1>2, EndedSeason, ClaimantsAssumption DEF SettlementInv, CollectingInv, isEndedSeasonById
<1>4. CollectingScoreAtEnd(s, h)' = CollectingScoreAtEnd(s, h)
  BY <1>1, <1>3, ScoreAtEndFrom DEF PastKept
<1>5. UNCHANGED <<hunterRankCollection, hunterRank, gateCount, atEnd, recounted>>
  BY DEF Collect, playVars, historyVars
<1> QED BY <1>2, <1>4, <1>5
        DEF SettlementInv, EndedKept, EndedStays, RankCollectionReused, getHunterRank

(* Entering a gate counts in the current season, which has not ended, and  *)
(* changes ranks of ended seasons only if they share its rank collection.  *)
LEMMA EnterGateKeepsEnded ==
    ASSUME SettlementInv, NEW t \in Season, NEW k \in Claimants, NEW weight \in Weights,
           NEW rank \in SettledRanks, EnterGate(t, k, weight, rank)
    PROVE  EndedKept'
<1> SUFFICES ASSUME NEW s \in Season, NEW h \in Claimants, isEndedSeasonById(s)'
             PROVE  EndedStays(s, h)'
  BY DEF EndedKept
<1>1. UNCHANGED <<block, tokens, hunterRankCollection, atEnd, recounted>>
  BY DEF EnterGate, Counts!Enter, collectingVars, historyVars
<1>2. isEndedSeasonById(s) /\ EndedStays(s, h)
  BY <1>1 DEF isEndedSeasonById, SettlementInv, EndedKept
<1>3. ~isEndedSeasonById(t) /\ t # s
  BY <1>2 DEF EnterGate, Counts!Enter, isCurrentSeasonById
<1>4. gateCount'[s][h] = gateCount[s][h]
  BY <1>3 DEF EnterGate, Counts!Enter, SettlementInv, PlayTypeOK
<1>5. CollectingScoreAtEnd(s, h)' = CollectingScoreAtEnd(s, h)
  BY <1>1, ScoreAtEndFrom
<1>6. RankCollectionReused(s) \/ hunterRankCollection[t] # hunterRankCollection[s]
  <2>1. s \in Nat /\ t \in Nat /\ SeasonEnd[s] \in Nat /\ SeasonEnd[t] \in Nat /\ block \in Nat
    BY SeasonEndAssumption, EndedSeason DEF SettlementInv, CollectingInv
  <2>2. ~(t < s)
    BY <1>2, <1>3, <2>1, SeasonEndAssumption DEF isEndedSeasonById
  <2>3. t > s
    BY <1>3, <2>1, <2>2
  <2> QED BY <2>3 DEF RankCollectionReused
<1>7. RankCollectionReused(s)' <=> RankCollectionReused(s)
  BY <1>1 DEF RankCollectionReused
<1>8. CASE hunterRankCollection[t] # hunterRankCollection[s]
  <2>1. getHunterRank(s, h)' = getHunterRank(s, h)
    BY <1>1, <1>8, RankCollectionOf DEF EnterGate, Counts!Enter, getHunterRank, SettlementInv, PlayTypeOK
  <2> QED BY <1>1, <1>2, <1>4, <1>5, <1>7, <2>1 DEF EndedStays
<1> QED BY <1>1, <1>2, <1>4, <1>5, <1>6, <1>7, <1>8 DEF EndedStays

(* A burn leaves the hunter without rank S and the others as they were.    *)
LEMMA BurnRankTokenKeepsEnded ==
    ASSUME SettlementInv, NEW c \in RankCollection, NEW k \in Claimants, NEW rank \in SettledRanks,
           burnRankToken(c, k, rank)
    PROVE  EndedKept'
<1> SUFFICES ASSUME NEW s \in Season, NEW h \in Claimants, isEndedSeasonById(s)'
             PROVE  EndedStays(s, h)'
  BY DEF EndedKept
<1>1. UNCHANGED <<block, tokens, hunterRankCollection, gateCount, atEnd, recounted>>
  BY DEF burnRankToken, Counts!Burn, collectingVars, historyVars
<1>2. isEndedSeasonById(s) /\ EndedStays(s, h)
  BY <1>1 DEF isEndedSeasonById, SettlementInv, EndedKept
<1>3. CollectingScoreAtEnd(s, h)' = CollectingScoreAtEnd(s, h)
  BY <1>1, ScoreAtEndFrom
<1>4. /\ rank < hunterRank[c][k] /\ hunterRank' = [hunterRank EXCEPT ![c][k] = rank]
      /\ hunterRank \in [RankCollection -> [Claimants -> RankType]]
      /\ hunterRankCollection[s] \in RankCollection
  BY RankCollectionOf DEF burnRankToken, Counts!Burn, SettlementInv, PlayTypeOK
<1>5. getHunterRank(s, h)' = RankS => getHunterRank(s, h) = RankS
  <2>1. CASE hunterRankCollection[s] = c /\ h = k
    <3>1. hunterRank[c][k] \in 0..5 /\ RankS = 5
      BY <1>4 DEF RankType, RankE, RankS
    <3>2. hunterRank'[c][k] = rank /\ rank # RankS
      <4>1. rank \in Nat /\ hunterRank'[c][k] = rank
        BY <1>4 DEF SettledRanks, RankE, RankS
      <4> QED BY <1>4, <3>1, <4>1
    <3> QED BY <1>1, <2>1, <3>2 DEF getHunterRank
  <2>2. CASE hunterRankCollection[s] # c \/ h # k
    <3>1. hunterRank'[hunterRankCollection[s]][h] = hunterRank[hunterRankCollection[s]][h]
      BY <1>4, <2>2
    <3> QED BY <1>1, <3>1 DEF getHunterRank
  <2> QED BY <2>1, <2>2
<1> QED BY <1>1, <1>2, <1>3, <1>5 DEF EndedStays, RankCollectionReused

(* The block after the last of a season records what the season ended      *)
(* with, and the histories have it for ever.                               *)
LEMMA MineBlockKeepsEnded == SettlementInv /\ MineBlock => EndedKept'
<1> SUFFICES ASSUME SettlementInv, MineBlock, NEW s \in Season, NEW h \in Claimants,
                    isEndedSeasonById(s)'
             PROVE  EndedStays(s, h)'
  BY DEF EndedKept
<1>1. /\ block' = block + 1
      /\ UNCHANGED <<tokens, hunterRankCollection, hunterRank, gateCount, recounted>>
      /\ atEnd'[s][h] = IF SeasonEnd[s] = block
                        THEN [entries |-> gateCount[s][h],
                              collecting |-> SumFunction([kind \in Kind |->
                                                latest(tokens[kind].collectingScores[h])]),
                              rank |-> getHunterRank(s, h)]
                        ELSE atEnd[s][h]
  BY DEF MineBlock, playVars
<1>2. SeasonEnd[s] \in Nat /\ block \in Nat /\ h \in Hunters
  BY EndedSeason, ClaimantsAssumption DEF SettlementInv, CollectingInv
<1>3. CollectingScoreAtEnd(s, h)' = CollectingScoreAtEnd(s, h)
  BY <1>1, ScoreAtEndFrom
<1>4. /\ RankCollectionReused(s)' <=> RankCollectionReused(s)
      /\ getHunterRank(s, h)' = getHunterRank(s, h)
  BY <1>1 DEF RankCollectionReused, getHunterRank
<1>5. CASE SeasonEnd[s] = block
  <2>1. SeasonEnd[s] \in Block /\ SeasonEnd[s] >= block
    BY <1>2, <1>5, EndedSeason DEF SettlementInv, CollectingInv
  <2>2. \A kind \in Kind : getAtBlock(tokens[kind].collectingScores[h], SeasonEnd[s])
                               = latest(tokens[kind].collectingScores[h])
    BY <1>2, <2>1 DEF SettlementInv, CollectingInv, HistoriesSettled, Settled, getAtBlock
  <2>3. CollectingScoreAtEnd(s, h) =
            SumFunction([kind \in Kind |-> latest(tokens[kind].collectingScores[h])])
    BY <2>2 DEF CollectingScoreAtEnd
  <2>4. /\ atEnd'[s][h].entries = gateCount[s][h]
        /\ atEnd'[s][h].collecting = CollectingScoreAtEnd(s, h)
        /\ atEnd'[s][h].rank = getHunterRank(s, h)
    BY <1>1, <1>5, <2>3
  <2> QED BY <1>1, <1>3, <1>4, <2>4 DEF EndedStays
<1>6. CASE SeasonEnd[s] # block
  <2>1. isEndedSeasonById(s)
    BY <1>1, <1>2, <1>6 DEF isEndedSeasonById
  <2>2. EndedStays(s, h)
    BY <2>1 DEF SettlementInv, EndedKept
  <2> QED BY <1>1, <1>3, <1>4, <1>6, <2>2 DEF EndedStays
<1> QED BY <1>5, <1>6

(* A step that leaves histories, ranks and clock alone, and the counts of  *)
(* gates unless an operator recounted, keeps what the seasons ended with.  *)
LEMMA OthersKeepEnded ==
    ASSUME SettlementInv,
           UNCHANGED <<block, tokens, hunterRankCollection, hunterRank, atEnd>>,
           recounted' \/ UNCHANGED <<gateCount, recounted>>
    PROVE  EndedKept'
<1> SUFFICES ASSUME NEW s \in Season, NEW h \in Claimants, isEndedSeasonById(s)'
             PROVE  EndedStays(s, h)'
  BY DEF EndedKept
<1>1. isEndedSeasonById(s) /\ EndedStays(s, h)
  BY DEF isEndedSeasonById, SettlementInv, EndedKept
<1>2. CollectingScoreAtEnd(s, h)' = CollectingScoreAtEnd(s, h)
  BY ScoreAtEndFrom
<1> QED BY <1>1, <1>2 DEF EndedStays, RankCollectionReused, getHunterRank

-----------------------------------------------------------------------------

(* What a claim reads and writes keeps its types.                          *)
LEMMA PlayTypes == SettlementInv /\ [Next]_vars => PlayTypeOK'
<1> SUFFICES ASSUME SettlementInv, [Next]_vars PROVE PlayTypeOK'
  OBVIOUS
<1> USE DEF PlayTypeOK, SettlementInv
<1>1. CASE Collect
  BY <1>1 DEF Collect, playVars, operatorVars, claimVars, historyVars
<1>2. ASSUME NEW s \in Season, NEW h \in Claimants, NEW weight \in Weights,
             NEW rank \in SettledRanks, EnterGate(s, h, weight, rank)
      PROVE  PlayTypeOK'
  <2>1. rank \in RankType
    BY DEF SettledRanks, RankType, RankE, RankS
  <2>2. hunterRank' \in [RankCollection -> [Claimants -> RankType]]
    BY <1>2, <2>1, RankCollectionOf DEF EnterGate, Counts!Enter
  <2>3. gateCount' \in [Season -> [Claimants -> Nat]]
    BY <1>2, WeightsAssumption DEF EnterGate, Counts!Enter
  <2> QED BY <1>2, <2>2, <2>3 DEF EnterGate, Counts!Enter, operatorVars, claimVars, historyVars
<1>9. ASSUME NEW c \in RankCollection, NEW h \in Claimants, NEW rank \in SettledRanks,
             burnRankToken(c, h, rank)
      PROVE  PlayTypeOK'
  <2>1. rank \in RankType
    BY DEF SettledRanks, RankType, RankE, RankS
  <2>2. hunterRank' \in [RankCollection -> [Claimants -> RankType]]
    BY <1>9, <2>1 DEF burnRankToken, Counts!Burn
  <2> QED BY <1>9, <2>2 DEF burnRankToken, Counts!Burn, operatorVars, claimVars, historyVars
<1>3. CASE MineBlock
  BY <1>3 DEF MineBlock, playVars, operatorVars, claimVars
<1>4. ASSUME NEW s \in Season, NEW h \in Claimants, claimSeasonReward(s, h)
      PROVE  PlayTypeOK'
  <2>1. getEndedSeasonScore(s, h) \in Int
    BY <1>4, EndedScoreType DEF claimSeasonReward, CollectingInv
  <2>2. /\ rewardClaimed' = [rewardClaimed EXCEPT ![s][h] = TRUE]
        /\ seasonScore' = [seasonScore EXCEPT ![s][h] = @ + getEndedSeasonScore(s, h)]
        /\ \/ legendaryScene' = [legendaryScene EXCEPT ![s][h] = @ + 1]
           \/ legendaryScene' = legendaryScene
        /\ UNCHANGED <<hunterRankCollection, playVars, operatorVars, historyVars>>
    BY <1>4 DEF claimSeasonReward
  <2>3. rewardClaimed' \in [Season -> [Claimants -> BOOLEAN]]
    BY <2>2
  <2>4. seasonScore' \in [Season -> [Claimants -> Int]]
    BY <2>1, <2>2
  <2>5. legendaryScene' \in [Season -> [Claimants -> Nat]]
    <3>1. legendaryScene \in [Season -> [Claimants -> Nat]]
      OBVIOUS
    <3>2. CASE legendaryScene' = [legendaryScene EXCEPT ![s][h] = @ + 1]
      <4>1. legendaryScene[s][h] + 1 \in Nat
        BY <3>1
      <4> QED BY <3>1, <3>2, <4>1
    <3>3. CASE legendaryScene' = legendaryScene
      BY <3>1, <3>3
    <3> QED BY <2>2, <3>2, <3>3
  <2> QED BY <2>2, <2>3, <2>4, <2>5 DEF playVars, operatorVars, historyVars
<1>5. ASSUME NEW rate \in ScoreRates, setScoreRate(rate) PROVE PlayTypeOK'
  BY <1>5 DEF setScoreRate, Recount, claimVars
<1>6. ASSUME NEW score \in ScoresPerGate, setScorePerGate(score) PROVE PlayTypeOK'
  BY <1>6 DEF setScorePerGate, Recount, claimVars
<1>7. CASE setDungeonGateContract
  BY <1>7 DEF setDungeonGateContract, Recount, claimVars, operatorVars, OfSeasonAndHunter
<1>8. CASE UNCHANGED vars
  BY <1>8 DEF vars, playVars, operatorVars, claimVars, historyVars
<1> QED BY <1>1, <1>2, <1>3, <1>4, <1>5, <1>6, <1>7, <1>8, <1>9 DEF Next

(* What has been paid does not change but by a claim.                      *)
LEMMA UnclaimedKeeps ==
    ASSUME SettlementInv, UNCHANGED <<claimVars, hunterRankCollection>>,
           block' \in Nat, block' >= block,
           \A s \in Season, h \in Claimants : rewardClaimed[s][h] => atEnd'[s][h] = atEnd[s][h]
    PROVE  ClaimsKept' /\ RankRewardEarned'
<1>1. ClaimsKept'
  <2> SUFFICES ASSUME NEW s \in Season, NEW h \in Claimants
               PROVE  /\ rewardClaimed'[s][h] => isEndedSeasonById(s)'
                      /\ ~rewardClaimed'[s][h] => seasonScore'[s][h] = 0 /\ legendaryScene'[s][h] = 0
    BY DEF ClaimsKept
  <2>1. /\ rewardClaimed[s][h] => isEndedSeasonById(s)
        /\ ~rewardClaimed[s][h] => seasonScore[s][h] = 0 /\ legendaryScene[s][h] = 0
    BY DEF SettlementInv, ClaimsKept
  <2>2. SeasonEnd[s] \in Nat /\ block \in Nat
    BY EndedSeason DEF SettlementInv, CollectingInv
  <2>3. isEndedSeasonById(s) => isEndedSeasonById(s)'
    BY <2>2 DEF isEndedSeasonById
  <2> QED BY <2>1, <2>3 DEF claimVars
<1>2. RankRewardEarned'
  <2> SUFFICES ASSUME NEW s \in Season, NEW h \in Claimants
               PROVE  /\ legendaryScene'[s][h] <= 1
                      /\ legendaryScene'[s][h] = 1 =>
                            atEnd'[s][h].rank = RankS \/ RankCollectionReused(s)'
    BY DEF RankRewardEarned
  <2>1. legendaryScene[s][h] = 1 => rewardClaimed[s][h]
    BY DEF SettlementInv, ClaimsKept
  <2>2. /\ legendaryScene[s][h] <= 1
        /\ legendaryScene[s][h] = 1 => atEnd[s][h].rank = RankS \/ RankCollectionReused(s)
    BY DEF SettlementInv, RankRewardEarned
  <2>3. RankCollectionReused(s)' <=> RankCollectionReused(s)
    BY DEF RankCollectionReused
  <2> QED BY <2>1, <2>2, <2>3 DEF claimVars
<1> QED BY <1>1, <1>2

(* A claim pays a season that has ended, once.                             *)
LEMMA ClaimStep ==
    ASSUME SettlementInv, NEW s \in Season, NEW h \in Claimants, claimSeasonReward(s, h)
    PROVE  /\ isEndedSeasonById(s) /\ ~rewardClaimed[s][h]
           /\ rewardClaimed'[s][h]
           /\ seasonScore'[s][h] = getEndedSeasonScore(s, h)
           /\ legendaryScene'[s][h] = IF getHunterRank(s, h) = RankS THEN 1 ELSE 0
           /\ \A t \in Season, k \in Claimants : t # s \/ k # h =>
                  /\ rewardClaimed'[t][k] = rewardClaimed[t][k]
                  /\ seasonScore'[t][k] = seasonScore[t][k]
                  /\ legendaryScene'[t][k] = legendaryScene[t][k]
           /\ UNCHANGED <<block, tokens, hunterRankCollection, hunterRank, gateCount, atEnd, recounted>>
<1>1. isEndedSeasonById(s) /\ ~rewardClaimed[s][h] /\ h \in Claimants
  BY DEF claimSeasonReward
<1>2. seasonScore[s][h] = 0 /\ legendaryScene[s][h] = 0
  BY <1>1 DEF SettlementInv, ClaimsKept
<1>3. getEndedSeasonScore(s, h) \in Int
  BY <1>1, EndedScoreType DEF SettlementInv, CollectingInv
<1>4. /\ rewardClaimed' = [rewardClaimed EXCEPT ![s][h] = TRUE]
      /\ seasonScore' = [seasonScore EXCEPT ![s][h] = @ + getEndedSeasonScore(s, h)]
      /\ legendaryScene' = IF getHunterRank(s, h) = RankS
                           THEN [legendaryScene EXCEPT ![s][h] = @ + 1] ELSE legendaryScene
  BY DEF claimSeasonReward
<1>5. PlayTypeOK
  BY DEF SettlementInv
<1>6. /\ rewardClaimed'[s][h]
      /\ \A t \in Season, k \in Claimants : t # s \/ k # h =>
             rewardClaimed'[t][k] = rewardClaimed[t][k]
  BY <1>4, <1>5 DEF PlayTypeOK
<1>7. /\ seasonScore'[s][h] = getEndedSeasonScore(s, h)
      /\ \A t \in Season, k \in Claimants : t # s \/ k # h =>
             seasonScore'[t][k] = seasonScore[t][k]
  BY <1>2, <1>3, <1>4, <1>5 DEF PlayTypeOK
<1>8. /\ legendaryScene'[s][h] = IF getHunterRank(s, h) = RankS THEN 1 ELSE 0
      /\ \A t \in Season, k \in Claimants : t # s \/ k # h =>
             legendaryScene'[t][k] = legendaryScene[t][k]
  <2>1. CASE getHunterRank(s, h) = RankS
    BY <1>2, <1>4, <1>5, <2>1 DEF PlayTypeOK
  <2>2. CASE getHunterRank(s, h) # RankS
    BY <1>2, <1>4, <2>2
  <2> QED BY <2>1, <2>2
<1>9. UNCHANGED <<block, tokens, hunterRankCollection, hunterRank, gateCount, atEnd, recounted>>
  BY DEF claimSeasonReward, collectingVars, playVars, historyVars
<1> QED BY <1>1, <1>6, <1>7, <1>8, <1>9

(* A claim pays for what the season ended with.                            *)
LEMMA ClaimKeeps ==
    ASSUME SettlementInv, NEW s \in Season, NEW h \in Claimants, claimSeasonReward(s, h)
    PROVE  ClaimsKept' /\ RankRewardEarned'
<1>1. ASSUME NEW t \in Season, NEW k \in Claimants
      PROVE  /\ rewardClaimed'[t][k] => isEndedSeasonById(t)'
             /\ ~rewardClaimed'[t][k] => seasonScore'[t][k] = 0 /\ legendaryScene'[t][k] = 0
  <2>1. isEndedSeasonById(t)' <=> isEndedSeasonById(t)
    BY ClaimStep DEF isEndedSeasonById
  <2>2. CASE t = s /\ k = h
    BY <2>1, <2>2, ClaimStep
  <2>3. CASE t # s \/ k # h
    BY <2>1, <2>3, ClaimStep DEF SettlementInv, ClaimsKept
  <2> QED BY <2>2, <2>3
<1>2. ASSUME NEW t \in Season, NEW k \in Claimants
      PROVE  /\ legendaryScene'[t][k] <= 1
             /\ legendaryScene'[t][k] = 1 =>
                   atEnd'[t][k].rank = RankS \/ RankCollectionReused(t)'
  <2>1. /\ RankCollectionReused(t)' <=> RankCollectionReused(t)
        /\ atEnd' = atEnd
    BY ClaimStep DEF RankCollectionReused
  <2>2. CASE t = s /\ k = h
    <3>1. EndedStays(t, k)
      BY <2>2, ClaimStep DEF SettlementInv, EndedKept
    <3>2. legendaryScene'[t][k] = IF getHunterRank(t, k) = RankS THEN 1 ELSE 0
      BY <2>2, ClaimStep
    <3> QED BY <2>1, <3>1, <3>2 DEF EndedStays
  <2>3. CASE t # s \/ k # h
    BY <2>1, <2>3, ClaimStep DEF SettlementInv, RankRewardEarned
  <2> QED BY <2>2, <2>3
<1> QED BY <1>1, <1>2 DEF ClaimsKept, RankRewardEarned

(* The operators change rates and the gate, and leave the rest alone.      *)
OperatorStep ==
    \/ \E rate \in ScoreRates : setScoreRate(rate)
    \/ \E score \in ScoresPerGate : setScorePerGate(score)
    \/ setDungeonGateContract

(* An operator's step changes no history, rank or claim, and is remembered *)
(* as a recount.                                                           *)
LEMMA OperatorStepLeaves ==
    OperatorStep =>
        /\ recounted'
        /\ UNCHANGED <<block, monsterRankTypes, monsterScores, tokens, rescored>>
        /\ UNCHANGED <<hunterRankCollection, hunterRank, claimVars, atEnd>>
BY DEF OperatorStep, setScoreRate, setScorePerGate, setDungeonGateContract, Recount, registryVars

(* Every step of a hunter, an operator or the clock keeps the invariant.   *)
THEOREM SettlementStep == SettlementInv /\ [Next]_vars => SettlementInv'
<1> SUFFICES ASSUME SettlementInv, [Next]_vars PROVE SettlementInv'
  OBVIOUS
<1>0. /\ PlayTypeOK' /\ CollectingInv /\ block \in Nat
      /\ \A s \in Season, h \in Claimants : rewardClaimed[s][h] => isEndedSeasonById(s)
  BY PlayTypes DEF SettlementInv, CollectingInv, CollectingTypeOK, Block, ClaimsKept
<1>1. CASE Collect
  <2>1. CollectingInv' /\ block' = block
    BY <1>0, <1>1, CollectingStep DEF Collect
  <2>2. UNCHANGED <<claimVars, hunterRankCollection, atEnd>>
    BY <1>1 DEF Collect, historyVars
  <2> QED BY <1>0, <1>1, <2>1, <2>2, CollectKeepsEnded, UnclaimedKeeps DEF SettlementInv
<1>2. ASSUME NEW s \in Season, NEW h \in Claimants, NEW weight \in Weights,
             NEW rank \in SettledRanks, EnterGate(s, h, weight, rank)
      PROVE  SettlementInv'
  <2>1. /\ UNCHANGED <<block, monsterRankTypes, monsterScores, tokens, rescored>>
        /\ UNCHANGED <<claimVars, hunterRankCollection, atEnd>>
    BY <1>2 DEF EnterGate, Counts!Enter, collectingVars, registryVars, changeVars, historyVars
  <2>2. CollectingInv'
    BY <1>0, <2>1, CollectingUnchanged
  <2>3. EndedKept'
    BY <1>2, EnterGateKeepsEnded
  <2> QED BY <1>0, <2>1, <2>2, <2>3, UnclaimedKeeps DEF SettlementInv
<1>7. ASSUME NEW c \in RankCollection, NEW h \in Claimants, NEW rank \in SettledRanks,
             burnRankToken(c, h, rank)
      PROVE  SettlementInv'
  <2>1. /\ UNCHANGED <<block, monsterRankTypes, monsterScores, tokens, rescored>>
        /\ UNCHANGED <<claimVars, hunterRankCollection, atEnd>>
    BY <1>7 DEF burnRankToken, Counts!Burn, collectingVars, registryVars, changeVars, historyVars
  <2>2. CollectingInv'
    BY <1>0, <2>1, CollectingUnchanged
  <2>3. EndedKept'
    BY <1>7, BurnRankTokenKeepsEnded
  <2> QED BY <1>0, <2>1, <2>2, <2>3, UnclaimedKeeps DEF SettlementInv
<1>3. CASE MineBlock
  <2>1. CollectingInv' /\ EndedKept'
    BY <1>0, <1>3, MineBlockKeeps, MineBlockKeepsEnded
  <2>2. block' = block + 1 /\ UNCHANGED <<claimVars, hunterRankCollection>>
    BY <1>3 DEF MineBlock
  <2>3. ASSUME NEW s \in Season, NEW h \in Claimants, rewardClaimed[s][h]
        PROVE  atEnd'[s][h] = atEnd[s][h]
    <3>1. SeasonEnd[s] \in Nat /\ SeasonEnd[s] < block
      BY <1>0, <2>3, EndedSeason DEF CollectingInv, isEndedSeasonById
    <3> QED BY <1>0, <1>3, <3>1 DEF MineBlock
  <2>4. ClaimsKept' /\ RankRewardEarned'
    <3>1. block' \in Nat /\ block' >= block
      BY <1>0, <2>2
    <3> QED BY <2>2, <2>3, <3>1, UnclaimedKeeps
  <2> QED BY <1>0, <2>1, <2>4 DEF SettlementInv
<1>4. ASSUME NEW s \in Season, NEW h \in Claimants, claimSeasonReward(s, h)
      PROVE  SettlementInv'
  <2>1. ClaimsKept' /\ RankRewardEarned'
    BY <1>4, ClaimKeeps
  <2>2. UNCHANGED <<block, tokens, hunterRankCollection, hunterRank, gateCount, atEnd, recounted>>
    BY <1>4, ClaimStep
  <2>3. EndedKept'
    BY <2>2, OthersKeepEnded
  <2>4. CollectingInv'
    <3>1. UNCHANGED <<block, monsterRankTypes, monsterScores, tokens, rescored>>
      BY <1>4 DEF claimSeasonReward, collectingVars, registryVars, changeVars
    <3> QED BY <1>0, <3>1, CollectingUnchanged
  <2> QED BY <1>0, <2>1, <2>3, <2>4 DEF SettlementInv
<1>5. CASE OperatorStep
  <2>1. CollectingInv'
    BY <1>0, <1>5, OperatorStepLeaves, CollectingUnchanged
  <2>2. EndedKept'
    BY <1>5, OperatorStepLeaves, OthersKeepEnded
  <2>3. ClaimsKept' /\ RankRewardEarned'
    BY <1>0, <1>5, OperatorStepLeaves, UnclaimedKeeps
  <2> QED BY <1>0, <2>1, <2>2, <2>3 DEF SettlementInv
<1>6. CASE UNCHANGED vars
  <2>1. /\ UNCHANGED <<block, monsterRankTypes, monsterScores, tokens, rescored>>
        /\ UNCHANGED <<claimVars, hunterRankCollection, hunterRank, gateCount, atEnd, recounted>>
    BY <1>6 DEF vars, collectingVars, registryVars, changeVars, playVars, historyVars
  <2>2. CollectingInv'
    BY <1>0, <2>1, CollectingUnchanged
  <2>3. EndedKept'
    BY <2>1, OthersKeepEnded
  <2>4. ClaimsKept' /\ RankRewardEarned'
    BY <1>0, <2>1, UnclaimedKeeps
  <2> QED BY <1>0, <2>2, <2>3, <2>4 DEF SettlementInv
<1> QED BY <1>1, <1>2, <1>3, <1>4, <1>5, <1>6, <1>7 DEF Next, OperatorStep

(* No season has ended and nothing is paid at the start.                   *)
LEMMA SettlementStarts == Init => SettlementInv
<1> SUFFICES ASSUME Init PROVE SettlementInv
  OBVIOUS
<1>1. CollectingInv
  BY CollectingStarts DEF Init
<1>2. PlayTypeOK
  <2>1. RankE \in RankType
    BY DEF RankE, RankS, RankType
  <2>2. hunterRank \in [RankCollection -> [Claimants -> RankType]]
    BY <2>1 DEF Init
  <2>3. /\ OfSeasonAndHunter(0) \in [Season -> [Claimants -> Nat]]
        /\ OfSeasonAndHunter(0) \in [Season -> [Claimants -> Int]]
        /\ OfSeasonAndHunter(FALSE) \in [Season -> [Claimants -> BOOLEAN]]
    BY DEF OfSeasonAndHunter
  <2>4. /\ gateCount \in [Season -> [Claimants -> Nat]]
        /\ rewardClaimed \in [Season -> [Claimants -> BOOLEAN]]
        /\ seasonScore \in [Season -> [Claimants -> Int]]
        /\ legendaryScene \in [Season -> [Claimants -> Nat]]
    BY <2>3 DEF Init
  <2> QED BY <2>2, <2>4 DEF Init, PlayTypeOK
<1>3. \A s \in Season : ~isEndedSeasonById(s)
  <2>1. block = 1
    BY DEF Init, CollectingInit
  <2> QED BY <2>1, SeasonEndAssumption DEF isEndedSeasonById
<1>4. EndedKept
  BY <1>3 DEF EndedKept
<1>5. ClaimsKept /\ RankRewardEarned
  BY <1>3 DEF Init, OfSeasonAndHunter, ClaimsKept, RankRewardEarned
<1> QED BY <1>1, <1>2, <1>4, <1>5 DEF SettlementInv

(* However hunters, operators and the clock interleave, for any seasons,   *)
(* scores and monsters, the invariant of the settlement holds.             *)
THEOREM SettlementInvariant == Spec => []SettlementInv
  BY SettlementStarts, SettlementStep, PTL DEF Spec

(* Any hunters who trade, return and raise any monsters: the collecting    *)
(* score _updateCollectingScore (SLMonster.sol:112) keeps of a hunter is   *)
(* that of the monsters held, as long as no rank or score was changed      *)
(* under them.                                                             *)
THEOREM ScoreIsOfHoldingsHolds == Spec => []ScoreIsOfHoldings
<1>1. SettlementInv => ScoreIsOfHoldings
  BY DEF SettlementInv, CollectingInv
<1> QED BY <1>1, SettlementInvariant, PTL

(* Whoever got the reward of a rank had that rank when the season ended    *)
(* (claimSeasonReward), unless the rank collection was used again.         *)
THEOREM RankRewardEarnedHolds == Spec => []RankRewardEarned
<1>1. SettlementInv => RankRewardEarned
  BY DEF SettlementInv
<1> QED BY <1>1, SettlementInvariant, PTL

(* The claim of a step is that of the hunter it concerns, of an ended      *)
(* season, which has kept what it ended with.                              *)
LEMMA PaysEndOfSeason ==
    ASSUME SettlementInv, [Next]_vars, NEW s \in Season, NEW h \in Claimants,
           rewardClaimed'[s][h], ~rewardClaimed[s][h], ~recounted
    PROVE  seasonScore'[s][h] = Converted(atEnd[s][h].entries, atEnd[s][h].collecting)
<1>1. PICK t \in Season, k \in Claimants : claimSeasonReward(t, k)
  <2>1. ~UNCHANGED rewardClaimed
    OBVIOUS
  <2>2. Collect => UNCHANGED rewardClaimed
    BY DEF Collect, claimVars
  <2>3. \A t \in Season, k \in Claimants, weight \in Weights, rank \in SettledRanks :
            EnterGate(t, k, weight, rank) => UNCHANGED rewardClaimed
    BY DEF EnterGate, Counts!Enter, claimVars
  <2>7. \A c \in RankCollection, k \in Claimants, rank \in SettledRanks :
            burnRankToken(c, k, rank) => UNCHANGED rewardClaimed
    BY DEF burnRankToken, Counts!Burn, claimVars
  <2>4. MineBlock => UNCHANGED rewardClaimed
    BY DEF MineBlock, claimVars
  <2>5. OperatorStep => UNCHANGED rewardClaimed
    BY OperatorStepLeaves DEF claimVars
  <2>6. UNCHANGED vars => UNCHANGED rewardClaimed
    BY DEF vars, claimVars
  <2> QED BY <2>1, <2>2, <2>3, <2>4, <2>5, <2>6, <2>7 DEF Next, OperatorStep
<1>2. t = s /\ k = h
  BY <1>1, ClaimStep
<1>3. seasonScore'[s][h] = getEndedSeasonScore(s, h) /\ isEndedSeasonById(s)
  BY <1>1, <1>2, ClaimStep
<1>4. EndedStays(s, h)
  BY <1>3 DEF SettlementInv, EndedKept
<1> QED BY <1>3, <1>4 DEF EndedStays, getEndedSeasonScore

(* A claim pays the score the season ended with, whatever was transferred, *)
(* raised or cleared between the end of the season and the claim           *)
(* (claimSeasonReward).                                                    *)
THEOREM ClaimPaysEndOfSeasonHolds == Spec => ClaimPaysEndOfSeason
<1>1. SettlementInv /\ [Next]_vars =>
          \A s \in Season, h \in Claimants :
              rewardClaimed'[s][h] /\ ~rewardClaimed[s][h] /\ ~recounted =>
                  seasonScore'[s][h] = Converted(atEnd[s][h].entries, atEnd[s][h].collecting)
  BY PaysEndOfSeason
<1> QED BY <1>1, SettlementInvariant, PTL DEF Spec, ClaimPaysEndOfSeason

-----------------------------------------------------------------------------
(* The two ways to return monsters                                         *)

(* The sets of the monsters of a rank are those of the ranks of monsters.  *)
RanksKept ==
    /\ monsterRankTypes \in [Kind -> [MonsterId -> RankType]]
    /\ monsterOfRankType \in [RankType -> [Kind -> SUBSET MonsterId]]
    /\ \A kind \in Kind, rank \in RankType, id \in MonsterId :
           id \in monsterOfRankType[rank][kind] <=> monsterRankTypes[kind][id] = rank

(* The registry a settlement starts with is filled by the ranks.           *)
LEMMA RanksStart == Init => RanksKept
<1> SUFFICES ASSUME Init PROVE RanksKept
  OBVIOUS
<1>1. /\ monsterRankTypes = StartRanks
      /\ monsterOfRankType = [rank \in RankType |-> [kind \in Kind |->
                                 {id \in MonsterId : StartRanks[kind][id] = rank}]]
  BY DEF Init, CollectingInit
<1> QED BY <1>1, RegistryAssumption DEF RanksKept

(* A change at one place of a table of two keys.                           *)
LEMMA TableUpdate ==
    ASSUME NEW A, NEW B, NEW V, NEW f \in [A -> [B -> V]], NEW a \in A, NEW b \in B, NEW v \in V
    PROVE  /\ [f EXCEPT ![a][b] = v] \in [A -> [B -> V]]
           /\ \A x \in A, y \in B :
                  [f EXCEPT ![a][b] = v][x][y] = IF x = a /\ y = b THEN v ELSE f[x][y]
OBVIOUS

(* A monster that changes its rank changes both records of it.             *)
LEMMA RankChangeKeepsRanks ==
    ASSUME RanksKept, NEW kind \in Kind, NEW id \in MonsterId, NEW rank \in RankType,
           Factory!setMonsterRankType(kind, id, rank)
    PROVE  RanksKept'
<1>1. PICK old \in RankType : old = monsterRankTypes[kind][id]
  BY DEF RanksKept
<1>2. PICK taken : taken = [monsterOfRankType EXCEPT ![old][kind] = @ \ {id}]
  OBVIOUS
<1>3. /\ monsterRankTypes' = [monsterRankTypes EXCEPT ![kind][id] = rank]
      /\ monsterOfRankType' = [taken EXCEPT ![rank][kind] = @ \union {id}]
  BY <1>1, <1>2 DEF Factory!setMonsterRankType
<1>4. /\ monsterOfRankType[old][kind] \ {id} \in SUBSET MonsterId
      /\ monsterOfRankType \in [RankType -> [Kind -> SUBSET MonsterId]]
  BY DEF RanksKept
<1>5. /\ taken \in [RankType -> [Kind -> SUBSET MonsterId]]
      /\ \A r \in RankType, k \in Kind :
             taken[r][k] = IF r = old /\ k = kind THEN monsterOfRankType[old][kind] \ {id}
                           ELSE monsterOfRankType[r][k]
  BY <1>2, <1>4, TableUpdate
<1>6. taken[rank][kind] \union {id} \in SUBSET MonsterId
  BY <1>5
<1>7. /\ monsterOfRankType' \in [RankType -> [Kind -> SUBSET MonsterId]]
      /\ \A r \in RankType, k \in Kind :
             monsterOfRankType'[r][k] = IF r = rank /\ k = kind THEN taken[rank][kind] \union {id}
                                        ELSE taken[r][k]
  BY <1>3, <1>5, <1>6, TableUpdate
<1>8. /\ monsterRankTypes' \in [Kind -> [MonsterId -> RankType]]
      /\ \A k \in Kind, i \in MonsterId :
             monsterRankTypes'[k][i] = IF k = kind /\ i = id THEN rank
                                       ELSE monsterRankTypes[k][i]
  BY <1>3, TableUpdate DEF RanksKept
<1>9. ASSUME NEW k \in Kind, NEW r \in RankType, NEW i \in MonsterId
      PROVE  i \in monsterOfRankType'[r][k] <=> monsterRankTypes'[k][i] = r
  <2>1. i \in monsterOfRankType[r][k] <=> monsterRankTypes[k][i] = r
    BY DEF RanksKept
  <2>2. CASE k # kind
    BY <1>5, <1>7, <1>8, <2>1, <2>2
  <2>3. CASE k = kind /\ i = id
    <3>1. monsterRankTypes'[k][i] = rank
      BY <1>8, <2>3
    <3>2. r = rank => i \in monsterOfRankType'[r][k]
      BY <1>7, <2>3
    <3>3. r # rank => monsterOfRankType'[r][k] = taken[r][k]
      BY <1>7
    <3>4. i \notin taken[r][k]
      BY <1>1, <1>5, <2>1, <2>3
    <3> QED BY <3>1, <3>2, <3>3, <3>4
  <2>4. CASE k = kind /\ i # id
    <3>1. monsterRankTypes'[k][i] = monsterRankTypes[k][i]
      BY <1>8, <2>4
    <3>2. i \in monsterOfRankType'[r][k] <=> i \in taken[r][k]
      BY <1>7, <2>4
    <3>3. i \in taken[r][k] <=> i \in monsterOfRankType[r][k]
      BY <1>5, <2>4
    <3> QED BY <2>1, <3>1, <3>2, <3>3
  <2> QED BY <2>2, <2>3, <2>4
<1> QED BY <1>7, <1>8, <1>9 DEF RanksKept

(* The registry changes when an operator changes a rank, and only then.    *)
LEMMA RegistryChanges ==
    ASSUME [Next]_vars
    PROVE  \/ \E kind \in Kind, id \in MonsterId, rank \in RankType :
                  Factory!setMonsterRankType(kind, id, rank)
           \/ UNCHANGED <<registryVars, ariseVars>>
<1>1. CASE Collect
  <2>1. CASE ScoresChange
    BY <2>1, RegistryAssumption DEF ScoresChange, setMonsterRankType, setMonsterScore
  <2>2. CASE ~ScoresChange
    BY <1>1, <2>2 DEF Collect, CollectingNext, ScoresChange, mintMonsters, transferMonsters,
       ariseMonster, returnMonster, returnMonsterBatch
  <2> QED BY <2>1, <2>2
<1>2. CASE ~Collect
  BY <1>2 DEF Next, EnterGate, Counts!Enter, burnRankToken, Counts!Burn, MineBlock, claimSeasonReward, setScoreRate,
     setScorePerGate, setDungeonGateContract, Recount, collectingVars, vars
<1> QED BY <1>1, <1>2

(* Every step keeps the two records of a rank together.                    *)
LEMMA RanksStep == RanksKept /\ [Next]_vars => RanksKept'
<1> SUFFICES ASSUME RanksKept, [Next]_vars PROVE RanksKept'
  OBVIOUS
<1>1. CASE UNCHANGED <<registryVars, ariseVars>>
  BY <1>1 DEF registryVars, RanksKept
<1>2. CASE \E kind \in Kind, id \in MonsterId, rank \in RankType :
               Factory!setMonsterRankType(kind, id, rank)
  BY <1>2, RankChangeKeepsRanks
<1> QED BY <1>1, <1>2, RegistryChanges

(* Hunters and claims only read the registry: to it, the game is a series  *)
(* of calls of its operators.                                              *)
THEOREM RegistryOnlyRead == Spec => [][Factory!SetMonsterRankType]_(Factory!vars)
<1>1. [Next]_vars => [Factory!SetMonsterRankType]_(Factory!vars)
  <2> SUFFICES ASSUME [Next]_vars PROVE [Factory!SetMonsterRankType]_(Factory!vars)
    OBVIOUS
  <2>1. CASE UNCHANGED <<registryVars, ariseVars>>
    BY <2>1 DEF registryVars, ariseVars, Factory!vars, Factory!registryVars, Factory!ariseVars
  <2>2. CASE \E kind \in Kind, id \in MonsterId, rank \in RankType :
                 Factory!setMonsterRankType(kind, id, rank)
    <3>1. Factory!RankType = RankType
      BY DEF Factory!RankType, Factory!RankE, Factory!RankS, RankType, RankE, RankS
    <3>2. Factory!SetMonsterRankType
      BY <2>2, <3>1 DEF Factory!SetMonsterRankType, Kind, MonsterId
    <3> QED BY <3>2
  <2> QED BY <2>1, <2>2, RegistryChanges
<1> QED BY <1>1, PTL DEF Spec

(* A monster is worth the same stones whichever way it is returned.        *)
ReturnsPayAlike ==
    \A kind \in Kind, rank \in RankType, amounts \in AmountType :
        {id \in MonsterId : amounts[id] > 0} \subseteq monsterOfRankType[rank][kind] =>
            Returned(kind, amounts) = Total(amounts) * essenceStoneWhenReturned[kind][rank]

(* The sum of the stones is the stones of the sum, for monsters of a rank. *)
LEMMA StonesOfRank ==
    ASSUME RanksKept, NEW kind \in Kind, NEW rank \in RankType, NEW amounts \in AmountType,
           {id \in MonsterId : amounts[id] > 0} \subseteq monsterOfRankType[rank][kind]
    PROVE  Returned(kind, amounts) = Total(amounts) * essenceStoneWhenReturned[kind][rank]
<1>1. PICK stones \in Nat : stones = essenceStoneWhenReturned[kind][rank]
  BY StonesAssumption
<1> DEFINE f == [id \in MonsterId |->
                    essenceStoneWhenReturned[kind][monsterRankTypes[kind][id]] * amounts[id]]
<1>2. ASSUME NEW id \in MonsterId PROVE amounts[id] \in Nat /\ f[id] = stones * amounts[id]
  <2>1. amounts[id] \in Nat
    BY DEF AmountType
  <2>2. CASE amounts[id] > 0
    <3>1. monsterRankTypes[kind][id] = rank
      BY <2>2 DEF RanksKept
    <3> QED BY <1>1, <2>1, <3>1
  <2>3. CASE amounts[id] = 0
    <3>1. monsterRankTypes[kind][id] \in RankType
      BY DEF RanksKept
    <3>2. essenceStoneWhenReturned[kind][monsterRankTypes[kind][id]] \in Nat
      BY <3>1, StonesAssumption
    <3>3. essenceStoneWhenReturned[kind][monsterRankTypes[kind][id]] * 0 = 0 /\ stones * 0 = 0
      BY <3>2
    <3> QED BY <2>1, <2>3, <3>3
  <2> QED BY <2>1, <2>2, <2>3
<1>3. Returned(kind, amounts) = SumFunctionOnSet(f, MonsterId)
  BY DEF Returned, SumFunction
<1> HIDE DEF f
<1>4. SumFunctionOnSet(f, MonsterId) = stones * Total(amounts)
  BY <1>2, Intervals, SumTimes DEF Total
<1>5. Total(amounts) \in Nat
  BY <1>2, Intervals, SumNat DEF Total
<1>6. stones * Total(amounts) = Total(amounts) * stones
  BY <1>5
<1> QED BY <1>1, <1>3, <1>4, <1>6

(* returnMonster looks a monster up in the set of its rank and             *)
(* returnMonsterBatch reads its rank (Return.sol:16, 87): however          *)
(* operators change ranks, the two pay the same for the same monsters.     *)
THEOREM ReturnsPayAlikeHolds == Spec => []ReturnsPayAlike
<1>1. RanksKept => ReturnsPayAlike
  BY StonesOfRank DEF ReturnsPayAlike
<1> QED BY <1>1, RanksStart, RanksStep, PTL DEF Spec

=============================================================================
