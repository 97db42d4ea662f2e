------------------------ MODULE MonsterFactory_proof ------------------------
(***************************************************************************)
(* For registries and batches of every size: the two copies of a rank      *)
(* agree, the two copies of a pairing are inverse to each other, and a     *)
(* batch leaves the pairs that no later pair of it displaces.              *)
(***************************************************************************)
EXTENDS MonsterFactory, SumTheorems

(* What the induction needs of the two maps of an arise rank: their type,  *)
(* that they are inverse, and that they pair monsters that exist.          *)
MapsType == [next : [MonsterId -> MonsterId \cup {NoMonster}],
             before : [MonsterId -> MonsterId \cup {NoMonster}]]

MapsInverse(maps) ==
    \A before, next \in MonsterId :
        maps.next[before] = next <=> maps.before[next] = before

MapsExist(rank, maps) ==
    \A before \in MonsterId :
        maps.next[before] # NoMonster =>
            /\ isExistMonsterById(BeforeKind(rank), before)
            /\ isExistMonsterById("shadow", maps.next[before])

MapsOK(rank, maps) ==
    maps \in MapsType /\ MapsInverse(maps) /\ MapsExist(rank, maps)

(* The inductive invariant: an arise pairing stays between existing        *)
(* monsters because a rank set holds only those.                           *)
IInv == TypeOK /\ RankSetsAgree /\ AriseInverse /\ ArisePairsExist

(* Ids count from 1, so the unset value of a mapping is no id.             *)
LEMMA IdFacts == MonsterId \subseteq Nat \ {0} /\ NoMonster \notin MonsterId
  BY MaxMonstersAssumption DEF MonsterId, NoMonster

(* Pairing two monsters keeps the maps typed and inverse to each other.    *)
LEMMA PairInverse ==
    ASSUME NEW maps \in MapsType, MapsInverse(maps),
           NEW before \in MonsterId, NEW next \in MonsterId
    PROVE  /\ Pair(maps, before, next) \in MapsType
           /\ MapsInverse(Pair(maps, before, next))
<1>. DEFINE new == Pair(maps, before, next)
<1>1. new \in MapsType
  BY DEF Pair, MapsType
<1>2. ASSUME NEW b \in MonsterId, NEW n \in MonsterId
      PROVE  new.next[b] = n <=> new.before[n] = b
  <2>1. new.next[b] = IF b = before THEN next
                      ELSE IF b = maps.before[next] THEN NoMonster
                      ELSE maps.next[b]
    BY DEF Pair
  <2>2. new.before[n] = IF n = next THEN before
                        ELSE IF n = maps.next[before] THEN NoMonster
                        ELSE maps.before[n]
    BY DEF Pair
  <2>3. /\ maps.next[b] = n <=> maps.before[n] = b
        /\ maps.next[before] = n <=> maps.before[n] = before
        /\ maps.next[b] = next <=> maps.before[next] = b
    BY DEF MapsInverse
  <2>. QED
    BY <2>1, <2>2, <2>3, IdFacts
<1>. QED
  BY <1>1, <1>2 DEF MapsInverse

(* A pair an operator may pass names two monsters that exist.              *)
LEMMA ValidPairExists ==
    ASSUME TypeOK, RankSetsAgree, NEW rank \in ShadowRank,
           NEW before \in MonsterId, NEW next \in MonsterId,
           ValidArisePair(rank, before, next)
    PROVE  /\ isExistMonsterById(BeforeKind(rank), before)
           /\ isExistMonsterById("shadow", next)
<1>1. BeforeRank(rank) \in RankType /\ BeforeKind(rank) \in Kind /\ rank \in RankType
  BY DEF BeforeRank, BeforeKind, Kind, RankType, ShadowRank,
         RankE, RankB, RankS
<1>2. "shadow" \in Kind
  BY DEF Kind
<1>. QED
  BY <1>1, <1>2 DEF RankSetsAgree, ValidArisePair, AriseCandidates, isValidMonster

(* Pairing two monsters that exist keeps the maps of a rank in order.      *)
LEMMA PairOK ==
    ASSUME TypeOK, RankSetsAgree, NEW rank \in ShadowRank,
           NEW maps, MapsOK(rank, maps),
           NEW before \in MonsterId, NEW next \in MonsterId,
           ValidArisePair(rank, before, next)
    PROVE  MapsOK(rank, Pair(maps, before, next))
<1>. DEFINE new == Pair(maps, before, next)
<1>1. new \in MapsType /\ MapsInverse(new)
  BY PairInverse DEF MapsOK
<1>2. ASSUME NEW b \in MonsterId, new.next[b] # NoMonster
      PROVE  /\ isExistMonsterById(BeforeKind(rank), b)
             /\ isExistMonsterById("shadow", new.next[b])
  <2>1. \/ b = before /\ new.next[b] = next
        \/ new.next[b] = maps.next[b]
    BY <1>2 DEF Pair
  <2>2. CASE b = before /\ new.next[b] = next
    BY <2>2, ValidPairExists
  <2>3. CASE new.next[b] = maps.next[b]
    BY <2>3, <1>2 DEF MapsOK, MapsExist
  <2>. QED
    BY <2>1, <2>2, <2>3
<1>. QED
  BY <1>1, <1>2 DEF MapsOK, MapsExist

(* By induction on the loop: the maps are in order after every turn, for a *)
(* batch of any length.  A first turn that broke them would contradict     *)
(* PairOK.                                                                 *)
LEMMA BatchOK ==
    ASSUME TypeOK, RankSetsAgree, NEW rank \in ShadowRank, NEW len \in Nat,
           NEW befores \in [1..len -> MonsterId],
           NEW nexts \in [1..len -> MonsterId],
           NEW after, MapsOK(rank, after[0]),
           \A i \in 1..len :
               /\ ValidArisePair(rank, befores[i], nexts[i])
               /\ after[i] = Pair(after[i - 1], befores[i], nexts[i])
    PROVE  MapsOK(rank, after[len])
<1>. DEFINE Broken == {i \in 0..len : ~ MapsOK(rank, after[i])}
<1>0. len \in 0..len /\ Broken \subseteq Nat
  OBVIOUS
<1>. SUFFICES ASSUME Broken # {}
              PROVE  FALSE
  BY <1>0, Zenon
<1>1. PICK m \in Broken : \A k \in Broken : m <= k
  BY <1>0, LeastNat
<1>2. m \in 1..len /\ m - 1 \in 0..len /\ ~ (m <= m - 1)
  BY <1>1
<1>3. MapsOK(rank, after[m - 1])
  BY <1>1, <1>2
<1>4. befores[m] \in MonsterId /\ nexts[m] \in MonsterId
  BY <1>2
<1>5. MapsOK(rank, Pair(after[m - 1], befores[m], nexts[m]))
  BY <1>2, <1>3, <1>4, PairOK
<1>. QED
  BY <1>1, <1>2, <1>5

----------------------------------------------------------------------------
(* What a turn of the loop of a batch leaves behind, given the maps after  *)
(* the turns before it.                                                    *)
Turn(maps, befores, nexts, after, i) ==
    IF i = 0 THEN maps ELSE Pair(after[i - 1], befores[i], nexts[i])

TurnsUpTo(maps, befores, nexts, n, after) ==
    \A i \in 0..n : after[i] = Turn(maps, befores, nexts, after, i)

(* There is a function that gives the maps after each of n turns.          *)
LEMMA TurnsExist ==
    ASSUME NEW maps, NEW befores, NEW nexts, NEW n \in Nat
    PROVE  \E after : TurnsUpTo(maps, befores, nexts, n, after)
<1> DEFINE Bad == {k \in Nat : ~ \E after : TurnsUpTo(maps, befores, nexts, k, after)}
<1>1. SUFFICES ASSUME Bad # {} PROVE FALSE
  OBVIOUS
<1>2. PICK m \in Bad : \A k \in Bad : m <= k
  BY <1>1, LeastNat
<1>3. CASE m = 0
  <2> DEFINE start == [i \in 0..0 |-> maps]
  <2>1. TurnsUpTo(maps, befores, nexts, 0, start)
    BY DEF TurnsUpTo, Turn
  <2> QED BY <1>2, <1>3, <2>1
<1>4. CASE m # 0
  <2>1. m \in Nat /\ m - 1 \in Nat /\ m - 1 \notin Bad
    BY <1>2, <1>4
  <2>2. PICK g : TurnsUpTo(maps, befores, nexts, m - 1, g)
    BY <2>1
  <2> DEFINE h == [i \in 0..m |-> Turn(maps, befores, nexts, g, i)]
  <2>3. ASSUME NEW i \in 0..m PROVE h[i] = Turn(maps, befores, nexts, h, i)
    <3>1. CASE i = 0
      BY <3>1 DEF Turn
    <3>2. CASE i # 0
      <4>1. i - 1 \in 0..(m - 1) /\ i - 1 \in 0..m
        BY <2>1, <3>2
      <4>2. g[i - 1] = Turn(maps, befores, nexts, g, i - 1)
        BY <2>2, <4>1 DEF TurnsUpTo
      <4>3. h[i - 1] = g[i - 1]
        BY <4>1, <4>2
      <4> QED BY <3>2, <4>3 DEF Turn
    <3> QED BY <3>1, <3>2
  <2>4. TurnsUpTo(maps, befores, nexts, m, h)
    BY <2>3 DEF TurnsUpTo
  <2> QED BY <1>2, <2>4
<1> QED BY <1>3, <1>4

(* The turns of a batch satisfy the equations they are defined by.         *)
LEMMA PairEachTurns ==
    ASSUME NEW maps, NEW befores, NEW nexts, Len(befores) \in Nat
    PROVE  LET after == PairEach(maps, befores, nexts)
           IN  /\ after[0] = maps
               /\ \A i \in 1..Len(befores) :
                      after[i] = Pair(after[i - 1], befores[i], nexts[i])
<1> DEFINE Rec(after) ==
      after = [i \in 0..Len(befores) |-> Turn(maps, befores, nexts, after, i)]
    t == CHOOSE after : Rec(after)
<1>1. PICK g : TurnsUpTo(maps, befores, nexts, Len(befores), g)
  BY TurnsExist
<1> DEFINE h == [i \in 0..Len(befores) |-> g[i]]
<1>2. ASSUME NEW i \in 0..Len(befores)
      PROVE  Turn(maps, befores, nexts, h, i) = g[i]
  <2>1. g[i] = Turn(maps, befores, nexts, g, i)
    BY <1>1 DEF TurnsUpTo
  <2>2. i # 0 => h[i - 1] = g[i - 1]
    OBVIOUS
  <2> QED BY <2>1, <2>2 DEF Turn
<1>3. Rec(h)
  BY <1>2
<1>4. t = [i \in 0..Len(befores) |-> Turn(maps, befores, nexts, t, i)]
  BY <1>3
<1>5. PairEach(maps, befores, nexts) = t
  BY Zenon DEF PairEach, Turn
<1> HIDE DEF t
<1>6. \A i \in 0..Len(befores) : t[i] = Turn(maps, befores, nexts, t, i)
  BY <1>4
<1>7. t[0] = maps
  BY <1>6 DEF Turn
<1>8. \A i \in 1..Len(befores) : t[i] = Pair(t[i - 1], befores[i], nexts[i])
  BY <1>6 DEF Turn
<1> QED BY <1>5, <1>7, <1>8

(* A batch is a sequence of monsters, given as a function.                 *)
LEMMA BatchFacts ==
    ASSUME NEW b \in Batch
    PROVE  Len(b) \in Nat /\ b \in [1..Len(b) -> MonsterId]
<1>1. PICK n \in 0..MaxBatch : b \in [1..n -> MonsterId]
  BY DEF Batch
<1>2. n \in Nat /\ b \in Seq(MonsterId) /\ DOMAIN b = 1..n
  BY <1>1, MaxBatchAssumption
<1>. QED
  BY <1>1, <1>2

----------------------------------------------------------------------------
(* Pairing two monsters adds their pair and removes the pairs it conflicts *)
(* with, and no other: the two maps being inverse, what loses its partner  *)
(* is found from either side.                                              *)
LEMMA PairLinks ==
    ASSUME NEW maps \in MapsType, MapsInverse(maps),
           NEW before \in MonsterId, NEW next \in MonsterId,
           NEW link \in MonsterId \X MonsterId
    PROVE  link \in Links(Pair(maps, before, next))
             <=> \/ link = <<before, next>>
                 \/ link \in Links(maps) /\ ~ Conflict(link, <<before, next>>)
<1>1. PICK b \in MonsterId, n \in MonsterId : link = <<b, n>>
  OBVIOUS
<1>2. Pair(maps, before, next).next[b] =
          IF b = before THEN next
          ELSE IF b = maps.before[next] THEN NoMonster
          ELSE maps.next[b]
  BY DEF Pair
<1>3. maps.next[b] = next <=> maps.before[next] = b
  BY DEF MapsInverse
<1>4. /\ link \in Links(Pair(maps, before, next)) <=> Pair(maps, before, next).next[b] = n
      /\ link \in Links(maps) <=> maps.next[b] = n
      /\ Conflict(link, <<before, next>>) <=> b = before \/ n = next
  BY <1>1 DEF Links, Conflict
<1>5. link = <<before, next>> <=> b = before /\ n = next
  BY <1>1
<1> HIDE DEF Pair
<1> QED BY <1>2, <1>3, <1>4, <1>5, IdFacts

(* What the loop leaves after its first i turns: a pair no turn up to i    *)
(* conflicts with, or one of a turn no later turn up to i conflicts with.  *)
Survives(link, befores, nexts, k, i) ==
    \A j \in (k + 1)..i : ~ Conflict(link, <<befores[j], nexts[j]>>)
Left(link, links, befores, nexts, i) ==
    \/ link \in links /\ Survives(link, befores, nexts, 0, i)
    \/ \E k \in 1..i : /\ link = <<befores[k], nexts[k]>>
                       /\ Survives(link, befores, nexts, k, i)

(* One more turn leaves its own pair and what does not conflict with it.   *)
LEMMA LeftStep ==
    ASSUME NEW link, NEW links, NEW befores, NEW nexts, NEW i \in Nat, i > 0
    PROVE  Left(link, links, befores, nexts, i)
             <=> \/ link = <<befores[i], nexts[i]>>
                 \/ /\ Left(link, links, befores, nexts, i - 1)
                    /\ ~ Conflict(link, <<befores[i], nexts[i]>>)
<1> DEFINE hit(j) == Conflict(link, <<befores[j], nexts[j]>>)
           is(j) == link = <<befores[j], nexts[j]>>
<1>1. ASSUME NEW k \in 0..(i - 1)
      PROVE  Survives(link, befores, nexts, k, i)
               <=> Survives(link, befores, nexts, k, i - 1) /\ ~ hit(i)
  <2>1. (k + 1)..i = ((k + 1)..(i - 1)) \union {i}
    OBVIOUS
  <2> QED BY <2>1 DEF Survives
<1>2. Survives(link, befores, nexts, i, i)
  BY DEF Survives
<1>3. 1..i = (1..(i - 1)) \union {i} /\ 0 \in 0..(i - 1)
  OBVIOUS
<1>4. \A k \in 1..(i - 1) : k \in 0..(i - 1)
  OBVIOUS
<1>5. Left(link, links, befores, nexts, i)
        <=> \/ link \in links /\ Survives(link, befores, nexts, 0, i)
            \/ \E k \in 1..(i - 1) : is(k) /\ Survives(link, befores, nexts, k, i)
            \/ is(i)
  BY <1>2, <1>3 DEF Left
<1>6. Left(link, links, befores, nexts, i - 1)
        <=> \/ link \in links /\ Survives(link, befores, nexts, 0, i - 1)
            \/ \E k \in 1..(i - 1) : is(k) /\ Survives(link, befores, nexts, k, i - 1)
  BY DEF Left
<1> HIDE DEF hit, is
<1>7. Left(link, links, befores, nexts, i)
        <=> is(i) \/ (Left(link, links, befores, nexts, i - 1) /\ ~ hit(i))
  BY <1>1, <1>3, <1>4, <1>5, <1>6, Zenon
<1> QED BY <1>7 DEF hit, is

(* By induction on the loop: after every turn the maps hold the pairs left *)
(* by the turns so far.                                                    *)
LEMMA BatchLinks ==
    ASSUME NEW len \in Nat,
           NEW befores \in [1..len -> MonsterId],
           NEW nexts \in [1..len -> MonsterId],
           NEW after, after[0] \in MapsType, MapsInverse(after[0]),
           \A i \in 1..len : after[i] = Pair(after[i - 1], befores[i], nexts[i]),
           NEW link \in MonsterId \X MonsterId
    PROVE  link \in Links(after[len])
             <=> Left(link, Links(after[0]), befores, nexts, len)
<1>. DEFINE Good(i) == /\ after[i] \in MapsType /\ MapsInverse(after[i])
                       /\ link \in Links(after[i])
                            <=> Left(link, Links(after[0]), befores, nexts, i)
            Broken == {i \in 0..len : ~ Good(i)}
<1>0. len \in 0..len /\ Broken \subseteq Nat
  OBVIOUS
<1>. SUFFICES ASSUME Broken # {}
              PROVE  FALSE
  BY <1>0, Zenon
<1>1. PICK m \in Broken : \A k \in Broken : m <= k
  BY <1>0, LeastNat
<1>2. Good(0)
  BY DEF Left, Survives
<1>3. m \in 1..len /\ m \in Nat /\ m > 0 /\ m - 1 \in 0..len /\ ~ (m <= m - 1)
  BY <1>1, <1>2
<1>4. Good(m - 1)
  BY <1>1, <1>3
<1>5. /\ befores[m] \in MonsterId /\ nexts[m] \in MonsterId
      /\ after[m] = Pair(after[m - 1], befores[m], nexts[m])
  BY <1>3
<1>6. after[m] \in MapsType /\ MapsInverse(after[m])
  BY <1>4, <1>5, PairInverse
<1>7. link \in Links(after[m])
        <=> \/ link = <<befores[m], nexts[m]>>
            \/ /\ link \in Links(after[m - 1])
               /\ ~ Conflict(link, <<befores[m], nexts[m]>>)
  BY <1>4, <1>5, PairLinks
<1>8. Left(link, Links(after[0]), befores, nexts, m)
        <=> \/ link = <<befores[m], nexts[m]>>
            \/ /\ Left(link, Links(after[0]), befores, nexts, m - 1)
               /\ ~ Conflict(link, <<befores[m], nexts[m]>>)
  BY <1>3, LeftStep
<1>9. Good(m)
  BY <1>4, <1>6, <1>7, <1>8, Zenon
<1>. QED
  BY <1>1, <1>9

(* In every state the maps of each arise rank are in order, and conversely *)
(* an invariant state is one whose maps are.                               *)
LEMMA MapsOfState ==
    ASSUME TypeOK, NEW rank \in ShadowRank
    PROVE  /\ AriseMaps(rank) \in MapsType
           /\ AriseInverse /\ ArisePairsExist => MapsOK(rank, AriseMaps(rank))
<1>1. AriseMaps(rank) \in MapsType
  BY DEF TypeOK, AriseMaps, MapsType
<1>2. AriseInverse => MapsInverse(AriseMaps(rank))
  BY DEF AriseInverse, MapsInverse, AriseMaps
<1>3. ArisePairsExist => MapsExist(rank, AriseMaps(rank))
  BY DEF ArisePairsExist, MapsExist, AriseMaps
<1>. QED
  BY <1>1, <1>2, <1>3 DEF MapsOK

(* A transaction that replaces the maps of one arise rank by maps in order *)
(* and leaves the registry alone keeps the invariant.                      *)
LEMMA SetMapsInv ==
    ASSUME IInv, NEW rank \in ShadowRank, NEW maps, MapsOK(rank, maps),
           SetAriseMaps(rank, maps), UNCHANGED registryVars
    PROVE  IInv'
<1>. USE DEF IInv, registryVars
<1>1. /\ ariseNextMonsterIds' = [ariseNextMonsterIds EXCEPT ![rank] = maps.next]
      /\ ariseBeforeMonsterIds' =
             [ariseBeforeMonsterIds EXCEPT ![rank] = maps.before]
      /\ maps.next \in [MonsterId -> MonsterId \cup {NoMonster}]
      /\ maps.before \in [MonsterId -> MonsterId \cup {NoMonster}]
  BY DEF SetAriseMaps, MapsOK, MapsType
<1>2. TypeOK'
  BY <1>1 DEF TypeOK
<1>3. RankSetsAgree'
  BY DEF RankSetsAgree, isExistMonsterById
<1>4. AriseInverse'
  BY <1>1 DEF AriseInverse, TypeOK, MapsOK, MapsInverse
<1>5. ArisePairsExist'
  BY <1>1 DEF ArisePairsExist, TypeOK, MapsOK, MapsExist, isExistMonsterById
<1>. QED
  BY <1>2, <1>3, <1>4, <1>5

(* What is left after the last turn is what the reference says.            *)
LEMMA LeftIsLastWins ==
    ASSUME NEW links, NEW befores, NEW nexts, NEW link, Len(befores) \in Nat
    PROVE  link \in LastWins(links, befores, nexts)
             <=> Left(link, links, befores, nexts, Len(befores))
BY DEF LastWins, Left, Survives

(* In an invariant state every batch leaves what the reference says.       *)
LEMMA BatchLastWinsInState == IInv => BatchLastWins
<1>. SUFFICES ASSUME IInv, NEW rank \in ShadowRank,
                     NEW befores \in Batch, NEW nexts \in Batch,
                     Len(befores) = Len(nexts)
              PROVE  LET maps == AriseMaps(rank)
                     IN  Links(PairEach(maps, befores, nexts)[Len(befores)])
                             = LastWins(Links(maps), befores, nexts)
  BY DEF BatchLastWins
<1>. DEFINE maps == AriseMaps(rank)
            after == PairEach(maps, befores, nexts)
            len == Len(befores)
<1>1. /\ len \in Nat
      /\ befores \in [1..len -> MonsterId]
      /\ nexts \in [1..len -> MonsterId]
  BY BatchFacts
<1>2. /\ after[0] = maps
      /\ \A i \in 1..len : after[i] = Pair(after[i - 1], befores[i], nexts[i])
  BY <1>1, PairEachTurns
<1>3. maps \in MapsType /\ MapsInverse(maps)
  BY MapsOfState DEF IInv, MapsOK
<1>. HIDE DEF maps, after, len
<1>4. ASSUME NEW link \in MonsterId \X MonsterId
      PROVE  link \in Links(after[len]) <=> Left(link, Links(maps), befores, nexts, len)
  BY <1>1, <1>2, <1>3, BatchLinks
<1>5. ASSUME NEW link \in MonsterId \X MonsterId
      PROVE  link \in Links(after[len]) <=> link \in LastWins(Links(maps), befores, nexts)
  BY <1>1, <1>4, LeftIsLastWins DEF len
<1>6. Links(after[len]) \subseteq MonsterId \X MonsterId
  BY DEF Links
<1>7. LastWins(Links(maps), befores, nexts) \subseteq MonsterId \X MonsterId
  <2>1. \A i \in 1..len : <<befores[i], nexts[i]>> \in MonsterId \X MonsterId
    BY <1>1
  <2>2. Links(maps) \subseteq MonsterId \X MonsterId
    BY DEF Links
  <2> QED BY <2>1, <2>2 DEF LastWins, len
<1>8. Links(after[len]) = LastWins(Links(maps), befores, nexts)
  BY <1>5, <1>6, <1>7, Zenon
<1>. QED
  BY <1>8 DEF maps, after, len

(* A batch that names no monster and no shadow twice leaves each of its    *)
(* pairs, and no other arise rank changes.                                 *)
LEMMA DistinctBatchPairs ==
    ASSUME IInv, NEW rank \in RankType, NEW befores \in Batch, NEW nexts \in Batch,
           setAriseMonsterBatch(rank, befores, nexts),
           \A i, j \in 1..Len(befores) :
               i # j => befores[i] # befores[j] /\ nexts[i] # nexts[j]
    PROVE  /\ \A i \in 1..Len(befores) : ariseNextMonsterIds'[rank][befores[i]] = nexts[i]
           /\ \A other \in ShadowRank :
                  other # rank => ariseNextMonsterIds'[other] = ariseNextMonsterIds[other]
<1> DEFINE len == Len(befores)
           left == PairEach(AriseMaps(rank), befores, nexts)[len]
<1>1. /\ rank \in ShadowRank /\ len = Len(nexts)
      /\ \A i \in 1..len : ValidArisePair(rank, befores[i], nexts[i])
      /\ ariseNextMonsterIds' = [ariseNextMonsterIds EXCEPT ![rank] = left.next]
  BY DEF setAriseMonsterBatch, SetAriseMaps
<1>2. ariseNextMonsterIds'[rank] = left.next
      /\ \A other \in ShadowRank :
             other # rank => ariseNextMonsterIds'[other] = ariseNextMonsterIds[other]
  BY <1>1 DEF IInv, TypeOK
<1>3. Links(left) = LastWins(Links(AriseMaps(rank)), befores, nexts)
  BY <1>1, BatchLastWinsInState DEF BatchLastWins
<1>4. len \in Nat
  BY BatchFacts
<1> HIDE DEF len, left
<1>5. ASSUME NEW i \in 1..len PROVE left.next[befores[i]] = nexts[i]
  <2>1. \A j \in (i + 1)..len : ~ Conflict(<<befores[i], nexts[i]>>, <<befores[j], nexts[j]>>)
    BY <1>4 DEF Conflict, len
  <2>2. <<befores[i], nexts[i]>> \in LastWins(Links(AriseMaps(rank)), befores, nexts)
    BY <2>1 DEF LastWins, len
  <2>3. <<befores[i], nexts[i]>> \in Links(left)
    BY <1>3, <2>2
  <2> QED BY <2>3 DEF Links
<1> QED BY <1>2, <1>5 DEF len

(* The empty registry satisfies the invariant.                             *)
LEMMA InitInv == Init => IInv
<1>. SUFFICES ASSUME Init
              PROVE  IInv
  OBVIOUS
<1>1. TypeOK
  BY MaxMonstersAssumption DEF Init, TypeOK, RankType, RankE, RankS
<1>2. RankSetsAgree
  BY IdFacts DEF Init, RankSetsAgree, isExistMonsterById, MonsterId
<1>3. AriseInverse
  BY IdFacts DEF Init, AriseInverse
<1>4. ArisePairsExist
  BY DEF Init, ArisePairsExist, Kind
<1>. QED
  BY <1>1, <1>2, <1>3, <1>4 DEF IInv

(* addMonster gives an id that no set and no pairing holds yet.            *)
LEMMA AddMonsterInv ==
    ASSUME IInv, NEW rank \in RankType, NEW kind \in Kind, addMonster(rank, kind)
    PROVE  IInv'
<1>. USE DEF IInv, ariseVars
<1>. PICK new \in MonsterId : new = monsterIds[kind] + 1
  BY MaxMonstersAssumption DEF addMonster, TypeOK, MonsterId
<1>1. /\ monsterIds' = [monsterIds EXCEPT ![kind] = new]
      /\ monsterOfRankType' =
             [monsterOfRankType EXCEPT ![rank][kind] = @ \cup {new}]
      /\ monsterRankTypes' = [monsterRankTypes EXCEPT ![kind][new] = rank]
      /\ UNCHANGED ariseVars
      /\ ValidRankOfKind(rank, kind)
  BY DEF addMonster
<1>2. TypeOK'
  BY <1>1 DEF TypeOK, MonsterId
<1>3. RankSetsAgree'
  <2>. SUFFICES ASSUME NEW r \in RankType, NEW k \in Kind, NEW id \in MonsterId
                PROVE  (id \in monsterOfRankType[r][k]
                          <=> isExistMonsterById(k, id)
                                /\ monsterRankTypes[k][id] = r)'
    BY DEF RankSetsAgree
  <2>1. (id \in monsterOfRankType[r][k])
            <=> isExistMonsterById(k, id) /\ monsterRankTypes[k][id] = r
    BY DEF RankSetsAgree
  <2>2. CASE k = kind /\ id = new
    <3>1. monsterIds'[kind] = new /\ monsterRankTypes'[kind][new] = rank
      BY <1>1 DEF TypeOK
    <3>2. new \in monsterOfRankType'[r][kind]
              <=> r = rank \/ new \in monsterOfRankType[r][kind]
      BY <1>1 DEF TypeOK
    <3>3. monsterIds[kind] \in Nat
      BY DEF TypeOK
    <3>4. ~ isExistMonsterById(kind, new) /\ isExistMonsterById(kind, new)'
      BY <3>1, <3>3 DEF isExistMonsterById
    <3>. QED
      BY <2>1, <2>2, <3>1, <3>2, <3>4
  <2>3. CASE ~ (k = kind /\ id = new)
    <3>1. /\ id \in monsterOfRankType'[r][k] <=> id \in monsterOfRankType[r][k]
          /\ monsterRankTypes'[k][id] = monsterRankTypes[k][id]
      BY <1>1, <2>3 DEF TypeOK
    <3>2. isExistMonsterById(k, id)' <=> isExistMonsterById(k, id)
      BY <1>1, <2>3, MaxMonstersAssumption
         DEF TypeOK, isExistMonsterById, MonsterId
    <3>. QED
      BY <3>1, <3>2, <2>1
  <2>. QED
    BY <2>2, <2>3
<1>4. AriseInverse'
  BY <1>1 DEF AriseInverse
<1>5. \A k \in Kind, id \in MonsterId :
          isExistMonsterById(k, id) => isExistMonsterById(k, id)'
  BY <1>1, MaxMonstersAssumption DEF TypeOK, isExistMonsterById, MonsterId
<1>6. ArisePairsExist'
  <2>1. \A r \in RankType \ ShadowRank : monsterOfRankType'[r]["shadow"] = {}
    BY <1>1 DEF ArisePairsExist, TypeOK, ValidRankOfKind, Kind
  <2>2. \A r \in ShadowRank : BeforeKind(r) \in Kind /\ "shadow" \in Kind
    BY DEF BeforeKind, Kind
  <2>3. \A r \in ShadowRank, id \in MonsterId :
            ariseNextMonsterIds[r][id] # NoMonster =>
                ariseNextMonsterIds[r][id] \in MonsterId
    BY DEF TypeOK
  <2>. QED
    BY <1>1, <1>5, <2>1, <2>2, <2>3 DEF ArisePairsExist
<1>. QED
  BY <1>2, <1>3, <1>4, <1>6

(* setMonsterRankType moves the monster from one set to the other.         *)
LEMMA SetMonsterRankTypeInv ==
    ASSUME IInv, NEW kind \in Kind, NEW i \in MonsterId, NEW rank \in RankType,
           setMonsterRankType(kind, i, rank)
    PROVE  IInv'
<1>. USE DEF IInv, ariseVars
<1>. PICK old \in RankType : old = monsterRankTypes[kind][i]
  BY DEF TypeOK
<1>1. /\ isExistMonsterById(kind, i)
      /\ monsterOfRankType' =
             [[monsterOfRankType EXCEPT ![old][kind] = @ \ {i}]
                                 EXCEPT ![rank][kind] = @ \cup {i}]
      /\ monsterRankTypes' = [monsterRankTypes EXCEPT ![kind][i] = rank]
      /\ UNCHANGED <<monsterIds, ariseVars>>
      /\ ValidRankOfKind(rank, kind)
  BY DEF setMonsterRankType
<1>2. TypeOK'
  <2>. DEFINE mid == [monsterOfRankType EXCEPT ![old][kind] = @ \ {i}]
              Sets == [RankType -> [Kind -> SUBSET MonsterId]]
  <2>1. mid \in Sets
    BY DEF TypeOK
  <2>2. [mid EXCEPT ![rank][kind] = @ \cup {i}] \in Sets
    <3>. HIDE DEF mid
    <3>. QED
      BY <2>1
  <2>. QED
    BY <1>1, <2>2 DEF TypeOK
<1>3. \A k \in Kind, id \in MonsterId :
          isExistMonsterById(k, id)' <=> isExistMonsterById(k, id)
  BY <1>1 DEF isExistMonsterById
<1>4. \A r \in RankType, k \in Kind, id \in MonsterId :
          id \in monsterOfRankType'[r][k]
              <=> IF k = kind /\ id = i THEN r = rank
                  ELSE id \in monsterOfRankType[r][k]
  <2>. SUFFICES ASSUME NEW r \in RankType, NEW k \in Kind, NEW id \in MonsterId
                PROVE  id \in monsterOfRankType'[r][k]
                          <=> IF k = kind /\ id = i THEN r = rank
                              ELSE id \in monsterOfRankType[r][k]
    OBVIOUS
  <2>1. id \in monsterOfRankType[r][k]
            <=> isExistMonsterById(k, id) /\ monsterRankTypes[k][id] = r
    BY DEF RankSetsAgree
  <2>2. monsterOfRankType'[r][k] =
            LET s == IF r = old /\ k = kind THEN monsterOfRankType[r][k] \ {i}
                     ELSE monsterOfRankType[r][k]
            IN  IF r = rank /\ k = kind THEN s \cup {i} ELSE s
    BY <1>1 DEF TypeOK
  <2>. QED
    BY <2>1, <2>2
<1>5. RankSetsAgree'
  <2>1. \A k \in Kind, id \in MonsterId :
            monsterRankTypes'[k][id] =
                IF k = kind /\ id = i THEN rank ELSE monsterRankTypes[k][id]
    BY <1>1 DEF TypeOK
  <2>. SUFFICES ASSUME NEW r \in RankType, NEW k \in Kind, NEW id \in MonsterId
                PROVE  id \in monsterOfRankType'[r][k]
                          <=> isExistMonsterById(k, id)'
                                /\ monsterRankTypes'[k][id] = r
    BY Zenon DEF RankSetsAgree
  <2>2. id \in monsterOfRankType[r][k]
            <=> isExistMonsterById(k, id) /\ monsterRankTypes[k][id] = r
    BY DEF RankSetsAgree
  <2>3. isExistMonsterById(kind, i)
    BY <1>1
  <2>4. /\ id \in monsterOfRankType'[r][k]
                <=> IF k = kind /\ id = i THEN r = rank
                    ELSE id \in monsterOfRankType[r][k]
        /\ isExistMonsterById(k, id)' <=> isExistMonsterById(k, id)
        /\ monsterRankTypes'[k][id] =
                IF k = kind /\ id = i THEN rank ELSE monsterRankTypes[k][id]
    BY <1>3, <1>4, <2>1, Zenon
  <2>5. CASE k = kind /\ id = i
    BY <2>3, <2>4, <2>5, Zenon
  <2>6. CASE ~ (k = kind /\ id = i)
    BY <2>2, <2>4, <2>6, Zenon
  <2>. QED
    BY <2>5, <2>6
<1>6. AriseInverse'
  BY <1>1 DEF AriseInverse
<1>7. ArisePairsExist'
  <2>1. \A r \in RankType \ ShadowRank : monsterOfRankType'[r]["shadow"] = {}
    <3>1. ASSUME NEW r \in RankType \ ShadowRank, NEW id \in MonsterId
          PROVE  id \notin monsterOfRankType'[r]["shadow"]
      BY <1>1, <1>4 DEF ArisePairsExist, ValidRankOfKind, Kind
    <3>. QED
      BY <3>1, <1>2 DEF TypeOK, Kind
  <2>2. \A r \in ShadowRank : BeforeKind(r) \in Kind /\ "shadow" \in Kind
    BY DEF BeforeKind, Kind
  <2>3. \A r \in ShadowRank, id \in MonsterId :
            ariseNextMonsterIds[r][id] # NoMonster =>
                ariseNextMonsterIds[r][id] \in MonsterId
    BY DEF TypeOK
  <2>. QED
    BY <1>1, <1>3, <2>1, <2>2, <2>3 DEF ArisePairsExist
<1>. QED
  BY <1>2, <1>5, <1>6, <1>7

(* setAriseMonster changes the two maps of one rank only.                  *)
LEMMA SetAriseMonsterInv ==
    ASSUME IInv, NEW rank \in RankType,
           NEW before \in MonsterId, NEW next \in MonsterId,
           setAriseMonster(rank, before, next)
    PROVE  IInv'
<1>1. rank \in ShadowRank
  BY DEF setAriseMonster
<1>2. MapsOK(rank, AriseMaps(rank))
  BY <1>1, MapsOfState DEF IInv
<1>3. MapsOK(rank, Pair(AriseMaps(rank), before, next))
  BY <1>1, <1>2, PairOK DEF IInv, setAriseMonster
<1>. QED
  BY <1>1, <1>3, SetMapsInv DEF setAriseMonster

(* setAriseMonsterBatch does so once per pair.                             *)
LEMMA SetAriseMonsterBatchInv ==
    ASSUME IInv, NEW rank \in RankType,
           NEW befores \in Batch, NEW nexts \in Batch,
           setAriseMonsterBatch(rank, befores, nexts)
    PROVE  IInv'
<1>. DEFINE after == PairEach(AriseMaps(rank), befores, nexts)
            len == Len(befores)
<1>1. /\ rank \in ShadowRank
      /\ \A i \in 1..len : ValidArisePair(rank, befores[i], nexts[i])
      /\ SetAriseMaps(rank, after[len])
      /\ UNCHANGED registryVars
      /\ len = Len(nexts)
  BY DEF setAriseMonsterBatch
<1>2. /\ len \in Nat
      /\ befores \in [1..len -> MonsterId]
      /\ nexts \in [1..len -> MonsterId]
  BY <1>1, BatchFacts
<1>3. /\ after[0] = AriseMaps(rank)
      /\ \A i \in 1..len : after[i] = Pair(after[i - 1], befores[i], nexts[i])
  BY <1>2, PairEachTurns
<1>4. MapsOK(rank, after[0])
  BY <1>1, <1>3, MapsOfState DEF IInv
<1>. HIDE DEF after, len
<1>5. MapsOK(rank, after[len])
  BY <1>1, <1>2, <1>3, <1>4, BatchOK DEF IInv
<1>. QED
  BY <1>1, <1>5, SetMapsInv

(* Every transaction of an operator keeps the invariant.                   *)
LEMMA NextInv == IInv /\ [Next]_vars => IInv'
<1>. SUFFICES ASSUME IInv, [Next]_vars
              PROVE  IInv'
  OBVIOUS
<1>1. CASE AddMonster
  BY <1>1, AddMonsterInv DEF AddMonster
<1>2. CASE SetMonsterRankType
  BY <1>2, SetMonsterRankTypeInv DEF SetMonsterRankType
<1>3. CASE SetAriseMonster
  BY <1>3, SetAriseMonsterInv DEF SetAriseMonster
<1>4. CASE SetAriseMonsterBatch
  BY <1>4, SetAriseMonsterBatchInv DEF SetAriseMonsterBatch
<1>5. CASE UNCHANGED vars
  BY <1>5 DEF vars, registryVars, ariseVars, IInv, TypeOK, RankSetsAgree,
              AriseInverse, ArisePairsExist, isExistMonsterById
<1>. QED
  BY <1>1, <1>2, <1>3, <1>4, <1>5 DEF Next

(* The invariant holds however the operators fill the registry.            *)
THEOREM InvariantHolds == Spec => []IInv
  BY InitInv, NextInv, PTL DEF Spec

(* The variables keep their types; in particular ids count from 1.         *)
THEOREM TypeCorrect == Spec => []TypeOK
  BY InvariantHolds, PTL DEF IInv

(* For any number of monsters and any batches: the set of a rank holds     *)
(* exactly the monsters that have the rank (addMonster and                 *)
(* setMonsterRankType keep both copies in step).                           *)
THEOREM RankSetsAgreeHolds == Spec => []RankSetsAgree
  BY InvariantHolds, PTL DEF IInv

(* For any number of monsters and any batches: the two maps of an arise    *)
(* rank are inverse to each other (setAriseMonster, setAriseMonsterBatch). *)
THEOREM AriseInverseHolds == Spec => []AriseInverse
  BY InvariantHolds, PTL DEF IInv

(* For any number of monsters: only monsters that exist are paired, and no *)
(* shadow monster has a rank below B.                                      *)
THEOREM ArisePairsExistHolds == Spec => []ArisePairsExist
  BY InvariantHolds, PTL DEF IInv

(* For any number of monsters, in every state and for every batch an       *)
(* operator can pass: the loop of setAriseMonsterBatch, each turn of which *)
(* reads what the turns before it wrote, leaves exactly the pairs no later *)
(* pair of the batch displaces.                                            *)
THEOREM BatchLastWinsHolds == Spec => []BatchLastWins
  BY InvariantHolds, BatchLastWinsInState, PTL

----------------------------------------------------------------------------
(* What breaks the ranks of pairs                                          *)

(* Is the monster in no pair, of any arise rank and on either side?        *)
InNoPair(kind, id) ==
    \A rank \in ShadowRank :
        /\ BeforeKind(rank) = kind => ariseNextMonsterIds[rank][id] = NoMonster
        /\ kind = "shadow" => ariseBeforeMonsterIds[rank][id] = NoMonster

(* Operators who change the ranks of monsters in no pair only.             *)
CarefulNext ==
    \/ AddMonster
    \/ \E kind \in Kind, id \in MonsterId, rank \in RankType :
           InNoPair(kind, id) /\ setMonsterRankType(kind, id, rank)
    \/ SetAriseMonster
    \/ SetAriseMonsterBatch
CarefulSpec == Init /\ [][CarefulNext]_vars

(* They are operators of the registry.                                    *)
LEMMA CarefulIsNext == CarefulNext => Next
BY DEF CarefulNext, Next, SetMonsterRankType

(* While the sets only lose monsters in no pair, valid pairs stay so.      *)
LEMMA KeptPairsValid ==
    ASSUME IInv, AriseRanksAgree, UNCHANGED ariseVars,
           \A rank \in ShadowRank, before, next \in MonsterId :
               ariseNextMonsterIds[rank][before] = next =>
                   /\ before \in AriseCandidates(rank) => before \in AriseCandidates(rank)'
                   /\ isValidMonster(rank, "shadow", next) => isValidMonster(rank, "shadow", next)'
    PROVE  AriseRanksAgree'
<1> SUFFICES ASSUME NEW rank \in ShadowRank, NEW before \in MonsterId,
                    ariseNextMonsterIds'[rank][before] # NoMonster
             PROVE  /\ before \in AriseCandidates(rank)'
                    /\ ariseNextMonsterIds'[rank][before] \in monsterOfRankType'[rank]["shadow"]
  BY DEF AriseRanksAgree, ValidArisePair, AriseCandidates, isValidMonster
<1>1. PICK next : next = ariseNextMonsterIds[rank][before]
  OBVIOUS
<1>2. ariseNextMonsterIds'[rank][before] = next /\ next # NoMonster /\ next \in MonsterId
  BY <1>1 DEF ariseVars, IInv, TypeOK
<1>3. ValidArisePair(rank, before, next)
  BY <1>1, <1>2 DEF AriseRanksAgree
<1>4. before \in AriseCandidates(rank)' /\ isValidMonster(rank, "shadow", next)'
  BY <1>1, <1>2, <1>3 DEF ValidArisePair
<1> QED BY <1>2, <1>4 DEF ValidArisePair, AriseCandidates, isValidMonster

(* The ranks pairs are between are ranks.                                  *)
LEMMA BeforeTypes ==
    ASSUME NEW rank \in ShadowRank
    PROVE  BeforeRank(rank) \in RankType /\ BeforeKind(rank) \in Kind /\ rank \in RankType
           /\ "shadow" \in Kind
BY DEF BeforeRank, BeforeKind, Kind, ShadowRank, RankType, RankB, RankS, RankE

(* A new monster is in no pair.                                            *)
LEMMA AddMonsterKeepsRanks ==
    ASSUME IInv, AriseRanksAgree, NEW r \in RankType, NEW k \in Kind, addMonster(r, k)
    PROVE  AriseRanksAgree'
<1>1. PICK id : id = monsterIds[k] + 1
  OBVIOUS
<1>2. /\ monsterOfRankType' = [monsterOfRankType EXCEPT ![r][k] = @ \cup {id}]
      /\ UNCHANGED ariseVars
      /\ monsterOfRankType \in [RankType -> [Kind -> SUBSET MonsterId]]
  BY <1>1 DEF addMonster, IInv, TypeOK
<1>3. \A rank \in RankType, kind \in Kind :
          monsterOfRankType[rank][kind] \subseteq monsterOfRankType'[rank][kind]
  BY <1>2
<1>4. \A rank \in ShadowRank, before, next \in MonsterId :
          /\ before \in AriseCandidates(rank) => before \in AriseCandidates(rank)'
          /\ isValidMonster(rank, "shadow", next) => isValidMonster(rank, "shadow", next)'
  BY <1>3, BeforeTypes DEF AriseCandidates, isValidMonster
<1> QED BY <1>2, <1>4, KeptPairsValid

(* A rank change of a monster in no pair takes none out of its set.        *)
LEMMA CarefulChangeKeepsRanks ==
    ASSUME IInv, AriseRanksAgree, NEW k \in Kind, NEW id \in MonsterId, NEW r \in RankType,
           InNoPair(k, id), setMonsterRankType(k, id, r)
    PROVE  AriseRanksAgree'
<1>1. PICK old \in RankType : old = monsterRankTypes[k][id]
  BY DEF IInv, TypeOK
<1>2. /\ monsterOfRankType' = [[monsterOfRankType EXCEPT ![old][k] = @ \ {id}]
                                                  EXCEPT ![r][k] = @ \cup {id}]
      /\ UNCHANGED ariseVars
      /\ monsterOfRankType \in [RankType -> [Kind -> SUBSET MonsterId]]
  BY <1>1 DEF setMonsterRankType, IInv, TypeOK
<1>3. \A rank \in RankType, kind \in Kind :
          \A i \in monsterOfRankType[rank][kind] :
              i \in monsterOfRankType'[rank][kind] \/ (kind = k /\ i = id)
  BY <1>2
<1>4. ASSUME NEW rank \in ShadowRank, NEW before \in MonsterId, NEW next \in MonsterId,
             ariseNextMonsterIds[rank][before] = next
      PROVE  /\ before \in AriseCandidates(rank) => before \in AriseCandidates(rank)'
             /\ isValidMonster(rank, "shadow", next) => isValidMonster(rank, "shadow", next)'
  <2>1. next # NoMonster /\ before # NoMonster
    BY IdFacts
  <2>2. ~ (BeforeKind(rank) = k /\ before = id)
    BY <1>4, <2>1 DEF InNoPair
  <2>3. ~ ("shadow" = k /\ next = id)
    BY <1>4, <2>1 DEF InNoPair, IInv, AriseInverse
  <2> QED BY <1>3, <2>2, <2>3, BeforeTypes DEF AriseCandidates, isValidMonster
<1> QED BY <1>2, <1>4, KeptPairsValid

(* New maps of an arise rank keep to the ranks when their pairs do.        *)
LEMMA NewMapsKeepRanks ==
    ASSUME IInv, AriseRanksAgree, NEW rank \in ShadowRank, NEW maps, maps \in MapsType,
           SetAriseMaps(rank, maps), UNCHANGED registryVars,
           \A link \in Links(maps) :
               link \in Links(AriseMaps(rank)) \/ ValidArisePair(rank, link[1], link[2])
    PROVE  AriseRanksAgree'
<1> SUFFICES ASSUME NEW r \in ShadowRank, NEW before \in MonsterId,
                    ariseNextMonsterIds'[r][before] # NoMonster
             PROVE  /\ before \in AriseCandidates(r)'
                    /\ ariseNextMonsterIds'[r][before] \in monsterOfRankType'[r]["shadow"]
  BY DEF AriseRanksAgree, ValidArisePair, AriseCandidates, isValidMonster
<1>1. PICK next : next = ariseNextMonsterIds'[r][before]
  OBVIOUS
<1>2. ariseNextMonsterIds' = [ariseNextMonsterIds EXCEPT ![rank] = maps.next]
      /\ monsterOfRankType' = monsterOfRankType
  BY DEF SetAriseMaps, registryVars
<1>3. ValidArisePair(r, before, next)
  <2>1. CASE r = rank
    <3>1. next = maps.next[before] /\ next \in MonsterId
      BY <1>1, <1>2, <2>1 DEF IInv, TypeOK, MapsType
    <3>2. <<before, next>> \in Links(maps)
      BY <3>1 DEF Links
    <3>3. CASE <<before, next>> \in Links(AriseMaps(rank))
      <4>1. ariseNextMonsterIds[rank][before] = next
        BY <3>3 DEF Links, AriseMaps
      <4> QED BY <1>1, <2>1, <4>1 DEF AriseRanksAgree
    <3>4. CASE ValidArisePair(rank, before, next)
      BY <2>1, <3>4
    <3> QED BY <3>2, <3>3, <3>4
  <2>2. CASE r # rank
    <3>1. ariseNextMonsterIds[r][before] = next
      BY <1>1, <1>2, <2>2 DEF IInv, TypeOK
    <3> QED BY <1>1, <3>1 DEF AriseRanksAgree
  <2> QED BY <2>1, <2>2
<1> QED BY <1>1, <1>2, <1>3 DEF ValidArisePair, AriseCandidates, isValidMonster

(* A pairing adds the pair it is called with.                              *)
LEMMA SetAriseKeepsRanks ==
    ASSUME IInv, AriseRanksAgree, NEW rank \in RankType, NEW before \in MonsterId,
           NEW next \in MonsterId, setAriseMonster(rank, before, next)
    PROVE  AriseRanksAgree'
<1>1. /\ rank \in ShadowRank /\ ValidArisePair(rank, before, next)
      /\ SetAriseMaps(rank, Pair(AriseMaps(rank), before, next))
      /\ UNCHANGED registryVars
  BY DEF setAriseMonster
<1>2. AriseMaps(rank) \in MapsType /\ MapsInverse(AriseMaps(rank))
  BY <1>1, MapsOfState DEF IInv, MapsOK
<1>3. PICK maps : maps = Pair(AriseMaps(rank), before, next)
  OBVIOUS
<1>4. maps \in MapsType
  BY <1>2, <1>3, PairInverse
<1>5. ASSUME NEW link \in Links(maps)
      PROVE  link \in Links(AriseMaps(rank)) \/ ValidArisePair(rank, link[1], link[2])
  <2>1. link \in MonsterId \X MonsterId
    BY DEF Links
  <2>2. link = <<before, next>> \/ link \in Links(AriseMaps(rank))
    BY <1>2, <1>3, <2>1, PairLinks
  <2> QED BY <1>1, <2>2
<1> QED BY <1>1, <1>3, <1>4, <1>5, NewMapsKeepRanks

(* What a batch leaves was there before it or is one of its pairs.         *)
LEMMA LastWinsFrom ==
    ASSUME NEW links, NEW befores, NEW nexts, NEW link \in LastWins(links, befores, nexts)
    PROVE  link \in links \/ \E i \in 1..Len(befores) : link = <<befores[i], nexts[i]>>
BY DEF LastWins

(* A batch adds pairs it is called with.                                   *)
LEMMA SetAriseBatchKeepsRanks ==
    ASSUME IInv, AriseRanksAgree, NEW rank \in RankType, NEW befores \in Batch,
           NEW nexts \in Batch, setAriseMonsterBatch(rank, befores, nexts)
    PROVE  AriseRanksAgree'
<1> DEFINE len == Len(befores)
           after == PairEach(AriseMaps(rank), befores, nexts)
<1>1. /\ rank \in ShadowRank /\ len = Len(nexts)
      /\ \A i \in 1..len : ValidArisePair(rank, befores[i], nexts[i])
      /\ SetAriseMaps(rank, after[len])
      /\ UNCHANGED registryVars
  BY DEF setAriseMonsterBatch
<1>2. /\ len \in Nat
      /\ befores \in [1..len -> MonsterId]
      /\ nexts \in [1..len -> MonsterId]
  BY <1>1, BatchFacts
<1>3. /\ after[0] = AriseMaps(rank)
      /\ \A i \in 1..len : after[i] = Pair(after[i - 1], befores[i], nexts[i])
  BY <1>2, PairEachTurns
<1>4. MapsOK(rank, after[0])
  BY <1>1, <1>3, MapsOfState DEF IInv
<1>5. Links(after[len]) = LastWins(Links(AriseMaps(rank)), befores, nexts)
  BY <1>1, BatchLastWinsInState DEF BatchLastWins
<1>6. ASSUME NEW link \in LastWins(Links(AriseMaps(rank)), befores, nexts)
      PROVE  link \in Links(AriseMaps(rank)) \/ ValidArisePair(rank, link[1], link[2])
  <2>1. link \in Links(AriseMaps(rank)) \/ \E i \in 1..len : link = <<befores[i], nexts[i]>>
    BY LastWinsFrom
  <2>2. CASE \E i \in 1..len : link = <<befores[i], nexts[i]>>
    <3>1. PICK i \in 1..len : link = <<befores[i], nexts[i]>>
      BY <2>2
    <3>2. link[1] = befores[i] /\ link[2] = nexts[i]
      BY <3>1
    <3> QED BY <1>1, <3>2
  <2> QED BY <2>1, <2>2
<1> HIDE DEF after, len
<1>7. after[len] \in MapsType
  BY <1>1, <1>2, <1>3, <1>4, BatchOK DEF IInv, MapsOK
<1> QED BY <1>1, <1>5, <1>6, <1>7, NewMapsKeepRanks

(* Every careful step keeps pairs between the ranks they are for.          *)
LEMMA CarefulStep == IInv /\ AriseRanksAgree /\ [CarefulNext]_vars => AriseRanksAgree'
<1> SUFFICES ASSUME IInv, AriseRanksAgree, [CarefulNext]_vars PROVE AriseRanksAgree'
  OBVIOUS
<1>1. CASE AddMonster
  BY <1>1, AddMonsterKeepsRanks DEF AddMonster
<1>2. CASE \E kind \in Kind, id \in MonsterId, rank \in RankType :
               InNoPair(kind, id) /\ setMonsterRankType(kind, id, rank)
  BY <1>2, CarefulChangeKeepsRanks
<1>3. CASE SetAriseMonster
  BY <1>3, SetAriseKeepsRanks DEF SetAriseMonster
<1>4. CASE SetAriseMonsterBatch
  BY <1>4, SetAriseBatchKeepsRanks DEF SetAriseMonsterBatch
<1>5. CASE UNCHANGED vars
  BY <1>5 DEF vars, registryVars, ariseVars, AriseRanksAgree, ValidArisePair, AriseCandidates,
              isValidMonster
<1> QED BY <1>1, <1>2, <1>3, <1>4, <1>5 DEF CarefulNext

(* At the start there are no pairs.                                        *)
LEMMA NoPairsAtStart == Init => AriseRanksAgree
BY DEF Init, AriseRanksAgree

(* What MonsterFactoryBase says of the maps, a pair leads from a monster of *)
(* the rank before to one of the rank, fails in the registry for one       *)
(* reason only: setMonsterRankType accepts a monster that is in a pair.    *)
(* While operators change the ranks of others only, it holds for any       *)
(* monsters and batches.                                                   *)
THEOREM CarefulRanksAgree == CarefulSpec => []AriseRanksAgree
<1>1. Init => IInv /\ AriseRanksAgree
  BY InitInv, NoPairsAtStart
<1>2. IInv /\ AriseRanksAgree /\ [CarefulNext]_vars => (IInv /\ AriseRanksAgree)'
  BY CarefulIsNext, NextInv, CarefulStep
<1> QED BY <1>1, <1>2, PTL DEF CarefulSpec
=============================================================================
