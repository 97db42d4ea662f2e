---------------------------- MODULE MCSettlement ----------------------------
(***************************************************************************)
(* Two hunters and two seasons of a block each; the first can be claimed   *)
(* while the second is played.  The monster 1 of rank S becomes the shadow *)
(* 1 of rank B, which becomes the shadow 2 of rank A.  Two monsters, or    *)
(* one and an entry, and one change by the operators.                      *)
(***************************************************************************)
EXTENDS Settlement

Ids(first, second) == [id \in 1..2 |-> IF id = 1 THEN first ELSE second]
Ranks2 == [normal |-> Ids(RankS, RankB), shadow |-> Ids(RankB, RankA)]
Pairs == [rank \in ShadowRank |-> CASE rank = RankB -> Ids(1, 0)
                                    [] rank = RankA -> Ids(2, 0)
                                    [] OTHER -> Ids(0, 0)]
Scores(step) == [rank \in RankType |-> 1 + step * rank]
StartTables == [kind \in {"normal", "shadow"} |-> Scores(1)]
Tables == {Scores(2)}
Stones == [rank \in ShadowRank |-> IF rank = RankA THEN 1 ELSE 0]
StonesReturned == [kind \in {"normal", "shadow"} |-> [rank \in RankType |-> 0]]
StonesAtStart == [h \in Hunters |-> IF h \in Claimants THEN 1 ELSE 0]
Ends == [s \in 0..1 |-> IF s = 0 THEN 1 ELSE 2]
Rates == {[activity |-> 1, collecting |-> 1]}
RanksOf == {[s \in 0..1 |-> s], [s \in 0..1 |-> 0]}
============================================================================
