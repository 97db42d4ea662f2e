-------------------------- MODULE Deployment_proof --------------------------
(***************************************************************************)
(* For any runs and networks: deployed.json never mixes two deployments of *)
(* a network, and what a run listed is undone by those only who may; these *)
(* proofs use of the plan that it is a sequence and hold for any.  A       *)
(* listed system works and what is submitted for verification matches it:  *)
(* these rest on the rows of the plan.                                     *)
(***************************************************************************)
EXTENDS Deployment, TLAPS

(* The plan is a finite sequence, whatever its rows.                       *)
IsSequence(s) == \E S : s \in Seq(S)

(* Two sequences one after the other are a sequence.                       *)
LEMMA ConcatIsSequence ==
    ASSUME NEW s, NEW t, IsSequence(s), IsSequence(t)
    PROVE  IsSequence(s \o t)
<1>1. PICK S : s \in Seq(S)
  BY DEF IsSequence
<1>2. PICK T : t \in Seq(T)
  BY DEF IsSequence
<1>3. s \in Seq(S \union T) /\ t \in Seq(S \union T)
  BY <1>1, <1>2
<1>4. s \o t \in Seq(S \union T)
  BY <1>3
<1> QED BY <1>4 DEF IsSequence

(* The literal tuples the table is written with are sequences.             *)
LEMMA TuplesAreSequences ==
    /\ IsSequence(<< >>)
    /\ \A a : IsSequence(<<a>>)
    /\ \A a, b : IsSequence(<<a, b>>)
    /\ \A a, b, c : IsSequence(<<a, b, c>>)
    /\ \A a, b, c, d : IsSequence(<<a, b, c, d>>)
    /\ \A a, b, c, d, e : IsSequence(<<a, b, c, d, e>>)
<1>1. << >> \in Seq({})
  OBVIOUS
<1>2. ASSUME NEW a PROVE IsSequence(<<a>>)
  <2>1. <<a>> \in Seq({a})
    OBVIOUS
  <2> QED BY <2>1 DEF IsSequence
<1>3. ASSUME NEW a, NEW b PROVE IsSequence(<<a, b>>)
  <2>1. <<a, b>> \in Seq({a, b})
    OBVIOUS
  <2> QED BY <2>1 DEF IsSequence
<1>4. ASSUME NEW a, NEW b, NEW c PROVE IsSequence(<<a, b, c>>)
  <2>1. <<a, b, c>> \in Seq({a, b, c})
    OBVIOUS
  <2> QED BY <2>1 DEF IsSequence
<1>5. ASSUME NEW a, NEW b, NEW c, NEW d PROVE IsSequence(<<a, b, c, d>>)
  <2>1. <<a, b, c, d>> \in Seq({a, b, c, d})
    OBVIOUS
  <2> QED BY <2>1 DEF IsSequence
<1>6. ASSUME NEW a, NEW b, NEW c, NEW d, NEW e PROVE IsSequence(<<a, b, c, d, e>>)
  <2>1. <<a, b, c, d, e>> \in Seq({a, b, c, d, e})
    OBVIOUS
  <2> QED BY <2>1 DEF IsSequence
<1>7. IsSequence(<< >>)
  BY <1>1 DEF IsSequence
<1> QED BY <1>2, <1>3, <1>4, <1>5, <1>6, <1>7, Zenon

(* The plan of either kind of run is a sequence.                           *)
LEMMA PlanIsSequence == ASSUME NEW t PROVE IsSequence(Plan(t))
<1>1. IsSequence(CoreRows)
  BY TuplesAreSequences, Zenon DEF CoreRows
<1>2. IsSequence(UsdRows(t))
  <2>1. UsdRows(t) = << >> \/ UsdRows(t) = << Row("TestUSDC", {}, {}, {}) >>
    BY Zenon DEF UsdRows
  <2> QED BY <2>1, TuplesAreSequences, Zenon
<1>3. IsSequence(GameRows(t))
  BY TuplesAreSequences, Zenon DEF GameRows
<1>4. IsSequence(AccessRows)
  BY TuplesAreSequences, Zenon DEF AccessRows
<1>5. IsSequence(GameCollectionRows)
  BY TuplesAreSequences, Zenon DEF GameCollectionRows
<1>6. IsSequence(MarketCollectionRows(t))
  BY TuplesAreSequences, Zenon DEF MarketCollectionRows
<1>7. IsSequence(SeasonCollectionRows)
  BY TuplesAreSequences, Zenon DEF SeasonCollectionRows
<1> QED
  BY <1>1, <1>2, <1>3, <1>4, <1>5, <1>6, <1>7, ConcatIsSequence, Zenon DEF Plan

(* So it has a length, and its rows are numbered from 1.                   *)
LEMMA PlanFacts ==
    ASSUME NEW t
    PROVE  Len(Plan(t)) \in Nat /\ DOMAIN Plan(t) = 1..Len(Plan(t))
<1>1. PICK S : Plan(t) \in Seq(S)
  BY PlanIsSequence DEF IsSequence
<1> QED BY <1>1

----------------------------------------------------------------------------
(* What a run may have done, in terms of its own values: its phase p, its  *)
(* answers a, the d rows deployed, its collections cs and its copy f.      *)
Awaits(a, d, cs) ==
    /\ d > 0
    /\ Plan(a.isTesting)[d].name \in DOMAIN CollectionId
    /\ \A i \in DOMAIN cs : cs[i] # Plan(a.isTesting)[d].name

\* Its copy is whole in the networks it does not list anew.
OthersWhole(a, f) ==
    \A n \in Networks : (n # a.network \/ ~a.isUpdate) => WholeIn(f, n)
\* All it deployed is noted, and so are the collections it added.
RowsNoted(a, d, cs, f, r) ==
    a.isUpdate => \A i \in 1..d :
        Plan(a.isTesting)[i].name \in ContractType /\ ~(i = d /\ Awaits(a, d, cs))
            => f[Plan(a.isTesting)[i].name][a.network] = r
CollectionsNoted(a, cs, f, r) ==
    a.isUpdate => \A j \in 1..Len(cs) : cs[j] \in ContractType => f[cs[j]][a.network] = r

RunInv(p, a, d, cs, f, r) ==
    /\ p = "new" => d = 0 /\ cs = << >>
    /\ d <= Len(Plan(a.isTesting))
    /\ p = "deploying" =>
           OthersWhole(a, f) /\ RowsNoted(a, d, cs, f, r) /\ CollectionsNoted(a, cs, f, r)

Types ==
    /\ phase \in [Runs -> {"new", "deploying", "finished", "stopped"}]
    /\ answers \in [Runs -> Answers]
    /\ done \in [Runs -> Nat]
    /\ collections \in [Runs -> Seq(DOMAIN CollectionId)]
    /\ deployed \in [Runs -> File]
    /\ readAt \in [Runs -> Nat]
    /\ file \in File
    /\ writes \in Seq(Runs)

IInv ==
    /\ Types
    /\ FileNeverMixes
    /\ \A r \in Runs :
           RunInv(phase[r], answers[r], done[r], collections[r], deployed[r], r)

----------------------------------------------------------------------------

(* The parts of the answers to the prompts have their types.               *)
LEMMA AnswersFacts ==
    ASSUME NEW a \in Answers
    PROVE  a.network \in Networks /\ a.isUpdate \in BOOLEAN /\ a.isTesting \in BOOLEAN
BY DEF Answers

(* A note changes one entry of the copy, for a run that lists its network. *)
LEMMA NotedFacts ==
    ASSUME Types, NEW r \in Runs, NEW name
    PROVE  /\ Noted(r, name) \in File
           /\ \A c \in ContractType, n \in Networks :
                 Noted(r, name)[c][n] =
                     IF answers[r].isUpdate /\ c = name /\ n = answers[r].network
                     THEN r ELSE deployed[r][c][n]
<1>1. /\ answers[r].network \in Networks /\ answers[r].isUpdate \in BOOLEAN
      /\ deployed[r] \in File
  BY AnswersFacts DEF Types
<1>2. CASE answers[r].isUpdate /\ name \in ContractType
  <2> DEFINE g == updateDeployed(deployed[r], name, answers[r].network, r)
  <2>1. Noted(r, name) = g
    BY <1>2 DEF Noted
  <2>2. g \in File
    BY <1>1, <1>2 DEF updateDeployed, File, Deployer
  <2>3. \A c \in ContractType, n \in Networks :
           g[c][n] = IF c = name /\ n = answers[r].network THEN r ELSE deployed[r][c][n]
    BY <1>1, <1>2 DEF updateDeployed, File
  <2> QED BY <1>2, <2>1, <2>2, <2>3
<1>3. CASE ~(answers[r].isUpdate /\ name \in ContractType)
  <2>1. Noted(r, name) = deployed[r]
    BY <1>3 DEF Noted
  <2> QED BY <1>1, <1>3, <2>1
<1> QED BY <1>2, <1>3

(* What holds of an entry in one file holds in a file with the same entries. *)
LEMMA WholeInSame ==
    ASSUME NEW f, NEW g, NEW n \in Networks,
           \A c \in ContractType : g[c][n] = f[c][n],
           WholeIn(f, n)
    PROVE  WholeIn(g, n)
<1>1. \A t \in BOOLEAN : Recorded(t) \subseteq ContractType
  BY DEF Recorded
<1> QED BY <1>1 DEF WholeIn

(* The empty copy and the file at the start are files.                     *)
LEMMA FileTypes == NothingListed \in File /\ FileAtStart \in File
BY DEF NothingListed, FileAtStart, File, Deployer

(* What is listed at the start is one deployment per network.              *)
LEMMA FileAtStartWhole == \A n \in Networks : WholeIn(FileAtStart, n)
<1> SUFFICES ASSUME NEW n \in Networks PROVE WholeIn(FileAtStart, n)
  OBVIOUS
<1>1. Recorded(FALSE) \subseteq ContractType
  BY DEF Recorded
<1>2. CASE n \in ListedAtStart
  <2>1. \A c \in Recorded(FALSE) : FileAtStart[c][n] = Earlier
    BY <1>1, <1>2 DEF FileAtStart
  <2>2. Earlier \in Deployer
    BY DEF Deployer
  <2> QED BY <2>1, <2>2 DEF WholeIn
<1>3. CASE n \notin ListedAtStart
  BY <1>3 DEF FileAtStart, WholeIn
<1> QED BY <1>2, <1>3

(* The initial state satisfies the invariant.                              *)
LEMMA InitIInv == Init => IInv
<1> SUFFICES ASSUME Init PROVE IInv
  OBVIOUS
<1>1. NoAnswers \in Answers
  BY NetworksAssumption DEF NoAnswers, Answers
<1>2. Types
  BY <1>1, FileTypes DEF Init, Types
<1>3. FileNeverMixes
  BY FileAtStartWhole DEF Init, FileNeverMixes
<1>4. ASSUME NEW r \in Runs
      PROVE  RunInv(phase[r], answers[r], done[r], collections[r], deployed[r], r)
  <2>1. phase[r] = "new" /\ done[r] = 0 /\ collections[r] = << >>
    BY DEF Init
  <2>2. 0 <= Len(Plan(answers[r].isTesting))
    BY PlanFacts
  <2> QED BY <2>1, <2>2 DEF RunInv
<1> QED BY <1>2, <1>3, <1>4 DEF IInv

----------------------------------------------------------------------------
(* A step of one run leaves the others as they are.                        *)
LEMMA StartStep ==
    ASSUME IInv, NEW r \in Runs, NEW a \in Answers, Start(r, a)
    PROVE  IInv'
<1>1. /\ phase[r] = "new" /\ done[r] = 0 /\ collections[r] = << >>
  BY DEF IInv, RunInv, Start
<1>2. Types'
  BY DEF IInv, Types, Start
<1>3. FileNeverMixes'
  BY DEF IInv, FileNeverMixes, WholeIn, Start
<1>4. ASSUME NEW q \in Runs
      PROVE  RunInv(phase'[q], answers'[q], done'[q], collections'[q], deployed'[q], q)
  <2>1. CASE q # r
    <3>1. /\ phase'[q] = phase[q] /\ answers'[q] = answers[q] /\ done'[q] = done[q]
          /\ collections'[q] = collections[q] /\ deployed'[q] = deployed[q]
      BY <2>1 DEF IInv, Types, Start
    <3> QED BY <3>1 DEF IInv
  <2>2. CASE q = r
    <3>1. /\ phase'[q] = "deploying" /\ answers'[q] = a /\ done'[q] = 0
          /\ collections'[q] = << >> /\ deployed'[q] = file
      BY <1>1, <2>2 DEF IInv, Types, Start
    <3>2. OthersWhole(a, file)
      BY DEF IInv, FileNeverMixes, OthersWhole
    <3>3. RowsNoted(a, 0, << >>, file, q) /\ CollectionsNoted(a, << >>, file, q)
      BY DEF RowsNoted, CollectionsNoted
    <3>4. 0 <= Len(Plan(a.isTesting))
      BY PlanFacts
    <3> QED BY <3>1, <3>2, <3>3, <3>4 DEF RunInv
  <2> QED BY <2>1, <2>2
<1> QED BY <1>2, <1>3, <1>4 DEF IInv

(* A run that stops or has finished promises nothing any more.             *)
LEMMA StopStep ==
    ASSUME IInv, NEW r \in Runs, Stop(r)
    PROVE  IInv'
<1>1. Types'
  BY FileTypes DEF IInv, Types, Stop
<1>2. FileNeverMixes'
  BY DEF IInv, FileNeverMixes, WholeIn, Stop
<1>3. ASSUME NEW q \in Runs
      PROVE  RunInv(phase'[q], answers'[q], done'[q], collections'[q], deployed'[q], q)
  <2>1. /\ answers'[q] = answers[q] /\ done'[q] = done[q] /\ collections'[q] = collections[q]
    BY DEF Stop
  <2>2. CASE q # r
    <3>1. phase'[q] = phase[q] /\ deployed'[q] = deployed[q]
      BY <2>2 DEF IInv, Types, Stop
    <3> QED BY <2>1, <3>1 DEF IInv
  <2>3. CASE q = r
    <3>1. phase'[q] = "stopped"
      BY <2>3 DEF IInv, Types, Stop
    <3> QED BY <2>1, <3>1 DEF IInv, RunInv
  <2> QED BY <2>2, <2>3
<1> QED BY <1>1, <1>2, <1>3 DEF IInv

(* A run that is through the plan has noted all that it lists.             *)
LEMMA ListedAll ==
    ASSUME IInv, NEW r \in Runs, phase[r] = "deploying", answers[r].isUpdate,
           done[r] = Len(PlanOf(r)), ~AwaitsCollection(r),
           NEW c \in Recorded(answers[r].isTesting)
    PROVE  deployed[r][c][answers[r].network] = r
<1> DEFINE a == answers[r]
<1>1. RowsNoted(a, done[r], collections[r], deployed[r], r)
  BY DEF IInv, RunInv
<1>2. ~Awaits(a, done[r], collections[r])
  BY DEF AwaitsCollection, Awaits, PlanOf
<1>3. PICK i \in DOMAIN Plan(a.isTesting) : Plan(a.isTesting)[i].name = c
  BY DEF Recorded
<1>4. i \in 1..done[r] /\ c \in ContractType
  BY <1>3, PlanFacts DEF PlanOf, Recorded
<1> QED BY <1>1, <1>2, <1>3, <1>4 DEF RowsNoted

(* The copy of a run that is through the plan is whole in every network.   *)
LEMMA FinishedCopyWhole ==
    ASSUME IInv, NEW r \in Runs, phase[r] = "deploying",
           done[r] = Len(PlanOf(r)), ~AwaitsCollection(r), NEW n \in Networks
    PROVE  WholeIn(deployed[r], n)
<1> DEFINE a == answers[r]
<1>1. a.isTesting \in BOOLEAN /\ a.isUpdate \in BOOLEAN
  BY AnswersFacts DEF IInv, Types
<1>2. OthersWhole(a, deployed[r])
  BY DEF IInv, RunInv
<1>3. CASE n # a.network \/ ~a.isUpdate
  BY <1>2, <1>3 DEF OthersWhole
<1>4. CASE n = a.network /\ a.isUpdate
  <2>1. ASSUME NEW c \in Recorded(a.isTesting) PROVE deployed[r][c][n] = r
    BY <1>4, ListedAll
  <2>2. r \in Deployer
    BY DEF Deployer
  <2> QED BY <1>1, <2>1, <2>2 DEF WholeIn
<1> QED BY <1>3, <1>4

(* The copy that replaces the file is whole in every network.              *)
LEMMA WriteFileStep ==
    ASSUME IInv, NEW r \in Runs, WriteFile(r)
    PROVE  IInv'
<1>1. Types'
  BY FileTypes DEF IInv, Types, WriteFile
<1>2. FileNeverMixes'
  <2>1. \A n \in Networks : WholeIn(deployed[r], n)
    BY FinishedCopyWhole DEF WriteFile
  <2>2. file' = deployed[r]
    BY DEF WriteFile
  <2> QED BY <2>1, <2>2 DEF FileNeverMixes, WholeIn
<1>3. ASSUME NEW q \in Runs
      PROVE  RunInv(phase'[q], answers'[q], done'[q], collections'[q], deployed'[q], q)
  <2>1. /\ answers'[q] = answers[q] /\ done'[q] = done[q] /\ collections'[q] = collections[q]
    BY DEF WriteFile
  <2>2. CASE q # r
    <3>1. phase'[q] = phase[q] /\ deployed'[q] = deployed[q]
      BY <2>2 DEF IInv, Types, WriteFile
    <3> QED BY <2>1, <3>1 DEF IInv
  <2>3. CASE q = r
    <3>1. phase'[q] = "finished"
      BY <2>3 DEF IInv, Types, WriteFile
    <3> QED BY <2>1, <3>1 DEF IInv, RunInv
  <2> QED BY <2>2, <2>3
<1> QED BY <1>1, <1>2, <1>3 DEF IInv

(* A note keeps what was noted, and what is whole.                         *)
LEMMA NoteKeeps ==
    ASSUME IInv, NEW r \in Runs, phase[r] = "deploying", NEW name
    PROVE  /\ OthersWhole(answers[r], Noted(r, name))
           /\ RowsNoted(answers[r], done[r], collections[r], Noted(r, name), r)
           /\ CollectionsNoted(answers[r], collections[r], Noted(r, name), r)
           /\ answers[r].isUpdate /\ name \in ContractType
                 => Noted(r, name)[name][answers[r].network] = r
<1> DEFINE a == answers[r]
           f == deployed[r]
           g == Noted(r, name)
<1>1. /\ a.network \in Networks /\ a.isUpdate \in BOOLEAN
      /\ \A c \in ContractType, n \in Networks :
            g[c][n] = IF a.isUpdate /\ c = name /\ n = a.network THEN r ELSE f[c][n]
  BY NotedFacts, AnswersFacts DEF IInv, Types
<1>2. /\ OthersWhole(a, f)
      /\ RowsNoted(a, done[r], collections[r], f, r)
      /\ CollectionsNoted(a, collections[r], f, r)
  BY DEF IInv, RunInv
<1>3. \A c \in ContractType : f[c][a.network] = r => g[c][a.network] = r
  BY <1>1
<1> HIDE DEF a, f, g
<1>4. OthersWhole(a, g)
  <2> SUFFICES ASSUME NEW n \in Networks, n # a.network \/ ~a.isUpdate
               PROVE  WholeIn(g, n)
    BY DEF OthersWhole
  <2>1. WholeIn(f, n)
    BY <1>2 DEF OthersWhole
  <2>2. \A c \in ContractType : g[c][n] = f[c][n]
    BY <1>1
  <2> QED BY <2>1, <2>2, WholeInSame
<1>5. RowsNoted(a, done[r], collections[r], g, r)
  BY <1>2, <1>3 DEF RowsNoted
<1>6. CollectionsNoted(a, collections[r], g, r)
  BY <1>2, <1>3 DEF CollectionsNoted
<1>7. a.isUpdate /\ name \in ContractType => g[name][a.network] = r
  BY <1>1
<1> QED BY <1>4, <1>5, <1>6, <1>7 DEF a, g

(* A row that is deployed is noted, unless it is a collection.             *)
LEMMA DeployStep ==
    ASSUME IInv, NEW r \in Runs, Deploy(r)
    PROVE  IInv'
<1> DEFINE a == answers[r]
           d == done[r]
           cs == collections[r]
           name == Plan(a.isTesting)[d + 1].name
<1>1. /\ phase[r] = "deploying" /\ d \in Nat /\ d < Len(Plan(a.isTesting))
      /\ ~Awaits(a, d, cs)
      /\ cs \in Seq(DOMAIN CollectionId)
  BY DEF IInv, Types, Deploy, PlanOf, AwaitsCollection, Awaits
<1>2. PICK g : /\ g = IF name \in DOMAIN CollectionId THEN deployed[r] ELSE Noted(r, name)
               /\ deployed' = [deployed EXCEPT ![r] = g]
  <2>1. CASE name \in DOMAIN CollectionId
    <3>1. deployed' = deployed
      BY <2>1 DEF Deploy, PlanOf
    <3>2. deployed = [deployed EXCEPT ![r] = deployed[r]]
      BY DEF IInv, Types
    <3> QED BY <2>1, <3>1, <3>2
  <2>2. CASE name \notin DOMAIN CollectionId
    <3>1. deployed' = [deployed EXCEPT ![r] = Noted(r, name)]
      BY <2>2 DEF Deploy, PlanOf
    <3> QED BY <2>2, <3>1
  <2> QED BY <2>1, <2>2
<1>3. g \in File
  BY <1>2, NotedFacts DEF IInv, Types
<1>4. Types'
  BY <1>1, <1>2, <1>3 DEF IInv, Types, Deploy
<1>5. FileNeverMixes'
  BY DEF IInv, FileNeverMixes, WholeIn, Deploy
<1>6. /\ OthersWhole(a, g) /\ RowsNoted(a, d, cs, g, r) /\ CollectionsNoted(a, cs, g, r)
      /\ name \notin DOMAIN CollectionId /\ a.isUpdate /\ name \in ContractType
            => g[name][a.network] = r
  <2>1. CASE name \in DOMAIN CollectionId
    BY <1>1, <1>2, <2>1 DEF IInv, RunInv
  <2>2. CASE name \notin DOMAIN CollectionId
    <3>1. g = Noted(r, name)
      BY <1>2, <2>2
    <3> QED BY <1>1, <3>1, NoteKeeps
  <2> QED BY <2>1, <2>2
<1>7. RowsNoted(a, d + 1, cs, g, r)
  <2> SUFFICES ASSUME a.isUpdate, NEW i \in 1..(d + 1),
                      Plan(a.isTesting)[i].name \in ContractType,
                      ~(i = d + 1 /\ Awaits(a, d + 1, cs))
               PROVE  g[Plan(a.isTesting)[i].name][a.network] = r
    BY DEF RowsNoted
  <2>1. CASE i \in 1..d
    BY <1>1, <1>6, <2>1 DEF RowsNoted
  <2>2. CASE i = d + 1 /\ name \in DOMAIN CollectionId
    <3>1. PICK j \in DOMAIN cs : cs[j] = name
      BY <1>1, <2>2 DEF Awaits
    <3>2. j \in 1..Len(cs)
      BY <1>1
    <3> QED BY <1>6, <2>2, <3>1, <3>2 DEF CollectionsNoted
  <2>3. CASE i = d + 1 /\ name \notin DOMAIN CollectionId
    BY <1>6, <2>3
  <2> QED BY <1>1, <2>1, <2>2, <2>3
<1>8. ASSUME NEW q \in Runs
      PROVE  RunInv(phase'[q], answers'[q], done'[q], collections'[q], deployed'[q], q)
  <2>1. phase'[q] = phase[q] /\ answers'[q] = answers[q] /\ collections'[q] = collections[q]
    BY DEF Deploy
  <2>2. CASE q # r
    <3>1. done'[q] = done[q] /\ deployed'[q] = deployed[q]
      BY <1>2, <2>2 DEF IInv, Types, Deploy
    <3> QED BY <2>1, <3>1 DEF IInv
  <2>3. CASE q = r
    <3>1. done'[q] = d + 1 /\ deployed'[q] = g
      BY <1>2, <2>3 DEF IInv, Types, Deploy
    <3>2. d + 1 <= Len(Plan(a.isTesting))
      BY <1>1, PlanFacts
    <3>3. RunInv(phase[r], a, d + 1, cs, g, r)
      BY <1>1, <1>6, <1>7, <3>2 DEF RunInv
    <3> QED BY <2>1, <2>3, <3>1, <3>3
  <2> QED BY <2>2, <2>3
<1> QED BY <1>4, <1>5, <1>8 DEF IInv

(* A collection is noted when the project gets it.                         *)
LEMMA AddCollectionStep ==
    ASSUME IInv, NEW r \in Runs, AddCollection(r)
    PROVE  IInv'
<1> DEFINE a == answers[r]
           d == done[r]
           cs == collections[r]
           name == Plan(a.isTesting)[d].name
           g == Noted(r, name)
           added == Append(cs, name)
<1>1. /\ phase[r] = "deploying" /\ d \in Nat /\ d > 0
      /\ cs \in Seq(DOMAIN CollectionId) /\ name \in DOMAIN CollectionId
  BY DEF IInv, Types, AddCollection, PlanOf, AwaitsCollection
<1>2. /\ deployed' = [deployed EXCEPT ![r] = g]
      /\ collections' = [collections EXCEPT ![r] = added]
  BY DEF AddCollection, PlanOf
<1>3. g \in File /\ added \in Seq(DOMAIN CollectionId)
  BY <1>1, NotedFacts DEF IInv, Types
<1>4. /\ OthersWhole(a, g) /\ RowsNoted(a, d, cs, g, r) /\ CollectionsNoted(a, cs, g, r)
      /\ a.isUpdate /\ name \in ContractType => g[name][a.network] = r
  BY <1>1, NoteKeeps
<1> HIDE DEF g, added
<1>5. Types'
  BY <1>2, <1>3 DEF IInv, Types, AddCollection
<1>6. FileNeverMixes'
  BY DEF IInv, FileNeverMixes, WholeIn, AddCollection
<1>7. RowsNoted(a, d, added, g, r)
  BY <1>1, <1>4 DEF RowsNoted
<1>8. CollectionsNoted(a, added, g, r)
  <2> SUFFICES ASSUME a.isUpdate, NEW j \in 1..Len(added), added[j] \in ContractType
               PROVE  g[added[j]][a.network] = r
    BY DEF CollectionsNoted
  <2>1. /\ Len(added) = Len(cs) + 1 /\ added[Len(cs) + 1] = name
        /\ \A k \in 1..Len(cs) : added[k] = cs[k]
    BY <1>1 DEF added
  <2>2. CASE j \in 1..Len(cs)
    BY <1>4, <2>1, <2>2 DEF CollectionsNoted
  <2>3. CASE j = Len(cs) + 1
    BY <1>4, <2>1, <2>3
  <2> QED BY <1>1, <2>1, <2>2, <2>3
<1>9. ASSUME NEW q \in Runs
      PROVE  RunInv(phase'[q], answers'[q], done'[q], collections'[q], deployed'[q], q)
  <2>1. phase'[q] = phase[q] /\ answers'[q] = answers[q] /\ done'[q] = done[q]
    BY DEF AddCollection
  <2>2. CASE q # r
    <3>1. collections'[q] = collections[q] /\ deployed'[q] = deployed[q]
      BY <1>2, <2>2 DEF IInv, Types
    <3> QED BY <2>1, <3>1 DEF IInv
  <2>3. CASE q = r
    <3>1. collections'[q] = added /\ deployed'[q] = g
      BY <1>2, <2>3 DEF IInv, Types
    <3>2. RunInv(phase[r], a, d, added, g, r)
      BY <1>1, <1>4, <1>7, <1>8 DEF IInv, RunInv
    <3> QED BY <2>1, <2>3, <3>1, <3>2
  <2> QED BY <2>2, <2>3
<1> QED BY <1>5, <1>6, <1>9 DEF IInv

----------------------------------------------------------------------------

(* Every step of a run keeps the invariant.                                *)
LEMMA StepIInv == IInv /\ [Next]_vars => IInv'
<1> SUFFICES ASSUME IInv, [Next]_vars PROVE IInv'
  OBVIOUS
<1>1. CASE UNCHANGED vars
  BY <1>1 DEF vars, IInv, Types, FileNeverMixes, WholeIn
<1>2. ASSUME NEW r \in Runs, NEW a \in Answers, Start(r, a) PROVE IInv'
  BY <1>2, StartStep
<1>3. ASSUME NEW r \in Runs, Deploy(r) PROVE IInv'
  BY <1>3, DeployStep
<1>4. ASSUME NEW r \in Runs, AddCollection(r) PROVE IInv'
  BY <1>4, AddCollectionStep
<1>5. ASSUME NEW r \in Runs, WriteFile(r) PROVE IInv'
  BY <1>5, WriteFileStep
<1>6. ASSUME NEW r \in Runs, Stop(r) PROVE IInv'
  BY <1>6, StopStep
<1> QED BY <1>1, <1>2, <1>3, <1>4, <1>5, <1>6 DEF Next

(* The variables keep their types; no run goes past its plan.              *)
THEOREM DeploymentTypeCorrect == Spec => []DeploymentTypeOK
<1>1. IInv => DeploymentTypeOK
  <2> SUFFICES ASSUME IInv PROVE DeploymentTypeOK
    OBVIOUS
  <2>1. \A r \in Runs : done[r] \in 0..Len(PlanOf(r))
    BY PlanFacts DEF IInv, Types, RunInv, PlanOf
  <2>2. \A r \in Runs : \A i \in DOMAIN collections[r] :
            collections[r][i] \in DOMAIN CollectionId
    BY DEF IInv, Types
  <2>3. \A i \in DOMAIN writes : writes[i] \in Runs
    BY DEF IInv, Types
  <2> QED BY <2>1, <2>2, <2>3 DEF IInv, Types, DeploymentTypeOK
<1> QED BY <1>1, InitIInv, StepIInv, PTL DEF Spec

(* deployed.json never mixes two deployments in the section of a network   *)
(* (deploy_contract.ts:652), however runs overlap and wherever they stop.  *)
THEOREM FileNeverMixesHolds == Spec => []FileNeverMixes
<1>1. IInv => FileNeverMixes
  BY DEF IInv
<1> QED BY <1>1, InitIInv, StepIInv, PTL DEF Spec

----------------------------------------------------------------------------
(* What a run has listed and nobody may have undone since is in the file,  *)
(* and in the copy of every run that read the file after it and does not   *)
(* list the same network itself.                                           *)
WritersFinished == \A i \in DOMAIN writes : phase[writes[i]] = "finished"
ReadsPast == \A s \in Runs : readAt[s] <= Len(writes)
ListsAnew(s, r) == answers[s].isUpdate /\ answers[s].network = answers[r].network
CopyKept(s) ==
    phase[s] = "deploying" =>
        \A i \in 1..readAt[s] :
            ( /\ answers[writes[i]].isUpdate
              /\ \A j \in (i + 1)..readAt[s] : ~MayUndo(i, j)
              /\ ~ListsAnew(s, writes[i]) )
            => \A c \in Recorded(answers[writes[i]].isTesting) :
                   deployed[s][c][answers[writes[i]].network] = writes[i]

KInv ==
    /\ IInv
    /\ WritersFinished
    /\ ReadsPast
    /\ SerialWritesKept
    /\ \A s \in Runs : CopyKept(s)

(* What a run lists are contracts deployed.json has entries for.           *)
LEMMA RecordedFacts == \A t : Recorded(t) \subseteq ContractType
BY DEF Recorded

(* The writes so far are those of runs.                                    *)
LEMMA WritesFacts ==
    ASSUME Types
    PROVE  /\ Len(writes) \in Nat /\ DOMAIN writes = 1..Len(writes)
           /\ \A i \in 1..Len(writes) : writes[i] \in Runs
BY DEF Types

(* Nothing has been written at the start.                                  *)
LEMMA InitKInv == Init => KInv
<1> SUFFICES ASSUME Init PROVE KInv
  OBVIOUS
<1>1. IInv
  BY InitIInv
<1>2. writes = << >> /\ \A s \in Runs : phase[s] = "new" /\ readAt[s] = 0
  BY DEF Init
<1>3. WritersFinished /\ ReadsPast /\ SerialWritesKept
  BY <1>2 DEF WritersFinished, ReadsPast, SerialWritesKept
<1>4. \A s \in Runs : CopyKept(s)
  BY <1>2 DEF CopyKept
<1> QED BY <1>1, <1>3, <1>4 DEF KInv

(* A run that starts copies a file that holds what nobody may have undone. *)
LEMMA StartKept ==
    ASSUME KInv, NEW s \in Runs, NEW a \in Answers, Start(s, a)
    PROVE  KInv'
<1>1. IInv'
  BY StartStep DEF KInv
<1>2. /\ Types /\ phase[s] = "new" /\ writes' = writes /\ file' = file
      /\ Len(writes) \in Nat /\ DOMAIN writes = 1..Len(writes)
  BY WritesFacts DEF KInv, IInv, Start
<1>3. \A i \in 1..Len(writes) : writes[i] \in Runs /\ writes[i] # s
  BY <1>2, WritesFacts DEF KInv, WritersFinished
<1>4. \A q \in Runs : q # s => /\ phase'[q] = phase[q] /\ answers'[q] = answers[q]
                              /\ readAt'[q] = readAt[q] /\ deployed'[q] = deployed[q]
  BY <1>2 DEF Types, Start
<1>5. \A i, j \in 1..Len(writes) : MayUndo(i, j)' <=> MayUndo(i, j)
  BY <1>2, <1>3, <1>4 DEF MayUndo
<1>6. WritersFinished'
  BY <1>2, <1>3, <1>4 DEF KInv, WritersFinished
<1>7. readAt'[s] = Len(writes) /\ deployed'[s] = file
  BY <1>2 DEF Types, Start
<1>8. ReadsPast'
  BY <1>2, <1>4, <1>7 DEF KInv, ReadsPast
<1>9. SerialWritesKept'
  BY <1>2, <1>3, <1>4, <1>5 DEF KInv, SerialWritesKept
<1>10. ASSUME NEW q \in Runs PROVE CopyKept(q)'
  <2>1. CASE q = s
    <3> SUFFICES ASSUME NEW i \in 1..Len(writes), answers'[writes[i]].isUpdate,
                        \A j \in (i + 1)..Len(writes) : ~MayUndo(i, j)'
                 PROVE  \A c \in Recorded(answers'[writes[i]].isTesting) :
                            file[c][answers'[writes[i]].network] = writes[i]
      BY <1>2, <1>7, <2>1 DEF CopyKept
    <3>1. answers'[writes[i]] = answers[writes[i]]
      BY <1>3, <1>4
    <3>2. \A j \in (i + 1)..Len(writes) : ~MayUndo(i, j)
      BY <1>2, <1>5
    <3> QED BY <1>2, <3>1, <3>2 DEF KInv, SerialWritesKept
  <2>2. CASE q # s
    <3>1. CopyKept(q) /\ readAt[q] \in Nat /\ readAt[q] <= Len(writes)
      BY <1>2 DEF KInv, ReadsPast, Types
    <3> QED BY <1>2, <1>3, <1>4, <1>5, <2>2, <3>1 DEF CopyKept, ListsAnew
  <2> QED BY <2>1, <2>2
<1> QED BY <1>1, <1>6, <1>8, <1>9, <1>10 DEF KInv

\* The file g has the entries of f, but for what s lists anew.
OthersSame(s, f, g) ==
    \A c \in ContractType, n \in Networks :
        ~(answers[s].isUpdate /\ n = answers[s].network) => g[c][n] = f[c][n]

(* A run that deploys or adds a collection changes its copy at most in the *)
(* network it lists anew.                                                  *)
LEMMA CopyStepKept ==
    ASSUME KInv, IInv', NEW s \in Runs, NEW g,
           phase' = phase, answers' = answers, readAt' = readAt,
           file' = file, writes' = writes,
           deployed' = [deployed EXCEPT ![s] = g],
           OthersSame(s, deployed[s], g)
    PROVE  KInv'
<1>1. /\ Len(writes) \in Nat /\ DOMAIN writes = 1..Len(writes)
      /\ \A i \in 1..Len(writes) : writes[i] \in Runs
  BY WritesFacts DEF KInv, IInv
<1>2. WritersFinished' /\ ReadsPast'
  BY DEF KInv, WritersFinished, ReadsPast
<1>3. \A i, j : MayUndo(i, j)' <=> MayUndo(i, j)
  BY DEF MayUndo
<1>4. SerialWritesKept'
  BY <1>3 DEF KInv, SerialWritesKept
<1>5. ASSUME NEW q \in Runs PROVE CopyKept(q)'
  <2>1. CopyKept(q) /\ readAt[q] \in Nat /\ readAt[q] <= Len(writes)
    BY DEF KInv, IInv, Types, ReadsPast
  <2>2. CASE q # s
    <3>1. deployed'[q] = deployed[q]
      BY <2>2 DEF KInv, IInv, Types
    <3> QED BY <1>3, <2>1, <3>1 DEF CopyKept, ListsAnew
  <2>3. CASE q = s
    <3>1. deployed'[q] = g
      BY <2>3 DEF KInv, IInv, Types
    <3> SUFFICES ASSUME phase[s] = "deploying", NEW i \in 1..readAt[s],
                        answers[writes[i]].isUpdate,
                        \A j \in (i + 1)..readAt[s] : ~MayUndo(i, j),
                        ~ListsAnew(s, writes[i]),
                        NEW c \in Recorded(answers[writes[i]].isTesting)
                 PROVE  g[c][answers[writes[i]].network] = writes[i]
      BY <1>3, <2>3, <3>1 DEF CopyKept, ListsAnew
    <3>2. c \in ContractType /\ answers[writes[i]].network \in Networks
      BY <1>1, <2>1, <2>3, RecordedFacts, AnswersFacts DEF KInv, IInv, Types
    <3>3. deployed[s][c][answers[writes[i]].network] = writes[i]
      BY <2>1, <2>3 DEF CopyKept
    <3> QED BY <3>2, <3>3 DEF ListsAnew, OthersSame
  <2> QED BY <2>2, <2>3
<1> QED BY <1>2, <1>4, <1>5 DEF KInv

(* Deploying a row changes the copy of one run, in its own network.        *)
LEMMA DeployKept ==
    ASSUME KInv, NEW s \in Runs, Deploy(s)
    PROVE  KInv'
<1> DEFINE name == PlanOf(s)[done[s] + 1].name
<1>1. IInv'
  BY DeployStep DEF KInv
<1>2. /\ phase' = phase /\ answers' = answers /\ readAt' = readAt
      /\ file' = file /\ writes' = writes
  BY DEF Deploy
<1>3. CASE name \in DOMAIN CollectionId
  <2>1. deployed' = [deployed EXCEPT ![s] = deployed[s]]
    BY <1>3 DEF Deploy, KInv, IInv, Types
  <2>2. OthersSame(s, deployed[s], deployed[s])
    BY DEF OthersSame
  <2> QED BY <1>1, <1>2, <2>1, <2>2, CopyStepKept, Zenon
<1>4. CASE name \notin DOMAIN CollectionId
  <2> PICK g : g = Noted(s, name)
    OBVIOUS
  <2>1. deployed' = [deployed EXCEPT ![s] = g]
    BY <1>4 DEF Deploy
  <2>2. OthersSame(s, deployed[s], g)
    BY NotedFacts DEF KInv, IInv, OthersSame
  <2> QED BY <1>1, <1>2, <2>1, <2>2, CopyStepKept, Zenon
<1> QED BY <1>3, <1>4

(* So does adding a collection.                                            *)
LEMMA AddCollectionKept ==
    ASSUME KInv, NEW s \in Runs, AddCollection(s)
    PROVE  KInv'
<1> DEFINE name == PlanOf(s)[done[s]].name
<1> PICK g : g = Noted(s, name)
  OBVIOUS
<1>1. IInv'
  BY AddCollectionStep DEF KInv
<1>2. /\ phase' = phase /\ answers' = answers /\ readAt' = readAt
      /\ file' = file /\ writes' = writes
      /\ deployed' = [deployed EXCEPT ![s] = g]
  BY DEF AddCollection
<1>3. OthersSame(s, deployed[s], g)
  BY NotedFacts DEF KInv, IInv, OthersSame
<1> QED BY <1>1, <1>2, <1>3, CopyStepKept, Zenon

(* A run that stops promises nothing and writes nothing.                   *)
LEMMA StopKept ==
    ASSUME KInv, NEW s \in Runs, Stop(s)
    PROVE  KInv'
<1>1. IInv'
  BY StopStep DEF KInv
<1>2. UNCHANGED <<answers, readAt, file, writes>>
  BY DEF Stop
<1>3. \A q \in Runs : q # s => phase'[q] = phase[q] /\ deployed'[q] = deployed[q]
  BY DEF Stop, KInv, IInv, Types
<1>4. \A i \in 1..Len(writes) : writes[i] # s
  BY WritesFacts DEF Stop, KInv, IInv, WritersFinished
<1>5. WritersFinished' /\ ReadsPast'
  BY <1>2, <1>3, <1>4, WritesFacts DEF KInv, IInv, WritersFinished, ReadsPast
<1>6. \A i, j : MayUndo(i, j)' <=> MayUndo(i, j)
  BY <1>2 DEF MayUndo
<1>7. SerialWritesKept'
  BY <1>2, <1>6 DEF KInv, SerialWritesKept
<1>8. ASSUME NEW q \in Runs PROVE CopyKept(q)'
  <2>1. CASE q = s
    <3>1. phase'[s] = "stopped"
      BY DEF Stop, KInv, IInv, Types
    <3> QED BY <2>1, <3>1 DEF CopyKept
  <2>2. CASE q # s
    BY <1>2, <1>3, <1>6, <2>2 DEF KInv, CopyKept, ListsAnew
  <2> QED BY <2>1, <2>2
<1> QED BY <1>1, <1>5, <1>7, <1>8 DEF KInv

(* The copy that is written back holds all that nobody undid since it was  *)
(* read, and all that its run has listed.                                  *)
LEMMA WriteFileKept ==
    ASSUME KInv, NEW s \in Runs, WriteFile(s)
    PROVE  KInv'
<1>1. IInv'
  BY WriteFileStep DEF KInv
<1>2. /\ answers' = answers /\ readAt' = readAt /\ file' = deployed[s]
      /\ writes' = Append(writes, s) /\ phase[s] = "deploying"
  BY DEF WriteFile
<1>3. /\ Len(writes) \in Nat /\ DOMAIN writes = 1..Len(writes)
      /\ \A i \in 1..Len(writes) : writes[i] \in Runs /\ writes[i] # s
  BY <1>2, WritesFacts DEF KInv, IInv, WritersFinished
<1>4. /\ Len(writes') = Len(writes) + 1 /\ DOMAIN writes' = 1..(Len(writes) + 1)
      /\ writes'[Len(writes) + 1] = s
      /\ \A i \in 1..Len(writes) : writes'[i] = writes[i]
  BY <1>2 DEF KInv, IInv, Types
<1>5. /\ phase'[s] = "finished"
      /\ \A q \in Runs : q # s => phase'[q] = phase[q] /\ deployed'[q] = deployed[q]
  BY DEF WriteFile, KInv, IInv, Types
<1>6. WritersFinished'
  BY <1>3, <1>4, <1>5 DEF KInv, WritersFinished
<1>7. ReadsPast'
  BY <1>2, <1>3, <1>4 DEF KInv, IInv, Types, ReadsPast
<1>8. \A i, j \in 1..Len(writes) : MayUndo(i, j)' <=> MayUndo(i, j)
  BY <1>2, <1>4 DEF MayUndo
<1> PICK last \in Nat : last = Len(writes) + 1
  BY <1>3
<1>9. readAt[s] \in Nat /\ readAt[s] <= Len(writes)
  BY DEF KInv, IInv, Types, ReadsPast
<1>10. ASSUME NEW i \in 1..last, answers[writes'[i]].isUpdate,
              \A j \in (i + 1)..last : ~MayUndo(i, j)',
              NEW c \in Recorded(answers[writes'[i]].isTesting)
       PROVE  deployed[s][c][answers[writes'[i]].network] = writes'[i]
  <2>1. CASE i = last
    <3>1. writes'[i] = s
      BY <1>4, <2>1
    <3>2. done[s] = Len(PlanOf(s)) /\ ~AwaitsCollection(s) /\ IInv
      BY DEF WriteFile, KInv
    <3> QED BY <1>2, <1>10, <3>1, <3>2, ListedAll
  <2>2. CASE i \in 1..Len(writes)
    <3>1. writes'[i] = writes[i] /\ ~MayUndo(i, last)'
      BY <1>3, <1>4, <1>10, <2>2
    <3>2. i <= readAt[s] /\ ~ListsAnew(s, writes[i])
      BY <1>2, <1>4, <1>9, <2>2, <3>1 DEF MayUndo, ListsAnew
    <3>3. \A j \in (i + 1)..readAt[s] : ~MayUndo(i, j)
      BY <1>3, <1>8, <1>9, <1>10, <2>2
    <3>4. CopyKept(s) /\ i \in 1..readAt[s]
      BY <1>9, <2>2, <3>2 DEF KInv
    <3> QED BY <1>2, <1>10, <3>1, <3>2, <3>3, <3>4 DEF CopyKept
  <2> QED BY <1>3, <1>10, <2>1, <2>2
<1>11. SerialWritesKept'
  <2>1. Len(writes') = last /\ DOMAIN writes' = 1..last
    BY <1>4
  <2>2. SUFFICES ASSUME NEW i \in 1..last, answers[writes'[i]].isUpdate,
                        \A j \in (i + 1)..last : ~MayUndo(i, j)'
                 PROVE  \A c \in Recorded(answers[writes'[i]].isTesting) :
                            deployed[s][c][answers[writes'[i]].network] = writes'[i]
    BY <1>2, <2>1 DEF SerialWritesKept
  <2> QED BY <1>10, <2>2
<1>12. ASSUME NEW q \in Runs PROVE CopyKept(q)'
  <2>1. CASE q = s
    BY <1>5, <2>1 DEF CopyKept
  <2>2. CASE q # s
    <3>1. CopyKept(q) /\ readAt[q] \in Nat /\ readAt[q] <= Len(writes)
      BY DEF KInv, IInv, Types, ReadsPast
    <3> QED BY <1>2, <1>3, <1>4, <1>5, <1>8, <2>2, <3>1 DEF CopyKept, ListsAnew
  <2> QED BY <2>1, <2>2
<1> QED BY <1>1, <1>6, <1>7, <1>11, <1>12 DEF KInv

(* Every step of a run keeps what nobody may have undone.                  *)
LEMMA StepKInv == KInv /\ [Next]_vars => KInv'
<1> SUFFICES ASSUME KInv, [Next]_vars PROVE KInv'
  OBVIOUS
<1>1. ASSUME NEW s \in Runs, NEW a \in Answers, Start(s, a) PROVE KInv'
  BY <1>1, StartKept
<1>2. ASSUME NEW s \in Runs, Deploy(s) PROVE KInv'
  BY <1>2, DeployKept
<1>3. ASSUME NEW s \in Runs, AddCollection(s) PROVE KInv'
  BY <1>3, AddCollectionKept
<1>4. ASSUME NEW s \in Runs, WriteFile(s) PROVE KInv'
  BY <1>4, WriteFileKept
<1>5. ASSUME NEW s \in Runs, Stop(s) PROVE KInv'
  BY <1>5, StopKept
<1>6. CASE UNCHANGED vars
  <2>1. IInv'
    BY <1>6, StepIInv DEF KInv
  <2>2. WritersFinished' /\ ReadsPast'
    BY <1>6 DEF KInv, vars, WritersFinished, ReadsPast
  <2>3. SerialWritesKept'
    BY <1>6 DEF KInv, vars, SerialWritesKept, MayUndo
  <2>4. \A q \in Runs : CopyKept(q)'
    BY <1>6 DEF KInv, vars, CopyKept, MayUndo, ListsAnew
  <2> QED BY <2>1, <2>2, <2>3, <2>4 DEF KInv
<1> QED BY <1>1, <1>2, <1>3, <1>4, <1>5, <1>6 DEF Next

(* Whatever the runs and however they overlap, what a run listed is undone *)
(* only by a run that lists the network anew, or that had read the file    *)
(* before it was listed (deploy_contract.ts:49 and :652).                  *)
THEOREM SerialWritesKeptHolds == Spec => []SerialWritesKept
<1>1. KInv => SerialWritesKept
  BY DEF KInv
<1> QED BY <1>1, InitKInv, StepKInv, PTL DEF Spec

----------------------------------------------------------------------------
(* The rows of a sequence, and where those of a concatenation are.         *)
Rows(s) == {s[i] : i \in DOMAIN s}

(* Where the elements of a concatenation are, and its rows.                *)
LEMMA ConcatFacts ==
    ASSUME NEW s, NEW t, IsSequence(s), IsSequence(t)
    PROVE  /\ IsSequence(s \o t)
           /\ Len(s) \in Nat /\ Len(t) \in Nat
           /\ Len(s \o t) = Len(s) + Len(t)
           /\ \A i \in 1..Len(s) : (s \o t)[i] = s[i]
           /\ \A i \in 1..Len(t) : (s \o t)[Len(s) + i] = t[i]
           /\ Rows(s \o t) = Rows(s) \union Rows(t)
<1>1. PICK S : s \in Seq(S)
  BY DEF IsSequence
<1>2. PICK T : t \in Seq(T)
  BY DEF IsSequence
<1>3. s \in Seq(S \union T) /\ t \in Seq(S \union T)
  BY <1>1, <1>2
<1>4. /\ s \o t \in Seq(S \union T)
      /\ Len(s) \in Nat /\ Len(t) \in Nat
      /\ DOMAIN s = 1..Len(s) /\ DOMAIN t = 1..Len(t)
      /\ Len(s \o t) = Len(s) + Len(t)
      /\ DOMAIN (s \o t) = 1..(Len(s) + Len(t))
      /\ \A i \in 1..Len(s) : (s \o t)[i] = s[i]
      /\ \A i \in 1..Len(t) : (s \o t)[Len(s) + i] = t[i]
  BY <1>3
<1>5. \A i \in 1..(Len(s) + Len(t)) :
          i \in 1..Len(s) \/ \E j \in 1..Len(t) : i = Len(s) + j
  <2>1. \A i \in 1..(Len(s) + Len(t)) : i \in 1..Len(s) \/ i - Len(s) \in 1..Len(t)
    BY <1>4
  <2>2. \A i \in 1..(Len(s) + Len(t)) : i = Len(s) + (i - Len(s))
    BY <1>4
  <2> QED BY <2>1, <2>2
<1>6. /\ \A i \in 1..Len(s) : i \in 1..(Len(s) + Len(t))
      /\ \A j \in 1..Len(t) : Len(s) + j \in 1..(Len(s) + Len(t))
  BY <1>4
<1>7. Rows(s \o t) \subseteq Rows(s) \union Rows(t)
  BY <1>4, <1>5, SMTT(30) DEF Rows
<1>8. Rows(s) \subseteq Rows(s \o t) /\ Rows(t) \subseteq Rows(s \o t)
  BY <1>4, <1>6 DEF Rows
<1>9. IsSequence(s \o t)
  BY <1>4 DEF IsSequence
<1> QED BY <1>4, <1>7, <1>8, <1>9, Zenon

(* The length, the elements and the rows of a literal tuple.               *)
LEMMA TupleRows ==
    /\ Len(<< >>) = 0 /\ Rows(<< >>) = {}
    /\ \A a : Len(<<a>>) = 1 /\ <<a>>[1] = a /\ Rows(<<a>>) = {a}
    /\ \A a, b : Len(<<a, b>>) = 2 /\ <<a, b>>[1] = a /\ <<a, b>>[2] = b /\ Rows(<<a, b>>) = {a, b}
    /\ \A a, b, c : /\ Len(<<a, b, c>>) = 3 /\ <<a, b, c>>[1] = a /\ <<a, b, c>>[2] = b
                    /\ <<a, b, c>>[3] = c /\ Rows(<<a, b, c>>) = {a, b, c}
    /\ \A a, b, c, d : Len(<<a, b, c, d>>) = 4 /\ Rows(<<a, b, c, d>>) = {a, b, c, d}
    /\ \A a, b, c, d, e : Len(<<a, b, c, d, e>>) = 5 /\ Rows(<<a, b, c, d, e>>) = {a, b, c, d, e}
<1>1. Len(<< >>) = 0 /\ Rows(<< >>) = {}
  BY DEF Rows
<1>2. \A a : Len(<<a>>) = 1 /\ <<a>>[1] = a /\ Rows(<<a>>) = {a}
  BY DEF Rows
<1>3. \A a, b : Len(<<a, b>>) = 2 /\ <<a, b>>[1] = a /\ <<a, b>>[2] = b /\ Rows(<<a, b>>) = {a, b}
  BY DEF Rows
<1>4. \A a, b, c : /\ Len(<<a, b, c>>) = 3 /\ <<a, b, c>>[1] = a /\ <<a, b, c>>[2] = b
                    /\ <<a, b, c>>[3] = c /\ Rows(<<a, b, c>>) = {a, b, c}
  BY DEF Rows
<1>5. \A a, b, c, d : Len(<<a, b, c, d>>) = 4 /\ Rows(<<a, b, c, d>>) = {a, b, c, d}
  BY DEF Rows
<1>6. \A a, b, c, d, e : Len(<<a, b, c, d, e>>) = 5 /\ Rows(<<a, b, c, d, e>>) = {a, b, c, d, e}
  BY DEF Rows
<1> QED BY <1>1, <1>2, <1>3, <1>4, <1>5, <1>6

(* The rows of the plan, and where the rows of the collections are in it.  *)
Order == <<"ShadowMonarch", "EssenceStone", "Monster", "ShadowArmy", "GateKey",
           "LegendaryScene", "SeasonScore">>
Front(t) == CoreRows \o UsdRows(t) \o GameRows(t) \o AccessRows

(* The rows before the collections are those of the four parts.            *)
LEMMA FrontFacts ==
    ASSUME NEW t \in BOOLEAN
    PROVE  /\ IsSequence(Front(t))
           /\ Rows(Front(t)) = Rows(CoreRows) \union Rows(UsdRows(t))
                                  \union Rows(GameRows(t)) \union Rows(AccessRows)
<1>1. IsSequence(CoreRows)
  BY TuplesAreSequences, Zenon DEF CoreRows
<1>2. IsSequence(UsdRows(t))
  <2>1. UsdRows(t) = << >> \/ UsdRows(t) = << Row("TestUSDC", {}, {}, {}) >>
    BY Zenon DEF UsdRows
  <2> QED BY <2>1, TuplesAreSequences, Zenon
<1>3. IsSequence(GameRows(t))
  BY TuplesAreSequences, Zenon DEF GameRows
<1>4. IsSequence(AccessRows)
  BY TuplesAreSequences, Zenon DEF AccessRows
<1> PICK c, u, g, a : c = CoreRows /\ u = UsdRows(t) /\ g = GameRows(t) /\ a = AccessRows
  OBVIOUS
<1>5. Front(t) = ((c \o u) \o g) \o a
  BY Zenon DEF Front
<1>0. IsSequence(c) /\ IsSequence(u) /\ IsSequence(g) /\ IsSequence(a)
  BY <1>1, <1>2, <1>3, <1>4
<1>6. IsSequence(c \o u) /\ Rows(c \o u) = Rows(c) \union Rows(u)
  BY <1>0, ConcatFacts, Zenon
<1>7. IsSequence((c \o u) \o g) /\ Rows((c \o u) \o g) = Rows(c \o u) \union Rows(g)
  BY <1>0, <1>6, ConcatFacts, Zenon
<1>8. /\ IsSequence(((c \o u) \o g) \o a)
      /\ Rows(((c \o u) \o g) \o a) = Rows((c \o u) \o g) \union Rows(a)
  BY <1>0, <1>7, ConcatFacts, Zenon
<1> QED BY <1>5, <1>6, <1>7, <1>8

PartsOf(p, b, f, g, m, s) ==
    /\ b \in Nat /\ Len(p) = b + 7
    /\ \A i \in 1..b : p[i] = f[i]
    /\ \A i \in 1..3 : p[b + i] = g[i]
    /\ \A i \in 1..2 : p[b + 3 + i] = m[i]
    /\ \A i \in 1..2 : p[b + 5 + i] = s[i]
    /\ Rows(p) = Rows(f) \union Rows(g) \union Rows(m) \union Rows(s)

(* Where the elements of four sequences one after the other are.           *)
LEMMA FourParts ==
    ASSUME NEW f, NEW g, NEW m, NEW s,
           IsSequence(f), IsSequence(g), IsSequence(m), IsSequence(s),
           Len(g) = 3, Len(m) = 2, Len(s) = 2
    PROVE  PartsOf(((f \o g) \o m) \o s, Len(f), f, g, m, s)
<1> DEFINE C(x, y, xy) ==
      /\ IsSequence(xy) /\ Len(x) \in Nat /\ Len(xy) = Len(x) + Len(y)
      /\ \A i \in 1..Len(x) : xy[i] = x[i]
      /\ \A i \in 1..Len(y) : xy[Len(x) + i] = y[i]
      /\ Rows(xy) = Rows(x) \union Rows(y)
<1>0. ASSUME NEW x, NEW y, IsSequence(x), IsSequence(y) PROVE C(x, y, x \o y)
  BY <1>0, ConcatFacts
<1>1. PICK fg : fg = f \o g
  OBVIOUS
<1>2. PICK fgm : fgm = fg \o m
  OBVIOUS
<1>3. PICK p : p = fgm \o s
  OBVIOUS
<1> HIDE DEF C
<1>4. C(f, g, fg)
  BY <1>0, <1>1
<1>5. IsSequence(fg)
  BY <1>4 DEF C
<1>6. C(fg, m, fgm)
  BY <1>0, <1>2, <1>5
<1>7. IsSequence(fgm)
  BY <1>6 DEF C
<1>8. C(fgm, s, p)
  BY <1>0, <1>3, <1>7
<1> PICK b \in Nat : b = Len(f)
  BY <1>4 DEF C
<1>9. Len(fg) = b + 3 /\ Len(fgm) = b + 5 /\ Len(p) = b + 7
  BY <1>4, <1>6, <1>8 DEF C
<1>10. /\ \A i \in 1..(b + 5) : p[i] = fgm[i]
       /\ \A i \in 1..2 : p[b + 5 + i] = s[i]
  BY <1>8, <1>9 DEF C
<1>11. /\ \A i \in 1..(b + 3) : fgm[i] = fg[i]
       /\ \A i \in 1..2 : fgm[b + 3 + i] = m[i]
  BY <1>6, <1>9 DEF C
<1>12. /\ \A i \in 1..b : fg[i] = f[i]
       /\ \A i \in 1..3 : fg[b + i] = g[i]
  BY <1>4 DEF C
<1>13. /\ \A i \in 1..b : i \in 1..(b + 5) /\ i \in 1..(b + 3)
       /\ \A i \in 1..3 : b + i \in 1..(b + 5) /\ b + i \in 1..(b + 3)
       /\ \A i \in 1..2 : b + 3 + i \in 1..(b + 5)
  OBVIOUS
<1>14. /\ \A i \in 1..b : p[i] = f[i]
       /\ \A i \in 1..3 : p[b + i] = g[i]
       /\ \A i \in 1..2 : p[b + 3 + i] = m[i]
  BY <1>10, <1>11, <1>12, <1>13, ZenonT(30)
<1>15. Rows(p) = Rows(f) \union Rows(g) \union Rows(m) \union Rows(s)
  BY <1>4, <1>6, <1>8, Zenon DEF C
<1>16. p = ((f \o g) \o m) \o s
  BY <1>1, <1>2, <1>3
<1> QED BY <1>9, <1>10, <1>14, <1>15, <1>16, Zenon DEF PartsOf

(* The plan is its front and then seven rows in three parts.               *)
LEMMA PlanParts ==
    ASSUME NEW t \in BOOLEAN
    PROVE  /\ PartsOf(Plan(t), Len(Front(t)), Front(t), GameCollectionRows,
                      MarketCollectionRows(t), SeasonCollectionRows)
           /\ IsSequence(Front(t)) /\ DOMAIN Front(t) = 1..Len(Front(t))
<1>1. IsSequence(Front(t))
  BY FrontFacts
<1>2. IsSequence(GameCollectionRows) /\ Len(GameCollectionRows) = 3
  BY TuplesAreSequences, TupleRows, Zenon DEF GameCollectionRows
<1>3. IsSequence(MarketCollectionRows(t)) /\ Len(MarketCollectionRows(t)) = 2
  BY TuplesAreSequences, TupleRows, Zenon DEF MarketCollectionRows
<1>4. IsSequence(SeasonCollectionRows) /\ Len(SeasonCollectionRows) = 2
  BY TuplesAreSequences, TupleRows, Zenon DEF SeasonCollectionRows
<1>5. Plan(t) = ((Front(t) \o GameCollectionRows) \o MarketCollectionRows(t))
                    \o SeasonCollectionRows
  BY Zenon DEF Plan, Front
<1>6. DOMAIN Front(t) = 1..Len(Front(t))
  BY <1>1 DEF IsSequence
<1> QED BY <1>1, <1>2, <1>3, <1>4, <1>5, <1>6, FourParts, Zenon

(* The rows the contracts of the game are deployed by, and what of the     *)
(* collections they let in.                                                *)
LEMMA FrontRows ==
    ASSUME NEW t \in BOOLEAN, NEW row \in Rows(Front(t))
    PROVE  /\ row.name \notin DOMAIN CollectionId
           /\ \A c \in row.ids : \E k \in 1..7 : Order[k] = c
           /\ row.name \in ProxyContracts \union {"RoleWallet", "TestUSDC", "ApprovalController"}
<1>1. \/ row \in Rows(CoreRows) \/ row \in Rows(UsdRows(t))
      \/ row \in Rows(GameRows(t)) \/ row \in Rows(AccessRows)
  BY FrontFacts
<1>2. \A k \in 1..7 : Order[k] \in {Order[j] : j \in 1..7}
  OBVIOUS
<1>3. Order[2] = "EssenceStone" /\ Order[3] = "Monster" /\ Order[4] = "ShadowArmy"
      /\ Order[5] = "GateKey" /\ Order[6] = "LegendaryScene" /\ Order[7] = "SeasonScore"
  BY DEF Order
<1>4. CASE row \in Rows(CoreRows)
  <2> PICK u, v, x, y, z : /\ u = Row("RoleWallet", {}, {}, {OperatorManager})
                           /\ v = Row("Project", {"RoleWallet"}, {}, {})
                           /\ x = Row("MonsterFactory", {"Project"}, {}, {})
                           /\ y = Row("Season", {"Project"}, {}, {})
                           /\ z = Row("Random", {"Project"}, {}, {})
    OBVIOUS
  <2>0. CoreRows = <<u, v, x, y, z>>
    BY DEF CoreRows
  <2>1. row = u \/ row = v \/ row = x \/ row = y \/ row = z
    BY <1>4, <2>0, TupleRows
  <2>2. row.name \in {"RoleWallet", "Project", "MonsterFactory", "Season", "Random"} /\ row.ids = {}
    BY <1>4, <2>1 DEF Row
  <2> QED BY <2>2 DEF CollectionId, ProxyContracts
<1>5. CASE row \in Rows(UsdRows(t))
  <2>1. Rows(UsdRows(t)) \subseteq {Row("TestUSDC", {}, {}, {})}
    BY TupleRows DEF UsdRows
  <2>2. row.name = "TestUSDC" /\ row.ids = {}
    BY <1>5, <2>1 DEF Row
  <2> QED BY <2>2 DEF CollectionId
<1>6. CASE row \in Rows(GameRows(t))
  <2> PICK u, v, x, y :
         /\ u = Row("Shop", {"Project"} \union UsdToken(t), {"GateKey", "EssenceStone"}, {})
         /\ v = Row("DungeonGate", {"Project", "Season", "Random", "Shop", "MonsterFactory"},
                    {"EssenceStone", "GateKey", "Monster"}, {})
         /\ x = Row("SeasonSettlement", {"Project", "Season", "DungeonGate"},
                    {"LegendaryScene", "SeasonScore"}, {})
         /\ y = Row("System", {"Project", "MonsterFactory", "Random"},
                    {"EssenceStone", "Monster", "ShadowArmy"}, {})
    OBVIOUS
  <2>0. GameRows(t) = <<u, v, x, y>>
    BY DEF GameRows
  <2>1. row = u \/ row = v \/ row = x \/ row = y
    BY <1>6, <2>0, TupleRows
  <2>2. /\ row.name \in {"Shop", "DungeonGate", "SeasonSettlement", "System"}
        /\ row.ids \subseteq {"GateKey", "EssenceStone", "Monster", "LegendaryScene",
                              "SeasonScore", "ShadowArmy"}
    BY <1>6, <2>1 DEF Row
  <2>3. row.name \notin DOMAIN CollectionId /\ row.name \in ProxyContracts
    BY <2>2 DEF CollectionId, ProxyContracts
  <2>4. \A c \in row.ids : \E k \in 1..7 : Order[k] = c
    BY <1>3, <2>2
  <2> QED BY <2>3, <2>4
<1>7. CASE row \in Rows(AccessRows)
  <2>1. Rows(AccessRows) = {Row("ApprovalController", {"Project"}, {}, ApprovedContracts)}
    BY TupleRows, Zenon DEF AccessRows
  <2>2. row.name = "ApprovalController" /\ row.ids = {}
    BY <1>7, <2>1 DEF Row
  <2> QED BY <2>2 DEF CollectionId
<1> QED BY <1>1, <1>4, <1>5, <1>6, <1>7

(* The collections of the game come last and in the order of their ids.    *)
LEMMA PlanOrder ==
    ASSUME NEW t \in BOOLEAN
    PROVE  LET b == Len(Front(t)) IN
           /\ b \in Nat /\ Len(Plan(t)) = b + 7 /\ DOMAIN Plan(t) = 1..(b + 7)
           /\ \A i \in 1..b : Plan(t)[i].name \notin DOMAIN CollectionId
           /\ \A k \in 1..7 : Plan(t)[b + k].name = Order[k]
<1> PICK b : b = Len(Front(t))
  OBVIOUS
<1>1. PartsOf(Plan(t), b, Front(t), GameCollectionRows, MarketCollectionRows(t),
              SeasonCollectionRows)
  BY PlanParts
<1>2. b \in Nat /\ Len(Plan(t)) = b + 7 /\ DOMAIN Plan(t) = 1..(b + 7)
  BY <1>1, PlanFacts DEF PartsOf
<1>3. \A i \in 1..b : Plan(t)[i].name \notin DOMAIN CollectionId
  <2> SUFFICES ASSUME NEW i \in 1..b PROVE Plan(t)[i].name \notin DOMAIN CollectionId
    OBVIOUS
  <2>1. Plan(t)[i] = Front(t)[i]
    BY <1>1 DEF PartsOf
  <2>2. Front(t)[i] \in Rows(Front(t))
    BY PlanParts DEF Rows
  <2> QED BY <2>1, <2>2, FrontRows
<1>4. /\ GameCollectionRows[1].name = "ShadowMonarch"
      /\ GameCollectionRows[2].name = "EssenceStone"
      /\ GameCollectionRows[3].name = "Monster"
  BY DEF GameCollectionRows, Collection, Row
<1>5. MarketCollectionRows(t)[1].name = "ShadowArmy" /\ MarketCollectionRows(t)[2].name = "GateKey"
  BY DEF MarketCollectionRows, Collection, Row
<1>6. SeasonCollectionRows[1].name = "LegendaryScene" /\ SeasonCollectionRows[2].name = "SeasonScore"
  BY DEF SeasonCollectionRows, Collection, Row
<1>7. /\ \A i \in 1..3 : Plan(t)[b + i].name = GameCollectionRows[i].name
      /\ \A i \in 1..2 : Plan(t)[b + 3 + i].name = MarketCollectionRows(t)[i].name
      /\ \A i \in 1..2 : Plan(t)[b + 5 + i].name = SeasonCollectionRows[i].name
  BY <1>1 DEF PartsOf
<1>8. /\ Order[1] = "ShadowMonarch" /\ Order[2] = "EssenceStone" /\ Order[3] = "Monster"
      /\ Order[4] = "ShadowArmy" /\ Order[5] = "GateKey"
      /\ Order[6] = "LegendaryScene" /\ Order[7] = "SeasonScore"
  BY DEF Order
<1>9. b + 4 = b + 3 + 1 /\ b + 5 = b + 3 + 2 /\ b + 6 = b + 5 + 1 /\ b + 7 = b + 5 + 2
  BY <1>2
<1>10. /\ Plan(t)[b + 1].name = Order[1] /\ Plan(t)[b + 2].name = Order[2]
       /\ Plan(t)[b + 3].name = Order[3] /\ Plan(t)[b + 3 + 1].name = Order[4]
       /\ Plan(t)[b + 3 + 2].name = Order[5] /\ Plan(t)[b + 5 + 1].name = Order[6]
       /\ Plan(t)[b + 5 + 2].name = Order[7]
  BY <1>4, <1>5, <1>6, <1>7, <1>8
<1>11. ASSUME NEW k \in 1..7 PROVE Plan(t)[b + k].name = Order[k]
  <2>1. k = 1 \/ k = 2 \/ k = 3 \/ k = 4 \/ k = 5 \/ k = 6 \/ k = 7
    OBVIOUS
  <2> QED BY <1>9, <1>10, <2>1
<1> QED BY <1>2, <1>3, <1>11

(* The rows of the two collections of the market, in a testing run or not. *)
LEMMA MarketRows ==
    ASSUME NEW t \in BOOLEAN
    PROVE  \E x, y :
              /\ MarketCollectionRows(t) = <<x, y>>
              /\ x.name = "ShadowArmy" /\ x.ids = {} /\ "System" \in x.grants
              /\ y.name = "GateKey" /\ y.ids = {} /\ "Shop" \in y.grants
<1> PICK g : g = IF t THEN {OperatorManager, "Shop"} ELSE {"Shop"}
  OBVIOUS
<1>1. "Shop" \in g
  OBVIOUS
<1> PICK x, y :
         /\ x = Collection("ShadowArmy", {"MonsterFactory", "ApprovalController"}, {"System"})
         /\ y = Collection("GateKey", {"ApprovalController"}, g)
  OBVIOUS
<1>2. MarketCollectionRows(t) = <<x, y>>
  BY Zenon DEF MarketCollectionRows
<1>3. x.name = "ShadowArmy" /\ x.ids = {} /\ x.grants = {"System"}
  BY DEF Collection, Row
<1>4. y.name = "GateKey" /\ y.ids = {} /\ y.grants = g
  BY DEF Collection, Row
<1> QED BY <1>1, <1>2, <1>3, <1>4

Submitted == ProxyContracts \union {"TestUSDC", "ApprovalController"}

(* The ids contracts were given are those of the seven collections of the  *)
(* game, and every contract is one that the verification submits.          *)
LEMMA PlanRows ==
    ASSUME NEW t \in BOOLEAN, NEW row \in Rows(Plan(t))
    PROVE  /\ \A c \in row.ids : \E k \in 1..7 : Order[k] = c
           /\ row.name \in ContractType => row.name \in Submitted
<1>1. \/ row \in Rows(Front(t)) \/ row \in Rows(GameCollectionRows)
      \/ row \in Rows(MarketCollectionRows(t)) \/ row \in Rows(SeasonCollectionRows)
  BY PlanParts DEF PartsOf
<1>2. CASE row \in Rows(Front(t))
  <2>1. "RoleWallet" \notin ContractType
    BY DEF ContractType
  <2> QED BY <1>2, <2>1, FrontRows DEF Submitted
<1>3. CASE row \in Rows(GameCollectionRows)
  <2> PICK x, y, z :
         /\ x = Collection("ShadowMonarch", {"ApprovalController"}, {})
         /\ y = Collection("EssenceStone", {"ApprovalController"}, {"System", "DungeonGate", "Shop"})
         /\ z = Collection("Monster", {"MonsterFactory", "ApprovalController"},
                           {"DungeonGate", "System"})
    OBVIOUS
  <2>1. GameCollectionRows = <<x, y, z>>
    BY DEF GameCollectionRows
  <2>2. row = x \/ row = y \/ row = z
    BY <1>3, <2>1, TupleRows
  <2>3. row.ids = {} /\ row.name \in {"ShadowMonarch", "EssenceStone", "Monster"}
    BY <2>2 DEF Collection, Row
  <2> QED BY <2>3 DEF Submitted, ProxyContracts
<1>4. CASE row \in Rows(MarketCollectionRows(t))
  <2>1. PICK x, y :
           /\ MarketCollectionRows(t) = <<x, y>>
           /\ x.name = "ShadowArmy" /\ x.ids = {} /\ "System" \in x.grants
           /\ y.name = "GateKey" /\ y.ids = {} /\ "Shop" \in y.grants
    BY MarketRows
  <2>2. row = x \/ row = y
    BY <1>4, <2>1, TupleRows
  <2>3. row.ids = {} /\ row.name \in {"ShadowArmy", "GateKey"}
    BY <2>1, <2>2
  <2> QED BY <2>3 DEF Submitted, ProxyContracts
<1>5. CASE row \in Rows(SeasonCollectionRows)
  <2> PICK x, y :
         /\ x = Collection("LegendaryScene", {"Season", "ApprovalController"}, {"SeasonSettlement"})
         /\ y = Collection("SeasonScore", {"Season"}, {"SeasonSettlement"})
    OBVIOUS
  <2>1. SeasonCollectionRows = <<x, y>>
    BY DEF SeasonCollectionRows
  <2>2. row = x \/ row = y
    BY <1>5, <2>1, TupleRows
  <2>3. row.ids = {} /\ row.name \in {"LegendaryScene", "SeasonScore"}
    BY <2>2 DEF Collection, Row
  <2> QED BY <2>3 DEF Submitted, ProxyContracts
<1> QED BY <1>1, <1>2, <1>3, <1>4, <1>5

(* Who the plan lets into a collection, or approves.                       *)
Grants(t, m, c) == \E row \in Rows(Plan(t)) : row.name = c /\ m \in row.grants

(* The plan lets in every contract that mints, and approves every one that *)
(* burns.                                                                  *)
LEMMA PlanGrants ==
    ASSUME NEW t \in BOOLEAN
    PROVE  /\ \A m \in {"System", "DungeonGate", "Shop"} : Grants(t, m, "EssenceStone")
           /\ \A m \in {"System", "DungeonGate"} : Grants(t, m, "Monster")
           /\ Grants(t, "System", "ShadowArmy")
           /\ Grants(t, "Shop", "GateKey")
           /\ Grants(t, "SeasonSettlement", "LegendaryScene")
           /\ Grants(t, "SeasonSettlement", "SeasonScore")
           /\ \A m \in {"System", "DungeonGate"} : Grants(t, m, "ApprovalController")
<1>1. /\ Rows(Front(t)) \subseteq Rows(Plan(t)) /\ Rows(GameCollectionRows) \subseteq Rows(Plan(t))
      /\ Rows(MarketCollectionRows(t)) \subseteq Rows(Plan(t))
      /\ Rows(SeasonCollectionRows) \subseteq Rows(Plan(t))
      /\ Rows(AccessRows) \subseteq Rows(Front(t))
  BY PlanParts, FrontFacts DEF PartsOf
<1>2. /\ \A m \in {"System", "DungeonGate", "Shop"} : Grants(t, m, "EssenceStone")
      /\ \A m \in {"System", "DungeonGate"} : Grants(t, m, "Monster")
  <2> PICK x, y, z :
         /\ x = Collection("ShadowMonarch", {"ApprovalController"}, {})
         /\ y = Collection("EssenceStone", {"ApprovalController"}, {"System", "DungeonGate", "Shop"})
         /\ z = Collection("Monster", {"MonsterFactory", "ApprovalController"},
                           {"DungeonGate", "System"})
    OBVIOUS
  <2>1. GameCollectionRows = <<x, y, z>>
    BY DEF GameCollectionRows
  <2>2. y \in Rows(Plan(t)) /\ z \in Rows(Plan(t))
    BY <1>1, <2>1, TupleRows
  <2>3. /\ y.name = "EssenceStone" /\ y.grants = {"System", "DungeonGate", "Shop"}
        /\ z.name = "Monster" /\ z.grants = {"DungeonGate", "System"}
    BY DEF Collection, Row
  <2> QED BY <2>2, <2>3 DEF Grants
<1>3. Grants(t, "System", "ShadowArmy") /\ Grants(t, "Shop", "GateKey")
  <2>1. PICK x, y :
           /\ MarketCollectionRows(t) = <<x, y>>
           /\ x.name = "ShadowArmy" /\ x.ids = {} /\ "System" \in x.grants
           /\ y.name = "GateKey" /\ y.ids = {} /\ "Shop" \in y.grants
    BY MarketRows
  <2>2. x \in Rows(Plan(t)) /\ y \in Rows(Plan(t))
    BY <1>1, <2>1, TupleRows
  <2> QED BY <2>1, <2>2 DEF Grants
<1>4. Grants(t, "SeasonSettlement", "LegendaryScene") /\ Grants(t, "SeasonSettlement", "SeasonScore")
  <2> PICK x, y :
         /\ x = Collection("LegendaryScene", {"Season", "ApprovalController"}, {"SeasonSettlement"})
         /\ y = Collection("SeasonScore", {"Season"}, {"SeasonSettlement"})
    OBVIOUS
  <2>1. SeasonCollectionRows = <<x, y>>
    BY DEF SeasonCollectionRows
  <2>2. x \in Rows(Plan(t)) /\ y \in Rows(Plan(t))
    BY <1>1, <2>1, TupleRows
  <2>3. /\ x.name = "LegendaryScene" /\ x.grants = {"SeasonSettlement"}
        /\ y.name = "SeasonScore" /\ y.grants = {"SeasonSettlement"}
    BY DEF Collection, Row
  <2> QED BY <2>2, <2>3 DEF Grants
<1>5. \A m \in {"System", "DungeonGate"} : Grants(t, m, "ApprovalController")
  <2> PICK x : x = Row("ApprovalController", {"Project"}, {}, ApprovedContracts)
    OBVIOUS
  <2>1. AccessRows = <<x>>
    BY DEF AccessRows
  <2>2. x \in Rows(Plan(t))
    BY <1>1, <2>1, TupleRows
  <2>3. x.name = "ApprovalController" /\ x.grants = {"Season", "DungeonGate", "System"}
    BY DEF Row, ApprovedContracts
  <2> QED BY <2>2, <2>3 DEF Grants
<1> QED BY <1>2, <1>3, <1>4, <1>5

(* Whoever mints or burns is let in by the plan.                           *)
LEMMA PlanRights == ASSUME NEW r \in Runs, Types PROVE RightsComplete(r)
<1> PICK t \in BOOLEAN : t = answers[r].isTesting
  BY AnswersFacts DEF Types
<1>1. ASSUME NEW m, NEW c, Grants(t, m, c) PROVE m \in GrantsOf(r, c)
  <2>1. PICK row \in Rows(Plan(t)) : row.name = c /\ m \in row.grants
    BY <1>1 DEF Grants
  <2>2. PICK i \in DOMAIN PlanOf(r) : PlanOf(r)[i] = row
    BY <2>1 DEF Rows, PlanOf
  <2> QED BY <2>1, <2>2 DEF GrantsOf
<1>2. ASSUME NEW m \in DOMAIN MintsTo, NEW c \in MintsTo[m] PROVE m \in GrantsOf(r, c)
  <2>1. m \in {"DungeonGate", "System", "Shop", "SeasonSettlement"}
    BY DEF MintsTo
  <2>2. /\ MintsTo["DungeonGate"] = {"EssenceStone", "Monster"}
        /\ MintsTo["System"] = {"EssenceStone", "Monster", "ShadowArmy"}
        /\ MintsTo["Shop"] = {"EssenceStone", "GateKey"}
        /\ MintsTo["SeasonSettlement"] = {"LegendaryScene", "SeasonScore"}
    BY DEF MintsTo
  <2>3. Grants(t, m, c)
    BY <1>2, <2>1, <2>2, PlanGrants
  <2> QED BY <1>1, <2>3
<1>3. ASSUME NEW m \in Burners PROVE m \in GrantsOf(r, "ApprovalController")
  BY <1>1, PlanGrants DEF Burners
<1> QED BY <1>2, <1>3 DEF RightsComplete

(* The entries a verification reads together are listed by every run.      *)
LEMMA PlanLists ==
    ASSUME NEW t \in BOOLEAN
    PROVE  /\ {"Project", "Season", "DungeonGate", "System", "ApprovalController"} \subseteq Recorded(t)
           /\ Recorded(t) \subseteq Submitted
           /\ \E i \in 1..Len(Plan(t)) : Plan(t)[i].name = "DungeonGate"
<1>1. /\ Rows(CoreRows) \subseteq Rows(Plan(t)) /\ Rows(GameRows(t)) \subseteq Rows(Plan(t))
      /\ Rows(AccessRows) \subseteq Rows(Plan(t))
  BY PlanParts, FrontFacts DEF PartsOf
<1>2. \A row \in Rows(Plan(t)) : row.name \in ContractType => row.name \in Recorded(t)
  BY DEF Rows, Recorded
<1>3. /\ Row("Project", {"RoleWallet"}, {}, {}) \in Rows(Plan(t))
      /\ Row("Season", {"Project"}, {}, {}) \in Rows(Plan(t))
  <2> PICK u, v, x, y, z : /\ u = Row("RoleWallet", {}, {}, {OperatorManager})
                           /\ v = Row("Project", {"RoleWallet"}, {}, {})
                           /\ x = Row("MonsterFactory", {"Project"}, {}, {})
                           /\ y = Row("Season", {"Project"}, {}, {})
                           /\ z = Row("Random", {"Project"}, {}, {})
    OBVIOUS
  <2>0. CoreRows = <<u, v, x, y, z>>
    BY DEF CoreRows
  <2> QED BY <1>1, <2>0, TupleRows
<1>4. PICK gate, system \in Rows(Plan(t)) : gate.name = "DungeonGate" /\ system.name = "System"
  <2> PICK u, v, x, y :
         /\ u = Row("Shop", {"Project"} \union UsdToken(t), {"GateKey", "EssenceStone"}, {})
         /\ v = Row("DungeonGate", {"Project", "Season", "Random", "Shop", "MonsterFactory"},
                    {"EssenceStone", "GateKey", "Monster"}, {})
         /\ x = Row("SeasonSettlement", {"Project", "Season", "DungeonGate"},
                    {"LegendaryScene", "SeasonScore"}, {})
         /\ y = Row("System", {"Project", "MonsterFactory", "Random"},
                    {"EssenceStone", "Monster", "ShadowArmy"}, {})
    OBVIOUS
  <2>0. GameRows(t) = <<u, v, x, y>>
    BY DEF GameRows
  <2>1. v \in Rows(Plan(t)) /\ y \in Rows(Plan(t))
    BY <1>1, <2>0, TupleRows
  <2>2. v.name = "DungeonGate" /\ y.name = "System"
    BY DEF Row
  <2> QED BY <2>1, <2>2
<1>5. Row("ApprovalController", {"Project"}, {}, ApprovedContracts) \in Rows(Plan(t))
  <2> PICK x : x = Row("ApprovalController", {"Project"}, {}, ApprovedContracts)
    OBVIOUS
  <2>1. AccessRows = <<x>>
    BY DEF AccessRows
  <2> QED BY <1>1, <2>1, TupleRows
<1>6. /\ Row("Project", {"RoleWallet"}, {}, {}).name = "Project"
      /\ Row("Season", {"Project"}, {}, {}).name = "Season"
      /\ Row("ApprovalController", {"Project"}, {}, ApprovedContracts).name = "ApprovalController"
  BY DEF Row
<1>7. {"Project", "Season", "DungeonGate", "System", "ApprovalController"} \subseteq ContractType
  BY DEF ContractType
<1>8. {"Project", "Season", "DungeonGate", "System", "ApprovalController"} \subseteq Recorded(t)
  <2>1. "Project" \in Recorded(t) /\ "Season" \in Recorded(t) /\ "ApprovalController" \in Recorded(t)
    BY <1>2, <1>3, <1>5, <1>6, <1>7
  <2>2. "DungeonGate" \in Recorded(t) /\ "System" \in Recorded(t)
    BY <1>2, <1>4, <1>7
  <2> QED BY <2>1, <2>2
<1>9. Recorded(t) \subseteq Submitted
  <2> SUFFICES ASSUME NEW i \in DOMAIN Plan(t), Plan(t)[i].name \in ContractType
               PROVE  Plan(t)[i].name \in Submitted
    BY DEF Recorded
  <2>1. Plan(t)[i] \in Rows(Plan(t))
    BY DEF Rows
  <2> QED BY <2>1, PlanRows
<1>10. \E i \in 1..Len(Plan(t)) : Plan(t)[i].name = "DungeonGate"
  BY <1>4, PlanFacts DEF Rows
<1> QED BY <1>8, <1>9, <1>10

----------------------------------------------------------------------------
(* A listed system is one that works.  The collections of a run are in the *)
(* order of their ids, a run that finished is through its plan, and who is *)
(* behind an entry of the file, or of a copy of it, has finished or is the *)
(* run whose copy it is.                                                   *)
InOrder(a, d, cs) ==
    LET b == Len(Front(a.isTesting)) IN
    /\ \A k \in 1..Len(cs) : cs[k] = Order[k]
    /\ d <= b => Len(cs) = 0
    /\ d > b => Len(cs) = d - b \/ Len(cs) = d - b - 1

UsdFits(a, d) ==
    \A i \in 1..d : Plan(a.isTesting)[i].name = "DungeonGate" =>
                        a.isTesting \/ a.network = "polygon"

Progress(p, a, d, cs) ==
    /\ InOrder(a, d, cs)
    /\ UsdFits(a, d)
    /\ p = "finished" => d = Len(Plan(a.isTesting)) /\ ~Awaits(a, d, cs)

Behind(f, n, r) == \E c \in ContractType : f[c][n] = r

\* Who is behind the listed project is behind all it lists.
OwnWhole(f, n, as) ==
    \A r \in Runs : f["Project"][n] = r =>
        \A c \in Recorded(as[r].isTesting) : f[c][n] = r

ListedRight(f, ps, as) ==
    \A n \in Networks :
        /\ OwnWhole(f, n, as)
        /\ \A r \in Runs : Behind(f, n, r) => ps[r] = "finished" /\ as[r].network = n

CopyRight(q, f, ps, as) ==
    ps[q] = "deploying" => \A n \in Networks :
        /\ (n # as[q].network \/ ~as[q].isUpdate) => OwnWhole(f, n, as)
        /\ \A r \in Runs : Behind(f, n, r) => (r = q \/ ps[r] = "finished") /\ as[r].network = n

LInv ==
    /\ IInv
    /\ ListedRight(file, phase, answers)
    /\ \A q \in Runs : /\ CopyRight(q, deployed[q], phase, answers)
                       /\ Progress(phase[q], answers[q], done[q], collections[q])

(* The ids of the collections are those of their order.                    *)
LEMMA OrderFacts ==
    /\ \A k \in 1..7 : Order[k] \in DOMAIN CollectionId /\ CollectionId[Order[k]] = k
    /\ \A k, j \in 1..7 : Order[k] = Order[j] => k = j
<1>1. /\ Order[1] = "ShadowMonarch" /\ Order[2] = "EssenceStone" /\ Order[3] = "Monster"
      /\ Order[4] = "ShadowArmy" /\ Order[5] = "GateKey"
      /\ Order[6] = "LegendaryScene" /\ Order[7] = "SeasonScore"
  BY DEF Order
<1>2. /\ CollectionId["ShadowMonarch"] = 1 /\ CollectionId["EssenceStone"] = 2
      /\ CollectionId["Monster"] = 3 /\ CollectionId["ShadowArmy"] = 4
      /\ CollectionId["GateKey"] = 5 /\ CollectionId["LegendaryScene"] = 6
      /\ CollectionId["SeasonScore"] = 7
  BY DEF CollectionId
<1>3. {"ShadowMonarch", "EssenceStone", "Monster", "ShadowArmy", "GateKey", "LegendaryScene",
       "SeasonScore"} \subseteq DOMAIN CollectionId
  BY DEF CollectionId
<1>4. ASSUME NEW k \in 1..7
      PROVE  Order[k] \in DOMAIN CollectionId /\ CollectionId[Order[k]] = k
  <2>1. k = 1 \/ k = 2 \/ k = 3 \/ k = 4 \/ k = 5 \/ k = 6 \/ k = 7
    OBVIOUS
  <2> QED BY <1>1, <1>2, <1>3, <2>1
<1>5. ASSUME NEW k \in 1..7, NEW j \in 1..7, Order[k] = Order[j] PROVE k = j
  BY <1>4, <1>5
<1> QED BY <1>4, <1>5

(* A run awaits a collection exactly when one it deployed is still out.    *)
LEMMA AwaitsWhen ==
    ASSUME NEW a \in Answers, NEW d \in Nat, NEW cs \in Seq(DOMAIN CollectionId),
           d <= Len(Plan(a.isTesting)), InOrder(a, d, cs)
    PROVE  LET b == Len(Front(a.isTesting)) IN
           /\ b \in Nat
           /\ Awaits(a, d, cs) <=> d > b /\ Len(cs) = d - b - 1
           /\ d > b => d - b \in 1..7 /\ Plan(a.isTesting)[d].name = Order[d - b]
<1> PICK t \in BOOLEAN : t = a.isTesting
  BY AnswersFacts
<1> PICK b \in Nat : b = Len(Front(t))
  BY PlanOrder
<1>0. d <= b + 7
  BY PlanOrder
<1>1. /\ b \in Nat /\ Len(Plan(t)) = b + 7
      /\ \A i \in 1..b : Plan(t)[i].name \notin DOMAIN CollectionId
      /\ \A k \in 1..7 : Plan(t)[b + k].name = Order[k]
  BY PlanOrder
<1>2. Len(cs) \in Nat /\ DOMAIN cs = 1..Len(cs)
  OBVIOUS
<1>3. CASE d <= b
  <2>1. d = 0 \/ d \in 1..b
    BY <1>3
  <2> QED BY <1>1, <1>3, <2>1, SMTT(30) DEF Awaits
<1>4. CASE d > b
  <2> PICK k \in 1..7 : k = d - b
    BY <1>0, <1>4
  <2>0. d = b + k /\ d > 0
    BY <1>4
  <2>1. d = b + k /\ Plan(t)[d].name = Order[k] /\ d > 0
    BY <1>1, <2>0
  <2>2. Len(cs) = k \/ Len(cs) = k - 1
    BY <1>4 DEF InOrder
  <2>3. \A j \in 1..Len(cs) : cs[j] = Order[j]
    BY DEF InOrder
  <2>4. Awaits(a, d, cs) <=> \A j \in 1..Len(cs) : cs[j] # Order[k]
    BY <1>2, <2>1, OrderFacts DEF Awaits
  <2>5. CASE Len(cs) = k
    <3>1. ~Awaits(a, d, cs)
      BY <2>3, <2>4, <2>5
    <3> QED BY <1>1, <1>4, <2>1, <2>5, <3>1
  <2>6. CASE Len(cs) = k - 1
    <3>1. \A j \in 1..Len(cs) : j \in 1..7 /\ j # k
      BY <2>6
    <3>2. Awaits(a, d, cs)
      BY <2>3, <2>4, <3>1, OrderFacts
    <3> QED BY <1>1, <1>4, <2>1, <2>6, <3>2
  <2> QED BY <2>2, <2>5, <2>6
<1> QED BY <1>1, <1>3, <1>4

(* The order of the collections is kept as rows are deployed and           *)
(* collections added.                                                      *)
LEMMA DeployKeepsOrder ==
    ASSUME NEW a \in Answers, NEW d \in Nat, NEW cs \in Seq(DOMAIN CollectionId),
           d <= Len(Plan(a.isTesting)), InOrder(a, d, cs), ~Awaits(a, d, cs)
    PROVE  InOrder(a, d + 1, cs)
<1> PICK b : b = Len(Front(a.isTesting))
  OBVIOUS
<1>1. b \in Nat /\ ~(d > b /\ Len(cs) = d - b - 1) /\ Len(cs) \in Nat
  BY AwaitsWhen
<1>2. /\ \A k \in 1..Len(cs) : cs[k] = Order[k]
      /\ d <= b => Len(cs) = 0
      /\ d > b => Len(cs) = d - b \/ Len(cs) = d - b - 1
  BY DEF InOrder
<1>3. /\ d + 1 <= b => Len(cs) = 0
      /\ d + 1 > b => Len(cs) = (d + 1) - b - 1
  BY <1>1, <1>2
<1> QED BY <1>2, <1>3 DEF InOrder

(* The collection a project gets next is the next in the order.            *)
LEMMA AddKeepsOrder ==
    ASSUME NEW a \in Answers, NEW d \in Nat, NEW cs \in Seq(DOMAIN CollectionId),
           d <= Len(Plan(a.isTesting)), InOrder(a, d, cs), Awaits(a, d, cs)
    PROVE  LET added == Append(cs, Plan(a.isTesting)[d].name) IN
           InOrder(a, d, added)
<1> PICK b : b = Len(Front(a.isTesting))
  OBVIOUS
<1>1. /\ b \in Nat /\ d > b /\ Len(cs) = d - b - 1
      /\ Plan(a.isTesting)[d].name = Order[d - b]
  BY AwaitsWhen
<1> PICK name \in DOMAIN CollectionId : name = Plan(a.isTesting)[d].name
  BY DEF Awaits
<1> PICK added : added = Append(cs, name)
  OBVIOUS
<1>2. /\ Len(added) = Len(cs) + 1 /\ added[Len(cs) + 1] = name
      /\ \A k \in 1..Len(cs) : added[k] = cs[k]
  OBVIOUS
<1>3. Len(added) = d - b /\ Len(cs) \in Nat
  BY <1>1, <1>2
<1>4. \A k \in 1..Len(cs) : cs[k] = Order[k]
  BY DEF InOrder
<1>5. ASSUME NEW k \in 1..Len(added) PROVE added[k] = Order[k]
  <2>1. k \in 1..Len(cs) \/ k = Len(cs) + 1
    BY <1>2, <1>3
  <2>2. Len(cs) + 1 = d - b
    BY <1>1
  <2> QED BY <1>1, <1>2, <1>4, <2>1, <2>2
<1>6. InOrder(a, d, added)
  BY <1>1, <1>3, <1>5 DEF InOrder
<1> QED BY <1>6

(* A run that is through its plan works: its collections have the ids its  *)
(* contracts were given.                                                   *)
LEMMA FinishedWorks ==
    ASSUME LInv, NEW r \in Runs, phase[r] = "finished"
    PROVE  /\ done[r] = Len(PlanOf(r)) /\ UsdIsContract(r)
           /\ IdsResolve(r) /\ RightsComplete(r)
<1> PICK a \in Answers : a = answers[r]
  BY DEF LInv, IInv, Types
<1> PICK t \in BOOLEAN : t = a.isTesting
  BY AnswersFacts
<1> PICK d \in Nat : d = done[r]
  BY DEF LInv, IInv, Types
<1> PICK cs \in Seq(DOMAIN CollectionId) : cs = collections[r]
  BY DEF LInv, IInv, Types
<1> PICK b \in Nat : b = Len(Front(t))
  BY PlanOrder
<1>1. d = Len(Plan(t)) /\ ~Awaits(a, d, cs) /\ InOrder(a, d, cs) /\ UsdFits(a, d)
  BY DEF LInv, Progress
<1>2. b \in Nat /\ Len(Plan(t)) = b + 7 /\ DOMAIN Plan(t) = 1..(b + 7)
  BY PlanOrder
<1>3. Len(cs) = 7
  <2>1. d = b + 7 /\ d <= Len(Plan(a.isTesting)) /\ Len(cs) \in Nat
    BY <1>1, <1>2
  <2>2. ~(d > b /\ Len(cs) = d - b - 1)
    BY <1>1, <2>1, AwaitsWhen
  <2>3. d > b => Len(cs) = d - b \/ Len(cs) = d - b - 1
    BY <1>1 DEF InOrder
  <2> QED BY <2>1, <2>2, <2>3
<1>4. \A k \in 1..7 : k \in DOMAIN cs /\ cs[k] = Order[k]
  BY <1>1, <1>3, SMTT(30) DEF InOrder
<1>5. IdsResolve(r)
  <2> SUFFICES ASSUME NEW i \in DOMAIN Plan(t), NEW c \in Plan(t)[i].ids
               PROVE  CollectionId[c] \in DOMAIN cs /\ cs[CollectionId[c]] = c
    BY DEF IdsResolve, PlanOf
  <2>1. Plan(t)[i] \in Rows(Plan(t))
    BY DEF Rows
  <2>2. PICK k \in 1..7 : Order[k] = c
    BY <2>1, PlanRows
  <2>3. CollectionId[c] = k
    BY <2>2, OrderFacts
  <2> QED BY <1>4, <2>2, <2>3
<1>6. UsdIsContract(r)
  <2>1. PICK i \in 1..Len(Plan(t)) : Plan(t)[i].name = "DungeonGate"
    BY PlanLists
  <2> QED BY <1>1, <2>1 DEF UsdFits, UsdIsContract
<1>7. RightsComplete(r)
  BY PlanRights DEF LInv, IInv
<1> QED BY <1>1, <1>5, <1>6, <1>7 DEF PlanOf

(* Under the invariant a listed system works.                              *)
LEMMA ListedWorks == LInv => ListedSystemsWork
<1> SUFFICES ASSUME LInv, NEW n \in Networks, NEW r \in Runs,
                    \E c \in ContractType : file[c][n] = r
             PROVE  /\ done[r] = Len(PlanOf(r)) /\ answers[r].network = n
                    /\ UsdIsContract(r) /\ IdsResolve(r) /\ RightsComplete(r)
  BY DEF ListedSystemsWork
<1>1. phase[r] = "finished" /\ answers[r].network = n
  BY DEF LInv, ListedRight, Behind
<1> QED BY <1>1, FinishedWorks

(* What the verification submits agrees with what was constructed.         *)
LEMMA SubmissionsFit == LInv => SubmissionsMatch
<1> SUFFICES ASSUME LInv, NEW n \in Networks, n \in PublicNetwork
             PROVE  /\ \A s \in Submissions(n) : s.args = ConstructedWith(s.name, s.by)
                    /\ \A r \in Runs : Listed("Project", n) /\ file["Project"][n] = r
                           => \A c \in Recorded(answers[r].isTesting) :
                                 \E s \in Submissions(n) : s.name = c /\ s.by = r
  BY DEF SubmissionsMatch
<1> DEFINE read == {"Project", "Season", "DungeonGate", "System"}
<1>1. Submissions(n) = ProxySubmissions(n) \union PlainSubmissions(n)
  BY DEF Submissions
<1>2. ASSUME NEW s \in Submissions(n) PROVE s.args = ConstructedWith(s.name, s.by)
  <2>1. CASE s \in ProxySubmissions(n)
    <3>1. PICK c \in ProxyContracts : s = Submission(c, n, {})
      BY <2>1 DEF ProxySubmissions
    <3>2. s.args = {} /\ s.name = c
      BY <3>1 DEF Submission
    <3>3. c # "ApprovalController"
      BY DEF ProxyContracts
    <3> QED BY <3>2, <3>3 DEF ConstructedWith
  <2>2. CASE s = Submission("TestUSDC", n, {})
    <3>1. s.args = {} /\ s.name = "TestUSDC"
      BY <2>2 DEF Submission
    <3> QED BY <3>1 DEF ConstructedWith
  <2>3. CASE /\ s = Submission("ApprovalController", n, read)
             /\ \A d \in read \union {"ApprovalController"} : Listed(d, n)
    <3>1. /\ s.args = {<<d, file[d][n]>> : d \in read}
          /\ s.name = "ApprovalController" /\ s.by = file["ApprovalController"][n]
      BY <2>3 DEF Submission
    <3>2. "Project" \in ContractType /\ file["Project"][n] # NotListed
      BY <2>3 DEF ContractType, Listed
    <3>3. WholeIn(file, n)
      BY DEF LInv, IInv, FileNeverMixes
    <3>4. PICK g \in Deployer, t \in BOOLEAN : \A c \in Recorded(t) : file[c][n] = g
      BY <3>2, <3>3 DEF WholeIn
    <3>5. file["ApprovalController"][n] = g /\ \A d \in read : file[d][n] = g
      BY <3>4, PlanLists
    <3>6. ConstructedWith("ApprovalController", g) = {<<d, g>> : d \in read}
      BY DEF ConstructedWith, ApprovedContracts
    <3>7. {<<d, file[d][n]>> : d \in read} = {<<d, g>> : d \in read}
      BY <3>5
    <3> QED BY <3>1, <3>5, <3>6, <3>7
  <2>4. \/ s \in ProxySubmissions(n)
        \/ s = Submission("TestUSDC", n, {})
        \/ /\ s = Submission("ApprovalController", n, read)
           /\ \A d \in read \union {"ApprovalController"} : Listed(d, n)
    BY <1>1 DEF PlainSubmissions
  <2> QED BY <2>1, <2>2, <2>3, <2>4
<1>3. ASSUME NEW r \in Runs, file["Project"][n] = r,
             NEW c \in Recorded(answers[r].isTesting)
      PROVE  \E s \in Submissions(n) : s.name = c /\ s.by = r
  <2>1. answers[r].isTesting \in BOOLEAN
    BY AnswersFacts DEF LInv, IInv, Types
  <2>2. \A d \in Recorded(answers[r].isTesting) : file[d][n] = r
    BY <1>3 DEF LInv, ListedRight, OwnWhole
  <2>3. r # NotListed
    BY RunsAssumption
  <2>4. file[c][n] = r /\ Listed(c, n)
    BY <1>3, <2>2, <2>3 DEF Listed
  <2>5. \A d \in read \union {"ApprovalController"} : Listed(d, n)
    BY <2>1, <2>2, <2>3, PlanLists DEF Listed
  <2>6. c \in ProxyContracts \/ c = "TestUSDC" \/ c = "ApprovalController"
    BY <1>3, <2>1, PlanLists DEF Submitted
  <2>7. \A args : Submission(c, n, args).name = c /\ Submission(c, n, args).by = r
    BY <2>4 DEF Submission
  <2>8. CASE c \in ProxyContracts
    <3>1. Submission(c, n, {}) \in ProxySubmissions(n)
      BY <2>4, <2>8 DEF ProxySubmissions
    <3> QED BY <1>1, <2>7, <3>1
  <2>9. CASE c = "TestUSDC"
    <3>1. Submission(c, n, {}) \in PlainSubmissions(n)
      BY <2>4, <2>9 DEF PlainSubmissions
    <3> QED BY <1>1, <2>7, <3>1
  <2>10. CASE c = "ApprovalController"
    <3>1. Submission(c, n, read) \in PlainSubmissions(n)
      BY <2>5, <2>10 DEF PlainSubmissions
    <3> QED BY <1>1, <2>7, <3>1
  <2> QED BY <2>6, <2>8, <2>9, <2>10
<1> QED BY <1>2, <1>3

(* No run is behind an entry at the start.                                 *)
LEMMA InitLInv == Init => LInv
<1> SUFFICES ASSUME Init PROVE LInv
  OBVIOUS
<1>1. IInv
  BY InitIInv
<1>2. /\ file = FileAtStart
      /\ \A q \in Runs : phase[q] = "new" /\ done[q] = 0 /\ collections[q] = << >>
  BY DEF Init
<1>3. \A c \in ContractType, n \in Networks : file[c][n] \notin Runs
  BY <1>2, RunsAssumption DEF FileAtStart
<1>4. "Project" \in ContractType
  BY DEF ContractType
<1>5. ListedRight(file, phase, answers)
  BY <1>3, <1>4 DEF ListedRight, OwnWhole, Behind
<1>6. ASSUME NEW q \in Runs
      PROVE  /\ CopyRight(q, deployed[q], phase, answers)
             /\ Progress(phase[q], answers[q], done[q], collections[q])
  <2>1. CopyRight(q, deployed[q], phase, answers)
    BY <1>2 DEF CopyRight
  <2>2. answers[q].isTesting \in BOOLEAN
    BY <1>1, AnswersFacts DEF IInv, Types
  <2> PICK b \in Nat : b = Len(Front(answers[q].isTesting))
    BY <2>2, PlanOrder
  <2>3. InOrder(answers[q], 0, << >>)
    BY DEF InOrder
  <2>4. UsdFits(answers[q], 0)
    BY DEF UsdFits
  <2> QED BY <1>2, <2>1, <2>3, <2>4 DEF Progress
<1> QED BY <1>1, <1>5, <1>6 DEF LInv

(* A run that starts is behind nothing, and copies a file that is right.   *)
LEMMA StartListed ==
    ASSUME LInv, NEW s \in Runs, NEW a \in Answers, Start(s, a)
    PROVE  LInv'
<1>1. IInv'
  BY StartStep DEF LInv
<1>2. /\ phase[s] = "new" /\ done[s] = 0 /\ collections[s] = << >>
      /\ file' = file /\ done' = done /\ collections' = collections
      /\ phase'[s] = "deploying" /\ answers'[s] = a /\ deployed'[s] = file
      /\ \A q \in Runs : q # s => /\ phase'[q] = phase[q] /\ answers'[q] = answers[q]
                                 /\ deployed'[q] = deployed[q]
  BY DEF LInv, IInv, RunInv, Types, Start
<1>3. "Project" \in ContractType /\ ListedRight(file, phase, answers)
  BY DEF ContractType, LInv
<1>4. \A n \in Networks, r \in Runs : Behind(file, n, r) =>
          r # s /\ phase'[r] = "finished" /\ answers'[r].network = n
  BY <1>2, <1>3 DEF ListedRight
<1>5. \A n \in Networks : OwnWhole(file, n, answers')
  <2> SUFFICES ASSUME NEW n \in Networks, NEW r \in Runs, file["Project"][n] = r
               PROVE  \A c \in Recorded(answers'[r].isTesting) : file[c][n] = r
    BY DEF OwnWhole
  <2>1. r # s
    BY <1>3, <1>4 DEF Behind
  <2>2. answers'[r] = answers[r]
    BY <1>2, <2>1
  <2> QED BY <1>3, <2>2 DEF ListedRight, OwnWhole
<1>6. ListedRight(file', phase', answers')
  BY <1>2, <1>4, <1>5 DEF ListedRight
<1>7. ASSUME NEW q \in Runs PROVE CopyRight(q, deployed'[q], phase', answers')
  <2>1. CASE q = s
    BY <1>2, <1>4, <1>5, <2>1 DEF CopyRight
  <2>2. CASE q # s
    <3> SUFFICES ASSUME phase[q] = "deploying", NEW n \in Networks
                 PROVE  /\ (n # answers[q].network \/ ~answers[q].isUpdate)
                              => OwnWhole(deployed[q], n, answers')
                        /\ \A r \in Runs : Behind(deployed[q], n, r) =>
                              (r = q \/ phase'[r] = "finished") /\ answers'[r].network = n
      BY <1>2, <2>2 DEF CopyRight
    <3>1. CopyRight(q, deployed[q], phase, answers)
      BY DEF LInv
    <3>2. \A r \in Runs : Behind(deployed[q], n, r) =>
              r # s /\ (r = q \/ phase[r] = "finished") /\ answers[r].network = n
      BY <1>2, <2>2, <3>1 DEF CopyRight
    <3>3. \A r \in Runs : deployed[q]["Project"][n] = r => answers'[r] = answers[r]
      BY <1>2, <1>3, <3>2 DEF Behind
    <3>4. (n # answers[q].network \/ ~answers[q].isUpdate) => OwnWhole(deployed[q], n, answers')
      BY <3>1, <3>3 DEF CopyRight, OwnWhole
    <3> QED BY <1>2, <3>2, <3>4
  <2> QED BY <2>1, <2>2
<1>8. ASSUME NEW q \in Runs
      PROVE  Progress(phase'[q], answers'[q], done'[q], collections'[q])
  <2>1. CASE q = s
    <3>1. a.isTesting \in BOOLEAN
      BY AnswersFacts
    <3> PICK b \in Nat : b = Len(Front(a.isTesting))
      BY <3>1, PlanOrder
    <3>2. InOrder(a, 0, << >>)
      BY DEF InOrder
    <3>3. UsdFits(a, 0)
      BY DEF UsdFits
    <3>4. /\ phase'[q] = "deploying" /\ answers'[q] = a /\ done'[q] = 0
          /\ collections'[q] = << >>
      BY <1>2, <2>1
    <3> QED BY <3>2, <3>3, <3>4 DEF Progress
  <2>2. CASE q # s
    BY <1>2, <2>2 DEF LInv
  <2> QED BY <2>1, <2>2
<1> QED BY <1>1, <1>6, <1>7, <1>8 DEF LInv

(* A run that stops is behind nothing that is listed.                      *)
LEMMA StopListed ==
    ASSUME LInv, NEW s \in Runs, Stop(s)
    PROVE  LInv'
<1>1. IInv'
  BY StopStep DEF LInv
<1>2. /\ phase[s] = "deploying" /\ phase'[s] = "stopped"
      /\ file' = file /\ done' = done /\ collections' = collections /\ answers' = answers
      /\ \A q \in Runs : q # s => phase'[q] = phase[q] /\ deployed'[q] = deployed[q]
  BY DEF LInv, IInv, Types, Stop
<1>3. \A r \in Runs : phase[r] = "finished" => phase'[r] = "finished"
  BY <1>2
<1>4. ListedRight(file', phase', answers')
  BY <1>2, <1>3 DEF LInv, ListedRight
<1>5. ASSUME NEW q \in Runs
      PROVE  /\ CopyRight(q, deployed'[q], phase', answers')
             /\ Progress(phase'[q], answers'[q], done'[q], collections'[q])
  <2>1. CopyRight(q, deployed[q], phase, answers)
        /\ Progress(phase[q], answers[q], done[q], collections[q])
    BY DEF LInv
  <2>2. CASE q = s
    BY <1>2, <2>1, <2>2 DEF CopyRight, Progress
  <2>3. CASE q # s
    BY <1>2, <1>3, <2>1, <2>3 DEF CopyRight, Progress
  <2> QED BY <2>2, <2>3
<1> QED BY <1>1, <1>4, <1>5 DEF LInv

(* The copy that is written back is right in every network: in those its   *)
(* run lists anew all is its own.                                          *)
LEMMA WriteFileListed ==
    ASSUME LInv, NEW s \in Runs, WriteFile(s)
    PROVE  LInv'
<1>1. IInv' /\ IInv
  BY WriteFileStep DEF LInv
<1>2. /\ phase[s] = "deploying" /\ phase'[s] = "finished"
      /\ done[s] = Len(PlanOf(s)) /\ ~AwaitsCollection(s)
      /\ file' = deployed[s] /\ done' = done /\ collections' = collections /\ answers' = answers
      /\ \A q \in Runs : q # s => phase'[q] = phase[q] /\ deployed'[q] = deployed[q]
  BY DEF LInv, IInv, Types, WriteFile
<1>3. \A r \in Runs : phase[r] = "finished" \/ r = s => phase'[r] = "finished"
  BY <1>2
<1>4. CopyRight(s, deployed[s], phase, answers)
  BY DEF LInv
<1>5. ASSUME NEW n \in Networks PROVE OwnWhole(deployed[s], n, answers)
  <2>1. CASE n # answers[s].network \/ ~answers[s].isUpdate
    BY <1>2, <1>4, <2>1 DEF CopyRight
  <2>2. CASE n = answers[s].network /\ answers[s].isUpdate
    <3>1. \A c \in Recorded(answers[s].isTesting) : deployed[s][c][n] = s
      BY <1>1, <1>2, <2>2, ListedAll
    <3>2. "Project" \in Recorded(answers[s].isTesting)
      BY <1>1, AnswersFacts, PlanLists DEF IInv, Types
    <3> QED BY <3>1, <3>2 DEF OwnWhole
  <2> QED BY <2>1, <2>2
<1>6. ListedRight(file', phase', answers')
  BY <1>2, <1>3, <1>4, <1>5 DEF ListedRight, CopyRight
<1>7. ASSUME NEW q \in Runs
      PROVE  /\ CopyRight(q, deployed'[q], phase', answers')
             /\ Progress(phase'[q], answers'[q], done'[q], collections'[q])
  <2>1. CopyRight(q, deployed[q], phase, answers)
        /\ Progress(phase[q], answers[q], done[q], collections[q])
    BY DEF LInv
  <2>2. CASE q = s
    <3>1. CopyRight(q, deployed'[q], phase', answers')
      BY <1>2, <2>2 DEF CopyRight
    <3>2. ~Awaits(answers[s], done[s], collections[s]) /\ done[s] = Len(Plan(answers[s].isTesting))
      BY <1>2 DEF AwaitsCollection, Awaits, PlanOf
    <3> QED BY <1>2, <2>1, <2>2, <3>1, <3>2 DEF Progress
  <2>3. CASE q # s
    BY <1>2, <1>3, <2>1, <2>3 DEF CopyRight, Progress
  <2> QED BY <2>2, <2>3
<1> QED BY <1>1, <1>6, <1>7 DEF LInv

\* The copy g of s has the entries of f, but for its own in the network it lists.
OwnNotes(s, f, g) ==
    \A c \in ContractType, n \in Networks :
        \/ g[c][n] = f[c][n]
        \/ g[c][n] = s /\ answers[s].isUpdate /\ n = answers[s].network

\* No other run gets on.
OthersWait(s) == \A q \in Runs \ {s} : done'[q] = done[q] /\ collections'[q] = collections[q]

(* A step that changes the copy of one run by its own notes at most.       *)
LEMMA CopyStepListed ==
    ASSUME LInv, IInv', NEW s \in Runs, NEW g, phase[s] = "deploying",
           phase' = phase, answers' = answers, file' = file,
           deployed' = [deployed EXCEPT ![s] = g],
           OwnNotes(s, deployed[s], g), OthersWait(s),
           Progress(phase[s], answers[s], done'[s], collections'[s])
    PROVE  LInv'
<1>1. ListedRight(file', phase', answers')
  BY DEF LInv
<1>2. ASSUME NEW q \in Runs
      PROVE  /\ CopyRight(q, deployed'[q], phase', answers')
             /\ Progress(phase'[q], answers'[q], done'[q], collections'[q])
  <2>1. CopyRight(q, deployed[q], phase, answers)
        /\ Progress(phase[q], answers[q], done[q], collections[q])
    BY DEF LInv
  <2>2. CASE q # s
    <3>1. deployed'[q] = deployed[q]
      BY <2>2 DEF LInv, IInv, Types
    <3> QED BY <2>1, <2>2, <3>1 DEF OthersWait
  <2>3. CASE q = s
    <3>1. deployed'[s] = g
      BY DEF LInv, IInv, Types
    <3>2. \A n \in Networks, r \in Runs : Behind(g, n, r) =>
              (r = s \/ phase[r] = "finished") /\ answers[r].network = n
      BY <2>1, <2>3 DEF CopyRight, Behind, OwnNotes
    <3>3. ASSUME NEW n \in Networks, n # answers[s].network \/ ~answers[s].isUpdate
          PROVE  OwnWhole(g, n, answers)
      <4>1. OwnWhole(deployed[s], n, answers)
        BY <2>1, <2>3, <3>3 DEF CopyRight
      <4>2. \A c \in ContractType : g[c][n] = deployed[s][c][n]
        BY <3>3 DEF OwnNotes
      <4>3. "Project" \in ContractType
        BY DEF ContractType
      <4> QED BY <4>1, <4>2, <4>3, RecordedFacts DEF OwnWhole
    <3>4. CopyRight(s, g, phase, answers)
      BY <3>2, <3>3 DEF CopyRight
    <3> QED BY <2>3, <3>1, <3>4
  <2> QED BY <2>2, <2>3
<1> QED BY <1>1, <1>2 DEF LInv

(* A note concerns the network the run lists, and names that run.          *)
LEMMA NotedIsOwn ==
    ASSUME LInv, NEW s \in Runs, NEW name
    PROVE  OwnNotes(s, deployed[s], Noted(s, name))
BY NotedFacts DEF LInv, IInv, OwnNotes

(* A row that is deployed keeps the run in the order of its plan.          *)
LEMMA DeployListed ==
    ASSUME LInv, NEW s \in Runs, Deploy(s)
    PROVE  LInv'
<1>1. IInv'
  BY DeployStep DEF LInv
<1> PICK a \in Answers : a = answers[s]
  BY DEF LInv, IInv, Types
<1> PICK d \in Nat : d = done[s]
  BY DEF LInv, IInv, Types
<1> PICK cs \in Seq(DOMAIN CollectionId) : cs = collections[s]
  BY DEF LInv, IInv, Types
<1> PICK name : name = Plan(a.isTesting)[d + 1].name
  OBVIOUS
<1>2. /\ phase[s] = "deploying" /\ phase' = phase /\ answers' = answers
      /\ file' = file /\ collections' = collections
      /\ done'[s] = d + 1 /\ \A q \in Runs \ {s} : done'[q] = done[q]
  BY DEF LInv, IInv, Types, Deploy
<1>3. /\ ~Awaits(a, d, cs) /\ d <= Len(Plan(a.isTesting))
      /\ name = "DungeonGate" => a.isTesting \/ a.network = "polygon"
  <2>1. ~Awaits(a, d, cs)
    BY DEF Deploy, AwaitsCollection, Awaits, PlanOf
  <2>2. d <= Len(Plan(a.isTesting))
    BY DEF LInv, IInv, RunInv
  <2>3. name = "DungeonGate" => UsdIsContract(s)
    BY DEF Deploy, PlanOf
  <2> QED BY <2>1, <2>2, <2>3 DEF UsdIsContract
<1>4. Progress(phase[s], a, d, cs)
  BY DEF LInv
<1>5. Progress(phase[s], a, d + 1, cs)
  <2>1. InOrder(a, d + 1, cs)
    BY <1>3, <1>4, DeployKeepsOrder DEF Progress
  <2>2. UsdFits(a, d + 1)
    <3>1. \A i \in 1..(d + 1) : i \in 1..d \/ i = d + 1
      OBVIOUS
    <3>2. UsdFits(a, d)
      BY <1>4 DEF Progress
    <3> QED BY <1>3, <3>1, <3>2 DEF UsdFits
  <2> QED BY <1>2, <2>1, <2>2 DEF Progress
<1>6. PICK g : /\ g = deployed[s] \/ g = Noted(s, name)
               /\ deployed' = [deployed EXCEPT ![s] = g]
  <2>1. CASE name \in DOMAIN CollectionId
    <3>1. deployed' = deployed
      BY <2>1 DEF Deploy, PlanOf
    <3>2. deployed = [deployed EXCEPT ![s] = deployed[s]]
      BY DEF LInv, IInv, Types
    <3> QED BY <2>1, <3>1, <3>2
  <2>2. CASE name \notin DOMAIN CollectionId
    <3>1. deployed' = [deployed EXCEPT ![s] = Noted(s, name)]
      BY <2>2 DEF Deploy, PlanOf
    <3> QED BY <2>2, <3>1
  <2> QED BY <2>1, <2>2
<1>7. OwnNotes(s, deployed[s], g)
  BY <1>6, NotedIsOwn DEF OwnNotes
<1>8. Progress(phase[s], answers[s], done'[s], collections'[s])
  BY <1>2, <1>5
<1>9. OthersWait(s)
  BY <1>2 DEF OthersWait
<1>10. phase[s] = "deploying" /\ phase' = phase /\ answers' = answers /\ file' = file
  BY <1>2
<1>11. deployed' = [deployed EXCEPT ![s] = g]
  BY <1>6
<1> QED BY <1>1, <1>7, <1>8, <1>9, <1>10, <1>11, CopyStepListed, Zenon

(* A collection that is added keeps the run in the order of the ids.       *)
LEMMA AddCollectionListed ==
    ASSUME LInv, NEW s \in Runs, AddCollection(s)
    PROVE  LInv'
<1>1. IInv'
  BY AddCollectionStep DEF LInv
<1> PICK a \in Answers : a = answers[s]
  BY DEF LInv, IInv, Types
<1> PICK d \in Nat : d = done[s]
  BY DEF LInv, IInv, Types
<1> PICK cs \in Seq(DOMAIN CollectionId) : cs = collections[s]
  BY DEF LInv, IInv, Types
<1> PICK name : name = Plan(a.isTesting)[d].name
  OBVIOUS
<1> PICK g : g = Noted(s, name)
  OBVIOUS
<1>2. /\ phase[s] = "deploying" /\ phase' = phase /\ answers' = answers
      /\ file' = file /\ done' = done
      /\ deployed' = [deployed EXCEPT ![s] = g]
      /\ collections'[s] = Append(cs, name)
      /\ \A q \in Runs \ {s} : collections'[q] = collections[q]
  BY DEF LInv, IInv, Types, AddCollection, PlanOf
<1>3. Awaits(a, d, cs) /\ d <= Len(Plan(a.isTesting))
  <2>1. Awaits(a, d, cs)
    BY DEF AddCollection, AwaitsCollection, Awaits, PlanOf
  <2>2. d <= Len(Plan(a.isTesting))
    BY DEF LInv, IInv, RunInv
  <2> QED BY <2>1, <2>2
<1>4. Progress(phase[s], a, d, cs)
  BY DEF LInv
<1>5. InOrder(a, d, Append(cs, name))
  BY <1>3, <1>4, AddKeepsOrder DEF Progress
<1>6. Progress(phase[s], answers[s], done'[s], collections'[s])
  BY <1>2, <1>4, <1>5 DEF Progress
<1>7. OwnNotes(s, deployed[s], g)
  BY NotedIsOwn
<1>8. OthersWait(s)
  BY <1>2 DEF OthersWait
<1> QED BY <1>1, <1>2, <1>6, <1>7, <1>8, CopyStepListed, Zenon

(* Every step of a run keeps the listed systems working.                   *)
LEMMA StepLInv == LInv /\ [Next]_vars => LInv'
<1> SUFFICES ASSUME LInv, [Next]_vars PROVE LInv'
  OBVIOUS
<1>1. ASSUME NEW s \in Runs, NEW a \in Answers, Start(s, a) PROVE LInv'
  BY <1>1, StartListed
<1>2. ASSUME NEW s \in Runs, Deploy(s) PROVE LInv'
  BY <1>2, DeployListed
<1>3. ASSUME NEW s \in Runs, AddCollection(s) PROVE LInv'
  BY <1>3, AddCollectionListed
<1>4. ASSUME NEW s \in Runs, WriteFile(s) PROVE LInv'
  BY <1>4, WriteFileListed
<1>5. ASSUME NEW s \in Runs, Stop(s) PROVE LInv'
  BY <1>5, StopListed
<1>6. CASE UNCHANGED vars
  <2>1. IInv'
    BY <1>6, StepIInv DEF LInv
  <2> QED BY <1>6, <2>1 DEF LInv, vars
<1> QED BY <1>1, <1>2, <1>3, <1>4, <1>5, <1>6 DEF Next

(* Whatever the runs and however they overlap and stop, a listed system is *)
(* one that works: all its plan is on the chain, its contracts have the    *)
(* ids of the collections meant and the rights they need                   *)
(* (deploy_contract.ts).                                                   *)
THEOREM ListedSystemsWorkHolds == Spec => []ListedSystemsWork
  BY InitLInv, StepLInv, ListedWorks, PTL DEF Spec

(* What is submitted for verification is what the run behind the project   *)
(* listed, with the arguments it was constructed with                      *)
(* (verify_etherscan.ts:86).                                               *)
THEOREM SubmissionsMatchHolds == Spec => []SubmissionsMatch
  BY InitLInv, StepLInv, SubmissionsFit, PTL DEF Spec
============================================================================
