----------------------------- MODULE Deployment -----------------------------
(***************************************************************************)
(* Runs of scripts/deploy_contract.ts against deployed.json, the file that *)
(* lists the addresses of every network, and of verify_etherscan.ts, which *)
(* reads it.  A run reads the file once, notes what it deploys in its copy *)
(* (helpers/deployed-address.ts) and writes the copy back at the very end, *)
(* minutes later.  It may stop anywhere, leaving on the chain what it had  *)
(* deployed; a later run starts over with new contracts.  Nothing keeps    *)
(* two runs from overlapping.  An address is told by the run that deployed *)
(* the contract.                                                           *)
(***************************************************************************)
EXTENDS DeployPlan, FiniteSets

CONSTANTS
    Runs,           \* bound: the runs of the script
    Networks,       \* the networks in use
    ListedAtStart   \* the networks the file lists before these runs

NotListed == "not listed"
Earlier == "earlier"            \* the run behind what is listed at the start
Deployer == Runs \union {Earlier}

ASSUME RunsAssumption == Earlier \notin Runs /\ NotListed \notin Runs
ASSUME NetworksAssumption == ListedAtStart \subseteq Networks /\ Networks # {}

Answers == [network : Networks, isUpdate : BOOLEAN, isTesting : BOOLEAN]
File == [ContractType -> [Networks -> Deployer \union {NotListed}]]

\* The names of the contracts a run of either kind lists.
Recorded(isTesting) ==
    {Plan(isTesting)[i].name : i \in DOMAIN Plan(isTesting)} \intersect ContractType

VARIABLES
    phase,          \* run -> how far it is
    answers,        \* run -> its network and the answers to its prompts
    done,           \* run -> how many rows of the plan are on the chain
    collections,    \* run -> the collections of its project, in order of their ids
    deployed,       \* run -> its copy of the file
    readAt,         \* run -> the number of writes when it read the file
    file,           \* deployed.json
    writes          \* the runs that wrote the file, in their order

vars == <<phase, answers, done, collections, deployed, readAt, file, writes>>

----------------------------------------------------------------------------
NoAnswers == [network |-> CHOOSE n \in Networks : TRUE, isUpdate |-> FALSE, isTesting |-> FALSE]
NothingListed == [c \in ContractType |-> [n \in Networks |-> NotListed]]
FileAtStart ==
    [c \in ContractType |-> [n \in Networks |->
        IF c \in Recorded(FALSE) /\ n \in ListedAtStart THEN Earlier ELSE NotListed]]

PlanOf(r) == Plan(answers[r].isTesting)
Done(r) == {PlanOf(r)[i].name : i \in 1..done[r]}

\* A collection that is on the chain and not yet in the project.
AwaitsCollection(r) ==
    /\ done[r] > 0
    /\ PlanOf(r)[done[r]].name \in DOMAIN CollectionId
    /\ \A i \in DOMAIN collections[r] : collections[r][i] # PlanOf(r)[done[r]].name

\* The gate approves the shop's USD coin, which the script takes to be the
\* one of polygon unless it deploys its own.
UsdIsContract(r) == answers[r].isTesting \/ answers[r].network = "polygon"

updateDeployed(memory, contractType, network, address) ==
    [memory EXCEPT ![contractType][network] = address]

Noted(r, name) ==
    IF answers[r].isUpdate /\ name \in ContractType
    THEN updateDeployed(deployed[r], name, answers[r].network, r)
    ELSE deployed[r]

----------------------------------------------------------------------------
Init ==
    /\ phase = [r \in Runs |-> "new"]
    /\ answers = [r \in Runs |-> NoAnswers]
    /\ done = [r \in Runs |-> 0]
    /\ collections = [r \in Runs |-> << >>]
    /\ deployed = [r \in Runs |-> NothingListed]
    /\ readAt = [r \in Runs |-> 0]
    /\ file = FileAtStart
    /\ writes = << >>

\* The prompts are answered, the file is read.
StartAfresh(r, a) ==                    \* faulty: lists its own network only
    /\ phase[r] = "new"
    /\ a.isUpdate => a.network \in PublicNetwork
    /\ phase' = [phase EXCEPT ![r] = "deploying"]
    /\ answers' = [answers EXCEPT ![r] = a]
    /\ readAt' = [readAt EXCEPT ![r] = Len(writes)]
    /\ UNCHANGED <<done, collections, deployed, file, writes>>
Start(r, a) ==
    /\ phase[r] = "new"
    /\ a.isUpdate => a.network \in PublicNetwork
    /\ phase' = [phase EXCEPT ![r] = "deploying"]
    /\ answers' = [answers EXCEPT ![r] = a]
    /\ deployed' = [deployed EXCEPT ![r] = file]
    /\ readAt' = [readAt EXCEPT ![r] = Len(writes)]
    /\ UNCHANGED <<done, collections, file, writes>>

\* The next contract is deployed, and noted unless it is a collection.
Deploy(r) ==
    /\ phase[r] = "deploying"
    /\ ~AwaitsCollection(r)
    /\ done[r] < Len(PlanOf(r))
    /\ LET row == PlanOf(r)[done[r] + 1]
       IN  /\ row.refs \union row.grants \subseteq Done(r) \union {OperatorManager}
           /\ row.name = "DungeonGate" => UsdIsContract(r)
           /\ deployed' = IF row.name \in DOMAIN CollectionId THEN deployed
                          ELSE [deployed EXCEPT ![r] = Noted(r, row.name)]
    /\ done' = [done EXCEPT ![r] = @ + 1]
    /\ UNCHANGED <<phase, answers, collections, readAt, file, writes>>

\* The collection gets the next id of the project and is noted.
AddCollection(r) ==
    /\ phase[r] = "deploying"
    /\ AwaitsCollection(r)
    /\ LET name == PlanOf(r)[done[r]].name
       IN  /\ collections' = [collections EXCEPT ![r] = Append(@, name)]
           /\ deployed' = [deployed EXCEPT ![r] = Noted(r, name)]
    /\ UNCHANGED <<phase, answers, done, readAt, file, writes>>

\* The copy replaces the file, whatever the file is by now.
WriteFile(r) ==
    /\ phase[r] = "deploying"
    /\ ~AwaitsCollection(r)
    /\ done[r] = Len(PlanOf(r))
    /\ phase' = [phase EXCEPT ![r] = "finished"]
    /\ file' = deployed[r]
    /\ writes' = Append(writes, r)
    /\ deployed' = [deployed EXCEPT ![r] = NothingListed]
    /\ UNCHANGED <<answers, done, collections, readAt>>

\* A reverted transaction, a lost connection or the operator ends the run.
StopSaving(r) ==                        \* faulty: saves what it has
    /\ phase[r] = "deploying"
    /\ phase' = [phase EXCEPT ![r] = "stopped"]
    /\ file' = deployed[r]
    /\ writes' = Append(writes, r)
    /\ deployed' = [deployed EXCEPT ![r] = NothingListed]
    /\ UNCHANGED <<answers, done, collections, readAt>>
Stop(r) ==
    /\ phase[r] = "deploying"
    /\ phase' = [phase EXCEPT ![r] = "stopped"]
    /\ deployed' = [deployed EXCEPT ![r] = NothingListed]
    /\ UNCHANGED <<answers, done, collections, readAt, file, writes>>

Next == \E r \in Runs :
    \/ \E a \in Answers : Start(r, a)
    \/ Deploy(r)
    \/ AddCollection(r)
    \/ WriteFile(r)
    \/ Stop(r)

Spec == Init /\ [][Next]_vars
----------------------------------------------------------------------------
(* verify_etherscan.ts: what it submits for a network, once it has read    *)
(* the file: who deployed the contract, and the addresses it says the      *)
(* contract was constructed with.                                          *)
ProxyContracts ==
    {"Project", "MonsterFactory", "Season", "Random", "DungeonGate", "Shop",
     "SeasonSettlement", "System", "ShadowMonarch", "EssenceStone", "Monster",
     "ShadowArmy", "GateKey", "LegendaryScene", "SeasonScore"}

Listed(c, n) == file[c][n] # NotListed
Submission(c, n, args) == [name |-> c, by |-> file[c][n], args |-> {<<d, file[d][n]>> : d \in args}]

ProxySubmissions(n) ==
    {Submission(c, n, {}) : c \in {d \in ProxyContracts : Listed(d, n)}}

\* An entry that is missing fails the submission, not the script.
PlainSubmissionsForgetful(n) ==         \* faulty: misses an approved contract
    LET arguments == {"Project", "Season", "DungeonGate"}
        plain(c, args) == IF \A d \in args \union {c} : Listed(d, n)
                          THEN {Submission(c, n, args)} ELSE {}
    IN  plain("TestUSDC", {}) \union plain("ApprovalController", arguments)
PlainSubmissions(n) ==
    LET arguments == {"Project", "Season", "DungeonGate", "System"}
        plain(c, args) == IF \A d \in args \union {c} : Listed(d, n)
                          THEN {Submission(c, n, args)} ELSE {}
    IN  plain("TestUSDC", {}) \union plain("ApprovalController", arguments)

Submissions(n) ==
    IF n \in PublicNetwork THEN ProxySubmissions(n) \union PlainSubmissions(n) ELSE {}

----------------------------------------------------------------------------
(* Every variable has its type; a run deploys no more than its plan has.   *)
DeploymentTypeOK ==
    /\ phase \in [Runs -> {"new", "deploying", "finished", "stopped"}]
    /\ answers \in [Runs -> Answers]
    /\ \A r \in Runs : done[r] \in 0..Len(PlanOf(r))
    /\ \A r \in Runs : \A i \in DOMAIN collections[r] :
           collections[r][i] \in DOMAIN CollectionId
    /\ deployed \in [Runs -> File]
    /\ readAt \in [Runs -> Nat]
    /\ file \in File
    /\ \A i \in DOMAIN writes : writes[i] \in Runs

(* The section of a network is one deployment: it lists nothing, or one    *)
(* run deployed all it needs (deploy_contract.ts:49 and :652, which read   *)
(* and write the file as a whole).  Runs may stop anywhere and overlap: a  *)
(* section never has the gate of one run and the project of another.       *)
WholeIn(f, n) ==
    \/ \A c \in ContractType : f[c][n] = NotListed
    \/ \E g \in Deployer, t \in BOOLEAN : \A c \in Recorded(t) : f[c][n] = g
FileNeverMixes == \A n \in Networks : WholeIn(file, n)

(* What a run listed stays listed until a later run lists the network      *)
(* anew, or a run that had read the file before writes its older copy back *)
(* (deploy_contract.ts:652): updates are lost to overlapping runs only.    *)
MayUndo(i, j) ==
    LET r == writes[i]  s == writes[j] IN
    \/ readAt[s] < i
    \/ answers[s].isUpdate /\ answers[s].network = answers[r].network
SerialWritesKept ==
    \A i \in DOMAIN writes :
        LET r == writes[i] IN
        (answers[r].isUpdate /\ \A j \in (i + 1)..Len(writes) : ~MayUndo(i, j))
            => \A c \in Recorded(answers[r].isTesting) : file[c][answers[r].network] = r

(* A listed system is one that works: all of the plan is on the chain, the *)
(* ids its contracts were given before there were any collections are the  *)
(* collections meant (CollectionId, common.ts:32), whoever mints to a      *)
(* collection is a controller of it and whoever burns is approved.         *)
GrantsOf(r, c) ==
    UNION {PlanOf(r)[i].grants : i \in {j \in DOMAIN PlanOf(r) : PlanOf(r)[j].name = c}}
IdsResolve(r) ==
    \A i \in DOMAIN PlanOf(r) : \A c \in PlanOf(r)[i].ids :
        CollectionId[c] \in DOMAIN collections[r] /\ collections[r][CollectionId[c]] = c
RightsComplete(r) ==
    /\ \A m \in DOMAIN MintsTo : \A c \in MintsTo[m] : m \in GrantsOf(r, c)
    /\ Burners \subseteq GrantsOf(r, "ApprovalController")
ListedSystemsWork ==
    \A n \in Networks, r \in Runs :
        (\E c \in ContractType : file[c][n] = r)
            => /\ done[r] = Len(PlanOf(r)) /\ answers[r].network = n
               /\ UsdIsContract(r)
               /\ IdsResolve(r)
               /\ RightsComplete(r)

(* What verify_etherscan.ts submits for a listed network is all that the   *)
(* run behind the listed project lists, each with the arguments it was     *)
(* constructed with (verify_etherscan.ts:86 builds them from other entries *)
(* of the file than the controller's own).                                 *)
ConstructedWith(c, g) ==
    IF c = "ApprovalController"
    THEN {<<d, g>> : d \in {"Project"} \union ApprovedContracts} ELSE {}
SubmissionsMatch ==
    \A n \in Networks \intersect PublicNetwork :
        /\ \A s \in Submissions(n) : s.args = ConstructedWith(s.name, s.by)
        /\ \A r \in Runs : Listed("Project", n) /\ file["Project"][n] = r
               => \A c \in Recorded(answers[r].isTesting) :
                     \E s \in Submissions(n) : s.name = c /\ s.by = r
============================================================================
