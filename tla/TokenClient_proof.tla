------------------------- MODULE TokenClient_proof -------------------------
(***************************************************************************)
(* For every number of accounts and of calls that overlap: what a call     *)
(* returns is its own event, an error that names a revert is of a call     *)
(* that changed nothing, and both decoders make the same of what is        *)
(* thrown.                                                                 *)
(***************************************************************************)
EXTENDS TokenClient, TLAPS

EventType == [event : {""} \union EventsInABI, operator : Account, from : Account,
              to : Account \union {Noone}, amount : Nat]
Vague == {Message, UNKNOWN_ERROR}
NameType == {""} \union Vague \union NamesOfAny \union NamesOfOther
CallType ==
    [method : Writes \union Views, by : Signers, from : Signers,
     to : Account \union {Noone}, amount : Nat,
     tx : {"none", "pending", "mined", "reverted"}, events : Seq(EventType),
     answer : {"none", "value", "error"}, value : EventType \union {<< >>},
     name : NameType]

(* The types of the variables.                                             *)
TypeOK ==
    /\ signer \in Signers
    /\ calls \in Seq(CallType)
    /\ balance \in [Account -> Nat]

(* A call that is mined has its own event first among those it looks for;  *)
(* a value is taken from there; an error that names a revert comes before  *)
(* anything is sent, after which nothing is sent, or of a revert.          *)
CallOK(c) ==
    /\ c.method \in Writes /\ c.tx = "mined" =>
           \A e \in getEventArgs(c.events, EventOf[c.method]) : e = OwnEvent(c)
    /\ c.method \in Writes /\ c.answer = "value" => c.tx = "mined" /\ c.value = OwnEvent(c)
    /\ c.answer = "error" => c.name \in Vague \/ c.tx \in {"none", "reverted"}

ClientInv == TypeOK /\ \A i \in DOMAIN calls : CallOK(calls[i])

-----------------------------------------------------------------------------

(* A step on one call concerns no other.                                   *)
LEMMA OneCallChanges ==
    ASSUME ClientInv, NEW i \in DOMAIN calls, NEW c \in CallType, CallOK(c),
           calls' = [calls EXCEPT ![i] = c], signer' \in Signers, balance' \in [Account -> Nat]
    PROVE  ClientInv'
<1>1. calls \in Seq(CallType)
  BY DEF ClientInv, TypeOK
<1>2. calls' \in Seq(CallType) /\ DOMAIN calls' = DOMAIN calls
  BY <1>1
<1>3. ASSUME NEW j \in DOMAIN calls PROVE CallOK(calls'[j])
  <2>1. CASE j = i
    BY <1>1, <2>1
  <2>2. CASE j # i
    <3>1. calls'[j] = calls[j]
      BY <1>1, <2>2
    <3> QED BY <3>1 DEF ClientInv
  <2> QED BY <2>1, <2>2
<1>4. \A j \in DOMAIN calls' : CallOK(calls'[j])
  BY <1>2, <1>3
<1> QED BY <1>2, <1>4 DEF ClientInv, TypeOK, CallOK, getEventArgs, OwnEvent, Event

(* A step that leaves the calls alone keeps the invariant.                 *)
LEMMA CallsUnchanged ==
    ASSUME ClientInv, calls' = calls, signer' \in Signers, balance' \in [Account -> Nat]
    PROVE  ClientInv'
<1>1. \A i \in DOMAIN calls : CallOK(calls[i])
  BY DEF ClientInv
<1>2. (\A i \in DOMAIN calls : CallOK(calls[i]))'
  BY <1>1
<1> QED BY <1>2 DEF ClientInv, TypeOK

(* What the invariant says of one call.                                    *)
LEMMA CallFacts ==
    ASSUME ClientInv, NEW i \in DOMAIN calls
    PROVE  calls[i] \in CallType /\ CallOK(calls[i])
BY DEF ClientInv, TypeOK

(* A call that fails has an error, and is not sent afterwards.             *)
LEMMA AnswerErrorKeeps ==
    ASSUME ClientInv, NEW i, Awaited(i), NEW name \in NameType, AnswerError(i, name),
           name \in Vague \/ calls[i].tx \in {"none", "reverted"}, UNCHANGED <<signer, chainVars>>
    PROVE  ClientInv'
<1> DEFINE c == [calls[i] EXCEPT !.answer = "error", !.name = name]
<1>1. i \in DOMAIN calls /\ calls[i] \in CallType /\ CallOK(calls[i])
  BY CallFacts DEF Awaited
<1>2. calls' = [calls EXCEPT ![i] = c]
  BY <1>1 DEF AnswerError
<1>3. /\ c \in CallType /\ c.answer = "error" /\ c.name = name
      /\ c.method = calls[i].method /\ c.tx = calls[i].tx /\ c.events = calls[i].events
      /\ c.by = calls[i].by /\ c.from = calls[i].from /\ c.to = calls[i].to
      /\ c.amount = calls[i].amount
  BY <1>1 DEF CallType
<1> HIDE DEF c
<1>4. CallOK(c)
  BY <1>1, <1>3 DEF CallOK, OwnEvent
<1>5. signer' \in Signers /\ balance' \in [Account -> Nat]
  BY DEF ClientInv, TypeOK, chainVars
<1> QED BY <1>1, <1>2, <1>3, <1>4, <1>5, OneCallChanges

(* The first of the data an error carries is one of those it carries.      *)
LEMMA FirstDataType ==
    ASSUME NEW names, NEW data, Absent \in data, NEW error \in Errors(names, data)
    PROVE  FirstData(error, {0, 1, 3}) \in data
<1> DEFINE present == {d \in {0, 1, 3} : error.data[d] # Absent}
<1>1. PICK d \in Depth, x \in data, e \in Depth, y \in data : error.data = Nested(d, x, e, y)
  BY DEF Errors
<1>2. \A k \in Depth : error.data[k] \in data
  BY <1>1 DEF Nested
<1>3. present \subseteq Depth
  BY DEF Depth
<1>4. CASE present = {}
  BY <1>4 DEF FirstData
<1>5. CASE present # {}
  <2>1. \E m \in present : \A other \in present : m <= other
    <3>1. CASE 0 \in present
      BY <3>1
    <3>2. CASE 0 \notin present /\ 1 \in present
      BY <3>2
    <3>3. CASE 0 \notin present /\ 1 \notin present
      BY <1>5, <3>3
    <3> QED BY <3>1, <3>2, <3>3
  <2>2. (CHOOSE m \in present : \A other \in present : m <= other) \in present
    BY <2>1
  <2>3. FirstData(error, {0, 1, 3})
            = error.data[CHOOSE m \in present : \A other \in present : m <= other]
    BY <1>5 DEF FirstData
  <2> HIDE DEF present
  <2> QED BY <1>2, <1>3, <2>2, <2>3
<1> QED BY <1>4, <1>5

(* The parts of the bytes.                                                 *)
LEMMA PartsOfBytes ==
    \A kind, content :
        Bytes(kind, content).kind = kind /\ Bytes(kind, content).content = content
BY DEF Bytes

(* No bytes are of the kind "none".                                        *)
LEMMA NothingIsNone == NoBytes.kind = "none"
BY PartsOfBytes, Zenon DEF NoBytes

(* Bytes that are no revert say so by their kind.                          *)
LEMMA KindOfOther ==
    ASSUME NEW b \in OtherBytes \union {NoBytes}
    PROVE  b.kind \in {"none", "0x", "text"}
<1>1. b = Bytes("0x", "") \/ b = Bytes("text", "a text of the node") \/ b = Bytes("none", "")
  BY DEF OtherBytes, NoBytes
<1> QED BY <1>1, PartsOfBytes, ZenonT(30)

(* The bytes of the data an error carries.                                 *)
LEMMA BytesOfData ==
    ASSUME NEW reverts, NEW data \in DataOf(reverts)
    PROVE  data.bytes \in reverts \union OtherBytes \union {NoBytes}
<1>1. \A form, b : Data(form, b).bytes = b
  BY DEF Data
<1>2. \/ data = Data("absent", NoBytes) \/ data = Data("object", NoBytes)
      \/ \E b \in reverts : data = Data("object", b)
      \/ \E b \in reverts \union OtherBytes : data = Data("string", b)
  BY Zenon DEF DataOf, Absent
<1> QED BY <1>1, <1>2, Zenon

(* What is no revert is answered with a message, or with nothing to tell.  *)
LEMMA OtherNamesAreVague == NamesOfOther \subseteq Vague
<1> SUFFICES ASSUME NEW error \in OtherErrors PROVE getErrorName(error) \in Vague
  BY DEF NamesOfOther
<1> DEFINE data == FirstData(error, {0, 1, 3})
<1>1. Absent \in DataOf({})
  BY DEF DataOf
<1>2. error \in Errors({""}, DataOf({}))
  BY DEF OtherErrors
<1>3. data \in DataOf({})
  BY <1>1, <1>2, FirstDataType
<1>4. error.errorName = ""
  <2>1. \A names, carried : error \in Errors(names, carried) => error.errorName \in names
    BY DEF Errors
  <2>2. error.errorName \in {""}
    BY <1>2, <2>1
  <2> QED BY <2>2
<1> HIDE DEF data
<1>5. data.bytes \in OtherBytes \union {NoBytes}
  BY <1>3, BytesOfData
<1>6. data.bytes.kind \in {"none", "0x", "text"}
  BY <1>5, KindOfOther
<1> QED BY <1>4, <1>6 DEF getErrorName, Vague, data

(* A call that is refused sends nothing: its arguments do not fit, the     *)
(* node estimates a revert, or the node cannot be reached.                 *)
LEMMA RefuseKeeps == ASSUME ClientInv, NEW i, Refuse(i) PROVE ClientInv'
<1>1. /\ Awaited(i) /\ calls[i].tx = "none" /\ UNCHANGED <<signer, chainVars>>
      /\ \E name \in NameType : AnswerError(i, name)
  BY DEF Refuse, NameType
<1> QED BY <1>1, AnswerErrorKeeps

(* A failure after the sending names a revert only if there was one.       *)
LEMMA FailKeeps == ASSUME ClientInv, NEW i, Fail(i) PROVE ClientInv'
<1>1. Awaited(i) /\ UNCHANGED <<signer, chainVars>>
  BY DEF Fail
<1>2. \/ \E name \in NamesOfOther : AnswerError(i, name)
      \/ calls[i].tx = "reverted" /\ \E name \in NamesOfAny : AnswerError(i, name)
  BY DEF Fail
<1>3. ASSUME NEW name \in NamesOfOther, AnswerError(i, name) PROVE ClientInv'
  BY <1>1, <1>3, OtherNamesAreVague, AnswerErrorKeeps DEF NameType
<1>4. ASSUME NEW name \in NamesOfAny, AnswerError(i, name), calls[i].tx = "reverted"
      PROVE  ClientInv'
  BY <1>1, <1>4, AnswerErrorKeeps DEF NameType
<1> QED BY <1>2, <1>3, <1>4

(* A call that gets a value has it of its own event.                       *)
LEMMA AnswerValueKeeps ==
    ASSUME ClientInv, NEW i, Awaited(i), NEW value \in EventType, AnswerValue(i, value),
           calls[i].method \in Writes => calls[i].tx = "mined" /\ value = OwnEvent(calls[i]),
           UNCHANGED <<signer, chainVars>>
    PROVE  ClientInv'
<1> DEFINE c == [calls[i] EXCEPT !.answer = "value", !.value = value]
<1>1. i \in DOMAIN calls /\ calls[i] \in CallType /\ CallOK(calls[i])
  BY CallFacts DEF Awaited
<1>2. calls' = [calls EXCEPT ![i] = c]
  BY <1>1 DEF AnswerValue
<1>3. /\ c \in CallType /\ c.answer = "value" /\ c.value = value
      /\ c.method = calls[i].method /\ c.tx = calls[i].tx /\ c.events = calls[i].events
      /\ c.by = calls[i].by /\ c.from = calls[i].from /\ c.to = calls[i].to
      /\ c.amount = calls[i].amount
  BY <1>1 DEF CallType
<1> HIDE DEF c
<1>4. CallOK(c)
  BY <1>1, <1>3 DEF CallOK, OwnEvent
<1>5. signer' \in Signers /\ balance' \in [Account -> Nat]
  BY DEF ClientInv, TypeOK, chainVars
<1> QED BY <1>1, <1>2, <1>3, <1>4, <1>5, OneCallChanges

(* What getEventArgs finds are events of the receipt.                      *)
LEMMA ArgsAreEvents ==
    ASSUME NEW events \in Seq(EventType), NEW name
    PROVE  getEventArgs(events, name) \subseteq EventType
BY DEF getEventArgs

(* A mined transaction answers with the event of its own call.             *)
LEMMA AnswerKeeps == ASSUME ClientInv, NEW i, Answer(i) PROVE ClientInv'
<1> DEFINE args == getEventArgs(calls[i].events, EventOf[calls[i].method])
<1>1. /\ Awaited(i) /\ calls[i].tx \in {"mined", "reverted"} /\ UNCHANGED <<signer, chainVars>>
      /\ \/ calls[i].tx = "mined" /\ \E e \in args : AnswerValue(i, e)
         \/ AnswerError(i, Message)
  BY DEF Answer
<1>2. calls[i] \in CallType /\ CallOK(calls[i])
  BY <1>1, CallFacts DEF Awaited
<1>3. args \subseteq EventType
  BY <1>2, ArgsAreEvents DEF CallType
<1>4. CASE calls[i].tx = "mined" /\ \E e \in args : AnswerValue(i, e)
  <2>1. PICK e \in args : AnswerValue(i, e)
    BY <1>4
  <2>2. calls[i].method \in Writes => e = OwnEvent(calls[i])
    BY <1>2, <1>4, <2>1 DEF CallOK
  <2>3. e \in EventType
    BY <1>3, <2>1
  <2> QED BY <1>1, <1>4, <2>1, <2>2, <2>3, AnswerValueKeeps
<1>5. CASE AnswerError(i, Message)
  BY <1>1, <1>5, AnswerErrorKeeps DEF NameType, Vague
<1> QED BY <1>1, <1>4, <1>5

(* A view answers at once.                                                 *)
LEMMA ViewKeeps == ASSUME ClientInv, NEW i, View(i) PROVE ClientInv'
<1> DEFINE held == balance[calls[i].from]
           value == Event("", calls[i].by, calls[i].from, Noone, held)
<1>1. /\ Awaited(i) /\ calls[i].method \in Views /\ UNCHANGED <<signer, chainVars>>
      /\ AnswerValue(i, value) \/ AnswerError(i, Message)
  BY DEF View
<1>2. calls[i] \in CallType
  BY <1>1, CallFacts DEF Awaited
<1>3. calls[i].by \in Account /\ calls[i].from \in Account /\ held \in Nat
  BY <1>2 DEF CallType, Account, ClientInv, TypeOK
<1>4. value \in EventType
  BY <1>3 DEF Event, EventType, EventsInABI
<1>5. calls[i].method \notin Writes
  BY <1>1 DEF Views, Writes, Transfers
<1> HIDE DEF value
<1> QED BY <1>1, <1>4, <1>5, AnswerValueKeeps, AnswerErrorKeeps DEF NameType, Vague

(* Sending a call answers nothing yet.                                     *)
LEMMA SendKeeps == ASSUME ClientInv, NEW i, Send(i) PROVE ClientInv'
<1> DEFINE c == [calls[i] EXCEPT !.tx = "pending"]
<1>1. i \in DOMAIN calls /\ calls[i] \in CallType /\ CallOK(calls[i]) /\ calls[i].answer = "none"
  BY CallFacts DEF Send, Awaited
<1>2. calls' = [calls EXCEPT ![i] = c]
  BY <1>1 DEF Send
<1>3. c \in CallType /\ c.answer = "none" /\ c.tx = "pending"
  BY <1>1 DEF CallType
<1> HIDE DEF c
<1>4. CallOK(c)
  BY <1>3 DEF CallOK
<1>5. signer' \in Signers /\ balance' \in [Account -> Nat]
  BY DEF Send, ClientInv, TypeOK, chainVars
<1> QED BY <1>1, <1>2, <1>3, <1>4, <1>5, OneCallChanges

-----------------------------------------------------------------------------

(* What is sent is covered by the sender, and then held by the receiver.   *)
LEMMA SentType ==
    ASSUME NEW held \in [Account -> Nat], NEW from \in Account, NEW to \in Account \union {Noone},
           NEW amount \in Nat, amount <= held[from]
    PROVE  /\ Sent(held, from, to, amount) \in [Account -> Nat]
           /\ to # Noone => amount <= Sent(held, from, to, amount)[to]
<1> DEFINE taken == [held EXCEPT ![from] = @ - amount]
<1>1. taken \in [Account -> Nat]
  <2>1. held[from] - amount \in Nat
    OBVIOUS
  <2> QED BY <2>1
<1>2. CASE to = Noone
  BY <1>1, <1>2 DEF Sent
<1>3. CASE to # Noone
  <2>1. to \in Account /\ Sent(held, from, to, amount) = [taken EXCEPT ![to] = @ + amount]
    BY <1>3 DEF Sent
  <2> HIDE DEF taken
  <2>2. taken[to] + amount \in Nat /\ amount <= taken[to] + amount
    BY <1>1, <2>1
  <2> QED BY <1>1, <2>1, <2>2
<1> QED BY <1>2, <1>3

(* The events a transaction emits have their type.                         *)
LEMMA EventTyped ==
    ASSUME NEW name, NEW operator \in Account, NEW from \in Account,
           NEW to \in Account \union {Noone}, NEW amount \in Nat
    PROVE  Event(name, operator, from, to, amount) \in EventType
BY DEF Event, EventType

(* The first event with a name is the first event, if that has the name.   *)
LEMMA FirstEventFound ==
    ASSUME NEW events \in Seq(EventType), NEW name, 1 \in DOMAIN events,
           events[1].event = name, NEW e \in getEventArgs(events, name)
    PROVE  e = events[1]
<1> DEFINE found == {k \in DOMAIN events : events[k].event = name}
<1>1. PICK k \in found : (\A other \in found : k <= other) /\ e = events[k]
  BY DEF getEventArgs
<1>2. 1 \in found /\ k \in Nat \ {0}
  OBVIOUS
<1> HIDE DEF found
<1>3. k = 1
  BY <1>1, <1>2
<1> QED BY <1>1, <1>3

(* Nothing is found under a name that no event has.                        *)
LEMMA NoEventFound ==
    ASSUME NEW events, NEW name, \A k \in DOMAIN events : events[k].event # name
    PROVE  getEventArgs(events, name) = {}
BY DEF getEventArgs

(* A transaction that is mined has its own event first, of those with its  *)
(* name.                                                                   *)
LEMMA MinedKeeps ==
    ASSUME ClientInv, NEW i \in DOMAIN calls, calls[i].tx = "pending",
           NEW events \in Seq(EventType),
           calls[i].method \in Writes =>
               \A e \in getEventArgs(events, EventOf[calls[i].method]) : e = OwnEvent(calls[i]),
           calls' = [calls EXCEPT ![i].tx = "mined", ![i].events = events],
           signer' \in Signers, balance' \in [Account -> Nat]
    PROVE  ClientInv'
<1> DEFINE c == [calls[i] EXCEPT !.tx = "mined", !.events = events]
<1>1. calls[i] \in CallType /\ CallOK(calls[i]) /\ calls \in Seq(CallType)
  BY CallFacts DEF ClientInv, TypeOK
<1>2. calls' = [calls EXCEPT ![i] = c]
  BY <1>1
<1>3. /\ c \in CallType /\ c.tx = "mined" /\ c.events = events
      /\ c.method = calls[i].method /\ c.answer = calls[i].answer /\ c.value = calls[i].value
      /\ c.name = calls[i].name /\ c.by = calls[i].by /\ c.from = calls[i].from
      /\ c.to = calls[i].to /\ c.amount = calls[i].amount
  BY <1>1 DEF CallType
<1> HIDE DEF c
<1>4. OwnEvent(c) = OwnEvent(calls[i])
  BY <1>3 DEF OwnEvent
<1>5. CallOK(c)
  BY <1>1, <1>3, <1>4 DEF CallOK
<1> QED BY <1>2, <1>3, <1>5, OneCallChanges

(* Running a transaction emits the event of its call.                      *)
LEMMA RunKeeps ==
    ASSUME ClientInv, NEW i \in DOMAIN calls, NEW on \in Account,
           calls[i].tx = "pending", CanRun(calls[i]), Run(i, on), signer' = signer
    PROVE  ClientInv'
<1> DEFINE c == calls[i]
           sent == Sent(balance, c.from, c.to, c.amount)
           passedOn == Event(EventOf[c.method], c.to, c.to, on, c.amount)
           ranWith(events) == calls' = [calls EXCEPT ![i].tx = "mined", ![i].events = events]
<1>0. c \in CallType /\ balance \in [Account -> Nat] /\ signer' \in Signers
  BY CallFacts DEF ClientInv, TypeOK
<1>1. /\ c.by \in Account /\ c.from \in Account /\ c.to \in Account \union {Noone}
      /\ c.amount \in Nat
  BY <1>0 DEF CallType, Account
<1>2. OwnEvent(c) \in EventType
  BY <1>1, EventTyped DEF OwnEvent
<1>3. \A method \in Transfers \union {"setApprovalForAll"} : EventOf[method] \in EventsInABI
  BY DEF Transfers, EventOf, EventsInABI
<1>4. c.method \in Transfers \union {"setApprovalForAll"} =>
          OwnEvent(c).event = EventOf[c.method]
  BY <1>3 DEF OwnEvent, Event
<1>5. CASE c.method \in Transfers
  <2>1. c.amount <= balance[c.from]
    BY <1>5 DEF CanRun
  <2>2. sent \in [Account -> Nat] /\ (c.to # Noone => c.amount <= sent[c.to])
    BY <1>0, <1>1, <2>1, SentType
  <2>3. c.method # "setApprovalForAll" /\ c.method # "enterToGate"
    BY <1>5 DEF Transfers
  <2>4. \/ balance' = sent /\ ranWith(<<OwnEvent(c)>>)
        \/ /\ c.to \in Receivers
           /\ balance' = Sent(sent, c.to, on, c.amount) /\ ranWith(<<OwnEvent(c), passedOn>>)
    BY <2>3 DEF Run
  <2> HIDE DEF c, sent
  <2>5. CASE balance' = sent /\ ranWith(<<OwnEvent(c)>>)
    <3> DEFINE events == <<OwnEvent(c)>>
    <3>1. events \in Seq(EventType) /\ 1 \in DOMAIN events /\ events[1] = OwnEvent(c)
      BY <1>2
    <3>2. calls' = [calls EXCEPT ![i].tx = "mined", ![i].events = events]
      BY <2>5
    <3> HIDE DEF events
    <3>3. \A e \in getEventArgs(events, EventOf[c.method]) : e = OwnEvent(c)
      BY <1>4, <1>5, <3>1, FirstEventFound
    <3> QED BY <1>0, <2>2, <2>5, <3>1, <3>2, <3>3, MinedKeeps DEF c
  <2>6. CASE /\ c.to \in Receivers
             /\ balance' = Sent(sent, c.to, on, c.amount) /\ ranWith(<<OwnEvent(c), passedOn>>)
    <3> DEFINE events == <<OwnEvent(c), passedOn>>
    <3>1. c.to \in Account /\ c.to # Noone
      BY <2>6, NooneAssumption DEF Account
    <3>2. passedOn \in EventType
      BY <1>1, <2>6, EventTyped DEF Account
    <3>3. events \in Seq(EventType) /\ 1 \in DOMAIN events /\ events[1] = OwnEvent(c)
      BY <1>2, <3>2
    <3>4. calls' = [calls EXCEPT ![i].tx = "mined", ![i].events = events]
      BY <2>6
    <3> HIDE DEF events
    <3>5. \A e \in getEventArgs(events, EventOf[c.method]) : e = OwnEvent(c)
      BY <1>4, <1>5, <3>3, FirstEventFound
    <3>6. balance' \in [Account -> Nat]
      <4>1. Sent(sent, c.to, on, c.amount) \in [Account -> Nat]
        BY <1>1, <2>2, <3>1, SentType
      <4> QED BY <2>6, <4>1
    <3> QED BY <1>0, <3>3, <3>4, <3>5, <3>6, MinedKeeps DEF c
  <2> QED BY <2>4, <2>5, <2>6
<1>6. CASE c.method = "setApprovalForAll"
  <2>1. c.method \notin Transfers /\ c.method # "enterToGate"
    BY <1>6 DEF Transfers
  <2> DEFINE events == <<OwnEvent(c)>>
  <2>2. calls' = [calls EXCEPT ![i].tx = "mined", ![i].events = events] /\ balance' = balance
    BY <2>1 DEF Run
  <2>3. events \in Seq(EventType) /\ 1 \in DOMAIN events /\ events[1] = OwnEvent(c)
    BY <1>2
  <2> HIDE DEF events, c
  <2>4. \A e \in getEventArgs(events, EventOf[c.method]) : e = OwnEvent(c)
    BY <1>4, <1>6, <2>3, FirstEventFound
  <2> QED BY <1>0, <2>2, <2>3, <2>4, MinedKeeps DEF c
<1>7. CASE c.method = "enterToGate"
  <2>1. c.method \notin Transfers /\ c.method # "setApprovalForAll"
    BY <1>7 DEF Transfers
  <2> DEFINE first == Event("", c.by, c.by, Noone, 1)
             events == <<first, OwnEvent(c)>>
  <2>2. calls' = [calls EXCEPT ![i].tx = "mined", ![i].events = events] /\ balance' = balance
    BY <2>1 DEF Run
  <2>3. first \in EventType /\ first.event = ""
    BY <1>1, EventTyped DEF Event, EventsInABI
  <2>4. EventOf[c.method] = "GateCreated" /\ OwnEvent(c).event = ""
    BY <1>7 DEF EventOf, OwnEvent, Event, EventsInABI
  <2> HIDE DEF first
  <2>5. events \in Seq(EventType) /\ \A k \in DOMAIN events : events[k].event = ""
    <3>1. DOMAIN events = {1, 2} /\ events[1] = first /\ events[2] = OwnEvent(c)
      OBVIOUS
    <3> HIDE DEF c
    <3>2. events \in Seq(EventType)
      <4>1. ASSUME NEW a \in EventType, NEW b \in EventType PROVE <<a, b>> \in Seq(EventType)
        OBVIOUS
      <4> QED BY <1>2, <2>3, <4>1
    <3> HIDE DEF events
    <3> QED BY <2>3, <2>4, <3>1, <3>2
  <2> HIDE DEF events, c
  <2>6. getEventArgs(events, EventOf[c.method]) = {}
    BY <2>4, <2>5, NoEventFound
  <2> QED BY <1>0, <2>2, <2>5, <2>6, MinedKeeps DEF c
<1> QED BY <1>5, <1>6, <1>7 DEF Run

(* A transaction that is mined runs, or reverts.                           *)
LEMMA MineKeeps == ASSUME ClientInv, NEW i, NEW on \in Account, Mine(i, on) PROVE ClientInv'
<1>1. i \in DOMAIN calls /\ calls[i].tx = "pending" /\ signer' = signer
  BY DEF Mine
<1>2. CASE CanRun(calls[i])
  BY <1>1, <1>2, RunKeeps DEF Mine
<1>3. CASE ~CanRun(calls[i])
  <2> DEFINE c == [calls[i] EXCEPT !.tx = "reverted"]
  <2>1. calls[i] \in CallType /\ CallOK(calls[i])
    BY <1>1, CallFacts
  <2>2. calls' = [calls EXCEPT ![i] = c] /\ UNCHANGED chainVars
    BY <1>1, <1>3 DEF Mine
  <2>3. /\ c \in CallType /\ c.tx = "reverted"
        /\ c.method = calls[i].method /\ c.answer = calls[i].answer
        /\ c.name = calls[i].name
    BY <2>1 DEF CallType
  <2> HIDE DEF c
  <2>4. CallOK(c)
    BY <1>1, <2>1, <2>3 DEF CallOK
  <2>5. signer' \in Signers /\ balance' \in [Account -> Nat]
    BY <1>1, <2>2 DEF ClientInv, TypeOK, chainVars
  <2> QED BY <1>1, <2>2, <2>3, <2>4, <2>5, OneCallChanges
<1> QED BY <1>2, <1>3

(* A call that is made has sent nothing.                                   *)
LEMMA InvokeKeeps ==
    ASSUME ClientInv, NEW method \in Writes \union Views, NEW from \in Signers,
           NEW to \in Account \union {Noone}, NEW amount \in Nat,
           Invoke(method, from, to, amount)
    PROVE  ClientInv'
<1> DEFINE c == [method |-> method, by |-> signer, from |-> from, to |-> to, amount |-> amount,
                 tx |-> "none", events |-> << >>, answer |-> "none",
                 value |-> << >>, name |-> ""]
<1>1. calls \in Seq(CallType) /\ signer \in Signers
  BY DEF ClientInv, TypeOK
<1>2. calls' = Append(calls, c) /\ UNCHANGED <<signer, chainVars>>
  BY DEF Invoke
<1>3. /\ << >> \in Seq(EventType) /\ "" \in NameType
      /\ << >> \in EventType \union {<< >>}
  BY DEF NameType
<1>4. c \in CallType /\ c.tx = "none" /\ c.answer = "none"
  BY <1>1, <1>3 DEF CallType
<1> HIDE DEF c
<1>5. CallOK(c)
  BY <1>4 DEF CallOK
<1>6. calls' \in Seq(CallType)
  BY <1>1, <1>2, <1>4
<1>7. \A j \in DOMAIN calls' : CallOK(calls'[j])
  <2>1. ASSUME NEW j \in DOMAIN calls' PROVE CallOK(calls'[j])
    <3>1. CASE j \in DOMAIN calls
      <4>1. calls'[j] = calls[j]
        BY <1>1, <1>2, <1>4, <3>1
      <4> QED BY <3>1, <4>1 DEF ClientInv
    <3>2. CASE j \notin DOMAIN calls
      <4>1. calls'[j] = c
        BY <1>1, <1>2, <1>4, <3>2
      <4> QED BY <1>5, <4>1
    <3> QED BY <3>1, <3>2
  <2> QED BY <2>1
<1> QED BY <1>2, <1>6, <1>7
        DEF ClientInv, TypeOK, chainVars, CallOK, getEventArgs, OwnEvent, Event

(* Every step of a caller, the network or the chain keeps the invariant.   *)
THEOREM ClientStep == ClientInv /\ [Next]_vars => ClientInv'
<1> SUFFICES ASSUME ClientInv, [Next]_vars PROVE ClientInv'
  OBVIOUS
<1>1. ASSUME NEW s \in Signers, setContractSigner(s) PROVE ClientInv'
  BY <1>1, CallsUnchanged DEF setContractSigner, ClientInv, TypeOK, chainVars
<1>2. ASSUME NEW method \in Writes \union Views, NEW from \in Signers,
             NEW to \in Account \union {Noone}, NEW amount \in 0..Supply,
             Invoke(method, from, to, amount)
      PROVE  ClientInv'
  BY <1>2, InvokeKeeps, SupplyAssumption
<1>3. CASE UNCHANGED vars
  BY <1>3, CallsUnchanged DEF vars, ClientInv, TypeOK, chainVars
<1> QED BY <1>1, <1>2, <1>3, RefuseKeeps, SendKeeps, MineKeeps, AnswerKeeps, ViewKeeps,
           FailKeeps DEF Next

(* No call has been made at the start.                                     *)
LEMMA ClientStarts == Init => ClientInv
<1> SUFFICES ASSUME Init PROVE ClientInv
  OBVIOUS
<1>1. calls \in Seq(CallType) /\ DOMAIN calls = {}
  BY DEF Init
<1>2. balance \in [Account -> Nat] /\ signer \in Signers
  BY SupplyAssumption DEF Init
<1> QED BY <1>1, <1>2 DEF ClientInv, TypeOK

(* However calls overlap: the types, and what each call has sent and was   *)
(* told.                                                                   *)
THEOREM ClientInvariant == Spec => []ClientInv
  BY ClientStarts, ClientStep, PTL DEF Spec

(* However many calls overlap, by whoever is the signer by then: the event *)
(* a write returns (Contract.ts:46) is of its own transaction and tells    *)
(* what it asked for.                                                      *)
THEOREM AnswersAreOwnHolds == Spec => []AnswersAreOwn
<1>1. ClientInv => AnswersAreOwn
  BY DEF ClientInv, CallOK, AnswersAreOwn
<1> QED BY <1>1, ClientInvariant, PTL

(* A call that is answered with the name of a revert (Contract.ts:75) has  *)
(* changed nothing and never will, however many calls overlap.             *)
THEOREM NamedErrorsMovedNothingHolds == Spec => []NamedErrorsMovedNothing
<1>1. ClientInv => NamedErrorsMovedNothing
  BY DEF ClientInv, CallOK, NamedErrorsMovedNothing, Vague
<1> QED BY <1>1, ClientInvariant, PTL

-----------------------------------------------------------------------------

(* A text is no revert.                                                    *)
LEMMA TextDecodes ==
    \A content : decodeReturnData(Text(content), CustomErrors) = UNKNOWN_ERROR
BY PartsOfBytes DEF decodeReturnData, findCustomErrorById, Text

(* Both decoders make the same of the data they find, whatever it is.      *)
LEMMA SameBytesAgree ==
    ASSUME NEW error \in ErrorType, error.instance, error.errorName = "",
           FirstData(error, {0, 1, 3}) # Absent
    PROVE  Agree(Decode(error))
<1> DEFINE data == FirstData(error, {0, 1, 3})
           bytes == data.bytes
<1>1. data \in DataOf(RevertBytes)
  <2>1. Absent \in DataOf(RevertBytes)
    BY DEF DataOf
  <2> QED BY <2>1, FirstDataType DEF ErrorType
<1>2. bytes \in RevertBytes \union OtherBytes \union {NoBytes}
  BY <1>1, BytesOfData
<1>3. getReturnDataFromError(error) = IF bytes = NoBytes THEN Text(UNKNOWN_ERROR) ELSE bytes
  BY DEF getReturnDataFromError
<1>4. /\ Decode(error).name = getErrorName(error)
      /\ Decode(error).reason = decodeReturnData(getReturnDataFromError(error), CustomErrors)
  BY DEF Decode, getReasonFromError
<1> HIDE DEF data
<1>5. CASE bytes \in OtherBytes \union {NoBytes}
  <2>1. bytes.kind \in {"none", "0x", "text"}
    BY <1>5, KindOfOther
  <2>2. getErrorName(error) = UNKNOWN_ERROR
    BY <2>1 DEF getErrorName, data
  <2>3. decodeReturnData(getReturnDataFromError(error), CustomErrors) = UNKNOWN_ERROR
    BY <1>3, <2>1, TextDecodes DEF decodeReturnData, findCustomErrorById
  <2> QED BY <1>4, <2>2, <2>3 DEF Agree
<1>6. ASSUME NEW content, bytes = Bytes("Error", content) PROVE Agree(Decode(error))
  <2> HIDE DEF bytes
  <2>0. bytes.kind = "Error" /\ bytes.content = content
    BY <1>6, PartsOfBytes, Zenon
  <2>1. bytes.kind = "Error" /\ bytes.content = content /\ bytes # NoBytes
    BY <2>0, NothingIsNone
  <2> QED BY <1>3, <1>4, <2>1 DEF Agree, getErrorName, decodeReturnData, data, bytes
<1>7. ASSUME NEW content, bytes = Bytes("Panic", content) PROVE Agree(Decode(error))
  <2> HIDE DEF bytes
  <2>0. bytes.kind = "Panic" /\ bytes.content = content
    BY <1>7, PartsOfBytes, Zenon
  <2>1. bytes.kind = "Panic" /\ bytes.content = content /\ bytes # NoBytes
    BY <2>0, NothingIsNone
  <2>2. PANIC_CODES = PanicCodes
    BY DEF PANIC_CODES, PanicCodes
  <2> QED BY <1>3, <1>4, <2>1, <2>2 DEF Agree, getErrorName, decodeReturnData, data, bytes
<1>8. ASSUME NEW name \in CustomErrors, bytes = Bytes("custom", name)
      PROVE  Agree(Decode(error))
  <2> HIDE DEF bytes
  <2>0. bytes.kind = "custom" /\ bytes.content = name
    BY <1>8, PartsOfBytes, Zenon
  <2>1. bytes.kind = "custom" /\ bytes.content = name /\ bytes # NoBytes /\ name # CutOff
    BY <2>0, NothingIsNone, NamesAssumption
  <2>2. decodeReturnData(getReturnDataFromError(error), CustomErrors) = name
    BY <1>3, <2>1 DEF decodeReturnData, findCustomErrorById, bytes
  <2>3. getErrorName(error) = IF name \in CUSTOM_ERROR THEN name ELSE UNKNOWN_ERROR
    BY <2>1 DEF getErrorName, data, bytes
  <2> QED BY <1>4, <2>2, <2>3 DEF Agree
<1> QED BY <1>2, <1>5, <1>6, <1>7, <1>8 DEF RevertBytes

(* The rest of what can be thrown: no Error, one that ethers has named,    *)
(* and one without data.                                                   *)
LEMMA OtherDecodesAgree ==
    ASSUME NEW error \in ErrorType,
           \/ ~ error.instance \/ error.errorName # ""
           \/ FirstData(error, {0, 1, 3}) = Absent
    PROVE  Agree(Decode(error))
<1>1. /\ Decode(error).name = getErrorName(error)
      /\ Decode(error).reason = getReasonFromError(error, CustomErrors)
      /\ Decode(error).instance = error.instance
      /\ Decode(error).errorName = error.errorName
  BY DEF Decode
<1>2. CASE ~ error.instance
  BY <1>1, <1>2 DEF Agree, getErrorName, getReasonFromError
<1>4. CASE error.instance /\ error.errorName # ""
  <2>1. getErrorName(error) = error.errorName
    BY <1>4 DEF getErrorName
  <2>2. getReasonFromError(error, CustomErrors) = UNKNOWN_ERROR
    BY <1>4, TextDecodes DEF getReasonFromError, getReturnDataFromError
  <2> QED BY <1>1, <2>1, <2>2 DEF Agree
<1>5. CASE error.instance /\ error.errorName = "" /\ FirstData(error, {0, 1, 3}) = Absent
  <2>1. getErrorName(error) \in {Message, UNKNOWN_ERROR}
    BY <1>5 DEF getErrorName
  <2>2. getReasonFromError(error, CustomErrors) = UNKNOWN_ERROR
    <3>1. \E content : getReturnDataFromError(error) = Text(content)
      BY <1>5, Zenon DEF getReturnDataFromError
    <3> QED BY <1>5, <3>1, TextDecodes DEF getReasonFromError
  <2> QED BY <1>1, <2>1, <2>2 DEF Agree
<1> QED BY <1>2, <1>4, <1>5

(* Whatever custom errors there are, and whatever was thrown: the client   *)
(* (Contract.ts:54) and the handler (error-handler.ts:5) make the same of  *)
(* it, but for the differences meant.                                      *)
THEOREM DecodersAgreeHolds == Spec => []DecodersAgree
<1>1. \A error \in ErrorType : Agree(Decode(error))
  BY SameBytesAgree, OtherDecodesAgree, Zenon
<1>2. DecodersAgree
  BY <1>1 DEF DecodersAgree, Decoded
<1> QED BY <1>2, PTL

=============================================================================
