---------------------------- MODULE TokenClient ----------------------------
(***************************************************************************)
(* helpers/client: the classes through which programs use a token and the  *)
(* gate.  Every method asks the node, waits for what it sent to be mined,  *)
(* reads its own event off the receipt and returns that, or an Error with  *)
(* a name or a message.  Calls of several programs overlap, what is sent   *)
(* may be mined after the method gave up, and a receiver may pass on what  *)
(* it gets in the same transaction.  The node, ethers and the chain are    *)
(* modelled by what the classes see of them.                               *)
(***************************************************************************)
EXTENDS ErrorNames, Sequences

CONSTANTS
    Signers,        \* accounts that sign; each starts with a key and Supply tokens
    Receivers,      \* contracts that may send on what they receive
    Supply,
    MaxCalls,       \* bound: calls of the methods
    MaxNumber       \* the largest value toNumber returns, for 2^53 - 1

ASSUME SupplyAssumption == Supply \in Nat /\ MaxNumber \in Nat
ASSUME ReceiversAssumption == Signers \intersect Receivers = {}

Noone == "address(0)"
Account == Signers \union Receivers
ASSUME NooneAssumption == Noone \notin Account

Transfers == {"safeTransferFrom", "safeBatchTransferFrom", "burn", "burnBatch"}
Writes == Transfers \union {"setApprovalForAll", "enterToGate"}
Views == {"balanceOf"}

VARIABLES
    signer,     \* who the client signs as
    calls,      \* the calls, in their order
    balance,    \* account -> tokens
    keys,       \* signer -> gate keys
    approved    \* the pairs of a holder and an operator of its tokens

vars == <<signer, calls, balance, keys, approved>>
chainVars == <<balance, keys, approved>>

----------------------------------------------------------------------------
(* What a method answers when it catches one of these.                     *)
NamesOfAny == {getErrorName(error) : error \in ErrorType}
NamesOfOther == {getErrorName(error) : error \in OtherErrors}

----------------------------------------------------------------------------
(* The chain.  An event has a name in the receipt when the client's ABI    *)
(* has its signature; that of GateCreated is not the one the gate emits.   *)
EventOf ==
    [safeTransferFrom |-> "TransferSingle", burn |-> "TransferSingle",
     safeBatchTransferFrom |-> "TransferBatch", burnBatch |-> "TransferBatch",
     setApprovalForAll |-> "ApprovalForAll", enterToGate |-> "GateCreated"]
EventsInABI == {"TransferSingle", "TransferBatch", "ApprovalForAll"}
Event(name, operator, from, to, amount) ==
    [event |-> IF name \in EventsInABI THEN name ELSE "",
     operator |-> operator, from |-> from, to |-> to, amount |-> amount]
OwnEvent(c) == Event(EventOf[c.method], c.by, c.from, c.to, c.amount)

\* burnBatch passes an argument more than its function has.
FitsABI(c) == c.method # "burnBatch"

CanRun(c) ==
    /\ c.method \in Transfers =>
           /\ c.from = c.by \/ <<c.from, c.by>> \in approved
           /\ c.amount <= balance[c.from]
    /\ c.method = "enterToGate" => keys[c.by] > 0

Sent(held, from, to, amount) ==
    LET taken == [held EXCEPT ![from] = @ - amount]
    IN  IF to = Noone THEN taken ELSE [taken EXCEPT ![to] = @ + amount]

\* What a transaction does, and the events of its receipt: `on` is where
\* the receiver sends what it got, itself if it keeps it.
Run(i, on) ==
    LET c == calls[i]
        sent == Sent(balance, c.from, c.to, c.amount)
        passedOn == Event(EventOf[c.method], c.to, c.to, on, c.amount)
        ranWith(events) == calls' = [calls EXCEPT ![i].tx = "mined", ![i].events = events]
    IN  \/ /\ c.method \in Transfers
           /\ IF c.to \in Receivers /\ on # c.to
              THEN balance' = Sent(sent, c.to, on, c.amount) /\ ranWith(<<OwnEvent(c), passedOn>>)
              ELSE balance' = sent /\ ranWith(<<OwnEvent(c)>>)
           /\ UNCHANGED <<keys, approved>>
        \/ /\ c.method = "setApprovalForAll"
           /\ approved' = IF c.amount = 1 THEN approved \union {<<c.from, c.to>>}
                          ELSE approved \ {<<c.from, c.to>>}
           /\ ranWith(<<OwnEvent(c)>>)
           /\ UNCHANGED <<balance, keys>>
        \/ /\ c.method = "enterToGate"
           /\ keys' = [keys EXCEPT ![c.by] = @ - 1]
           /\ ranWith(<<Event("", c.by, c.by, Noone, 1), OwnEvent(c)>>)
           /\ UNCHANGED <<balance, approved>>

----------------------------------------------------------------------------
Init ==
    /\ signer \in Signers
    /\ calls = << >>
    /\ balance = [a \in Account |-> IF a \in Signers THEN Supply ELSE 0]
    /\ keys = [s \in Signers |-> 1]
    /\ approved = {}

Awaited(i) == i \in DOMAIN calls /\ calls[i].answer = "none"
AnswerValue(i, value) ==
    calls' = [calls EXCEPT ![i].answer = "value", ![i].value = value]
AnswerError(i, name) ==
    calls' = [calls EXCEPT ![i].answer = "error", ![i].name = name]

setContractSigner(s) == signer' = s /\ UNCHANGED <<calls, chainVars>>

\* A program calls a method; the contract object it uses signs as of now.
Invoke(method, from, to, amount) ==
    /\ Len(calls) < MaxCalls
    /\ method = "safeTransferFrom" \/ method = "safeBatchTransferFrom" => to # Noone
    /\ method \in {"burn", "burnBatch"} => to = Noone
    /\ method = "setApprovalForAll" => from = signer /\ to \in Signers \ {signer} /\ amount <= 1
    /\ method = "enterToGate" => from = signer /\ to = Noone /\ amount = 1
    /\ method \in Transfers => amount > 0
    /\ method \in Views => to = Noone /\ amount = 0
    /\ calls' = Append(calls,
           [method |-> method, by |-> signer, from |-> from, to |-> to, amount |-> amount,
            tx |-> "none", events |-> << >>, answer |-> "none",
            value |-> << >>, name |-> ""])
    /\ UNCHANGED <<signer, chainVars>>

\* Nothing is sent: the arguments do not fit, the node estimates a revert,
\* or it cannot be reached.
Refuse(i) ==
    /\ Awaited(i) /\ calls[i].tx = "none"
    /\ \/ \E name \in NamesOfOther : AnswerError(i, name)
       \/ /\ FitsABI(calls[i]) /\ ~CanRun(calls[i])
          /\ \E name \in NamesOfAny : AnswerError(i, name)
    /\ UNCHANGED <<signer, chainVars>>

Send(i) ==
    /\ Awaited(i) /\ calls[i].tx = "none" /\ calls[i].method \in Writes
    /\ FitsABI(calls[i]) /\ CanRun(calls[i])
    /\ calls' = [calls EXCEPT ![i].tx = "pending"]
    /\ UNCHANGED <<signer, chainVars>>

Mine(i, on) ==
    /\ i \in DOMAIN calls /\ calls[i].tx = "pending"
    /\ IF CanRun(calls[i]) THEN Run(i, on)
       ELSE calls' = [calls EXCEPT ![i].tx = "reverted"] /\ UNCHANGED chainVars
    /\ UNCHANGED signer

\* The args of the first event with the name.
getEventArgsLast(events, name) ==       \* faulty: of the last one
    LET found == {k \in DOMAIN events : events[k].event = name}
    IN  {events[k] : k \in {k \in found : \A other \in found : other <= k}}
getEventArgs(events, name) ==
    LET found == {k \in DOMAIN events : events[k].event = name}
    IN  {events[k] : k \in {k \in found : \A other \in found : k <= other}}

\* The receipt arrives.  A revert, a missing event and a number too large
\* all throw, an Error with a message.
Answer(i) ==
    LET c == calls[i]
        args == getEventArgs(c.events, EventOf[c.method])
    IN  /\ Awaited(i) /\ c.tx \in {"mined", "reverted"}
        /\ IF c.tx = "mined" /\ \E e \in args : e.amount <= MaxNumber
           THEN \E e \in args : AnswerValue(i, e)
           ELSE AnswerError(i, Message)
        /\ UNCHANGED <<signer, chainVars>>

\* A view is answered by the node at once, if its number is not too large.
View(i) ==
    LET c == calls[i]
        held == balance[c.from]
    IN  /\ Awaited(i) /\ c.method \in Views
        /\ IF held <= MaxNumber THEN AnswerValue(i, Event("", c.by, c.from, Noone, held))
           ELSE AnswerError(i, Message)
        /\ UNCHANGED <<signer, chainVars>>

\* Sending or waiting fails: the node does not answer or refuses to, and what
\* was sent stays sent.  A node that mines at once may also answer the sending
\* with the revert.
Fail(i) ==
    /\ Awaited(i) /\ calls[i].tx # "none"
    /\ \/ \E name \in NamesOfOther : AnswerError(i, name)
       \/ calls[i].tx = "reverted" /\ \E name \in NamesOfAny : AnswerError(i, name)
    /\ UNCHANGED <<signer, chainVars>>

Next ==
    \/ \E s \in Signers : setContractSigner(s)
    \/ \E method \in Writes \union Views, from \in Signers, to \in Account \union {Noone}, amount \in 0..Supply :
           Invoke(method, from, to, amount)
    \/ \E i \in 1..MaxCalls :
           \/ Refuse(i)
           \/ Send(i)
           \/ \E on \in Account : Mine(i, on)
           \/ Answer(i)
           \/ View(i)
           \/ Fail(i)

Spec == Init /\ [][Next]_vars

----------------------------------------------------------------------------
(* A write that returns its event has been mined, and the event tells what *)
(* this call asked for, by the signer it was made for: not what a receiver *)
(* did in the same transaction, nor what another signer set since would    *)
(* (Contract.ts:46 takes the first event with the name).                   *)
AnswersAreOwn ==
    \A i \in DOMAIN calls :
        calls[i].method \in Writes /\ calls[i].answer = "value"
            => calls[i].tx = "mined" /\ calls[i].value = OwnEvent(calls[i])

(* An Error that names a revert (its reason, a panic, a custom error) has  *)
(* changed nothing and never will: a program may repeat the call.  One     *)
(* with a message (Contract.ts:69) or the "Unknown Error" of the other     *)
(* cases may come of a call that is mined, or will be.                     *)
NamedErrorsMovedNothing ==
    \A i \in DOMAIN calls :
        calls[i].answer = "error" /\ calls[i].name \notin {Message, UNKNOWN_ERROR}
            => calls[i].tx \in {"none", "reverted"}

(* Whatever was thrown when a call answered a name, helpers/error-handler  *)
(* reports the same for it, at whatever depth the data of the revert is    *)
(* (Contract.ts:54, error-handler.ts:5), but for the differences meant.    *)
DecodersAgree ==
    \A i \in DOMAIN calls, decoded \in Decoded :
        calls[i].answer = "error" /\ calls[i].name = decoded.name => Agree(decoded)
============================================================================
