----------------------------- MODULE ErrorNames -----------------------------
(***************************************************************************)
(* What a thrown value tells of a revert.  The repository decodes it       *)
(* twice: for the client (helpers/client/Contract.ts) and, over the errors *)
(* of an interface, in helpers/error-handler.ts.  Both are written out     *)
(* here.  Bytes are told by what they start with and what follows.         *)
(***************************************************************************)
EXTENDS Naturals

CONSTANTS
    CustomErrors,   \* the custom errors of the contracts, and of their interfaces
    CUSTOM_ERROR    \* those the client's table has a name for

UNKNOWN_ERROR == "Unknown Error"
Message == "the message of the error"
Thrown == "an AssertionError"
CutOff == "bytes that do not decode"
ASSUME NamesAssumption ==
    CustomErrors \intersect {"", UNKNOWN_ERROR, Message, Thrown, CutOff} = {}

\* The codes of a panic the client (common.ts) and the handler know.
PANIC_CODES == {"0x1", "0x11", "0x12", "0x21", "0x22", "0x31", "0x32", "0x41", "0x51"}
PanicCodes == {"0x1", "0x11", "0x12", "0x21", "0x22", "0x31", "0x32", "0x41", "0x51"}

Bytes(kind, content) == [kind |-> kind, content |-> content]
RevertBytes ==
    {Bytes("Error", content) : content \in {"a reason", CutOff}}
        \union {Bytes("Panic", code) : code \in PANIC_CODES \union PanicCodes \union {"0x99", CutOff}}
        \union {Bytes("custom", name) : name \in CustomErrors}
OtherBytes == {Bytes("0x", ""), Bytes("text", "a text of the node")}
NoBytes == Bytes("none", "")

(* The data of an error: absent, a string, or an object, in which a node   *)
(* may put the bytes of a revert.                                          *)
Data(form, bytes) == [form |-> form, bytes |-> bytes]
Absent == Data("absent", NoBytes)
DataOf(reverts) ==
    {Absent, Data("object", NoBytes)}
        \union {Data("object", b) : b \in reverts}
        \union {Data("string", b) : b \in reverts \union OtherBytes}

(* What can be thrown: `instance' tells an Error from any other value,     *)
(* `errorName' is the custom error's name if ethers found it, and data[d]  *)
(* is error.data, error.error.data and so on, at two depths at most.       *)
Depth == 0..3
Nested(d, x, e, y) == [k \in Depth |-> IF k = d THEN x ELSE IF k = e THEN y ELSE Absent]
Errors(names, data) ==
    [instance : BOOLEAN, errorName : names, message : BOOLEAN,
     data : {Nested(d, x, e, y) : d \in Depth, x \in data, e \in Depth, y \in data}]
ErrorType == Errors(CustomErrors \union {""}, DataOf(RevertBytes))
(* What has nothing to do with a revert: the node did not answer, refused  *)
(* to, or answered something the method stumbles over.                     *)
OtherErrors == Errors({""}, DataOf({}))

\* The first of the data at these depths that is not absent.
FirstData(error, depths) ==
    LET present == {d \in depths : error.data[d] # Absent}
    IN  IF present = {} THEN Absent
        ELSE error.data[CHOOSE d \in present : \A e \in present : d <= e]

----------------------------------------------------------------------------
(* The client                                                              *)

Reason(code, codes) == IF code \in codes THEN code ELSE "unknown panic code"

getErrorNameOrText(error) ==            \* faulty: what is no revert is a name, too
    LET data == FirstData(error, {0, 1, 3})
    IN  IF error.errorName # "" THEN error.errorName
        ELSE IF data.bytes.kind = "Panic" THEN Reason(data.bytes.content, PANIC_CODES)
        ELSE data.bytes.content
getErrorName(error) ==
    LET data == FirstData(error, {0, 1, 3})
        bytes == data.bytes
    IN  IF ~ error.instance THEN UNKNOWN_ERROR
        ELSE IF error.errorName # "" THEN error.errorName
        ELSE IF data = Absent THEN (IF error.message THEN Message ELSE UNKNOWN_ERROR)
        ELSE IF bytes.content = CutOff THEN UNKNOWN_ERROR
        ELSE CASE bytes.kind = "Error" -> bytes.content
               [] bytes.kind = "Panic" -> Reason(bytes.content, PANIC_CODES)
               [] bytes.kind = "custom" /\ bytes.content \in CUSTOM_ERROR -> bytes.content
               [] OTHER -> UNKNOWN_ERROR

----------------------------------------------------------------------------
(* The handler                                                             *)

\* A name or a message takes the place of the data; it is no bytes of any error.
Text(content) == Bytes("text", content)
getReturnDataFromErrorShallow(error) == \* faulty: does not look at the third depth
    LET data == FirstData(error, {0, 1})
    IN  IF error.errorName # "" THEN Text(error.errorName)
        ELSE IF data = Absent THEN Text(IF error.message THEN Message ELSE UNKNOWN_ERROR)
        ELSE IF data.bytes = NoBytes THEN Text(UNKNOWN_ERROR)
        ELSE data.bytes
getReturnDataFromError(error) ==
    LET data == FirstData(error, {0, 1, 3})
    IN  IF error.errorName # "" THEN Text(error.errorName)
        ELSE IF data = Absent THEN Text(IF error.message THEN Message ELSE UNKNOWN_ERROR)
        ELSE IF data.bytes = NoBytes THEN Text(UNKNOWN_ERROR)
        ELSE data.bytes

findCustomErrorById(iface, bytes) ==
    IF bytes.kind = "custom" /\ bytes.content \in iface THEN bytes.content ELSE UNKNOWN_ERROR
decodeReturnData(bytes, iface) ==
    CASE bytes.kind = "Error" ->
             IF bytes.content = CutOff THEN UNKNOWN_ERROR ELSE bytes.content
      [] bytes.kind = "Panic" ->
             IF bytes.content = CutOff THEN UNKNOWN_ERROR ELSE Reason(bytes.content, PanicCodes)
      [] OTHER -> findCustomErrorById(iface, bytes)
getReasonFromError(error, iface) ==
    IF ~ error.instance THEN Thrown ELSE decodeReturnData(getReturnDataFromError(error), iface)

----------------------------------------------------------------------------
(* What both make of a thrown value, and which differences are meant: a    *)
(* value that is no Error, which only the client takes; a name ethers has  *)
(* found and a message, which only the client passes on; and the custom    *)
(* errors the client's table lacks, which only the handler knows.          *)
Decode(error) ==
    [instance |-> error.instance, errorName |-> error.errorName,
     name |-> getErrorName(error), reason |-> getReasonFromError(error, CustomErrors)]
Agree(decoded) ==
    \/ decoded.name = decoded.reason
    \/ ~ decoded.instance /\ decoded.name = UNKNOWN_ERROR /\ decoded.reason = Thrown
    \/ decoded.name \in {decoded.errorName, Message} /\ decoded.reason = UNKNOWN_ERROR
    \/ decoded.name = UNKNOWN_ERROR /\ decoded.reason \in CustomErrors \ CUSTOM_ERROR
Decoded == {Decode(error) : error \in ErrorType}
============================================================================
