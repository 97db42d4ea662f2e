SPECIFICATION Spec
CONSTANTS
    Signers = {s1, s2}
    Receivers = {c1}
    Supply = 2
    MaxCalls = 2
    MaxNumber = 1
    CustomErrors = {"ExceedGateSlot", "SellPaused"}
    CUSTOM_ERROR = {"ExceedGateSlot"}
SYMMETRY SignerSymmetry
INVARIANTS
    AnswersAreOwn
    NamedErrorsMovedNothing
    DecodersAgree
