SPECIFICATION Spec
CONSTANTS
    sam = sam
    curtis = curtis
    james = james
    Node = {sam, curtis}
    Conn = {1}
    Invites <- PairInvites
    Window = 10
    MaxTx = 4
    MaxOut = 1
    Failures = {}
    ReuseAddresses = FALSE
    Serialised = FALSE
    InOrder = FALSE
INVARIANTS
    QuiescentAgreement
CHECK_DEADLOCK FALSE
