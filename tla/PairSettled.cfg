SPECIFICATION Spec
CONSTANTS
    sam = sam
    curtis = curtis
    james = james
    Node = {sam, curtis}
    Conn = {1}
    Invites <- PairInvites
    Window = 2
    MaxTx = 5
    MaxOut = 1
    Failures = {}
    ReuseAddresses = FALSE
    Serialised = TRUE
    InOrder = FALSE
INVARIANTS
    
    QuiescentAgreement
    NothingLost
CHECK_DEADLOCK FALSE
