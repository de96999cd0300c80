SPECIFICATION RestartSpec
CONSTANTS
    sam = sam
    curtis = curtis
    james = james
    Node = {sam, curtis, james}
    Conn = {1}
    Invites <- GroupInvites
    Window = 1
    MaxTx = 4
    MaxOut = 1
    Failures = {}
    ReuseAddresses = FALSE
    Serialised = TRUE
    Restarting = {sam, james}
    InOrder = TRUE
INVARIANTS
    QuiescentAgreement
    NothingLost
CHECK_DEADLOCK FALSE
