SPECIFICATION RestartSpec
CONSTANTS
    sam = sam
    curtis = curtis
    james = james
    Node = {sam, curtis}
    Conn = {1, 2}
    Invites <- PairInvites
    Window = 10
    MaxTx = 3
    MaxOut = 2
    Failures = {"before", "after"}
    ReuseAddresses = FALSE
    Serialised = FALSE
    Restarting = {curtis}
    InOrder = FALSE
INVARIANTS
    TypeOK
    
    AcceptedIsGenuine
    
CHECK_DEADLOCK FALSE
