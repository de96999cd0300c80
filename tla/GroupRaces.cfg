SPECIFICATION Spec
CONSTANTS
    sam = sam
    curtis = curtis
    james = james
    Node = {sam, curtis, james}
    Conn = {1}
    Invites <- GroupInvites
    Window = 10
    MaxTx = 3
    MaxOut = 2
    Failures = {"before"}
    ReuseAddresses = FALSE
    Serialised = FALSE
    InOrder = FALSE
INVARIANTS
    Attributed
    NoKeyReuse
    GroupViewBacked
PROPERTIES
    ChannelSpec
CHECK_DEADLOCK FALSE
