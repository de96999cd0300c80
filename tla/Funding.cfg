SPECIFICATION Spec
CONSTANTS
    Conn = {c1, c2}
    Key = {k}
    Bitcoin = Bitcoin
    Other = Other
    Failures = {"before", "after"}
    MaxTx = 3
    MaxReverts = 2
SYMMETRY FundingSymmetry
INVARIANTS
    TypeOK
    DoubleSpendsOverlap
    RevertedUnusable
    UnconfirmedOnlyOwnFunding
    Settled
CHECK_DEADLOCK FALSE
