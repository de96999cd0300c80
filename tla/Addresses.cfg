SPECIFICATION Spec
CONSTANTS
    KeyType = {in}
    Thread = {command, listener}
    Gap = 2
    MaxPaid = 3
    Restarts = {"clean", "crash"}
    NoMark = NoMark
SYMMETRY ThreadSymmetry
INVARIANTS
    TypeOK
    GapKept
    
    
PROPERTIES
    HandedWatched
