SPECIFICATION FairSpec
CONSTANTS
    Conn = {1}
    MaxIndex = 2
    MaxHeard = 1
    MaxLives = 2
INVARIANTS
    TypeOK
    AnsweredSaved
    CallbacksSaved
    SavedKeysWatched
    KeysFresh
    SocketFreed
PROPERTIES
    StopsUnlessHung
CHECK_DEADLOCK FALSE
