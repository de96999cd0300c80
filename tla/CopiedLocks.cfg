SPECIFICATION FairSpec
CONSTANTS
    Conn = {1}
    MaxIndex = 2
    MaxHeard = 1
    MaxLives = 2
PROPERTIES
    StopsInTheEnd
CHECK_DEADLOCK FALSE
