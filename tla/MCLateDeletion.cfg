SPECIFICATION Spec
CHECK_DEADLOCK FALSE
CONSTANTS
    NoBoard = NoBoard
    b1 = b1
    b2 = b2
    c1 = c1
    Boards <- MCBoards
    Founded <- MCBothFounded
    Calls <- MCCalls
    Habits <- MCDeletes
    MaxVersion = 1
    MaxHistory = 2
INVARIANTS
    NothingEverLost
