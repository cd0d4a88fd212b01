SPECIFICATION Spec
CHECK_DEADLOCK FALSE
CONSTRAINT Orderly
CONSTANTS
    NoBoard = NoBoard
    b1 = b1
    b2 = b2
    c1 = c1
    Boards <- MCBoards
    Founded <- MCFounded
    Calls <- MCCalls
    Habits <- MCHabits
    MaxVersion = 1
    MaxHistory = 2
INVARIANTS
    NothingLost
    SavesWhatIsSeen
    LocationTellsTheScreen
    DeletedStaysAway
