SPECIFICATION Spec
CHECK_DEADLOCK FALSE
CONSTANTS
    None = None
    t1 = t1
    s1 = s1
    a1 = a1
    a2 = a2
    p1 = p1
    p2 = p2
    d1 = d1
    d2 = d2
    j1 = j1
    j2 = j2
    q1 = q1
    q2 = q2
    f1 = f1
    Texts <- MCTexts
    Shapes <- MCShapes
    Annotations <- MCAnnotations
    Pictures <- MCPictures
    Data <- MCData
    Jobs <- MCJobs
    Asks <- MCAsks
    Flows <- MCFlows
    FirstScene <- MCFirstScene
    File <- MCFile
    Pasteable <- MCPasteable
    Habits <- MCHabits
    MaxVersion = 3
    MaxRuns = 1
INVARIANTS
    CleanMeansSaved
    PicturesAreTheirOwn
    FreshResults
    ToldIsShown
    RunningIsSeen
