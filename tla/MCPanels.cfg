SPECIFICATION Spec
CHECK_DEADLOCK FALSE
CONSTANTS
    None = None
    e = e
    i = i
    LocalIds = {e, i}
    Titles = {"A", "B"}
    Blank = ""
    Answers <- MCAnswers
    MaxInterpretations = 2
    MaxAnswers = 2
    MaxIssues = 3
    MaxActs = 5
    Nothing = Nothing
    DiagramKinds = {"todo", "er"}
    FirstKind = "todo"
    Texts = {"p"}
    NoText = ""
    Retry = "retry"
    MaxJobs = 2
    MaxPieces = 3
    MaxDeeds = 5
    Patient = TRUE
    Premises = {"a", "b", "c"}
    FirstPremise = "a"
    NoPremise = ""
    MaxOthers = 2
    MaxWritings = 3
    Names = {"", "a", "b"}
    NoName = ""
    Entries <- MCEntries
    Trimmed <- MCTrimmed
    Grains = {"auto", "fine"}
    Shapes = {"er"}
    NoShape = "none"
    NoEntry = "nothing"
    MaxStrokes = 3
    r1 = r1
    r2 = r2
    Repositories = {r1, r2}
    NoRepository = NoRepository
    Projects = {"p", "q", "s"}
    NoProject = "none"
    ProjectsOf <- MCProjectsOf
    MaxPresses = 5
    Logins = {"x"}
    NoLogin = ""
    Users = {"me", "other"}
    Nobody = "nobody"
    Me = "me"
    Unlisted = Unlisted
    MaxTurns = 3
    Grants = {"g", "h"}
    Unread = Unread
    MaxOpenings = 2
    MaxGranted = 3
INVARIANTS SentOnceAndValid GenerationIsFollowed
PROPERTIES ParentLossIsAnnounced PlacedOnce InputKept AsShown
