SPECIFICATION Spec
CONSTANTS
    u1 = u1  u2 = u2  a1 = a1  a2 = a2  h1 = h1  h2 = h2
    p1 = p1  p2 = p2  t1 = t1  t2 = t2
    NoReq = NoReq  NoProject = NoProject  NoHash = NoHash  NoTitle = NoTitle
    NoItem = NoItem
    Founder = u1
    Requests = {r1, r2, r3}
    Calls <- CreationsAndRetries
    Users = {u1}
    Annotations = {a1, a2}
    Edited <- OneAnnotation
    Hashes = {h1, h2}
    Projects = {p1}
    Titles = {t1, t2}
    Items <- ItemIds
    MaxCrashes = 1
CONSTRAINT CreationWorlds
SYMMETRY RequestSymmetry
INVARIANTS
    TypeOK
    EveryItemTraced
    FoldShowsGitHub
    CreatedIsWhatWasInterpreted
    ParentAlwaysWritten
PROPERTIES
    WritesTheInterpretation
