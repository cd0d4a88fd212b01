SPECIFICATION Spec
CONSTANTS
    u1 = u1  u2 = u2  a1 = a1  a2 = a2  h1 = h1  h2 = h2
    p1 = p1  p2 = p2  t1 = t1  t2 = t2
    NoReq = NoReq  NoProject = NoProject  NoHash = NoHash  NoTitle = NoTitle
    NoItem = NoItem
    Founder = u1
    Requests = {r1, r2, r3}
    Calls <- AllCalls
    Users = {u1, u2}
    Annotations = {a1}
    Edited <- NobodyEdits
    Hashes = {h1}
    Projects = {p1, p2}
    Titles = {t1, t2}
    Items <- TwoItemIds
    MaxCrashes = 0
SYMMETRY RequestSymmetry
INVARIANTS
    OneInSection
    CreationKeepsItsGround
    RecordedInTarget
    DisplayBelongsToTarget
    KeepsAnOwner
PROPERTIES
    BindingKept
