SPECIFICATION Spec
CONSTANTS
    a1 = a1  a2 = a2  e1 = e1  e2 = e2  f1 = f1  f2 = f2
    g1 = g1  g2 = g2  u1 = u1  u2 = u2
    Registrations = {}
    Approvals = {a1}
    Exchanges = {e1, e2}
    Refreshes = {}
    Revocations = {}
    UrlClients = {c1}
    Users = {u1}
    CodeTTL = 1
    AccessTTL = 1
    RefreshTTL = 2
    UnusedClientTTL = 2
    MaxTime = 2
INVARIANTS
    CodeReplayRevokes
