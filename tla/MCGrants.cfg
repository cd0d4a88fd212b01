SPECIFICATION Spec
CONSTANTS
    a1 = a1  a2 = a2  e1 = e1  e2 = e2  f1 = f1  f2 = f2
    g1 = g1  g2 = g2  u1 = u1  u2 = u2
    Registrations = {g1, g2}
    Approvals = {a1, a2}
    Exchanges = {e1, e2}
    Refreshes = {f1, f2}
    Revocations = {v1}
    UrlClients = {c1}
    Users = {u1, u2}
    CodeTTL = 1
    AccessTTL = 1
    RefreshTTL = 2
    UnusedClientTTL = 2
    MaxTime = 3
CONSTRAINT Worlds
SYMMETRY Symmetry
INVARIANTS
    OneGrantPerCode
    OneLiveRefresh
    RevocationHolds
PROPERTIES
    CleaningSparesTheGranted
