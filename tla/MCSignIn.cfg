SPECIFICATION Spec
CONSTANTS
    c1 = c1  c2 = c2  s1 = s1  s2 = s2  s3 = s3
    x = x  y = y  l1 = l1  l2 = l2  l3 = l3
    Nobody = Nobody
    Starts = {s1, s2, s3}
    Callbacks = {c1, c2}
    TokenCalls = {t1, t2, t3}
    Logouts = {k1}
    Accounts = {x, y}
    Known = {x}
    Logins = {l1, l2, l3}
    StateTTL = 2
    SessionTTL = 3
    AccessTTL = 2
    RefreshTTL = 3
    RefreshMargin = 1
    MaxLoginStarts = 1
    Expiring = TRUE
    MaxTime = 3
    MaxCrashes = 1
    MaxRenames = 2
CONSTRAINT Worlds
SYMMETRY Symmetry
INVARIANTS
    CredentialsSurvive
    SignInsHold
