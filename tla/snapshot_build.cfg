SPECIFICATION MCSpec
CONSTANTS
    t1 = t1
    u1 = u1
    g1 = g1
    s1 = s1
    s2 = s2
    r1 = r1
    p1 = p1
    n1 = n1
    n2 = n2
    Tenants = {t1, System}
    System = System
    Ids = {u1, g1, s1, s2, r1, p1, i7}
    Names = {n1, n2}
    Requests = {q1}
    Kinds = {"service", "target", "policy"}
    Enabled = {TRUE, FALSE}
    MaxEdits = 1
    PageSize = 2
    Nil = Nil
    Nothing = Nothing
CHECK_DEADLOCK FALSE
INVARIANTS SnapshotWhole
