SPECIFICATION DataSpec
CONSTANTS
    Tenants = {t1, System}
    System = System
    Ids = {i1, i2, i3}
    Names = {n1}
    Requests = {q1, q2}
    Kinds = {"upstream", "service", "target", "route", "consumer", "plugin", "policy"}
    Enabled = {TRUE}
    MaxEdits = 2
    Nil = Nil
    Nothing = Nothing
SYMMETRY Symmetry
CHECK_DEADLOCK FALSE
INVARIANTS Integrity AuditAccounts
PROPERTIES ChangesAccounted
