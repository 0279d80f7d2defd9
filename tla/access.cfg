SPECIFICATION MCSpec
CONSTANTS
    Root = Root
    SuperAdmin = SuperAdmin
    TenantAdmin = TenantAdmin
    Editor = Editor
    Planes = {c1, c2}
    Admins = {Root, alice}
    Roles <- MCRoles
    Perms <- MCPerms
    Calls <- MCCalls
    Lifetime = 1
    MaxTokens = 1
    MaxFaults = 1
CHECK_DEADLOCK FALSE
ACTION_CONSTRAINT Bounds
INVARIANTS ServedAsHeld
PROPERTIES RevokedInTheEnd EveryoneServes
