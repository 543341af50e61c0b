\* One connection, so that nothing overlaps.
CONSTANTS
    c1 = c1
    root = root  boss = boss  ann = ann
    Conns = {c1}
    Users = {root, ann}
    Admins = {root}
    NoUser = NoUser
    MaxDepth = 0
    MayLogout = TRUE
    NameOf <- MCNameOf
    Accounts <- MCAccounts
    MayMaintain = FALSE
SPECIFICATION Spec
INVARIANTS AdminCommandsNeedAdmin
