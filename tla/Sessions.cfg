\* Two admin accounts and a user, three connections: a third connection can
\* find the flag as two others have left it.
CONSTANTS
    c1 = c1  c2 = c2  c3 = c3
    root = root  boss = boss  ann = ann
    Conns = {c1, c2, c3}
    Users = {root, boss, ann}
    Admins = {root, boss}
    NoUser = NoUser
    MaxDepth = 1
    MayLogout = TRUE
    NameOf <- MCNameOf
    Accounts <- MCAccounts
    MayMaintain = TRUE
SPECIFICATION Spec
SYMMETRY Symmetry
INVARIANTS TypeOK SessionAsTold  AdminsExclusive
