\* Nobody logs out: two logins that overlap are enough.
CONSTANTS
    c1 = c1  c2 = c2
    root = root  boss = boss  ann = ann
    Conns = {c1, c2}
    Users = {root, ann}
    Admins = {root}
    NoUser = NoUser
    MaxDepth = 0
    MayLogout = FALSE
    NameOf <- MCNameOf
    Accounts <- MCAccounts
    MayMaintain = FALSE
SPECIFICATION Spec
INVARIANTS OneAdmin
