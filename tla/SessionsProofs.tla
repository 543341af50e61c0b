--------------------------- MODULE SessionsProofs ---------------------------
(***************************************************************************)
(* Sessions for any number of connections, users, admins and directories.  *)
(* The three invariants need facts the model does not state: a login in    *)
(* progress is on a connection that exists (InProgress), the table still   *)
(* has its account first of its name unless all accounts have been deleted *)
(* (Told), and memory not yet in use says no admin (FreshIsNoAdmin).       *)
(***************************************************************************)
EXTENDS Sessions, TLAPS

\* A login in progress is on a connection that exists, and is of an account.
InProgress ==
    \A c \in Conns : stage[c] # "idle" => c \in open /\ account[c] \in Users

FreshIsNoAdmin == \A c \in Conns : c \notin open => ~is_admin[c]

\* SessionAsTold, and what it becomes while a login is in progress.
Told ==
    \A c \in Conns :
        /\ id[c] # NoUser => dir[c].of = id[c]
        /\ ~deleted[c] =>
            /\ stage[c] = "idle" => id[c] = told[c]
            /\ stage[c] \in {"role", "load", "claim"} => id[c] = account[c]
            /\ stage[c] = "id" => Selects(NameOf[account[c]], account[c])

LEMMA HomesAreDirs ==
    NoDir \in Dirs /\ \A u \in Users \cup {NoUser} : Home(u) \in Dirs
<1>1. 0 \in 0 .. MaxDepth
  BY SessionsAssumption
<1> QED
  BY <1>1 DEF NoDir, Home, Dirs

(***************************************************************************)
(* A name selects one row: of two that come first the earlier one would be *)
(* before the other.                                                       *)
(***************************************************************************)
LEMMA SelectsOne ==
    ASSUME table \in Seq(Users), NEW n, NEW u, NEW v, Selects(n, u), Selects(n, v),
           u \in Users
    PROVE  u = v
<1> USE SessionsAssumption
<1>1. PICK i \in DOMAIN table :
          table[i] = u /\ NameOf[u] = n /\ \A j \in 1 .. i - 1 : NameOf[table[j]] # n
  BY DEF Selects
<1>2. PICK k \in DOMAIN table :
          table[k] = v /\ NameOf[v] = n /\ \A j \in 1 .. k - 1 : NameOf[table[j]] # n
  BY <1>1 DEF Selects
<1>3. i \in Nat \ {0} /\ k \in Nat \ {0}
  OBVIOUS
<1>4. ~(i < k) /\ ~(k < i)
  BY <1>1, <1>2, <1>3
<1> QED
  BY <1>1, <1>2, <1>3, <1>4

\* A row more at the end changes no first row.
LEMMA SelectsAfterAppend ==
    ASSUME table \in Seq(Users), NEW u \in Users, table' = Append(table, u),
           NEW n, NEW v \in Users, Selects(n, v)
    PROVE  Selects(n, v)'
<1>1. PICK i \in DOMAIN table :
          table[i] = v /\ NameOf[v] = n /\ \A j \in 1 .. i - 1 : NameOf[table[j]] # n
  BY SessionsAssumption DEF Selects
<1>2. i \in DOMAIN table' /\ \A j \in 1 .. i : table'[j] = table[j]
  OBVIOUS
<1> QED
  BY <1>1, <1>2 DEF Selects

LEMMA InitTypes == Init => TypeOK
<1> SUFFICES ASSUME Init PROVE TypeOK
  OBVIOUS
<1>1. added \subseteq Users
  BY SessionsAssumption DEF Init
<1> QED
  BY <1>1, HomesAreDirs, SessionsAssumption DEF Init, TypeOK

(***************************************************************************)
(* The variables keep their types: in particular no change of directory    *)
(* leaves the tree below the user's home (io.hpp:41-73).                   *)
(***************************************************************************)
THEOREM TypeCorrect == Spec => []TypeOK
<1>1. Init => TypeOK
  BY InitTypes
<1>2. TypeOK /\ [Next]_vars => TypeOK'
  <2> SUFFICES ASSUME TypeOK, [Next]_vars PROVE TypeOK'
    OBVIOUS
  <2> USE HomesAreDirs DEF TypeOK, dbVars
  <2>1. CASE UNCHANGED vars
    BY <2>1 DEF vars
  <2>2. ASSUME NEW c \in Conns, Accept(c) PROVE TypeOK'
    BY <2>2 DEF Accept
  <2>3. ASSUME NEW c \in Conns, NEW u \in Users, Login(c, u) PROVE TypeOK'
    BY <2>3 DEF Login
  <2>4. ASSUME NEW c \in Conns, LoginLoad(c) PROVE TypeOK'
    BY <2>4 DEF LoginLoad, LoginEnds
  <2>5. ASSUME NEW c \in Conns, LoginClaim(c) PROVE TypeOK'
    BY <2>5 DEF LoginClaim, LoginEnds
  <2>6. ASSUME NEW c \in Conns, Logout(c) PROVE TypeOK'
    <3>1. b_admin_connected' \in BOOLEAN /\ released' \in BOOLEAN
      <4>1. b_admin_connected' = (b_admin_connected /\ ~is_admin[c])
        BY <2>6 DEF Logout
      <4>2. released' = (released \/ is_admin[c])
        BY <2>6 DEF Logout
      <4> QED
        BY <4>1, <4>2, Zenon
    <3>2. id' \in [Conns -> Users \cup {NoUser}] /\ told' \in [Conns -> Users \cup {NoUser}]
      BY <2>6 DEF Logout
    <3>3. deleted' \in [Conns -> BOOLEAN]
      BY <2>6 DEF Logout
    <3>4. /\ open' = open /\ dir' = dir /\ is_admin' = is_admin
          /\ table' = table /\ added' = added
          /\ stage' = stage /\ account' = account /\ raced' = raced
      BY <2>6 DEF Logout
    <3> QED
      BY <3>1, <3>2, <3>3, <3>4, Zenon
  <2>7. ASSUME NEW c \in Conns, ChangeDirectory(c) PROVE TypeOK'
    <3>1. PICK d \in 0 .. MaxDepth : dir' = [dir EXCEPT ![c].depth = d]
      BY <2>7 DEF ChangeDirectory
    <3>2. dir' \in [Conns -> Dirs]
      BY <3>1 DEF Dirs
    <3> QED
      BY <2>7, <3>2 DEF ChangeDirectory
  <2>8. ASSUME NEW c \in Conns, Destroy(c) PROVE TypeOK'
    BY <2>8 DEF Destroy, Forget
  <2>9. ASSUME NEW c \in Conns, LoginGetID(c) PROVE TypeOK'
    BY <2>9 DEF LoginGetID
  <2>10. ASSUME NEW c \in Conns, LoginGetRole(c) PROVE TypeOK'
    BY <2>10 DEF LoginGetRole, LoginEnds
  <2>11. ASSUME NEW u \in Users, AddUser(u) PROVE TypeOK'
    BY <2>11 DEF AddUser
  <2>12. CASE DeleteAllUsers
    BY <2>12 DEF DeleteAllUsers
  <2> QED
    BY <2>1, <2>2, <2>3, <2>4, <2>5, <2>6, <2>7, <2>8, <2>9, <2>10, <2>11, <2>12
    DEF Next, Request, Maintenance
<1> QED
  BY <1>1, <1>2, PTL DEF Spec
-----------------------------------------------------------------------------
SessionInv == TypeOK /\ InProgress /\ Told

LEMMA SessionInductive == Spec => []SessionInv
<1>1. Init => SessionInv
  BY InitTypes DEF Init, SessionInv, InProgress, Told
<1>2. SessionInv /\ TypeOK' /\ [Next]_vars => SessionInv'
  <2> SUFFICES ASSUME SessionInv, TypeOK', [Next]_vars
               PROVE InProgress' /\ Told'
    BY DEF SessionInv
  <2> USE DEF SessionInv, TypeOK, InProgress, Told, dbVars
  <2>0. ASSUME UNCHANGED table, NEW n, NEW u, Selects(n, u) PROVE Selects(n, u)'
    BY <2>0 DEF Selects
  <2>1. CASE UNCHANGED vars
    BY <2>0, <2>1 DEF vars
  <2>2. ASSUME NEW c \in Conns, Accept(c) PROVE InProgress' /\ Told'
    BY <2>0, <2>2 DEF Accept
  <2>3. ASSUME NEW c \in Conns, NEW u \in Users, Login(c, u)
        PROVE InProgress' /\ Told'
    BY <2>0, <2>3 DEF Login, Serves
  <2>4. ASSUME NEW c \in Conns, LoginLoad(c) PROVE InProgress' /\ Told'
    BY <2>0, <2>4 DEF LoginLoad, LoginEnds
  <2>5. ASSUME NEW c \in Conns, LoginClaim(c) PROVE InProgress' /\ Told'
    BY <2>0, <2>5 DEF LoginClaim, LoginEnds
  <2>6. ASSUME NEW c \in Conns, Logout(c) PROVE InProgress' /\ Told'
    BY <2>0, <2>6 DEF Logout, Serves
  <2>7. ASSUME NEW c \in Conns, ChangeDirectory(c) PROVE InProgress' /\ Told'
    BY <2>0, <2>7 DEF ChangeDirectory, Dirs
  <2>8. ASSUME NEW c \in Conns, Destroy(c) PROVE InProgress' /\ Told'
    BY <2>0, <2>8 DEF Destroy, Forget, Serves
  <2>9. ASSUME NEW c \in Conns, LoginGetID(c) PROVE InProgress' /\ Told'
    <3>1. PICK u \in Users \cup {NoUser} :
              /\ Selects(NameOf[account[c]], u)
              /\ id' = [id EXCEPT ![c] = u]
              /\ dir' = [dir EXCEPT ![c] = Home(u)]
      BY <2>9 DEF LoginGetID
    <3>2. ~deleted[c] => u = account[c]
      BY <2>9, <3>1, SelectsOne DEF LoginGetID
    <3> QED
      BY <2>0, <2>9, <3>1, <3>2 DEF LoginGetID, Home
  <2>10. ASSUME NEW c \in Conns, LoginGetRole(c) PROVE InProgress' /\ Told'
    BY <2>0, <2>10 DEF LoginGetRole, LoginEnds
  <2>11. ASSUME NEW u \in Users, AddUser(u) PROVE InProgress' /\ Told'
    BY <2>11, SelectsAfterAppend DEF AddUser
  <2>12. CASE DeleteAllUsers
    BY <2>12 DEF DeleteAllUsers
  <2> QED
    BY <2>1, <2>2, <2>3, <2>4, <2>5, <2>6, <2>7, <2>8, <2>9, <2>10, <2>11, <2>12
    DEF Next, Request, Maintenance
<1> QED
  BY <1>1, <1>2, TypeCorrect, PTL DEF Spec

(***************************************************************************)
(* What the replies have told a client is what the server holds when its   *)
(* next request comes (client_controller.cpp:62-72, 342-377).              *)
(***************************************************************************)
THEOREM SessionsAreAsTold == Spec => []SessionAsTold
<1>1. SessionInv => SessionAsTold
  BY DEF SessionInv, Told, SessionAsTold, Serves
<1> QED
  BY <1>1, SessionInductive, PTL
-----------------------------------------------------------------------------
FlagInv == FlagHasAdmin /\ FreshIsNoAdmin /\ AdminsExclusive

LEMMA FlagInductive == Spec => []FlagInv
<1>1. Init => FlagInv
  BY DEF Init, FlagInv, FlagHasAdmin, FreshIsNoAdmin, AdminsExclusive
<1>2. FlagInv /\ SessionInv /\ [Next]_vars => FlagInv'
  <2> SUFFICES ASSUME FlagInv, SessionInv, [Next]_vars PROVE FlagInv'
    OBVIOUS
  <2> USE DEF SessionInv, TypeOK, FlagInv, FlagHasAdmin, FreshIsNoAdmin, AdminsExclusive
  <2>1. CASE UNCHANGED vars
    BY <2>1 DEF vars
  <2>2. ASSUME NEW c \in Conns, Accept(c) PROVE FlagInv'
    BY <2>2 DEF Accept
  <2>3. ASSUME NEW c \in Conns, NEW u \in Users, Login(c, u) PROVE FlagInv'
    BY <2>3 DEF Login
  <2>4. ASSUME NEW c \in Conns, LoginLoad(c) PROVE FlagInv'
    BY <2>4 DEF LoginLoad, LoginEnds
  <2>5. ASSUME NEW c \in Conns, LoginClaim(c) PROVE FlagInv'
    BY <2>5 DEF LoginClaim, LoginEnds, InProgress
  <2>6. ASSUME NEW c \in Conns, Logout(c) PROVE FlagInv'
    BY <2>6 DEF Logout
  <2>7. ASSUME NEW c \in Conns, ChangeDirectory(c) PROVE FlagInv'
    BY <2>7 DEF ChangeDirectory
  <2>8. ASSUME NEW c \in Conns, Destroy(c) PROVE FlagInv'
    BY <2>8 DEF Destroy, Forget
  <2>9. ASSUME NEW c \in Conns, LoginGetID(c) PROVE FlagInv'
    BY <2>9 DEF LoginGetID
  <2>10. ASSUME NEW c \in Conns, LoginGetRole(c) PROVE FlagInv'
    BY <2>10 DEF LoginGetRole
  <2>11. ASSUME NEW u \in Users, AddUser(u) PROVE FlagInv'
    BY <2>11 DEF AddUser
  <2>12. CASE DeleteAllUsers
    BY <2>12 DEF DeleteAllUsers
  <2> QED
    BY <2>1, <2>2, <2>3, <2>4, <2>5, <2>6, <2>7, <2>8, <2>9, <2>10, <2>11, <2>12
    DEF Next, Request, Maintenance
<1> QED
  BY <1>1, <1>2, SessionInductive, PTL DEF Spec

(***************************************************************************)
(* The flag never stays up with nobody behind it (connection.cpp:10-28,    *)
(* client_controller.cpp:62-72), so no admin is locked out.                *)
(***************************************************************************)
THEOREM FlagAlwaysHasAdmin == Spec => []FlagHasAdmin
<1>1. FlagInv => FlagHasAdmin
  BY DEF FlagInv
<1> QED
  BY <1>1, FlagInductive, PTL

(***************************************************************************)
(* There is one admin at a time unless two admin logins have overlapped    *)
(* (client_controller.cpp:355-364) or an admin has logged out and stayed   *)
(* (:62-72).                                                               *)
(***************************************************************************)
THEOREM AdminsAreExclusive == Spec => []AdminsExclusive
<1>1. FlagInv => AdminsExclusive
  BY DEF FlagInv
<1> QED
  BY <1>1, FlagInductive, PTL
=============================================================================
