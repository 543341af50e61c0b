------------------------------ MODULE Sessions ------------------------------
(***************************************************************************)
(* Who is logged in on which connection, where, and as what: the handlers  *)
(* of REQ_LOGIN, REQ_LOGOUT and REQ_CHANGE_WORKING_DIRECTORY, the checks   *)
(* of process_packet and of the admin handlers (client_controller.cpp),    *)
(* the destructor of ConnectionWrapper (connection.cpp), and the table of  *)
(* accounts that logins ask (db_handler.hpp) while the maintenance tool    *)
(* changes it (db_maintenance.cpp).                                        *)
(*                                                                         *)
(* Requests of different connections run on different workers.  A client   *)
(* waits for each reply, so one connection has one request at a time, and  *)
(* the wrapper is destroyed between two requests; what happens otherwise   *)
(* is the subject of Server.tla.  A login with a wrong password changes    *)
(* nothing and is no step.                                                 *)
(***************************************************************************)
EXTENDS Integers, Sequences, FiniteSets

CONSTANTS Conns,     \* connections that may exist at a time
          Users,     \* accounts, each named by the UUID that is its id
          Admins,    \* those whose ROLE is not 0
          NameOf,    \* the name of each; nothing keeps names from being equal
          Accounts,  \* the table of accounts at first, a sequence
          NoUser,    \* the empty id
          MaxDepth,  \* how deep the tree below a user's directory goes
          MayLogout, \* whether the clients ever send REQ_LOGOUT
          MayMaintain \* whether the maintenance tool is run

ASSUME SessionsAssumption ==
    /\ Admins \subseteq Users /\ NoUser \notin Users
    /\ Accounts \in Seq(Users)
    /\ MaxDepth \in Nat /\ MayLogout \in BOOLEAN /\ MayMaintain \in BOOLEAN

VARIABLES
    open,       \* the connections whose wrapper exists
    id,         \* ConnectionWrapper::id
    dir,        \* ConnectionWrapper::current_dir: under whose home, how deep
    is_admin,   \* ConnectionWrapper::is_admin
    b_admin_connected,
    table,      \* the accounts in pcd.db, in the order of their rows
    added,      \* history: all there have been, for a UUID is never used again
    stage,      \* the login in progress, by what it does next, or "idle"
    account,    \* whose password that came with
    told,       \* whom the replies so far say the client is logged in as
    raced,      \* history: an admin logged in though the flag was up
    deleted,    \* history: the accounts went between its password and getID
    released    \* history: an admin's connection has used REQ_LOGOUT

dbVars == <<table, added>>
vars == <<open, id, dir, is_admin, b_admin_connected, dbVars, stage, account, told,
          raced, deleted, released>>

Home(u) == [of |-> u, depth |-> 0]
NoDir == [of |-> NoUser, depth |-> 0]
Dirs == [of : Users \cup {NoUser}, depth : 0 .. MaxDepth]

TypeOK ==
    /\ open \in SUBSET Conns
    /\ id \in [Conns -> Users \cup {NoUser}]
    /\ dir \in [Conns -> Dirs]
    /\ is_admin \in [Conns -> BOOLEAN]
    /\ b_admin_connected \in BOOLEAN
    /\ table \in Seq(Users) /\ added \in SUBSET Users
    /\ stage \in [Conns -> {"idle", "id", "role", "load", "claim"}]
    /\ account \in [Conns -> Users \cup {NoUser}]
    /\ deleted \in [Conns -> BOOLEAN]
    /\ told \in [Conns -> Users \cup {NoUser}]
    /\ raced \in BOOLEAN /\ released \in BOOLEAN

Init ==
    /\ open = {}
    /\ id = [c \in Conns |-> NoUser]
    /\ dir = [c \in Conns |-> NoDir]
    /\ is_admin = [c \in Conns |-> FALSE]
    /\ b_admin_connected = FALSE
    /\ table = Accounts /\ added = {Accounts[i] : i \in DOMAIN Accounts}
    /\ stage = [c \in Conns |-> "idle"]
    /\ account = [c \in Conns |-> NoUser]
    /\ deleted = [c \in Conns |-> FALSE]
    /\ told = [c \in Conns |-> NoUser]
    /\ raced = FALSE /\ released = FALSE

\* process_packet lets a request other than login, ping and logout through.
Authorized(c) == id[c] # NoUser

\* The admin handlers check is_admin once process_packet has let them run.
AuthorizedAsAdmin(c) == Authorized(c) /\ is_admin[c]

\* A worker may start on a request of c.
Serves(c) == c \in open /\ stage[c] = "idle"
-----------------------------------------------------------------------------
Accept(c) ==
    /\ c \notin open
    /\ open' = open \cup {c}
    /\ UNCHANGED <<id, dir, is_admin, b_admin_connected, dbVars, stage, account, told,
                   raced, deleted, released>>

(***************************************************************************)
(* SELECT ... WHERE USERNAME = n, of whose rows the first is used.         *)
(***************************************************************************)
Selects(n, u) ==
    \/ u = NoUser /\ \A i \in DOMAIN table : NameOf[table[i]] # n
    \/ \E i \in DOMAIN table :
         /\ table[i] = u /\ NameOf[u] = n
         /\ \A j \in 1 .. i - 1 : NameOf[table[j]] # n

\* The password is that of the first account of its name.  What the client
\* was told before counts no more.
Login(c, u) ==
    /\ Serves(c) /\ Selects(NameOf[u], u)
    /\ account' = [account EXCEPT ![c] = u]
    /\ stage' = [stage EXCEPT ![c] = "id"]
    /\ deleted' = [deleted EXCEPT ![c] = FALSE]
    /\ told' = [told EXCEPT ![c] = NoUser]
    /\ UNCHANGED <<open, id, dir, is_admin, b_admin_connected, dbVars, raced, released>>

\* getID() asks by the name again; no row leaves the id empty.
LoginGetID(c) ==
    /\ stage[c] = "id"
    /\ \E u \in Users \cup {NoUser} :
         /\ Selects(NameOf[account[c]], u)
         /\ id' = [id EXCEPT ![c] = u]
         /\ dir' = [dir EXCEPT ![c] = Home(u)]
    /\ stage' = [stage EXCEPT ![c] = "role"]
    /\ UNCHANGED <<open, is_admin, b_admin_connected, dbVars, account, told, raced, deleted, released>>

LoginEnds(c, u) ==
    /\ stage' = [stage EXCEPT ![c] = "idle"]
    /\ account' = [account EXCEPT ![c] = NoUser]
    /\ told' = [told EXCEPT ![c] = u]

\* isAdmin() asks a third time; an ordinary user is told at once.
LoginGetRole(c) ==
    /\ stage[c] = "role"
    /\ \E u \in Users \cup {NoUser} :
         /\ Selects(NameOf[account[c]], u)
         /\ IF u \in Admins
            THEN stage' = [stage EXCEPT ![c] = "load"] /\ UNCHANGED <<account, told>>
            ELSE LoginEnds(c, account[c])
    /\ UNCHANGED <<open, id, dir, is_admin, b_admin_connected, dbVars, raced, deleted, released>>

\* Faulty variant: a refused admin stays logged in.
LoginRefusedStays(c) ==
    /\ stage[c] = "load"
    /\ IF b_admin_connected
       THEN LoginEnds(c, NoUser)
       ELSE stage' = [stage EXCEPT ![c] = "claim"] /\ UNCHANGED <<account, told>>
    /\ UNCHANGED <<open, id, dir, is_admin, b_admin_connected, dbVars, raced, deleted, released>>

\* b_admin_connected.load(): an admin is refused if the flag is up.
LoginLoad(c) ==
    /\ stage[c] = "load"
    /\ IF b_admin_connected
       THEN /\ id' = [id EXCEPT ![c] = NoUser]
            /\ dir' = [dir EXCEPT ![c] = NoDir]
            /\ LoginEnds(c, NoUser)
       ELSE /\ stage' = [stage EXCEPT ![c] = "claim"]
            /\ UNCHANGED <<id, dir, account, told>>
    /\ UNCHANGED <<open, is_admin, b_admin_connected, dbVars, raced, deleted, released>>

\* b_admin_connected.exchange(true), whose result is not used.
LoginClaim(c) ==
    /\ stage[c] = "claim"
    /\ raced' = (raced \/ b_admin_connected)
    /\ b_admin_connected' = TRUE
    /\ is_admin' = [is_admin EXCEPT ![c] = TRUE]
    /\ LoginEnds(c, account[c])
    /\ UNCHANGED <<open, id, dir, dbVars, deleted, released>>

Logout(c) ==
    /\ MayLogout
    /\ Serves(c)
    /\ b_admin_connected' = (b_admin_connected /\ ~is_admin[c])
    /\ released' = (released \/ is_admin[c])
    /\ id' = [id EXCEPT ![c] = NoUser]
    /\ told' = [told EXCEPT ![c] = NoUser]
    /\ deleted' = [deleted EXCEPT ![c] = FALSE]
    /\ UNCHANGED <<open, dir, is_admin, dbVars, stage, account, raced>>

\* Faulty variant: ".." is allowed one level too far up.
ChangeDirectoryAboveHome(c) ==
    /\ Serves(c) /\ Authorized(c)
    /\ \E d \in 0 .. MaxDepth : dir' = [dir EXCEPT ![c].depth = d - 1]
    /\ UNCHANGED <<open, id, is_admin, b_admin_connected, dbVars, stage, account, told,
                   raced, deleted, released>>

\* cd_command: any number of levels down, into directories that exist, and
\* up, but never above the user's own directory.
ChangeDirectory(c) ==
    /\ Serves(c) /\ Authorized(c)
    /\ \E d \in 0 .. MaxDepth : dir' = [dir EXCEPT ![c].depth = d]
    /\ UNCHANGED <<open, id, is_admin, b_admin_connected, dbVars, stage, account, told,
                   raced, deleted, released>>

\* The memory goes with the wrapper; the next one starts afresh.
Forget(c) ==
    /\ open' = open \ {c}
    /\ id' = [id EXCEPT ![c] = NoUser]
    /\ dir' = [dir EXCEPT ![c] = NoDir]
    /\ is_admin' = [is_admin EXCEPT ![c] = FALSE]
    /\ told' = [told EXCEPT ![c] = NoUser]
    /\ deleted' = [deleted EXCEPT ![c] = FALSE]
    /\ UNCHANGED <<dbVars, stage, account, raced, released>>

\* Faulty variant: the flag is left up.
DestroyKeepsFlag(c) == Serves(c) /\ Forget(c) /\ UNCHANGED b_admin_connected

\* Faulty variant: the flag is lowered for any connection.
DestroyLowersFlag(c) == Serves(c) /\ Forget(c) /\ b_admin_connected' = FALSE

\* The peer has closed the connection, or been lost.
Destroy(c) ==
    /\ Serves(c)
    /\ b_admin_connected' = (b_admin_connected /\ ~is_admin[c])
    /\ Forget(c)
-----------------------------------------------------------------------------
(***************************************************************************)
(* The maintenance tool, another process.                                  *)
(***************************************************************************)
AddUser(u) ==
    /\ MayMaintain /\ u \notin added
    /\ table' = Append(table, u)
    /\ added' = added \cup {u}
    /\ UNCHANGED <<open, id, dir, is_admin, b_admin_connected, stage, account, told,
                   raced, deleted, released>>

DeleteAllUsers ==
    /\ MayMaintain
    /\ table' = <<>>
    /\ deleted' = [c \in Conns |-> deleted[c] \/ stage[c] = "id"]
    /\ UNCHANGED <<open, id, dir, is_admin, b_admin_connected, added, stage, account, told,
                   raced, released>>
-----------------------------------------------------------------------------
Request(c) ==
    \/ \E u \in Users : Login(c, u)
    \/ LoginGetID(c) \/ LoginGetRole(c) \/ LoginLoad(c) \/ LoginClaim(c)
    \/ Logout(c) \/ ChangeDirectory(c)

Maintenance == (\E u \in Users : AddUser(u)) \/ DeleteAllUsers

Next ==
    \/ \E c \in Conns : Accept(c) \/ Request(c) \/ Destroy(c)
    \/ Maintenance

Spec == Init /\ [][Next]_vars
-----------------------------------------------------------------------------
(***************************************************************************)
(* What the replies have told a client about its session is what the       *)
(* server holds when its next request comes: the account whose password it *)
(* gave, or none, and a current directory inside that user's home.  Login, *)
(* refusal, logout and a login over another session each set a different   *)
(* part of it, and the account is looked up by a name that two may have    *)
(* (client_controller.cpp:62-72, 342-377, db_handler.hpp:33-48).  Only if  *)
(* all accounts are deleted between the password and the id is it another  *)
(* account of that name, or none though the client has been let in.        *)
(***************************************************************************)
SessionAsTold ==
    \A c \in Conns : Serves(c) =>
        /\ ~deleted[c] => id[c] = told[c]
        /\ id[c] # NoUser => dir[c].of = id[c]

(***************************************************************************)
(* The flag is never left up with nobody behind it, which would lock every *)
(* admin out until the server is restarted.                                *)
(***************************************************************************)
FlagHasAdmin == b_admin_connected => \E c \in open : is_admin[c]

(***************************************************************************)
(* There is one admin at a time and the flag says whether there is one, as *)
(* long as no two admin logins overlap (the flag is read at                *)
(* client_controller.cpp:355 and raised at :364) and no admin's connection *)
(* logs out and stays (:62-72 lowers the flag and leaves is_admin).        *)
(***************************************************************************)
AdminsExclusive ==
    ~raced /\ ~released =>
        /\ \A c \in open : is_admin[c] => b_admin_connected
        /\ \A c, d \in open : is_admin[c] /\ is_admin[d] => c = d

(***************************************************************************)
(* RESP_ADMIN_ALREADY_CONNECTED: there is at most one admin.               *)
(***************************************************************************)
OneAdmin == \A c, d \in open : is_admin[c] /\ is_admin[d] => c = d

(***************************************************************************)
(* RESP_REQUIRES_ADMIN: the admin commands are an admin's.                 *)
(***************************************************************************)
AdminCommandsNeedAdmin ==
    \A c \in open : Serves(c) /\ AuthorizedAsAdmin(c) => id[c] \in Admins
=============================================================================
