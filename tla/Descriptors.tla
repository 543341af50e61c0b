----------------------------- MODULE Descriptors -----------------------------
(***************************************************************************)
(* The file descriptors of the server: the socket a ConnectionWrapper is   *)
(* made with (main.cpp), the files it opens for uploads and downloads      *)
(* (client_controller.cpp), and who closes them (main.cpp,                 *)
(* connection.cpp).                                                        *)
(*                                                                         *)
(* fd and download_fd begin as 0, which is also a descriptor: standard     *)
(* input until somebody closes it, then whatever the kernel hands out as   *)
(* the lowest free number.  The accept thread, the workers and the server  *)
(* thread make their system calls in any order; each is one step.          *)
(* REQ_FILE_CLOSE, which the shipped client never sends, is left out.      *)
(***************************************************************************)
EXTENDS Integers, FiniteSets

CONSTANTS Conns,  \* connections; each is made once
          MaxFd   \* the highest descriptor the process may have

ASSUME DescriptorsAssumption == MaxFd \in Nat

VARIABLES
    table,       \* what each descriptor is
    peer,        \* the client's side: "away", "up" or "gone"
    phase,       \* of each wrapper: "none", "open", what it closes next, "done"
    socket_fd, fd, download_fd,
    accepting    \* the accept thread has not left its loop

vars == <<table, peer, phase, socket_fd, fd, download_fd, accepting>>

Fds == 0 .. MaxFd
NoFd == -1
Tag(kind, c) == [kind |-> kind, of |-> c]
Free == [kind |-> "free"]
Stdin == [kind |-> "stdin"]
Leaked == [kind |-> "leaked"]
Things == {Free, Stdin, Leaked} \cup {Tag(k, c) : k \in {"socket", "up", "down"}, c \in Conns}

TypeOK ==
    /\ table \in [Fds -> Things]
    /\ peer \in [Conns -> {"away", "up", "gone"}]
    /\ phase \in [Conns -> {"none", "open", "closeFd", "closeDownload", "done"}]
    /\ socket_fd \in [Conns -> Fds]
    /\ fd \in [Conns -> Fds \cup {NoFd}]
    /\ download_fd \in [Conns -> Fds]
    /\ accepting \in BOOLEAN

Init ==
    /\ table = [n \in Fds |-> IF n = 0 THEN Stdin ELSE Free]
    /\ peer = [c \in Conns |-> "away"]
    /\ phase = [c \in Conns |-> "none"]
    /\ socket_fd = [c \in Conns |-> 0]
    /\ fd = [c \in Conns |-> 0]
    /\ download_fd = [c \in Conns |-> 0]
    /\ accepting = TRUE
-----------------------------------------------------------------------------
\* The kernel: the lowest free number is handed out; closing what is not open
\* is an error and changes nothing.
Lowest(n) == table[n] = Free /\ \A m \in Fds : table[m] = Free => n <= m
Full == \A n \in Fds : table[n] # Free
Closing(n) == table' = [m \in Fds |-> IF m = n THEN Free ELSE table[m]]

\* What a wrapper loses sight of when a field is overwritten stays open.
LeakOld(old, tag) == [table EXCEPT ![old] = IF old > 0 /\ @ = tag THEN Leaked ELSE @]

Connect(c) ==
    /\ peer[c] = "away"
    /\ peer' = [peer EXCEPT ![c] = "up"]
    /\ UNCHANGED <<table, phase, socket_fd, fd, download_fd, accepting>>

HangUp(c) ==
    /\ peer[c] = "up"
    /\ peer' = [peer EXCEPT ![c] = "gone"]
    /\ UNCHANGED <<table, phase, socket_fd, fd, download_fd, accepting>>

\* Faulty variant: the result of accept() is not checked.
AcceptUnchecked(c) ==
    /\ accepting
    /\ peer[c] = "up" /\ phase[c] = "none"
    /\ \/ \E n \in Fds :
            /\ Lowest(n)
            /\ table' = [table EXCEPT ![n] = Tag("socket", c)]
            /\ socket_fd' = [socket_fd EXCEPT ![c] = n]
       \/ Full /\ socket_fd' = [socket_fd EXCEPT ![c] = NoFd] /\ UNCHANGED table
    /\ phase' = [phase EXCEPT ![c] = "open"]
    /\ fd' = [fd EXCEPT ![c] = 0]
    /\ download_fd' = [download_fd EXCEPT ![c] = 0]
    /\ UNCHANGED <<peer, accepting>>

Accept(c) ==
    /\ accepting
    /\ peer[c] = "up" /\ phase[c] = "none"
    /\ \E n \in Fds :
         /\ Lowest(n)
         /\ table' = [table EXCEPT ![n] = Tag("socket", c)]
         /\ socket_fd' = [socket_fd EXCEPT ![c] = n]
    /\ phase' = [phase EXCEPT ![c] = "open"]
    /\ fd' = [fd EXCEPT ![c] = 0]
    /\ download_fd' = [download_fd EXCEPT ![c] = 0]
    /\ UNCHANGED <<peer, accepting>>

\* accept() returns -1: the loop is left for good.
AcceptFails ==
    /\ accepting /\ Full
    /\ \E c \in Conns : peer[c] = "up" /\ phase[c] = "none"
    /\ accepting' = FALSE
    /\ UNCHANGED <<table, peer, phase, socket_fd, fd, download_fd>>

\* REQ_FILE_TRANSFER_START; nothing closes the file of the upload before.
OpenUpload(c) ==
    /\ phase[c] = "open"
    /\ \/ \E n \in Fds :
            /\ Lowest(n)
            /\ table' = [LeakOld(IF fd[c] = NoFd THEN 0 ELSE fd[c], Tag("up", c))
                         EXCEPT ![n] = Tag("up", c)]
            /\ fd' = [fd EXCEPT ![c] = n]
       \/ /\ Full
          /\ table' = LeakOld(IF fd[c] = NoFd THEN 0 ELSE fd[c], Tag("up", c))
          /\ fd' = [fd EXCEPT ![c] = NoFd]
    /\ UNCHANGED <<peer, phase, socket_fd, download_fd, accepting>>

\* REQ_FILE_OPEN: descriptor 0 is taken for a failure, and stays open.
OpenDownload(c) ==
    /\ phase[c] = "open"
    /\ \E n \in Fds :
         /\ Lowest(n)
         /\ \/ /\ n = 0
               /\ table' = [table EXCEPT ![n] = Leaked]
               /\ UNCHANGED download_fd
            \/ /\ n > 0
               /\ table' = [LeakOld(download_fd[c], Tag("down", c))
                            EXCEPT ![n] = Tag("down", c)]
               /\ download_fd' = [download_fd EXCEPT ![c] = n]
    /\ UNCHANGED <<peer, phase, socket_fd, fd, accepting>>

\* The server thread is in no other wrapper's destructor.
ServerThreadFree == \A d \in Conns : phase[d] \notin {"closeFd", "closeDownload"}

(***************************************************************************)
(* recv() on what socket_fd[c] is by now: the end of a stream, or an error *)
(* because it is not a socket.                                             *)
(***************************************************************************)
Ended(c) ==
    LET it == table[socket_fd[c]]
    IN  it.kind = "socket" => peer[it.of] = "gone"

CloseSocket(c) ==
    /\ phase[c] = "open" /\ ServerThreadFree
    /\ Ended(c)
    /\ Closing(socket_fd[c])
    /\ phase' = [phase EXCEPT ![c] = "closeFd"]
    /\ UNCHANGED <<peer, socket_fd, fd, download_fd, accepting>>

\* Faulty variant: the destructor closes the socket, as the loop has done.
CloseFdIsSocket(c) ==
    /\ phase[c] = "closeFd"
    /\ Closing(socket_fd[c])
    /\ phase' = [phase EXCEPT ![c] = "closeDownload"]
    /\ UNCHANGED <<peer, socket_fd, fd, download_fd, accepting>>

CloseFd(c) ==
    /\ phase[c] = "closeFd"
    /\ Closing(fd[c])
    /\ phase' = [phase EXCEPT ![c] = "closeDownload"]
    /\ UNCHANGED <<peer, socket_fd, fd, download_fd, accepting>>

CloseDownload(c) ==
    /\ phase[c] = "closeDownload"
    /\ Closing(download_fd[c])
    /\ phase' = [phase EXCEPT ![c] = "done"]
    /\ UNCHANGED <<peer, socket_fd, fd, download_fd, accepting>>
-----------------------------------------------------------------------------
Next ==
    \/ \E c \in Conns :
         \/ Connect(c) \/ HangUp(c)
         \/ Accept(c) \/ OpenUpload(c) \/ OpenDownload(c)
         \/ CloseSocket(c) \/ CloseFd(c) \/ CloseDownload(c)
    \/ AcceptFails

Spec == Init /\ [][Next]_vars
-----------------------------------------------------------------------------
(***************************************************************************)
(* A descriptor above 0 that a wrapper has recorded and not yet closed is  *)
(* the one it opened: no other wrapper's destructor, no second close and   *)
(* no reuse of the number ever takes it away (main.cpp:104-105,            *)
(* connection.cpp:17-18).                                                  *)
(***************************************************************************)
PositiveOwned ==
    \A c \in Conns :
        /\ phase[c] = "open" /\ socket_fd[c] > 0 =>
              table[socket_fd[c]] = Tag("socket", c)
        /\ phase[c] \in {"open", "closeFd"} /\ fd[c] > 0 =>
              table[fd[c]] = Tag("up", c)
        /\ phase[c] \in {"open", "closeFd", "closeDownload"} /\ download_fd[c] > 0 =>
              table[download_fd[c]] = Tag("down", c)

(***************************************************************************)
(* "lost connection" (main.cpp:103): the loop gives a connection up only   *)
(* when its own peer has gone.                                             *)
(***************************************************************************)
LostMeansGone ==
    \A c \in Conns : phase[c] = "open" /\ Ended(c) => peer[c] = "gone"
=============================================================================
