------------------------------- MODULE Server -------------------------------
(***************************************************************************)
(* The life of a connection and of a request in the server:                *)
(* src/src/server/main.cpp with connection.cpp and process_packet of       *)
(* client_controller.cpp, driven by clients that behave as                 *)
(* src/src/client/main.cpp does.                                           *)
(*                                                                         *)
(* Five kinds of actors: the clients, the accept thread, the server       *)
(* thread that polls every active connection and dispatches the packets it *)
(* has put together, the pool that processes them, and whoever sends the   *)
(* process a termination signal.  The pool is used through TaskPool, the   *)
(* specification ThreadPool.tla implements.                                *)
(*                                                                         *)
(* A packet holds a raw pointer to the connection it came from, and its    *)
(* type is read from that connection's buffer, not from the packet.  What  *)
(* a worker does with a connection that is already destroyed is any        *)
(* outcome the build can produce: see UseFreed.                            *)
(***************************************************************************)
EXTENDS Naturals, Sequences, FiniteSets, SequencesExt

CONSTANTS Clients,   \* the peers; each one connects once
          MaxReq,    \* how many requests each client may send
          MaxSent,   \* and how many all of them together
          Eager,     \* clients that send ahead of replies; none in main.cpp
          PoolSize,  \* threads of the pool: 6 in main.cpp
          None       \* not a client

ASSUME ServerAssumption ==
    /\ None \notin Clients /\ Eager \subseteq Clients
    /\ MaxReq \in Nat /\ MaxSent \in Nat /\ PoolSize \in Nat \ {0}

VARIABLES
    peer,       \* the client's side: "away", "up" or "gone"
    sent,       \* number of requests each client has sent
    inbox,      \* the replies delivered to each client, which reads them at once
    backlog,    \* connected, not yet returned by accept()
    acceptor,   \* the connection the accept thread is wrapping, or None
    pending,    \* g_state.pending_connections, a stack: the top is last
    active,     \* g_state.active_connections
    fd,         \* socket_fd of each wrapper, left behind when it is destroyed
    rcvd,       \* number of requests taken out of each connection's buffer
    head,       \* the request whose type byte is at buffer[1]
    body,       \* the request whose payload is at buffer[4]
    completed,  \* g_state.completed_packets, a stack: the top is last
    pc,         \* the server thread: "receive", "handle", "pending"; in the
                \* signal handler "exit" or "stuck"; "over" when it is done
    it,         \* the iterator of receive_all_connections
    visited,    \* history: the connections polled in this pass
    roster,     \* history: the connections active when this pass began
    submitted, begun, done,  \* the pool
    kind,       \* the type a worker has read for a packet; 0 before it has
    early,      \* history: some client hung up on an unanswered request
    crashed     \* the process is gone

clientVars == <<peer, sent, early>>
acceptVars == <<backlog, acceptor, fd>>
bufferVars == <<rcvd, head, body>>
loopVars == <<pc, it, visited, roster>>
poolVars == <<submitted, begun, done>>
workVars == <<kind, inbox>>
vars == <<clientVars, acceptVars, bufferVars, loopVars, poolVars, workVars,
          pending, active, completed, crashed>>

Requests == 1 .. MaxReq
Packets == Clients \X Requests
Fds == 1 .. Cardinality(Clients)

Pool == INSTANCE TaskPool WITH
            Tasks <- Packets,
            closed <- pc \in {"exit", "over"}, over <- pc = "over"

\* The process runs.
Up == ~crashed /\ pc # "over"

\* Requests a client may have unanswered: main.cpp waits for each reply.
Window(c) == IF c \in Eager THEN 2 ELSE 1

\* A wrapper exists while the accept thread, the stack or the vector holds it.
Alive(c) == c = acceptor \/ c \in Range(pending) \/ c \in Range(active)

\* Packets that hold a pointer to the connection of c and are not done with it.
InFlight(c) ==
    {p \in Range(completed) \cup (Range(submitted) \ done) : p[1] = c}

SumSent == FoldFunction(+, 0, sent)

\* A handler that needs its packet whole reads the live buffer once more, as
\* that of REQ_SET_SETTING does.
Reply(p) == [to |-> p, kind |-> kind[p], value |-> body[p[1]]]
Replies == [to : Packets, kind : Requests, value : Requests]

TypeOK ==
    /\ peer \in [Clients -> {"away", "up", "gone"}]
    /\ sent \in [Clients -> 0 .. MaxReq]
    /\ inbox \in [Clients -> Seq(Replies)]
    /\ backlog \in Seq(Clients)
    /\ acceptor \in Clients \cup {None}
    /\ pending \in Seq(Clients)
    /\ active \in Seq(Clients)
    /\ fd \in [Clients -> {0} \cup Fds]
    /\ rcvd \in [Clients -> 0 .. MaxReq]
    /\ head \in [Clients -> 0 .. MaxReq] /\ body \in [Clients -> 0 .. MaxReq]
    /\ completed \in Seq(Packets)
    /\ pc \in {"receive", "handle", "pending", "exit", "stuck", "over"}
    /\ it \in Nat \ {0}
    /\ visited \in SUBSET Clients /\ roster \in SUBSET Clients
    /\ submitted \in Seq(Packets) /\ begun \in Nat /\ done \in SUBSET Packets
    /\ kind \in [Packets -> 0 .. MaxReq]
    /\ early \in BOOLEAN /\ crashed \in BOOLEAN

Init ==
    /\ peer = [c \in Clients |-> "away"]
    /\ sent = [c \in Clients |-> 0]
    /\ inbox = [c \in Clients |-> <<>>]
    /\ backlog = <<>> /\ acceptor = None /\ pending = <<>> /\ active = <<>>
    /\ fd = [c \in Clients |-> 0]
    /\ rcvd = [c \in Clients |-> 0]
    /\ head = [c \in Clients |-> 0] /\ body = [c \in Clients |-> 0]
    /\ completed = <<>>
    /\ pc = "receive" /\ it = 1 /\ visited = {} /\ roster = {}
    /\ submitted = <<>> /\ begun = 0 /\ done = {}
    /\ kind = [p \in Packets |-> 0]
    /\ early = FALSE /\ crashed = FALSE
-----------------------------------------------------------------------------
(***************************************************************************)
(* Clients: connect, then send a request, wait for its reply and send the  *)
(* next.  A client may be stopped at any moment, whatever it waits for.    *)
(* They are not followed beyond the end of the server.                     *)
(***************************************************************************)
Connect(c) ==
    /\ Up /\ peer[c] = "away"
    /\ peer' = [peer EXCEPT ![c] = "up"]
    /\ backlog' = Append(backlog, c)
    /\ UNCHANGED <<sent, early, acceptor, fd, bufferVars, loopVars, poolVars,
                   workVars, pending, active, completed, crashed>>

SendRequest(c) ==
    /\ Up /\ peer[c] = "up"
    /\ sent[c] < MaxReq /\ SumSent < MaxSent
    /\ sent[c] < Len(inbox[c]) + Window(c)
    /\ sent' = [sent EXCEPT ![c] = @ + 1]
    /\ UNCHANGED <<peer, early, acceptVars, bufferVars, loopVars, poolVars,
                   workVars, pending, active, completed, crashed>>

HangUp(c) ==
    /\ Up /\ peer[c] = "up"
    /\ peer' = [peer EXCEPT ![c] = "gone"]
    /\ early' = (early \/ Len(inbox[c]) < sent[c])
    /\ UNCHANGED <<sent, acceptVars, bufferVars, loopVars, poolVars,
                   workVars, pending, active, completed, crashed>>
-----------------------------------------------------------------------------
(***************************************************************************)
(* The accept thread.  The kernel hands out the lowest free descriptor.    *)
(***************************************************************************)
FreeFds == {n \in Fds : \A d \in Clients : Alive(d) => fd[d] # n}
LowestFree(n) == n \in FreeFds /\ \A m \in FreeFds : n <= m

Accept ==
    /\ Up
    /\ acceptor = None /\ backlog # <<>>
    /\ acceptor' = Head(backlog)
    /\ backlog' = Tail(backlog)
    /\ \E n \in Fds : LowestFree(n) /\ fd' = [fd EXCEPT ![Head(backlog)] = n]
    /\ UNCHANGED <<clientVars, bufferVars, loopVars, poolVars, workVars,
                   pending, active, completed, crashed>>

PushPending ==
    /\ Up
    /\ acceptor # None
    /\ pending' = Append(pending, acceptor)
    /\ acceptor' = None
    /\ UNCHANGED <<clientVars, backlog, fd, bufferVars, loopVars, poolVars, workVars,
                   active, completed, crashed>>
-----------------------------------------------------------------------------
(***************************************************************************)
(* The server thread: receive_all_connections, handle_packets,             *)
(* handle_pending_connections, and again.                                  *)
(***************************************************************************)
Polling(c) ==
    /\ Up
    /\ pc = "receive" /\ it <= Len(active)
    /\ c = active[it]

\* recv() would block.
ReceiveNothing(c) ==
    /\ Polling(c)
    /\ peer[c] # "gone" /\ sent[c] = rcvd[c]
    /\ it' = it + 1
    /\ visited' = visited \cup {c}
    /\ UNCHANGED <<clientVars, acceptVars, bufferVars, pc, roster, poolVars, workVars,
                   pending, active, completed, crashed>>

\* Faulty variant: what is taken out stays at the front of the buffer.
ReceiveDataBehind(c) ==
    /\ Polling(c)
    /\ \E n \in rcvd[c] .. sent[c] :
         /\ n > rcvd[c]
         /\ rcvd' = [rcvd EXCEPT ![c] = n]
         /\ head' = [head EXCEPT ![c] = IF @ = 0 THEN n ELSE @]
         /\ body' = [body EXCEPT ![c] = IF @ = 0 THEN n ELSE @]
         /\ completed' = completed \o [i \in 1 .. n - rcvd[c] |-> <<c, rcvd[c] + i>>]
    /\ it' = it + 1
    /\ visited' = visited \cup {c}
    /\ UNCHANGED <<clientVars, acceptVars, pc, roster, poolVars, workVars,
                   pending, active, crashed>>

(***************************************************************************)
(* recv() returns some of what has arrived: the requests up to n whole,    *)
(* and of the next one perhaps enough to overwrite buffer[1] (h = n + 1),  *)
(* or the payload as well (b = n + 1).                                     *)
(* The whole ones are pushed in order; what is left moves to the front of  *)
(* the buffer, but nothing clears the buffer when nothing is left.         *)
(***************************************************************************)
ReceiveData(c) ==
    /\ Polling(c)
    /\ \E n \in rcvd[c] .. sent[c], h, b \in Requests :
         /\ {h, b} \subseteq {n, n + 1} /\ b <= h /\ h <= sent[c]
         /\ h >= head[c] /\ b >= body[c]
         /\ n > rcvd[c] \/ h > head[c] \/ b > body[c]
         /\ rcvd' = [rcvd EXCEPT ![c] = n]
         /\ head' = [head EXCEPT ![c] = h]
         /\ body' = [body EXCEPT ![c] = b]
         /\ completed' = completed \o [i \in 1 .. n - rcvd[c] |-> <<c, rcvd[c] + i>>]
    /\ it' = it + 1
    /\ visited' = visited \cup {c}
    /\ UNCHANGED <<clientVars, acceptVars, pc, roster, poolVars, workVars,
                   pending, active, crashed>>

\* Faulty variant: the iterator moves on after an erase, as after a read.
ReceiveClosedAndSkip(c) ==
    /\ Polling(c)
    /\ peer[c] = "gone"
    /\ active' = RemoveAt(active, it)
    /\ it' = it + 1
    /\ visited' = visited \cup {c}
    /\ UNCHANGED <<clientVars, acceptVars, bufferVars, pc, roster, poolVars,
                   workVars, pending, completed, crashed>>

(***************************************************************************)
(* recv() returns 0 or an error: the socket is closed and the wrapper      *)
(* erased, which destroys it, even if packets still point to it.  A reset  *)
(* may overtake requests that had arrived.                                 *)
(***************************************************************************)
ReceiveClosed(c) ==
    /\ Polling(c)
    /\ peer[c] = "gone"
    /\ active' = RemoveAt(active, it)
    /\ visited' = visited \cup {c}
    /\ UNCHANGED <<clientVars, acceptVars, bufferVars, pc, it, roster, poolVars,
                   workVars, pending, completed, crashed>>

ReceiveEnd ==
    /\ Up
    /\ pc = "receive" /\ it > Len(active)
    /\ pc' = "handle"
    /\ UNCHANGED <<clientVars, acceptVars, bufferVars, it, visited, roster, poolVars,
                   workVars, pending, active, completed, crashed>>

\* Faulty variant: the top of the stack is dispatched and not popped.
DispatchWithoutPop ==
    /\ Up
    /\ pc = "handle" /\ completed # <<>>
    /\ submitted' = Append(submitted, Last(completed))
    /\ UNCHANGED <<clientVars, acceptVars, bufferVars, loopVars, begun, done, workVars,
                   pending, active, completed, crashed>>

Dispatch ==
    /\ Up
    /\ pc = "handle" /\ completed # <<>>
    /\ Pool!SubmitTask(Last(completed))
    /\ completed' = Front(completed)
    /\ UNCHANGED <<clientVars, acceptVars, bufferVars, loopVars, workVars,
                   pending, active, crashed>>

\* Faulty variant: while(completed_packets.size() > 1).
HandleEndLeavesOne ==
    /\ Up
    /\ pc = "handle" /\ Len(completed) <= 1
    /\ pc' = "pending"
    /\ UNCHANGED <<clientVars, acceptVars, bufferVars, it, visited, roster, poolVars,
                   workVars, pending, active, completed, crashed>>

HandleEnd ==
    /\ Up
    /\ pc = "handle" /\ completed = <<>>
    /\ pc' = "pending"
    /\ UNCHANGED <<clientVars, acceptVars, bufferVars, it, visited, roster, poolVars,
                   workVars, pending, active, completed, crashed>>

\* Faulty variant: only the top of the stack is moved.
HandlePendingTopOnly ==
    /\ Up
    /\ pc = "pending"
    /\ active' = IF pending = <<>> THEN active ELSE Append(active, Last(pending))
    /\ pending' = <<>>
    /\ pc' = "receive" /\ it' = 1 /\ visited' = {} /\ roster' = Range(active')
    /\ UNCHANGED <<clientVars, acceptVars, bufferVars, poolVars, workVars,
                   completed, crashed>>

\* Faulty variant: the connections moved are not popped.
HandlePendingWithoutPop ==
    /\ Up
    /\ pc = "pending"
    /\ active' = active \o Reverse(pending)
    /\ pc' = "receive" /\ it' = 1 /\ visited' = {} /\ roster' = Range(active')
    /\ UNCHANGED <<clientVars, acceptVars, bufferVars, poolVars, workVars,
                   pending, completed, crashed>>

\* Faulty variant: the next pass begins one place before the first connection.
HandlePendingThenBeforeFirst ==
    /\ Up
    /\ pc = "pending"
    /\ active' = active \o Reverse(pending)
    /\ pending' = <<>>
    /\ pc' = "receive" /\ it' = 0 /\ visited' = {} /\ roster' = Range(active')
    /\ UNCHANGED <<clientVars, acceptVars, bufferVars, poolVars, workVars,
                   completed, crashed>>

\* Under pending_connections_mtx, so in one step; then the next round begins.
HandlePending ==
    /\ Up
    /\ pc = "pending"
    /\ active' = active \o Reverse(pending)
    /\ pending' = <<>>
    /\ pc' = "receive" /\ it' = 1 /\ visited' = {} /\ roster' = Range(active')
    /\ UNCHANGED <<clientVars, acceptVars, bufferVars, poolVars, workVars,
                   completed, crashed>>
-----------------------------------------------------------------------------
(***************************************************************************)
(* SIGINT or SIGTERM, once the server listens: the handler runs on the     *)
(* main thread, which is the server thread, wherever it is, and calls      *)
(* exit().  If it is inside dispatch_async it may hold queueMutex, which   *)
(* stop() then waits for in vain, and so does every worker.                *)
(***************************************************************************)
Terminate ==
    /\ Up
    /\ \/ pc \in {"receive", "handle", "pending"} /\ pc' = "exit"
       \/ pc = "handle" /\ completed # <<>> /\ pc' = "stuck"
    /\ it' = 1 /\ visited' = {} /\ roster' = {}
    /\ UNCHANGED <<clientVars, acceptVars, bufferVars, poolVars, workVars,
                   pending, active, completed, crashed>>

\* The rest of g_state goes with the process.
Release ==
    /\ pc' = "over"
    /\ completed' = <<>> /\ active' = <<>> /\ pending' = <<>>
    /\ UNCHANGED <<clientVars, acceptVars, bufferVars, it, visited, roster,
                   poolVars, workVars, crashed>>

\* Faulty variant: thread_pool declared before the connections, hence
\* destroyed after them.
ExitConnectionsFirst == Up /\ pc = "exit" /\ Release

(***************************************************************************)
(* exit() destroys the members of g_state from the last to the first: the  *)
(* pool, whose stop() returns when every closure has, and only then the    *)
(* packets not dispatched, the active and the pending connections.         *)
(***************************************************************************)
Exit ==
    /\ Up /\ pc = "exit"
    /\ done = Range(submitted)
    /\ Release
-----------------------------------------------------------------------------
(***************************************************************************)
(* The pool: a worker takes a packet, reads its type, runs the handler and *)
(* sends the reply.                                                        *)
(***************************************************************************)
\* Faulty variant: workers leave as soon as the pool is stopped.
WorkerTakeUnlessStopped ==
    /\ Up /\ pc \notin {"stuck", "exit"}
    /\ Pool!BeginTask
    /\ UNCHANGED <<clientVars, acceptVars, bufferVars, loopVars, workVars,
                   pending, active, completed, crashed>>

WorkerTake ==
    /\ Up /\ pc # "stuck"
    /\ Pool!BeginTask
    /\ UNCHANGED <<clientVars, acceptVars, bufferVars, loopVars, workVars,
                   pending, active, completed, crashed>>

ReadType(p) ==
    /\ Up
    /\ p \in Pool!Running /\ kind[p] = 0
    /\ Alive(p[1])
    /\ kind' = [kind EXCEPT ![p] = head[p[1]]]
    /\ UNCHANGED <<clientVars, acceptVars, bufferVars, loopVars, poolVars, inbox,
                   pending, active, completed, crashed>>

(***************************************************************************)
(* The handler runs and send_response_sync sends.  If the client is gone   *)
(* the reply is dropped, or SIGPIPE ends the process.                      *)
(***************************************************************************)
SendReply(p) ==
    /\ Up
    /\ kind[p] # 0
    /\ Pool!EndTask(p)
    /\ Alive(p[1])
    /\ IF peer[p[1]] = "up"
       THEN /\ inbox' = [inbox EXCEPT ![p[1]] = Append(@, Reply(p))]
            /\ UNCHANGED crashed
       ELSE UNCHANGED inbox /\ crashed' \in BOOLEAN
    /\ UNCHANGED <<clientVars, acceptVars, bufferVars, loopVars, kind,
                   pending, active, completed>>

(***************************************************************************)
(* The connection is destroyed and the worker uses it all the same.        *)
(* Reading its buffer gives any type; sending writes to the descriptor the *)
(* memory still holds, which is closed or is another client's by now; or   *)
(* the process ends.                                                       *)
(***************************************************************************)
UseFreed(p) ==
    /\ Up
    /\ p \in Pool!Running /\ ~Alive(p[1])
    /\ \/ /\ kind[p] = 0
          /\ \E k \in Requests : kind' = [kind EXCEPT ![p] = k]
          /\ UNCHANGED <<poolVars, inbox, crashed>>
       \/ /\ kind[p] # 0
          /\ Pool!EndTask(p)
          /\ \/ \E d \in Clients :
                  /\ Alive(d) /\ fd[d] = fd[p[1]] /\ peer[d] = "up"
                  /\ \E b \in Requests :
                       inbox' = [inbox EXCEPT ![d] = Append(@, [Reply(p) EXCEPT !.value = b])]
             \/ UNCHANGED inbox
          /\ UNCHANGED <<kind, crashed>>
       \/ /\ crashed' = TRUE
          /\ UNCHANGED <<poolVars, kind, inbox>>
    /\ UNCHANGED <<clientVars, acceptVars, bufferVars, loopVars,
                   pending, active, completed>>

\* Nothing more need happen: the process is gone, or is in stop(), which may
\* hang; ExitReturns says when it does not.
Stopped == (~Up \/ pc \in {"exit", "stuck"}) /\ UNCHANGED vars
-----------------------------------------------------------------------------
ClientNext(c) == Connect(c) \/ SendRequest(c) \/ HangUp(c)

AcceptThread == Accept \/ PushPending

ServerThread ==
    \/ \E c \in Clients : ReceiveNothing(c) \/ ReceiveData(c) \/ ReceiveClosed(c)
    \/ ReceiveEnd \/ Dispatch \/ HandleEnd \/ HandlePending \/ Exit

PacketNext(p) == ReadType(p) \/ SendReply(p) \/ UseFreed(p)

Next ==
    \/ \E c \in Clients : ClientNext(c)
    \/ AcceptThread
    \/ ServerThread
    \/ WorkerTake
    \/ \E p \in Packets : PacketNext(p)
    \/ Terminate
    \/ Stopped

SafeSpec == Init /\ [][Next]_vars

(***************************************************************************)
(* The accept thread, the server thread and the pool are scheduled and     *)
(* handlers return.  Clients owe nothing, nor does whoever sends signals.  *)
(***************************************************************************)
Fairness ==
    /\ WF_vars(AcceptThread)
    /\ WF_vars(ServerThread)
    /\ WF_vars(WorkerTake)
    /\ \A p \in Packets : WF_vars(PacketNext(p))

Spec == SafeSpec /\ Fairness
-----------------------------------------------------------------------------
(***************************************************************************)
(* What the user of a client sees: the i-th reply it is given answers its  *)
(* i-th request, by the handler of that request's type and with its own    *)
(* payload.  It holds for clients that wait for each reply although the    *)
(* type is read late, and the packet of a setting later still, from a      *)
(* buffer that the server thread keeps writing to (connection.cpp:55-62,   *)
(* client_controller.cpp:330), until some client hangs up while the server *)
(* still works for it.                                                     *)
(***************************************************************************)
AnsweredInKind ==
    ~early =>
        \A c \in Clients \ Eager : \A i \in DOMAIN inbox[c] :
            inbox[c][i] = [to |-> <<c, i>>, kind |-> i, value |-> i]

(***************************************************************************)
(* A request is handled once, also if it was sent ahead of replies: it is  *)
(* in the stack of completed packets, or handed to the pool, never both    *)
(* and never twice (main.cpp:25-38, 134-163).                              *)
(***************************************************************************)
HandledOnce ==
    /\ IsInjective(completed) /\ IsInjective(submitted)
    /\ Range(completed) \cap Range(submitted) = {}
    /\ pc # "over" =>
         \A c \in Clients :
           {r \in Requests : <<c, r>> \in Range(completed) \cup Range(submitted)}
           = 1 .. rcvd[c]

(***************************************************************************)
(* The raw pointer of a packet (main.cpp:142) outlives its connection only *)
(* if a client hung up on an unanswered request; nothing else ends the     *)
(* process or delivers a reply to a stranger, a termination signal         *)
(* included: the pool is declared after what its closures use              *)
(* (state.hpp:14-20).                                                      *)
(***************************************************************************)
FreedOnlyAfterHangUp ==
    ~early =>
        /\ \A c \in Clients : InFlight(c) # {} => Alive(c)
        /\ ~crashed

(***************************************************************************)
(* receive_all_connections polls every connection that was active when the *)
(* pass began, whatever it erases on the way (main.cpp:85-171).            *)
(***************************************************************************)
PassPollsAll == pc # "receive" => visited = roster

(***************************************************************************)
(* A wrapper has one owner at a time, and wrappers that exist have         *)
(* distinct descriptors, so a reply on a live connection reaches its       *)
(* client.                                                                 *)
(***************************************************************************)
OneOwner ==
    /\ IsInjective(pending \o active)
    /\ acceptor \notin Range(pending \o active)
    /\ \A c, d \in Clients :
         Alive(c) /\ Alive(d) /\ fd[c] = fd[d] => c = d

Answered(p) == p \in {inbox[p[1]][i].to : i \in DOMAIN inbox[p[1]]}

(***************************************************************************)
(* A client that stays is answered: neither the LIFO stacks nor the poll   *)
(* over all connections nor the bounded pool forgets a request.  A         *)
(* termination signal loses only the requests not yet handed to the pool,  *)
(* unless it arrives inside dispatch_async.                                *)
(***************************************************************************)
EveryRequestAnswered ==
    \A p \in Packets :
        sent[p[1]] >= p[2] ~>
            \/ Answered(p)
            \/ peer[p[1]] = "gone" \/ crashed \/ pc = "stuck"
            \/ pc = "over" /\ p \notin Range(submitted)

(***************************************************************************)
(* exit() called in the signal handler returns: stop() does not wait for   *)
(* a worker that waits for the server thread (main.cpp:199-210,            *)
(* thread_pool.hpp:69-81).                                                 *)
(***************************************************************************)
ExitReturns == pc = "exit" ~> ~Up

(***************************************************************************)
(* A destroyed connection stays destroyed, and a connection is destroyed   *)
(* only by the server thread after its client has gone, or with the        *)
(* process.                                                                *)
(***************************************************************************)
DestroyedByPollOnly ==
    [][\A c \in Clients :
         Alive(c) /\ ~Alive(c)' =>
            (peer[c] = "gone" /\ pc = "receive") \/ pc' = "over"]_vars
=============================================================================
