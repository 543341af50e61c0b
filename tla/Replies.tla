------------------------------- MODULE Replies -------------------------------
(***************************************************************************)
(* The replies of one connection, as bytes: what the handlers announce in  *)
(* total_size and what they send (packets_utils.hpp,                       *)
(* client_controller.cpp), and how the client cuts the stream up again     *)
(* (recv_from_server of common/utils.hpp), which it does without looking   *)
(* at how many bytes a header came with, nor at whether it came at all.    *)
(*                                                                         *)
(* A byte is <<r, i>>, the i-th of the reply to request r; <<0, i>> is     *)
(* what a receive buffer holds at first.  Sizes are small numbers in the   *)
(* order of the real ones.  Once four bytes that are not one header are    *)
(* taken for a header, the client is lost: it may show anything and wait   *)
(* for any number of bytes, and is not followed further.                   *)
(***************************************************************************)
EXTENDS Naturals, Sequences, FiniteSets, FiniteSetsExt

CONSTANTS Commands,    \* the commands that are typed
          InfoSize,    \* of the packets with a struct in them
          ListSize,    \* sizeof(PacketFileList)
          ChunkSizes,  \* of the chunks of a file, an empty one included
          MaxChunks,   \* how many chunks a file may have
          Capacity,    \* how many bytes the sockets hold
          MaxCommands

HeaderSize == 4

ASSUME RepliesAssumption ==
    /\ InfoSize \in Nat /\ ListSize \in Nat
    /\ HeaderSize + 1 < InfoSize /\ InfoSize < ListSize
    /\ ChunkSizes \subseteq HeaderSize .. ListSize
    /\ MaxChunks \in Nat /\ Capacity \in Nat \ {0} /\ MaxCommands \in Nat

VARIABLES
    asked,    \* the requests, in order
    out,      \* the reply to each that is answered
    sent,     \* how many bytes of it have been sent
    stream,   \* the bytes between the sockets
    gone,     \* the server has closed the connection
    reset,    \* and has met a request with a reset
    pc,       \* where the client is: prompt, send, header, body, handle, killed, lost
    todo,     \* the packets of the command that are not sent yet
    loop,     \* whose loop: main's, or handle_file_opened_resp's for chunks
    left,     \* how many chunks the latter still asks for
    head,     \* the header in each loop's receive buffer
    size,     \* what it says
    got,      \* recv_count
    commands, \* how many commands there have been
    cut       \* history: a header came in parts

serverVars == <<out, sent>>
clientVars == <<pc, todo, loop, left, head, size, got, commands, cut>>
vars == <<asked, stream, gone, reset, serverVars, clientVars>>
-----------------------------------------------------------------------------
(***************************************************************************)
(* Commands, requests and replies.                                         *)
(***************************************************************************)
PacketsOf(c) ==
    IF c = "upload" THEN <<"start", "upload chunk", "end">> ELSE <<c>>

ForAdmins == {"status", "connections", "get_settings", "set", "clean"}

\* What a handler may answer a session that it serves.
Answers(q) ==
    CASE q = "ping" -> {"PONG"}
      [] q = "login" -> {"LOGGED_IN", "BAD_LOGIN", "ADMIN_ALREADY_CONNECTED"}
      [] q \in {"logout", "set"} -> {"OK"}
      [] q = "cwd" -> {"CURRENT_DIRECTORY"}
      [] q = "getid" -> {"CURRENT_USER"}
      [] q = "ls" -> {"FILE_LIST"}
      [] q = "status" -> {"SERVER_STATUS_RESPONSE"}
      [] q = "connections" -> {"CONNECTIONS_INFO"}
      [] q = "get_settings" -> {"SETTINGS"}
      [] q \in {"rm", "mkdir", "cd", "mv", "cp", "clean"} -> {"OK", "IO_ERROR"}
      [] q = "compress" -> {"COMPRESS", "IO_ERROR"}
      [] q = "start" -> {"CONTINUE", "IO_ERROR"}
      [] q = "upload chunk" -> {"CONTINUE"}
      [] q = "end" -> {"FILE_TRANSFER_OK"}
      [] q = "download" -> {"FILE_OPENED", "IO_ERROR"}
      [] q = "chunk" -> {"FILE_CHUNK"}

Types(q) ==
    Answers(q)
    \cup (IF q \in {"login", "ping", "logout"} THEN {} ELSE {"NOT_LOGGED_IN"})
    \cup (IF q \in ForAdmins THEN {"REQUIRES_ADMIN"} ELSE {})

\* Faulty variant: the list of files claims to be without its count.
AnnouncedListShort(t) ==
    CASE t \in {"LOGGED_IN", "SETTINGS"} -> HeaderSize + 1
      [] t = "FILE_LIST" -> ListSize - 1
      [] t \in {"CURRENT_DIRECTORY", "CURRENT_USER", "SERVER_STATUS_RESPONSE",
                "CONNECTIONS_INFO", "FILE_OPENED"} -> InfoSize
      [] OTHER -> HeaderSize

Announced(t) ==
    CASE t \in {"LOGGED_IN", "SETTINGS"} -> HeaderSize + 1
      [] t = "FILE_LIST" -> ListSize
      [] t \in {"CURRENT_DIRECTORY", "CURRENT_USER", "SERVER_STATUS_RESPONSE",
                "CONNECTIONS_INFO", "FILE_OPENED"} -> InfoSize
      [] OTHER -> HeaderSize

\* The settings are sent with the size of a list.
Length(t) == IF t \in {"SETTINGS", "FILE_LIST"} THEN ListSize ELSE Announced(t)

Packet(t) == [type |-> t, claims |-> Announced(t), length |-> Length(t), chunks |-> 0]

\* A read() that fails counts as one byte less than nothing.
Chunks ==
    {[type |-> "FILE_CHUNK", claims |-> n, length |-> n, chunks |-> 0] :
        n \in ChunkSizes \cup {HeaderSize - 1}}

Replies(q) ==
    {Packet(t) : t \in Types(q) \ {"FILE_CHUNK", "FILE_OPENED"}}
    \cup (IF q = "download"
          THEN {[Packet("FILE_OPENED") EXCEPT !.chunks = n] : n \in 0 .. MaxChunks} ELSE {})
    \cup (IF q = "chunk" THEN Chunks ELSE {})
-----------------------------------------------------------------------------
Loops == {"main", "chunks"}
Header(r) == [i \in 1 .. HeaderSize |-> <<r, i>>]

TypeOK ==
    /\ DOMAIN out \subseteq DOMAIN asked /\ DOMAIN sent = DOMAIN out
    /\ \A r \in DOMAIN out : sent[r] \in 0 .. out[r].length
    /\ Len(stream) <= Capacity
    /\ {gone, reset, cut} \subseteq BOOLEAN
    /\ pc \in {"prompt", "send", "header", "body", "handle", "killed", "lost"}
    /\ loop \in Loops /\ DOMAIN head = Loops
    /\ \A l \in Loops : DOMAIN head[l] = 1 .. HeaderSize
    /\ left \in 0 .. MaxChunks /\ commands \in 0 .. MaxCommands
    /\ got <= IF size < HeaderSize THEN HeaderSize ELSE size

Init ==
    /\ asked = <<>> /\ out = <<>> /\ sent = <<>> /\ stream = <<>>
    /\ gone = FALSE /\ reset = FALSE
    /\ pc = "prompt" /\ todo = <<>> /\ loop = "main" /\ left = 0
    /\ head = [l \in Loops |-> Header(0)]
    /\ size = 0 /\ got = 0
    /\ commands = 0 /\ cut = FALSE
-----------------------------------------------------------------------------
(***************************************************************************)
(* The server.  A client out of step may ask before it has been answered;  *)
(* then several workers send at a time.                                    *)
(***************************************************************************)
Entered(f, r, v) == [q \in DOMAIN f \cup {r} |-> IF q = r THEN v ELSE f[q]]

Reply(r) ==
    /\ ~gone /\ r \in DOMAIN asked \ DOMAIN out
    /\ \E reply \in Replies(asked[r]) : out' = Entered(out, r, reply)
    /\ sent' = Entered(sent, r, 0)
    /\ UNCHANGED <<asked, stream, gone, reset, clientVars>>

\* What one send() takes; on EAGAIN it takes nothing and is called again.
Take(r, n) ==
    /\ stream' = stream \o [i \in 1 .. n |-> <<r, sent[r] + i>>]
    /\ UNCHANGED <<asked, out, gone, reset, clientVars>>

Portions(r) == 1 .. Min({out[r].length - sent[r], Capacity - Len(stream)})

\* Faulty variant: what the first send() does not take is forgotten.
SendOnce(r) ==
    /\ ~gone /\ r \in DOMAIN out
    /\ \E n \in Portions(r) : Take(r, n)
    /\ sent' = [sent EXCEPT ![r] = out[r].length]

Send(r) ==
    /\ ~gone /\ r \in DOMAIN out
    /\ \E n \in Portions(r) : Take(r, n) /\ sent' = [sent EXCEPT ![r] = @ + n]

\* The server ends, or gives the connection up; unread requests make it a reset.
Close ==
    /\ ~gone /\ gone' = TRUE
    /\ reset' \in BOOLEAN
    /\ UNCHANGED <<asked, stream, serverVars, clientVars>>
-----------------------------------------------------------------------------
(***************************************************************************)
(* The client.                                                             *)
(***************************************************************************)
Prompt ==
    /\ pc = "prompt" /\ commands < MaxCommands
    /\ \E c \in Commands : todo' = PacketsOf(c)
    /\ commands' = commands + 1
    /\ pc' = "send"
    /\ UNCHANGED <<asked, stream, gone, reset, serverVars, loop, left, head, size, got, cut>>

\* The loops over the packets of the command and over the chunks end.
LoopEnd ==
    /\ pc = "send"
    /\ IF loop = "main"
       THEN todo = <<>> /\ pc' = "prompt" /\ UNCHANGED loop
       ELSE left = 0 /\ loop' = "main" /\ UNCHANGED pc
    /\ UNCHANGED <<asked, stream, gone, reset, serverVars, todo, left, head, size, got, commands, cut>>

SendRequest ==
    /\ pc = "send" /\ ~(gone /\ reset)
    /\ IF loop = "main"
       THEN todo # <<>> /\ asked' = Append(asked, Head(todo)) /\ todo' = Tail(todo)
       ELSE left > 0 /\ asked' = Append(asked, "chunk") /\ UNCHANGED todo
    /\ reset' = gone
    /\ pc' = "header"
    /\ UNCHANGED <<stream, gone, serverVars, loop, left, head, size, got, commands, cut>>

\* send() fails, and with it the loop; or SIGPIPE ends the client.
SendFails ==
    /\ pc = "send" /\ gone /\ reset
    /\ todo # <<>> \/ left > 0
    /\ \/ pc' = "killed" /\ UNCHANGED <<todo, left>>
       \/ /\ IF loop = "main" THEN todo' = <<>> /\ UNCHANGED left
                              ELSE left' = 0 /\ UNCHANGED todo
          /\ UNCHANGED pc
    /\ UNCHANGED <<asked, stream, gone, reset, serverVars, loop, head, size, got, commands, cut>>

\* The reply a header is of, 0 for the empty buffer; a mixture is of none.
WholeHeader(h) == \E r \in 0 .. Len(asked) : h = Header(r)
ReplyOf(h) ==
    IF h = Header(0)
    THEN [type |-> "FILE_TRANSFER_START", claims |-> 0, length |-> 0, chunks |-> 0]
    ELSE out[h[1][1]]

(***************************************************************************)
(* recv() of the header: the bytes there are, up to 4, and none if the     *)
(* stream has ended; what is in the buffer is then read as if all four had *)
(* come.                                                                   *)
(***************************************************************************)
RecvHeader ==
    /\ pc = "header"
    /\ stream # <<>> \/ gone
    /\ LET n == Min({HeaderSize, Len(stream)})
           h == [i \in 1 .. HeaderSize |-> IF i <= n THEN stream[i] ELSE head[loop][i]] IN
         /\ head' = [head EXCEPT ![loop] = h]
         /\ stream' = SubSeq(stream, n + 1, Len(stream))
         /\ cut' = (cut \/ n \in 1 .. HeaderSize - 1)
         /\ IF WholeHeader(h)
            THEN /\ size' = ReplyOf(h).claims
                 /\ pc' = IF size' <= HeaderSize THEN "handle" ELSE "body"
            ELSE pc' = "lost" /\ UNCHANGED size
    /\ got' = HeaderSize
    /\ UNCHANGED <<asked, gone, reset, serverVars, todo, loop, left, commands>>

\* Faulty variant: the header is not counted in.
RecvBodyTooMuch ==
    /\ pc = "body" /\ stream # <<>>
    /\ \E n \in 1 .. Min({size, Len(stream)}) :
         /\ stream' = SubSeq(stream, n + 1, Len(stream))
         /\ got' = got + n
         /\ pc' = IF got' < size THEN "body" ELSE "handle"
    /\ UNCHANGED <<asked, gone, reset, serverVars, todo, loop, left, head, size, commands, cut>>

RecvBody ==
    /\ pc = "body" /\ stream # <<>>
    /\ \E n \in 1 .. Min({size - got, Len(stream)}) :
         /\ stream' = SubSeq(stream, n + 1, Len(stream))
         /\ got' = got + n
         /\ pc' = IF got' < size THEN "body" ELSE "handle"
    /\ UNCHANGED <<asked, gone, reset, serverVars, todo, loop, left, head, size, commands, cut>>

\* recv() returns 0 again and again.
Spin == pc = "body" /\ stream = <<>> /\ gone /\ UNCHANGED vars

\* recv() returns -1, after a reset, and nobody looks at the result.
RecvFails ==
    /\ pc \in {"header", "body"} /\ stream = <<>> /\ gone /\ reset
    /\ pc' = "handle"
    /\ UNCHANGED <<asked, stream, gone, reset, serverVars, todo, loop, left, head, size, got, commands, cut>>

DropsTheRest == {"REQUIRES_ADMIN", "NOT_LOGGED_IN", "BAD_LOGIN", "IO_ERROR"}

\* handle_response_packet; in the other loop the chunk is written to the file.
Handle ==
    /\ pc = "handle"
    /\ pc' = "send"
    /\ IF loop = "chunks"
       THEN left' = left - 1 /\ UNCHANGED <<todo, loop, head>>
       ELSE LET reply == ReplyOf(head.main) IN
            /\ todo' = IF reply.type \in DropsTheRest THEN <<>> ELSE todo
            /\ IF reply.type = "FILE_OPENED"
               THEN /\ loop' = "chunks" /\ left' = reply.chunks
                    /\ head' = [head EXCEPT !.chunks = Header(0)]
               ELSE UNCHANGED <<loop, left, head>>
    /\ size' = 0 /\ got' = 0
    /\ UNCHANGED <<asked, stream, gone, reset, serverVars, commands, cut>>
-----------------------------------------------------------------------------
Rest ==
    /\ pc \in {"killed", "lost"} \/ (pc = "prompt" /\ commands = MaxCommands)
    /\ UNCHANGED vars

Client == LoopEnd \/ SendRequest \/ SendFails \/ RecvHeader \/ RecvBody \/ RecvFails \/ Handle

Requests == 1 .. MaxCommands * (3 + MaxChunks)

Next ==
    \/ Prompt \/ Client \/ Spin \/ Close \/ Rest
    \/ \E r \in Requests : Reply(r) \/ Send(r)

SafeSpec == Init /\ [][Next]_vars

\* The client goes on when it can, and so does every worker.
Spec ==
    /\ SafeSpec
    /\ WF_vars(Client)
    /\ \A r \in Requests : WF_vars(Reply(r)) /\ WF_vars(Send(r))
-----------------------------------------------------------------------------
\* No settings have been answered, and no header has come in parts.
InStep == ~cut /\ \A r \in DOMAIN out : out[r].type # "SETTINGS"

(***************************************************************************)
(* What the client takes for the reply to its request is the reply to that *)
(* request, the whole of it, and no byte of it is left to be taken for the *)
(* next; or the server has gone, and it is that reply begun, the one       *)
(* before, or an empty buffer, shown as if the request had been served     *)
(* (utils.hpp:15-45, main.cpp:66-68 of the client).  Not so once settings  *)
(* have been asked for, or a header has come in parts as it does when the  *)
(* server cannot read a file; nothing else makes it lost.                  *)
(***************************************************************************)
ShownIsOwn ==
    LET r == Len(asked) IN
    pc \in {"handle", "lost"} /\ InStep =>
       \/ /\ head[loop] = Header(r)
          /\ sent[r] = out[r].length /\ got = out[r].length
          /\ stream = <<>>
       \/ gone /\ stream = <<>> /\ WholeHeader(head[loop])

(***************************************************************************)
(* A command comes back to the prompt, the last chunk of a download and    *)
(* the last packet of an upload included, as long as the two are in step,  *)
(* and even if the server goes; except that a server gone in the middle of *)
(* a reply, or after a reply larger than a header, makes the client spin   *)
(* (utils.hpp:31-43: recv() returns 0 and nobody looks).                   *)
(***************************************************************************)
PromptReturns ==
    pc \in {"send", "header", "body", "handle"} ~>
       \/ pc \in {"prompt", "killed"} \/ ~InStep
       \/ pc = "body" /\ gone /\ stream = <<>>
=============================================================================
