------------------------------ MODULE Transfer ------------------------------
(***************************************************************************)
(* upload and download, both ends: what the client makes of a command      *)
(* (menu.hpp, utils.hpp), and what the handlers of REQ_FILE_TRANSFER_* and *)
(* REQ_FILE_OPEN, REQ_FILE_DOWNLOAD_CHUNK do to the files of one directory *)
(* (client_controller.cpp, packets_utils.hpp).                             *)
(*                                                                         *)
(* A file is a sequence of blocks; a chunk is ChunkSize of them, or what   *)
(* is left at the end of a file.  Each file a connection sends has blocks  *)
(* of its own, so that a mixture is seen.  A client waits for each reply   *)
(* and does nothing else meanwhile: sending a packet, its handler and what *)
(* the client does with the reply are one step, and the steps of different *)
(* connections interleave.                                                 *)
(***************************************************************************)
EXTENDS Naturals, Sequences, FiniteSets, SequencesExt

CONSTANTS Conns,       \* connections that have the directory as their current one
          Names,       \* file names
          Directories, \* those that name a directory
          Paths,       \* those with a '/' in them, which the server refuses
          Lengths,     \* lengths of the local files, in blocks
          ChunkSize,   \* blocks in a chunk: UINT16_MAX - sizeof(PacketHeader) bytes
          MaxFiles,    \* how many files each connection may send or fetch
          Unset        \* no file

ASSUME TransferAssumption ==
    /\ Directories \subseteq Names /\ Paths \subseteq Names
    /\ Unset \notin Names
    /\ Lengths \subseteq Nat
    /\ ChunkSize \in Nat \ {0} /\ MaxFiles \in Nat

VARIABLES
    store,     \* the files of the directory; <<>> also before they exist
    exists,    \* the names that are there, directories apart
    todo,      \* the packets a client has still to send for its command
    fd,        \* what ConnectionWrapper::fd refers to: a name, or Unset
    offset,    \* the file offset of fd
    download_fd,
    fetch,     \* a download: the next chunk asked for, and how many there are
    local,     \* the files a client has downloaded
    given,     \* how many files each client has been told to send or fetch
    uploading, \* history: the upload whose START went through last, or none
    contested, \* history: connections whose upload shared its file with another
    claim,     \* history: what the last FILE_TRANSFER_OK says each file holds
    opened,    \* history: what the file being downloaded held when opened
    fetched    \* history: a download that has ended well, and what was opened

fileVars == <<store, exists>>
uploadVars == <<fd, offset, uploading, contested, claim>>
downloadVars == <<download_fd, fetch, local, opened, fetched>>
vars == <<fileVars, uploadVars, downloadVars, todo, given>>

Blocks == [by : Conns, nr : 1 .. MaxFiles, at : Nat]
Contents == Seq(Blocks)
Idle(c) == todo[c] = <<>> /\ fetch[c].chunks = 0

\* What no file holds: the client has been told nothing, or it no longer counts.
Nothing == [known |-> FALSE, data |-> <<>>, tail |-> FALSE]
NoFile == [name |-> Unset, data |-> <<>>, tail |-> FALSE]

TypeOK ==
    /\ store \in [Names -> Contents] /\ exists \subseteq Names \ Directories
    /\ \A c \in Conns : \A i \in DOMAIN todo[c] :
         /\ todo[c][i].command \in {"START", "CHUNK", "END"}
         /\ todo[c][i].name \in Names /\ todo[c][i].data \in Contents
         /\ Len(todo[c][i].data) <= ChunkSize
    /\ fd \in [Conns -> Names \cup {Unset}]
    /\ \A c \in Conns : fd[c] # Unset => offset[c] \in 0 .. Len(store[fd[c]])
    /\ download_fd \in [Conns -> Names \cup {Unset}]
    /\ \A c \in Conns : fetch[c].next \in 0 .. fetch[c].chunks
    /\ local \in [Conns -> [Names -> Contents]]
    /\ given \in [Conns -> 0 .. MaxFiles]
    /\ contested \subseteq Conns
    /\ \A f \in Names : claim[f].known => claim[f].data \in Contents

Init ==
    /\ store = [f \in Names |-> <<>>] /\ exists = {}
    /\ todo = [c \in Conns |-> <<>>]
    /\ fd = [c \in Conns |-> Unset] /\ offset = [c \in Conns |-> 0]
    /\ download_fd = [c \in Conns |-> Unset]
    /\ fetch = [c \in Conns |-> [next |-> 0, chunks |-> 0]]
    /\ local = [c \in Conns |-> [f \in Names |-> <<>>]]
    /\ given = [c \in Conns |-> 0]
    /\ uploading = [c \in Conns |-> NoFile] /\ contested = {}
    /\ claim = [f \in Names |-> Nothing]
    /\ opened = [c \in Conns |-> NoFile]
    /\ fetched = [c \in Conns |-> NoFile]
-----------------------------------------------------------------------------
(***************************************************************************)
(* The client: break_vector_into and create_file_transfer_packets.  The    *)
(* last packet is made the END of the transfer, whichever it is.           *)
(***************************************************************************)
ChunkCount(n) == (n \div ChunkSize) + (IF n % ChunkSize # 0 THEN 1 ELSE 0)

\* The i-th chunk, from 0, of what a file holds.
ChunkOf(data, i) ==
    SubSeq(data, i * ChunkSize + 1,
           IF (i + 1) * ChunkSize <= Len(data) THEN (i + 1) * ChunkSize ELSE Len(data))

\* The blocks of the nr-th file of client c.
Source(c, nr, n) == [i \in 1 .. n |-> [by |-> c, nr |-> nr, at |-> i]]

\* nr and size are not sent: they say which file a packet is about.
FilePackets(c, name, nr, size) ==
    LET start == [command |-> "START", data |-> <<>>,
                  name |-> name, nr |-> nr, size |-> size]
        chunks == [i \in 1 .. ChunkCount(size) |->
                     [start EXCEPT !.command = "CHUNK",
                                   !.data = ChunkOf(Source(c, nr, size), i - 1)]]
        packets == <<start>> \o chunks
    IN  [packets EXCEPT ![Len(packets)].command = "END"]

Upload(c) ==
    /\ Idle(c)
    /\ \E k \in 1 .. MaxFiles - given[c] :
         \E f \in [1 .. k -> Names], n \in [1 .. k -> Lengths] :
           /\ todo' = [todo EXCEPT ![c] = FlattenSeq(
                        [i \in 1 .. k |-> FilePackets(c, f[i], given[c] + i, n[i])])]
           /\ given' = [given EXCEPT ![c] = @ + k]
    /\ UNCHANGED <<fileVars, uploadVars, downloadVars>>

Sends(c, command) == todo[c] # <<>> /\ Head(todo[c]).command = command
Replied(c) == todo' = [todo EXCEPT ![c] = Tail(@)]

Uploading(f) == {d \in Conns : uploading[d].name = f}

\* RESP_IO_ERROR: the client drops the rest of the command.
HandleRefused(c) ==
    /\ Sends(c, "START") /\ Head(todo[c]).name \in Paths
    /\ todo' = [todo EXCEPT ![c] = <<>>]
    /\ UNCHANGED <<fileVars, uploadVars, downloadVars, given>>

\* Faulty variant: the offset of the file before is kept.
HandleStartKeepsOffset(c) ==
    /\ Sends(c, "START")
    /\ LET p == Head(todo[c])
           f == p.name
           others == Uploading(f) \ {c}
       IN  /\ f \notin Paths
           /\ IF f \in Directories
              THEN fd' = [fd EXCEPT ![c] = Unset] /\ UNCHANGED exists
              ELSE fd' = [fd EXCEPT ![c] = f] /\ exists' = exists \cup {f}
           /\ uploading' = [uploading EXCEPT ![c] =
                 [name |-> f, data |-> Source(c, p.nr, p.size),
                  tail |-> Len(store[f]) > p.size]]
           /\ contested' = IF others = {} THEN contested \ {c}
                           ELSE contested \cup others \cup {c}
           /\ claim' = [claim EXCEPT ![f] = Nothing]
    /\ Replied(c)
    /\ UNCHANGED <<store, offset, downloadVars, given>>

(***************************************************************************)
(* REQ_FILE_TRANSFER_START: open with O_CREAT and without O_TRUNC.  If it  *)
(* fails, fd becomes -1 and the reply is RESP_CONTINUE all the same.       *)
(***************************************************************************)
HandleStart(c) ==
    /\ Sends(c, "START")
    /\ LET p == Head(todo[c])
           f == p.name
           others == Uploading(f) \ {c}
       IN  /\ f \notin Paths
           /\ IF f \in Directories
              THEN fd' = [fd EXCEPT ![c] = Unset] /\ UNCHANGED exists
              ELSE fd' = [fd EXCEPT ![c] = f] /\ exists' = exists \cup {f}
           /\ offset' = [offset EXCEPT ![c] = 0]
           /\ uploading' = [uploading EXCEPT ![c] =
                 [name |-> f, data |-> Source(c, p.nr, p.size),
                  tail |-> Len(store[f]) > p.size]]
           /\ contested' = IF others = {} THEN contested \ {c}
                           ELSE contested \cup others \cup {c}
           /\ claim' = [claim EXCEPT ![f] = Nothing]
    /\ Replied(c)
    /\ UNCHANGED <<store, downloadVars, given>>

\* write() at the offset of fd; on 0 and on -1 no file of the directory changes.
Write(content, pos, data) ==
    [i \in 1 .. (IF pos + Len(data) > Len(content) THEN pos + Len(data) ELSE Len(content)) |->
        IF i > pos /\ i <= pos + Len(data) THEN data[i - pos] ELSE content[i]]

WritesTo(c, data) ==
    IF fd[c] = Unset THEN UNCHANGED <<store, offset>>
    ELSE /\ store' = [store EXCEPT ![fd[c]] = Write(@, offset[c], data)]
         /\ offset' = [offset EXCEPT ![c] = @ + Len(data)]

\* Faulty variant: every chunk is written at the beginning.
HandleChunkAtStart(c) ==
    /\ Sends(c, "CHUNK")
    /\ IF fd[c] = Unset THEN UNCHANGED store
       ELSE store' = [store EXCEPT ![fd[c]] = Write(@, 0, Head(todo[c]).data)]
    /\ Replied(c)
    /\ UNCHANGED <<exists, offset, fd, uploading, contested, claim, downloadVars, given>>

HandleChunk(c) ==
    /\ Sends(c, "CHUNK")
    /\ WritesTo(c, Head(todo[c]).data)
    /\ Replied(c)
    /\ UNCHANGED <<exists, fd, uploading, contested, claim, downloadVars, given>>

\* The END of a file without blocks is its START packet: hash and name.
Junk(c, p) == <<[by |-> c, nr |-> p.nr, at |-> 0]>>

(***************************************************************************)
(* REQ_FILE_TRANSFER_END: the last write, then RESP_FILE_TRANSFER_OK.  The *)
(* descriptor stays open and in place.                                     *)
(***************************************************************************)
HandleEnd(c) ==
    /\ Sends(c, "END")
    /\ LET p == Head(todo[c])
           empty == p.data = <<>>
           said == IF empty THEN [name |-> p.name, data |-> <<>>, tail |-> FALSE]
                   ELSE uploading[c]
       IN  /\ WritesTo(c, IF empty THEN Junk(c, p) ELSE p.data)
           /\ claim' = [claim EXCEPT ![said.name] =
                 IF c \in contested THEN Nothing
                 ELSE [known |-> TRUE, data |-> said.data, tail |-> said.tail]]
    /\ uploading' = [uploading EXCEPT ![c] = NoFile]
    /\ contested' = contested \ {c}
    /\ Replied(c)
    /\ UNCHANGED <<exists, fd, downloadVars, given>>
-----------------------------------------------------------------------------
(***************************************************************************)
(* REQ_FILE_OPEN, then one REQ_FILE_DOWNLOAD_CHUNK after another, each     *)
(* appended to a local file that is not truncated either.  If the file is  *)
(* not there or is a directory the client is told so and gives up.         *)
(***************************************************************************)
Download(c) ==
    /\ Idle(c) /\ given[c] < MaxFiles
    /\ given' = [given EXCEPT ![c] = @ + 1]
    /\ \E f \in exists :
         /\ download_fd' = [download_fd EXCEPT ![c] = f]
         /\ fetch' = [fetch EXCEPT ![c] =
                        [next |-> 0, chunks |-> ChunkCount(Len(store[f]))]]
         /\ opened' = [opened EXCEPT ![c] =
                        [name |-> f, data |-> store[f],
                         tail |-> Len(local[c][f]) > Len(store[f])]]
    /\ fetched' = [fetched EXCEPT ![c] = NoFile]
    /\ UNCHANGED <<fileVars, uploadVars, local, todo>>

\* Faulty variant: create_chunk_packet seeks to the chunk's number.
ReadAtIndex(data, i) ==
    SubSeq(data, i + 1,
           IF i + ChunkSize <= Len(data) THEN i + ChunkSize ELSE Len(data))

\* create_chunk_packet: lseek to the chunk, read as much as there is.
ReadChunk(data, i) == ChunkOf(data, i)

FetchChunk(c) ==
    /\ fetch[c].chunks > 0
    /\ LET f == download_fd[c]
           i == fetch[c].next
           last == i + 1 = fetch[c].chunks
           data == ReadChunk(store[f], i)
       IN  /\ local' = [local EXCEPT ![c][f] = Write(@, i * ChunkSize, data)]
           /\ fetch' = [fetch EXCEPT ![c] =
                          IF last THEN [next |-> 0, chunks |-> 0]
                          ELSE [@ EXCEPT !.next = i + 1]]
           /\ fetched' = IF last /\ store[f] = opened[c].data
                         THEN [fetched EXCEPT ![c] = opened[c]] ELSE fetched
    /\ UNCHANGED <<fileVars, uploadVars, download_fd, opened, todo, given>>

\* The client is stopped; its wrapper is destroyed and it connects again.
Disconnect(c) ==
    /\ todo' = [todo EXCEPT ![c] = <<>>]
    /\ fd' = [fd EXCEPT ![c] = Unset]
    /\ offset' = [offset EXCEPT ![c] = 0]
    /\ download_fd' = [download_fd EXCEPT ![c] = Unset]
    /\ fetch' = [fetch EXCEPT ![c] = [next |-> 0, chunks |-> 0]]
    /\ uploading' = [uploading EXCEPT ![c] = NoFile]
    /\ contested' = contested \ {c}
    /\ opened' = [opened EXCEPT ![c] = NoFile]
    /\ UNCHANGED <<fileVars, local, fetched, claim, given>>
-----------------------------------------------------------------------------
Next ==
    \E c \in Conns :
        \/ Upload(c) \/ HandleRefused(c) \/ HandleStart(c) \/ HandleChunk(c) \/ HandleEnd(c)
        \/ Download(c) \/ FetchChunk(c)
        \/ Disconnect(c)

Spec == Init /\ [][Next]_vars
-----------------------------------------------------------------------------
(***************************************************************************)
(* "File transfer was ok!" (menu.hpp:545): until somebody uploads to the   *)
(* same name again, the file on the server is the file that was sent, or   *)
(* begins with it after an upload over a longer file (open() has no        *)
(* O_TRUNC, client_controller.cpp:284).  Uploads of other names,           *)
(* downloads, hang-ups and the writes of the other connections do not      *)
(* disturb it; an upload that another to the same name overlaps is         *)
(* promised nothing.                                                       *)
(***************************************************************************)
OkMeansStoredInFront ==
    \A f \in Names : claim[f].known =>
        /\ f \in exists
        /\ IF claim[f].tail
           THEN IsStrictPrefix(claim[f].data, store[f])
           ELSE store[f] = claim[f].data

(***************************************************************************)
(* A download of a file that nobody changed meanwhile leaves the client    *)
(* with that file, or with it in front of what a longer local file held.   *)
(***************************************************************************)
DownloadedInFront ==
    \A c \in Conns : fetched[c] # NoFile =>
        LET here == local[c][fetched[c].name]
        IN  IF fetched[c].tail
            THEN IsStrictPrefix(fetched[c].data, here)
            ELSE here = fetched[c].data
=============================================================================
