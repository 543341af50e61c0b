------------------------------- MODULE Framing -------------------------------
(***************************************************************************)
(* How receive_all_connections of src/src/server/main.cpp puts packets     *)
(* together from the bytes of one connection: recv() into what is left of  *)
(* a fixed buffer, then take out every packet that is whole.               *)
(*                                                                         *)
(* A byte is its position in the stream the peer has written, from 1, so   *)
(* that a byte lost, repeated or moved is seen.  What the header of a      *)
(* packet claims is its size; a header that claims 0 is as long as any     *)
(* header.  A recv() that would block changes nothing and is no step.      *)
(***************************************************************************)
EXTENDS Naturals, Sequences

CONSTANTS Cap,       \* sizeof(ConnectionWrapper::buffer): UINT16_MAX
          Sizes,     \* the values of total_size the peer may send
          MaxPackets \* how many packets the peer may send

HeaderSize == 4

ASSUME FramingAssumption ==
    /\ Cap \in Nat /\ HeaderSize <= Cap
    /\ Sizes \subseteq {0} \cup HeaderSize .. Cap
    /\ MaxPackets \in Nat

VARIABLES
    sizes,       \* the total_size of each packet the peer has sent
    starts,      \* the position of its first byte
    total,       \* the number of bytes the peer has written
    hungUp,      \* the peer has closed its side
    taken,       \* the number of bytes recv() has returned
    buffer,      \* ConnectionWrapper::buffer
    buffer_pos,
    packets,     \* the packets pushed on completed_packets, oldest first
    pc,          \* "recv", "extract", or "closed": the wrapper is erased
    erasedByUs   \* history: recv() was called with no room and returned 0

peerVars == <<sizes, starts, total, hungUp>>
vars == <<peerVars, taken, buffer, buffer_pos, packets, pc, erasedByUs>>

WireSize(s) == IF s = 0 THEN HeaderSize ELSE s
LeastOf(a, b) == IF a <= b THEN a ELSE b

\* The bytes of the i-th packet the peer sent.
Written(i) == [k \in 1 .. sizes[i] |-> starts[i] + k - 1]

TypeOK ==
    /\ sizes \in Seq(Sizes) /\ starts \in Seq(Nat)
    /\ Len(starts) = Len(sizes)
    /\ total \in Nat /\ taken \in 0 .. total
    /\ hungUp \in BOOLEAN /\ erasedByUs \in BOOLEAN
    /\ buffer \in [1 .. Cap -> Nat]
    /\ buffer_pos \in 0 .. Cap
    /\ packets \in Seq(Seq(Nat))
    /\ pc \in {"recv", "extract", "closed"}

Init ==
    /\ sizes = <<>> /\ starts = <<>> /\ total = 0 /\ hungUp = FALSE
    /\ taken = 0
    /\ buffer = [k \in 1 .. Cap |-> 0]
    /\ buffer_pos = 0
    /\ packets = <<>>
    /\ pc = "recv" /\ erasedByUs = FALSE
-----------------------------------------------------------------------------
Send(s) ==
    /\ ~hungUp /\ Len(sizes) < MaxPackets
    /\ sizes' = Append(sizes, s)
    /\ starts' = Append(starts, total + 1)
    /\ total' = total + WireSize(s)
    /\ UNCHANGED <<hungUp, taken, buffer, buffer_pos, packets, pc, erasedByUs>>

HangUp ==
    /\ ~hungUp
    /\ hungUp' = TRUE
    /\ UNCHANGED <<sizes, starts, total, taken, buffer, buffer_pos, packets, pc,
                   erasedByUs>>

\* Faulty variant: recv() is offered one byte more than there is room for.
RecvOneTooMany(n) ==
    /\ pc = "recv"
    /\ n \in 1 .. LeastOf(Cap + 1 - buffer_pos, total - taken)
    /\ taken' = taken + n
    /\ buffer' = [k \in 1 .. Cap |->
                    IF k > buffer_pos /\ k <= buffer_pos + n
                    THEN taken + k - buffer_pos ELSE buffer[k]]
    /\ buffer_pos' = buffer_pos + n
    /\ pc' = IF buffer_pos + n < HeaderSize THEN "recv" ELSE "extract"
    /\ UNCHANGED <<peerVars, packets, erasedByUs>>

\* recv() returns n bytes; fewer than a header of them wait for the next call.
Recv(n) ==
    /\ pc = "recv"
    /\ n \in 1 .. LeastOf(Cap - buffer_pos, total - taken)
    /\ taken' = taken + n
    /\ buffer' = [k \in 1 .. Cap |->
                    IF k > buffer_pos /\ k <= buffer_pos + n
                    THEN taken + k - buffer_pos ELSE buffer[k]]
    /\ buffer_pos' = buffer_pos + n
    /\ pc' = IF buffer_pos + n < HeaderSize THEN "recv" ELSE "extract"
    /\ UNCHANGED <<peerVars, packets, erasedByUs>>

\* recv() returns 0 because there is nothing more to come ...
RecvEnd ==
    /\ pc = "recv"
    /\ hungUp /\ taken = total /\ buffer_pos < Cap
    /\ pc' = "closed"
    /\ UNCHANGED <<peerVars, taken, buffer, buffer_pos, packets, erasedByUs>>

\* ... or because it was asked for nothing.
RecvNoRoom ==
    /\ pc = "recv"
    /\ buffer_pos = Cap
    /\ pc' = "closed"
    /\ erasedByUs' = TRUE
    /\ UNCHANGED <<peerVars, taken, buffer, buffer_pos, packets>>

(***************************************************************************)
(* packet_size, read from the third and fourth byte of the buffer: what    *)
(* the header says if the two are those of one header, else any number.    *)
(***************************************************************************)
HeadersAt(b, d) ==
    {i \in 1 .. Len(sizes) : starts[i] + 2 = b /\ starts[i] + 3 = d}

ClaimedSizes ==
    LET here == HeadersAt(buffer[3], buffer[4])
    IN  IF here = {} THEN 0 .. Cap ELSE {sizes[i] : i \in here}

\* Faulty variant: memmove leaves out the last byte.
ExtractMovesOneLess ==
    /\ pc = "extract"
    /\ \E size \in ClaimedSizes \ {0} :
         /\ buffer_pos >= size
         /\ packets' = Append(packets, [k \in 1 .. size |-> buffer[k]])
         /\ buffer' = [k \in 1 .. Cap |-> IF k < buffer_pos - size
                                          THEN buffer[k + size] ELSE buffer[k]]
         /\ buffer_pos' = buffer_pos - size
         /\ pc' = IF buffer_pos - size < HeaderSize THEN "recv" ELSE "extract"
    /\ UNCHANGED <<peerVars, taken, erasedByUs>>

\* Faulty variant: one packet is taken out after each recv().
ExtractOne ==
    /\ pc = "extract"
    /\ \E size \in ClaimedSizes \ {0} :
         /\ buffer_pos >= size
         /\ packets' = Append(packets, [k \in 1 .. size |-> buffer[k]])
         /\ buffer' = [k \in 1 .. Cap |-> IF k <= buffer_pos - size
                                          THEN buffer[k + size] ELSE buffer[k]]
         /\ buffer_pos' = buffer_pos - size
         /\ pc' = "recv"
    /\ UNCHANGED <<peerVars, taken, erasedByUs>>

Extract ==
    /\ pc = "extract"
    /\ \E size \in ClaimedSizes \ {0} :
         /\ buffer_pos >= size
         /\ packets' = Append(packets, [k \in 1 .. size |-> buffer[k]])
         /\ buffer' = [k \in 1 .. Cap |-> IF k <= buffer_pos - size
                                          THEN buffer[k + size] ELSE buffer[k]]
         /\ buffer_pos' = buffer_pos - size
         /\ pc' = IF buffer_pos - size < HeaderSize THEN "recv" ELSE "extract"
    /\ UNCHANGED <<peerVars, taken, erasedByUs>>

\* Faulty variant: a packet that ends with the buffer is left for later.
ExtractEndOffByOne ==
    /\ pc = "extract"
    /\ \E size \in ClaimedSizes : buffer_pos <= size \/ size = 0
    /\ pc' = "recv"
    /\ UNCHANGED <<peerVars, taken, buffer, buffer_pos, packets, erasedByUs>>

\* Faulty variant: the loop goes on while the header claims 0.
ExtractSpinsOnZero ==
    /\ pc = "extract"
    /\ \E size \in ClaimedSizes :
         \/ size = 0 /\ UNCHANGED pc
         \/ size # 0 /\ buffer_pos < size /\ pc' = "recv"
    /\ UNCHANGED <<peerVars, taken, buffer, buffer_pos, packets, erasedByUs>>

\* The packet in front is not whole, or claims to have no bytes.
ExtractEnd ==
    /\ pc = "extract"
    /\ \E size \in ClaimedSizes : buffer_pos < size \/ size = 0
    /\ pc' = "recv"
    /\ UNCHANGED <<peerVars, taken, buffer, buffer_pos, packets, erasedByUs>>

Closed == pc = "closed" /\ UNCHANGED vars
-----------------------------------------------------------------------------
Receive ==
    \/ \E n \in 1 .. Cap : Recv(n)
    \/ RecvEnd \/ RecvNoRoom \/ Extract \/ ExtractEnd

Next ==
    \/ \E s \in Sizes : Send(s)
    \/ HangUp
    \/ Receive
    \/ Closed

SafeSpec == Init /\ [][Next]_vars

\* The server thread polls the connection again and again.
Spec == SafeSpec /\ WF_vars(Receive)
-----------------------------------------------------------------------------
\* The peer has sent no header that claims 0.
HonestSizes == \A i \in DOMAIN sizes : sizes[i] # 0

(***************************************************************************)
(* The packets taken out are those the peer sent: none missing, split,     *)
(* joined or out of order, to the byte, however recv() cuts the stream and *)
(* however many packets one call returns (main.cpp:123-163).               *)
(***************************************************************************)
Intact ==
    /\ Len(packets) <= Len(sizes)
    /\ \A i \in DOMAIN packets : packets[i] = Written(i)

(***************************************************************************)
(* A pass leaves no whole packet behind: after EAGAIN the loop moves on    *)
(* without looking at the buffer again, so a packet left there would wait  *)
(* until the peer happens to send more (main.cpp:96-102, 134-163).         *)
(***************************************************************************)
NoWholePacketLeft ==
    LET next == Len(packets) + 1
    IN  (pc = "recv" /\ next \in DOMAIN sizes /\ sizes[next] # 0) =>
            buffer_pos < sizes[next]

(***************************************************************************)
(* recv() is never asked for zero bytes, which would make it return the 0  *)
(* that is read as a closed connection (main.cpp:93-94, 112-114), unless   *)
(* the peer has sent a header that claims 0.                               *)
(***************************************************************************)
ErasedOnlyIfHungUp ==
    HonestSizes => (pc = "recv" => buffer_pos < Cap) /\ ~erasedByUs

(***************************************************************************)
(* Every packet sent is taken out in the end, also those that are in the   *)
(* socket or the buffer when the peer hangs up.                            *)
(***************************************************************************)
EveryPacketTakenOut ==
    \A i \in 1 .. MaxPackets :
        i \in DOMAIN sizes /\ HonestSizes ~> i \in DOMAIN packets \/ ~HonestSizes

(***************************************************************************)
(* A connection whose peer has hung up is erased, whatever is left in its  *)
(* buffer: a header that claims 0 cannot keep the loop busy                *)
(* (main.cpp:112-121, 136-140).                                            *)
(***************************************************************************)
HungUpIsErased == hungUp ~> pc = "closed"
=============================================================================
