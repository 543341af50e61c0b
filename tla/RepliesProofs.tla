---------------------------- MODULE RepliesProofs ----------------------------
(***************************************************************************)
(* Replies for any commands, sizes, chunks and room between the sockets.   *)
(* Two inductive invariants, the second on top of the first:               *)
(*   TypeInv    types, whose bytes are where, and that a client that is    *)
(*              not lost holds whole headers of replies that were given;   *)
(*   StreamInv  in step, only the last request may be unanswered, and what *)
(*              is between the sockets is what was sent of its reply and   *)
(*              not yet taken.                                             *)
(***************************************************************************)
EXTENDS Replies, SequenceTheorems, TLAPS

Kinds == Commands \cup {"start", "upload chunk", "end", "chunk"}

IsReply(p) ==
    /\ p.claims \in Nat /\ p.length \in Nat /\ p.chunks \in 0 .. MaxChunks
    /\ p.type = "SETTINGS" \/ p.claims = p.length

-----------------------------------------------------------------------------
AskedTypes == asked \in Seq(Kinds) /\ todo \in Seq(Kinds)

OutTypes ==
    /\ DOMAIN out \subseteq DOMAIN asked /\ DOMAIN sent = DOMAIN out
    /\ \A r \in DOMAIN out : IsReply(out[r]) /\ sent[r] \in 0 .. out[r].length

StreamTypes ==
    /\ stream \in Seq(Nat \X Nat) /\ Len(stream) <= Capacity

\* Four bytes that are a header are of a reply, or the empty buffer.
Known(h) == h = Header(0) \/ \E r \in DOMAIN out : h = Header(r)

HeadTypes ==
    /\ DOMAIN head = Loops
    /\ \A l \in Loops : DOMAIN head[l] = 1 .. HeaderSize
    /\ pc # "lost" => \A l \in Loops : Known(head[l])

ClientTypes ==
    /\ gone \in BOOLEAN /\ reset \in BOOLEAN /\ cut \in BOOLEAN
    /\ pc \in {"prompt", "send", "header", "body", "handle", "killed", "lost"}
    /\ loop \in Loops /\ left \in 0 .. MaxChunks /\ commands \in 0 .. MaxCommands
    /\ loop = "chunks" /\ pc \in {"header", "body", "handle"} => left > 0
    /\ size \in Nat /\ got \in Nat
    /\ got <= IF size < HeaderSize THEN HeaderSize ELSE size
    /\ pc = "body" => got < size /\ HeaderSize < size

\* Every byte that is on its way was sent.
BytesSent ==
    \A i \in DOMAIN stream :
        stream[i][1] \in DOMAIN out /\ stream[i][2] \in 1 .. sent[stream[i][1]]

TypeInv == AskedTypes /\ OutTypes /\ StreamTypes /\ HeadTypes /\ ClientTypes /\ BytesSent

-----------------------------------------------------------------------------
Settled(r) == r \in DOMAIN out /\ sent[r] = out[r].length
Waiting == pc \in {"header", "body"}

\* The bytes of the last reply after the first n, as far as they were sent.
Unread(n) ==
    /\ Len(stream) = (IF Len(asked) \in DOMAIN out THEN sent[Len(asked)] ELSE 0) - n
    /\ \A i \in DOMAIN stream : stream[i] = <<Len(asked), n + i>>

OnlyLastOpen ==
    ~gone => \A r \in DOMAIN asked : Settled(r) \/ (r = Len(asked) /\ Waiting)

WhileWaiting ==
    /\ pc = "header" => Len(asked) > 0 /\ Unread(0)
    /\ pc = "body" =>
         /\ Len(asked) > 0
         /\ \/ /\ head[loop] = Header(Len(asked)) /\ Len(asked) \in DOMAIN out
               /\ size = out[Len(asked)].length /\ Unread(got)
            \/ gone /\ stream = <<>>

WhenShown ==
    pc = "handle" =>
        /\ Len(asked) > 0
        /\ \/ /\ head[loop] = Header(Len(asked)) /\ Settled(Len(asked))
              /\ got = out[Len(asked)].length
           \/ gone

StreamInv ==
    InStep => /\ pc # "lost" /\ (~Waiting => stream = <<>>)
              /\ OnlyLastOpen /\ WhileWaiting /\ WhenShown

-----------------------------------------------------------------------------
(***************************************************************************)
(* What the definitions amount to.                                         *)
(***************************************************************************)
LEMMA MinOfTwo ==
    ASSUME NEW a \in Nat, NEW b \in Nat
    PROVE  /\ Min({a, b}) \in Nat /\ Min({a, b}) <= a /\ Min({a, b}) <= b
           /\ Min({a, b}) = a \/ Min({a, b}) = b
<1>1. CASE a <= b
  <2>1. \E x \in {a, b} : \A y \in {a, b} : x =< y
    BY <1>1
  <2> QED
    BY <2>1 DEF Min
<1>2. CASE b <= a
  <2>1. \E x \in {a, b} : \A y \in {a, b} : x =< y
    BY <1>2
  <2> QED
    BY <2>1 DEF Min
<1> QED
  BY <1>1, <1>2

LEMMA Claims == \A t : Announced(t) \in Nat /\ Length(t) \in Nat
BY RepliesAssumption DEF Announced, Length, HeaderSize

LEMMA RepliesAre == \A q : \A p \in Replies(q) : IsReply(p)
<1>1. \A t : IsReply(Packet(t))
  <2> TAKE t
  <2>1. /\ Packet(t).type = t /\ Packet(t).claims = Announced(t)
        /\ Packet(t).length = Length(t) /\ Packet(t).chunks = 0
    BY DEF Packet
  <2>2. t = "SETTINGS" \/ Announced(t) = Length(t)
    BY DEF Announced, Length
  <2> QED
    BY <2>1, <2>2, Claims, RepliesAssumption DEF IsReply
<1>2. \A n \in 0 .. MaxChunks : IsReply([Packet("FILE_OPENED") EXCEPT !.chunks = n])
  <2> TAKE n \in 0 .. MaxChunks
  <2> DEFINE p == [Packet("FILE_OPENED") EXCEPT !.chunks = n]
  <2>1. /\ p.type = "FILE_OPENED" /\ p.claims = Announced("FILE_OPENED")
        /\ p.length = Length("FILE_OPENED") /\ p.chunks = n
    BY DEF Packet
  <2>2. Announced("FILE_OPENED") = Length("FILE_OPENED")
    BY DEF Length
  <2> QED
    BY <2>1, <2>2, Claims DEF IsReply
<1>3. \A p \in Chunks : IsReply(p)
  BY RepliesAssumption DEF Chunks, IsReply, HeaderSize
<1> QED
  BY <1>1, <1>2, <1>3 DEF Replies

LEMMA HeadersDiffer == \A q, r : Header(q) = Header(r) => q = r
<1>1. \A r : Header(r)[1] = <<r, 1>>
  BY DEF Header, HeaderSize
<1> QED
  BY <1>1

LEMMA ReplyKnown ==
    ASSUME AskedTypes, OutTypes, NEW h, Known(h)
    PROVE  /\ WholeHeader(h)
           /\ ReplyOf(h).claims \in Nat /\ ReplyOf(h).chunks \in 0 .. MaxChunks
<1>1. CASE h = Header(0)
  BY <1>1, RepliesAssumption DEF WholeHeader, ReplyOf, OutTypes
<1>2. ASSUME NEW r \in DOMAIN out, h = Header(r), h # Header(0)
      PROVE  /\ WholeHeader(h)
             /\ ReplyOf(h).claims \in Nat /\ ReplyOf(h).chunks \in 0 .. MaxChunks
  <2>1. ReplyOf(h) = out[r]
    BY <1>2 DEF ReplyOf, Header, HeaderSize
  <2>2. r \in 0 .. Len(asked)
    BY DEF AskedTypes, OutTypes
  <2> QED
    BY <1>2, <2>1, <2>2 DEF WholeHeader, OutTypes, IsReply
<1> QED
  BY <1>1, <1>2 DEF Known
-----------------------------------------------------------------------------

(***************************************************************************)
(* Types.                                                                  *)
(***************************************************************************)
LEMMA CommandPackets == \A c \in Commands : PacketsOf(c) \in Seq(Kinds)
<1> TAKE c \in Commands
<1>1. CASE c = "upload"
  <2>1. PacketsOf(c) = <<"start", "upload chunk", "end">>
    BY <1>1 DEF PacketsOf
  <2>2. \A x, y, z \in Kinds : <<x, y, z>> \in Seq(Kinds)
    OBVIOUS
  <2>3. "start" \in Kinds /\ "upload chunk" \in Kinds /\ "end" \in Kinds
    BY DEF Kinds
  <2> QED
    BY <2>1, <2>3, <2>2
<1>2. CASE c # "upload"
  <2>1. PacketsOf(c) = <<c>> /\ c \in Kinds
    BY <1>2 DEF PacketsOf, Kinds
  <2> QED
    BY <2>1
<1> QED
  BY <1>1, <1>2

\* What the steps that send and receive nothing leave as it was.
LEMMA Kept ==
    ASSUME TypeInv, UNCHANGED <<asked, stream, serverVars>>
    PROVE  /\ asked' \in Seq(Kinds) /\ OutTypes' /\ StreamTypes' /\ BytesSent'
           /\ \A h : Known(h)' <=> Known(h)
BY DEF TypeInv, AskedTypes, OutTypes, StreamTypes, BytesSent, Known, serverVars

LEMMA InitTypes == Init => TypeInv
<1> SUFFICES ASSUME Init PROVE TypeInv
  OBVIOUS
<1>1. AskedTypes /\ OutTypes /\ StreamTypes /\ BytesSent
  BY RepliesAssumption DEF Init, AskedTypes, OutTypes, StreamTypes, BytesSent
<1>2. HeadTypes
  BY DEF Init, HeadTypes, Known, Header
<1>3. ClientTypes
  <2>1. 0 \in 0 .. MaxChunks /\ 0 \in 0 .. MaxCommands
    BY RepliesAssumption
  <2>2. 0 <= IF 0 < HeaderSize THEN HeaderSize ELSE 0
    BY DEF HeaderSize
  <2> QED
    BY <2>1, <2>2 DEF Init, ClientTypes, Loops
<1> QED
  BY <1>1, <1>2, <1>3 DEF TypeInv

LEMMA ReplyTypes == ASSUME TypeInv, NEW r, Reply(r) PROVE TypeInv'
<1>1. PICK reply \in Replies(asked[r]) : out' = Entered(out, r, reply)
  BY DEF Reply
<1>2. /\ r \in DOMAIN asked \ DOMAIN out /\ sent' = Entered(sent, r, 0)
      /\ UNCHANGED <<asked, stream, gone, reset>> /\ UNCHANGED clientVars
  BY DEF Reply
<1>3. IsReply(reply)
  BY RepliesAre
<1>4. /\ DOMAIN out' = DOMAIN out \cup {r} /\ DOMAIN sent' = DOMAIN out \cup {r}
      /\ out'[r] = reply /\ sent'[r] = 0
      /\ \A q \in DOMAIN out : out'[q] = out[q] /\ sent'[q] = sent[q]
  BY <1>1, <1>2 DEF Entered, TypeInv, OutTypes
<1>5. OutTypes'
  BY <1>2, <1>3, <1>4 DEF TypeInv, OutTypes, IsReply
<1>6. AskedTypes' /\ StreamTypes' /\ BytesSent'
  BY <1>2, <1>4 DEF TypeInv, AskedTypes, StreamTypes, BytesSent, clientVars
<1>7. HeadTypes'
  <2>1. \A h : Known(h) => Known(h)'
    BY <1>4 DEF Known
  <2> QED
    BY <1>2, <2>1 DEF TypeInv, HeadTypes, clientVars
<1>8. ClientTypes'
  BY <1>2 DEF TypeInv, ClientTypes, clientVars
<1> QED
  BY <1>5, <1>6, <1>7, <1>8 DEF TypeInv

\* What one send() puts behind what is on its way.
LEMMA Sent ==
    ASSUME TypeInv, NEW r, NEW n \in Portions(r), r \in DOMAIN out, Take(r, n),
           sent' = [sent EXCEPT ![r] = @ + n]
    PROVE  /\ n \in Nat /\ n > 0 /\ sent[r] + n <= out[r].length
           /\ stream' \in Seq(Nat \X Nat) /\ Len(stream') = Len(stream) + n
           /\ Len(stream') <= Capacity
           /\ \A i \in DOMAIN stream : i \in DOMAIN stream' /\ stream'[i] = stream[i]
           /\ \A i \in DOMAIN stream' :
                 i \notin DOMAIN stream => stream'[i] = <<r, sent[r] + (i - Len(stream))>>
           /\ DOMAIN sent' = DOMAIN sent /\ sent'[r] = sent[r] + n
           /\ \A q \in DOMAIN sent : q # r => sent'[q] = sent[q]
<1>1. /\ sent[r] \in Nat /\ out[r].length \in Nat /\ sent[r] <= out[r].length
      /\ r \in Nat /\ DOMAIN sent = DOMAIN out
  BY DEF TypeInv, OutTypes, IsReply, AskedTypes
<1>2. Len(stream) \in Nat /\ Len(stream) <= Capacity /\ Capacity \in Nat
  BY RepliesAssumption DEF TypeInv, StreamTypes
<1>3. n \in Nat /\ n > 0 /\ sent[r] + n <= out[r].length /\ Len(stream) + n <= Capacity
  <2>1. out[r].length - sent[r] \in Nat /\ Capacity - Len(stream) \in Nat
    BY <1>1, <1>2
  <2> QED
    BY <1>1, <1>2, <2>1, MinOfTwo DEF Portions
<1> DEFINE new == [i \in 1 .. n |-> <<r, sent[r] + i>>]
<1>4. new \in Seq(Nat \X Nat) /\ Len(new) = n /\ \A i \in 1 .. n : new[i] = <<r, sent[r] + i>>
  <2>1. new \in [1 .. n -> Nat \X Nat]
    BY <1>1, <1>3
  <2> QED
    BY <1>3, <2>1
<1>5. stream \in Seq(Nat \X Nat) /\ stream' = stream \o new
  BY DEF Take, TypeInv, StreamTypes
<1> HIDE DEF new
<1>6. /\ stream' \in Seq(Nat \X Nat) /\ Len(stream') = Len(stream) + n
      /\ DOMAIN stream = 1 .. Len(stream) /\ DOMAIN stream' = 1 .. Len(stream) + n
      /\ \A i \in 1 .. Len(stream) + n :
            stream'[i] = IF i <= Len(stream) THEN stream[i] ELSE new[i - Len(stream)]
  <2>1. PICK s \in Seq(Nat \X Nat) : s = stream
    BY <1>5
  <2>2. PICK t \in Seq(Nat \X Nat) : t = new
    BY <1>4
  <2>3. /\ s \o t \in Seq(Nat \X Nat) /\ Len(s \o t) = Len(s) + Len(t)
        /\ \A i \in 1 .. Len(s) + Len(t) :
              (s \o t)[i] = IF i <= Len(s) THEN s[i] ELSE t[i - Len(s)]
    BY ConcatProperties
  <2> QED
    BY <1>4, <1>5, <2>1, <2>2, <2>3, LenProperties
<1>7. ASSUME NEW i \in DOMAIN stream', i \notin DOMAIN stream
      PROVE  stream'[i] = <<r, sent[r] + (i - Len(stream))>>
  <2>1. i \in 1 .. Len(stream) + n /\ ~(i <= Len(stream)) /\ i - Len(stream) \in 1 .. n
    BY <1>2, <1>3, <1>6, <1>7
  <2> QED
    BY <1>4, <1>6, <2>1
<1>8. ASSUME NEW i \in DOMAIN stream
      PROVE  i \in DOMAIN stream' /\ stream'[i] = stream[i]
  <2>1. i \in 1 .. Len(stream) + n /\ i <= Len(stream)
    BY <1>2, <1>3, <1>6
  <2> QED
    BY <1>6, <2>1
<1> QED
  BY <1>1, <1>2, <1>3, <1>6, <1>7, <1>8

LEMMA SendTypes == ASSUME TypeInv, NEW r, Send(r) PROVE TypeInv'
<1>1. PICK n \in Portions(r) : Take(r, n) /\ sent' = [sent EXCEPT ![r] = @ + n]
  BY DEF Send
<1>2. r \in DOMAIN out /\ UNCHANGED <<asked, out, gone, reset>> /\ UNCHANGED clientVars
  BY <1>1 DEF Send, Take
<1>3. /\ n \in Nat /\ n > 0 /\ sent[r] + n <= out[r].length
      /\ stream' \in Seq(Nat \X Nat) /\ Len(stream') = Len(stream) + n
      /\ Len(stream') <= Capacity
      /\ \A i \in DOMAIN stream : i \in DOMAIN stream' /\ stream'[i] = stream[i]
      /\ \A i \in DOMAIN stream' :
            i \notin DOMAIN stream => stream'[i] = <<r, sent[r] + (i - Len(stream))>>
      /\ DOMAIN sent' = DOMAIN sent /\ sent'[r] = sent[r] + n
      /\ \A q \in DOMAIN sent : q # r => sent'[q] = sent[q]
  BY <1>1, <1>2, Sent
<1>4. OutTypes'
  <2>1. /\ DOMAIN out \subseteq DOMAIN asked /\ DOMAIN sent = DOMAIN out
        /\ \A q \in DOMAIN out : IsReply(out[q]) /\ sent[q] \in 0 .. out[q].length
        /\ out[r].length \in Nat
    BY <1>2 DEF TypeInv, OutTypes, IsReply
  <2>2. sent'[r] \in 0 .. out[r].length
    BY <1>2, <1>3, <2>1
  <2> QED
    BY <1>2, <1>3, <2>1, <2>2 DEF OutTypes
<1>5. AskedTypes' /\ StreamTypes' /\ HeadTypes' /\ ClientTypes'
  BY <1>2, <1>3
     DEF TypeInv, AskedTypes, StreamTypes, HeadTypes, ClientTypes, Known, clientVars
<1>6. BytesSent'
  <2> SUFFICES ASSUME NEW i \in DOMAIN stream'
               PROVE  /\ stream'[i][1] \in DOMAIN out
                      /\ stream'[i][2] \in 1 .. sent'[stream'[i][1]]
    BY <1>2 DEF BytesSent
  <2>1. CASE i \in DOMAIN stream
    <3>1. stream[i][1] \in DOMAIN out /\ stream[i][2] \in 1 .. sent[stream[i][1]]
      BY <2>1 DEF TypeInv, BytesSent
    <3>2. PICK q \in DOMAIN out : q = stream[i][1]
      BY <3>1
    <3>3. sent[q] \in Nat /\ sent'[q] \in Nat /\ sent[q] <= sent'[q]
      <4>1. sent[q] \in Nat
        BY DEF TypeInv, OutTypes, IsReply
      <4>2. q \in DOMAIN sent
        BY DEF TypeInv, OutTypes
      <4>3. q = r => sent'[q] = sent[q] + n
        BY <1>3
      <4>4. q # r => sent'[q] = sent[q]
        BY <1>3, <4>2
      <4> QED
        BY <1>3, <4>1, <4>3, <4>4
    <3>4. stream'[i] = stream[i]
      BY <1>3, <2>1
    <3> QED
      BY <3>1, <3>2, <3>3, <3>4
  <2>2. CASE i \notin DOMAIN stream
    <3>1. sent[r] \in Nat /\ Len(stream) \in Nat /\ DOMAIN stream = 1 .. Len(stream)
      BY <1>2 DEF TypeInv, StreamTypes, OutTypes, IsReply
    <3>2. DOMAIN stream' = 1 .. Len(stream) + n
      BY <1>3, <3>1
    <3>3. i \in Nat /\ i > Len(stream) /\ i <= Len(stream) + n
      BY <1>3, <2>2, <3>1, <3>2
    <3>4. stream'[i] = <<r, sent[r] + (i - Len(stream))>>
      BY <1>3, <2>2
    <3>5. sent[r] + (i - Len(stream)) \in 1 .. sent[r] + n
      <4>1. PICK v \in Nat : v = sent[r]
        BY <3>1
      <4>2. PICK l \in Nat : l = Len(stream)
        BY <3>1
      <4>3. n \in Nat /\ i \in Nat /\ i > l /\ i <= l + n
        BY <1>3, <3>3, <4>2
      <4>4. v + (i - l) \in 1 .. v + n
        BY <4>3
      <4> QED
        BY <4>1, <4>2, <4>4
    <3> QED
      BY <1>2, <1>3, <3>4, <3>5
  <2> QED
    BY <2>1, <2>2
<1> QED
  BY <1>4, <1>5, <1>6 DEF TypeInv

LEMMA IdleTypes ==
    ASSUME TypeInv, Close \/ Prompt \/ LoopEnd \/ SendFails \/ RecvFails \/ Spin \/ Rest
    PROVE  TypeInv'
<1>1. UNCHANGED <<asked, stream, serverVars>>
  BY DEF Close, Prompt, LoopEnd, SendFails, RecvFails, Spin, Rest, vars, serverVars, clientVars
<1>2. asked' \in Seq(Kinds) /\ OutTypes' /\ StreamTypes' /\ BytesSent'
      /\ \A h : Known(h)' <=> Known(h)
  BY <1>1, Kept
<1>3. head' = head /\ (pc' # "lost" => pc # "lost")
  BY DEF Close, Prompt, LoopEnd, SendFails, RecvFails, Spin, Rest, vars, clientVars
<1>4. HeadTypes'
  BY <1>2, <1>3 DEF TypeInv, HeadTypes
<1>5. todo' \in Seq(Kinds) /\ ClientTypes'
  <2>1. CASE Close
    BY <2>1 DEF Close, TypeInv, AskedTypes, ClientTypes, clientVars
  <2>2. CASE Prompt
    <3>1. todo' \in Seq(Kinds)
      BY <2>2, CommandPackets DEF Prompt
    <3>2. commands' \in 0 .. MaxCommands
      BY <2>2, RepliesAssumption DEF Prompt, TypeInv, ClientTypes
    <3> QED
      BY <2>2, <3>1, <3>2 DEF Prompt, TypeInv, ClientTypes
  <2>3. CASE LoopEnd
    BY <2>3 DEF LoopEnd, TypeInv, AskedTypes, ClientTypes, Loops
  <2>4. CASE SendFails
    <3>1. <<>> \in Seq(Kinds) /\ 0 \in 0 .. MaxChunks
      BY RepliesAssumption
    <3>2. todo' \in Seq(Kinds)
      BY <2>4, <3>1 DEF SendFails, TypeInv, AskedTypes
    <3>3. left' \in 0 .. MaxChunks
      BY <2>4, <3>1 DEF SendFails, TypeInv, ClientTypes
    <3> QED
      BY <2>4, <3>2, <3>3 DEF SendFails, TypeInv, ClientTypes
  <2>5. CASE RecvFails
    BY <2>5 DEF RecvFails, TypeInv, AskedTypes, ClientTypes
  <2>6. CASE Spin \/ Rest
    BY <2>6 DEF Spin, Rest, vars, clientVars, TypeInv, AskedTypes, ClientTypes
  <2> QED
    BY <2>1, <2>2, <2>3, <2>4, <2>5, <2>6
<1> QED
  BY <1>2, <1>4, <1>5 DEF TypeInv, AskedTypes

LEMMA SendRequestTypes == ASSUME TypeInv, SendRequest PROVE TypeInv'
<1>1. /\ pc' = "header" /\ (loop = "main" \/ left > 0)
      /\ UNCHANGED <<stream, gone, out, sent, loop, left, head, size, got, commands, cut>>
  BY DEF SendRequest, serverVars
<1>2. asked' \in Seq(Kinds) /\ todo' \in Seq(Kinds) /\ Len(asked') = Len(asked) + 1
  <2>1. asked \in Seq(Kinds) /\ todo \in Seq(Kinds) /\ "chunk" \in Kinds
    BY DEF TypeInv, AskedTypes, Kinds
  <2>2. todo # <<>> => Head(todo) \in Kinds /\ Tail(todo) \in Seq(Kinds)
    BY <2>1
  <2>3. \A k \in Kinds : Append(asked, k) \in Seq(Kinds)
                         /\ Len(Append(asked, k)) = Len(asked) + 1
    BY <2>1
  <2> QED
    BY <2>1, <2>2, <2>3 DEF SendRequest
<1>3. DOMAIN asked \subseteq DOMAIN asked'
  BY <1>2 DEF TypeInv, AskedTypes
<1>4. OutTypes' /\ StreamTypes' /\ BytesSent' /\ HeadTypes'
  BY <1>1, <1>3
     DEF SendRequest, TypeInv, OutTypes, StreamTypes, BytesSent, HeadTypes, Known, ClientTypes
<1>5. ClientTypes'
  BY <1>1 DEF SendRequest, TypeInv, ClientTypes
<1> QED
  BY <1>2, <1>4, <1>5 DEF TypeInv, AskedTypes

(***************************************************************************)
(* A header as recv() leaves it in the buffer: known if it is whole.       *)
(***************************************************************************)
Arrived == Min({HeaderSize, Len(stream)})
Buffered ==
    [i \in 1 .. HeaderSize |-> IF i <= Arrived THEN stream[i] ELSE head[loop][i]]

LEMMA Cut ==
    ASSUME NEW S, NEW s \in Seq(S), NEW n \in Nat, n <= Len(s)
    PROVE  /\ SubSeq(s, n + 1, Len(s)) \in Seq(S)
           /\ Len(SubSeq(s, n + 1, Len(s))) = Len(s) - n
           /\ \A i \in 1 .. Len(s) - n : SubSeq(s, n + 1, Len(s))[i] = s[i + n]
<1>1. PICK l \in Nat : l = Len(s) /\ n <= l
  BY LenProperties
<1> DEFINE t == SubSeq(s, n + 1, l)
<1>2. \A i \in n + 1 .. l : s[i] \in S
  <2>1. \A i \in 1 .. l : s[i] \in S
    BY <1>1
  <2> QED
    BY <2>1
<1>3. n + 1 \in Int /\ l \in Int
  OBVIOUS
<1>4. /\ t \in Seq(S)
      /\ Len(t) = IF n + 1 <= l THEN l - (n + 1) + 1 ELSE 0
      /\ \A i \in 1 .. l - (n + 1) + 1 : t[i] = s[n + 1 + i - 1]
  BY <1>2, <1>3, SubSeqProperties
<1> HIDE DEF t
<1>5. l - (n + 1) + 1 = l - n /\ (n + 1 <= l \/ l - n = 0)
  BY <1>1
<1>6. ASSUME NEW i \in 1 .. l - n PROVE t[i] = s[i + n]
  <2>1. t[i] = s[n + 1 + i - 1]
    BY <1>4, <1>5
  <2>2. n + 1 + i - 1 = i + n
    OBVIOUS
  <2> QED
    BY <2>1, <2>2
<1>7. Len(t) = l - n
  BY <1>4, <1>5
<1> QED
  BY <1>1, <1>4, <1>6, <1>7 DEF t

LEMMA Remains ==
    ASSUME TypeInv, NEW n \in Nat, n <= Len(stream),
           stream' = SubSeq(stream, n + 1, Len(stream)), UNCHANGED <<out, sent>>
    PROVE  /\ Len(stream) \in Nat /\ Len(stream') = Len(stream) - n
           /\ \A i \in DOMAIN stream' : i \in Nat /\ i + n \in DOMAIN stream
                                        /\ stream'[i] = stream[i + n]
           /\ StreamTypes' /\ BytesSent'
<1>1. stream \in Seq(Nat \X Nat) /\ Len(stream) <= Capacity
  BY DEF TypeInv, StreamTypes
<1>2. PICK l \in Nat : l = Len(stream) /\ DOMAIN stream = 1 .. l /\ n <= l /\ l <= Capacity
  BY <1>1, LenProperties
<1>3. PICK m \in Nat : m = l - n
  BY <1>2
<1>4. /\ stream' \in Seq(Nat \X Nat) /\ Len(stream') = m
      /\ \A i \in 1 .. m : stream'[i] = stream[i + n]
  BY <1>1, <1>2, <1>3, Cut
<1>5. DOMAIN stream' = 1 .. m
  BY <1>4, LenProperties
<1>6. ASSUME NEW i \in 1 .. m PROVE i \in Nat /\ i + n \in 1 .. l
  BY <1>2, <1>3
<1>7. \A i \in DOMAIN stream' : i \in Nat /\ i + n \in DOMAIN stream
                                /\ stream'[i] = stream[i + n]
  BY <1>2, <1>4, <1>5, <1>6
<1>8. StreamTypes'
  <2>1. m <= Capacity
    BY <1>2, <1>3, RepliesAssumption
  <2> QED
    BY <1>4, <2>1 DEF StreamTypes
<1>9. BytesSent'
  BY <1>7 DEF TypeInv, BytesSent
<1> QED
  BY <1>2, <1>3, <1>4, <1>7, <1>8, <1>9

LEMMA ArrivedIs ==
    ASSUME TypeInv
    PROVE  /\ Arrived \in Nat /\ Arrived <= HeaderSize /\ Arrived <= Len(stream)
           /\ Arrived = HeaderSize \/ Arrived = Len(stream)
           /\ Len(stream) \in Nat /\ DOMAIN stream = 1 .. Len(stream)
<1>1. Len(stream) \in Nat /\ HeaderSize \in Nat /\ DOMAIN stream = 1 .. Len(stream)
  BY DEF TypeInv, StreamTypes, HeaderSize
<1> QED
  BY <1>1, MinOfTwo DEF Arrived

LEMMA WholeIsKnown ==
    ASSUME TypeInv, pc = "header", WholeHeader(Buffered)
    PROVE  Known(Buffered)
<1>1. PICK r \in 0 .. Len(asked) : Buffered = Header(r)
  BY DEF WholeHeader
<1>2. Buffered[1] = <<r, 1>>
  BY <1>1 DEF Header, HeaderSize
<1>3. CASE Arrived >= 1
  <2>1. Buffered[1] = stream[1] /\ 1 \in DOMAIN stream
    BY <1>3, ArrivedIs DEF Buffered, HeaderSize
  <2> QED
    BY <1>1, <1>2, <2>1 DEF TypeInv, BytesSent, Known
<1>4. CASE Arrived = 0
  <2>1. Buffered[1] = head[loop][1]
    BY <1>4 DEF Buffered, HeaderSize
  <2>2. loop \in Loops /\ Known(head[loop])
    BY DEF TypeInv, HeadTypes, ClientTypes
  <2>3. \A q : Header(q)[1] = <<q, 1>>
    BY DEF Header, HeaderSize
  <2> QED
    BY <1>1, <1>2, <2>1, <2>2, <2>3 DEF Known
<1> QED
  BY <1>3, <1>4, ArrivedIs

LEMMA RecvHeaderIs ==
    ASSUME RecvHeader
    PROVE  /\ pc = "header" /\ (stream # <<>> \/ gone)
           /\ head' = [head EXCEPT ![loop] = Buffered]
           /\ stream' = SubSeq(stream, Arrived + 1, Len(stream))
           /\ cut' = (cut \/ Arrived \in 1 .. HeaderSize - 1)
           /\ \/ /\ WholeHeader(Buffered) /\ size' = ReplyOf(Buffered).claims
                 /\ pc' = IF size' <= HeaderSize THEN "handle" ELSE "body"
              \/ ~WholeHeader(Buffered) /\ pc' = "lost" /\ UNCHANGED size
           /\ got' = HeaderSize
           /\ UNCHANGED <<asked, gone, reset, out, sent, todo, loop, left, commands>>
BY DEF RecvHeader, Arrived, Buffered, serverVars

LEMMA RecvHeaderTypes == ASSUME TypeInv, RecvHeader PROVE TypeInv'
<1> DEFINE h == Buffered
<1>1. /\ pc = "header" /\ head' = [head EXCEPT ![loop] = h]
      /\ stream' = SubSeq(stream, Arrived + 1, Len(stream))
      /\ cut' = (cut \/ Arrived \in 1 .. HeaderSize - 1)
      /\ \/ /\ WholeHeader(h) /\ size' = ReplyOf(h).claims
            /\ pc' = IF size' <= HeaderSize THEN "handle" ELSE "body"
         \/ pc' = "lost" /\ UNCHANGED size
      /\ got' = HeaderSize
      /\ UNCHANGED <<asked, gone, reset, out, sent, todo, loop, left, commands>>
  BY RecvHeaderIs
<1>2. WholeHeader(h) => Known(h) /\ ReplyOf(h).claims \in Nat
  BY <1>1, WholeIsKnown, ReplyKnown DEF TypeInv
<1>3. DOMAIN h = 1 .. HeaderSize
  BY DEF Buffered
<1> HIDE DEF h
<1>4. AskedTypes' /\ OutTypes' /\ StreamTypes' /\ BytesSent'
  BY <1>1, ArrivedIs, Remains DEF TypeInv, AskedTypes, OutTypes
<1>5. HeadTypes'
  BY <1>1, <1>2, <1>3 DEF TypeInv, HeadTypes, ClientTypes, Known
<1>6. ClientTypes'
  <2>1. cut' \in BOOLEAN
    BY <1>1 DEF TypeInv, ClientTypes
  <2>2. size' \in Nat /\ got' \in Nat /\ HeaderSize \in Nat
    BY <1>1, <1>2 DEF TypeInv, ClientTypes, HeaderSize
  <2>3. /\ got' <= IF size' < HeaderSize THEN HeaderSize ELSE size'
        /\ pc' = "body" => got' < size' /\ HeaderSize < size'
    BY <1>1, <2>2
  <2> QED
    BY <1>1, <2>1, <2>2, <2>3 DEF TypeInv, ClientTypes
<1> QED
  BY <1>4, <1>5, <1>6 DEF TypeInv

LEMMA RecvBodyIs ==
    ASSUME TypeInv, RecvBody
    PROVE  \E n \in Nat :
              /\ n > 0 /\ n <= Len(stream) /\ got + n <= size /\ got' = got + n
              /\ stream' = SubSeq(stream, n + 1, Len(stream))
              /\ pc = "body" /\ pc' = IF got' < size THEN "body" ELSE "handle"
              /\ UNCHANGED <<asked, gone, reset, out, sent, todo, loop, left, head, size,
                             commands, cut>>
<1>1. PICK n \in 1 .. Min({size - got, Len(stream)}) :
         /\ stream' = SubSeq(stream, n + 1, Len(stream))
         /\ got' = got + n
         /\ pc' = IF got' < size THEN "body" ELSE "handle"
  BY DEF RecvBody
<1>2. size \in Nat /\ got \in Nat /\ got < size
  BY DEF RecvBody, TypeInv, ClientTypes
<1>3. Len(stream) \in Nat /\ size - got \in Nat
  BY <1>2, ArrivedIs
<1>4. n \in Nat /\ n > 0 /\ n <= Len(stream) /\ n <= size - got
  BY <1>3, MinOfTwo
<1>5. got + n <= size
  BY <1>2, <1>4
<1> QED
  BY <1>1, <1>4, <1>5 DEF RecvBody, serverVars

LEMMA RecvBodyTypes == ASSUME TypeInv, RecvBody PROVE TypeInv'
<1>1. PICK n \in Nat :
         /\ n > 0 /\ n <= Len(stream) /\ got + n <= size /\ got' = got + n
         /\ stream' = SubSeq(stream, n + 1, Len(stream))
         /\ pc = "body" /\ pc' = IF got' < size THEN "body" ELSE "handle"
         /\ UNCHANGED <<asked, gone, reset, out, sent, todo, loop, left, head, size,
                        commands, cut>>
  BY RecvBodyIs
<1>2. AskedTypes' /\ OutTypes' /\ StreamTypes' /\ BytesSent'
  BY <1>1, Remains DEF TypeInv, AskedTypes, OutTypes
<1>3. HeadTypes'
  BY <1>1 DEF TypeInv, HeadTypes, Known
<1>4. ClientTypes'
  <2>1. /\ size \in Nat /\ got \in Nat /\ HeaderSize < size /\ HeaderSize \in Nat
    BY <1>1 DEF TypeInv, ClientTypes, HeaderSize
  <2>2. /\ got' \in Nat /\ got' <= size
        /\ pc' = "body" => got' < size
    BY <1>1, <2>1
  <2>3. got' <= IF size < HeaderSize THEN HeaderSize ELSE size
    BY <2>1, <2>2
  <2> QED
    BY <1>1, <2>1, <2>2, <2>3 DEF TypeInv, ClientTypes
<1> QED
  BY <1>2, <1>3, <1>4 DEF TypeInv

LEMMA HandleTypes == ASSUME TypeInv, Handle PROVE TypeInv'
<1>1. UNCHANGED <<asked, stream, serverVars, gone, reset, commands, cut>>
      /\ pc = "handle" /\ pc' = "send" /\ size' = 0 /\ got' = 0
  BY DEF Handle
<1>2. asked' \in Seq(Kinds) /\ OutTypes' /\ StreamTypes' /\ BytesSent'
      /\ \A h : Known(h)' <=> Known(h)
  BY <1>1, Kept
<1>3. todo' \in Seq(Kinds)
  <2>1. todo' = todo \/ todo' = <<>>
    BY DEF Handle
  <2>2. <<>> \in Seq(Kinds)
    OBVIOUS
  <2> QED
    BY <2>1, <2>2 DEF TypeInv, AskedTypes
<1>4. \/ head' = head
      \/ head' = [head EXCEPT !.chunks = Header(0)]
  BY DEF Handle
<1>5. HeadTypes'
  <2>1. DOMAIN Header(0) = 1 .. HeaderSize /\ Known(Header(0))
    BY DEF Header, Known
  <2> QED
    BY <1>1, <1>2, <1>4, <2>1 DEF TypeInv, HeadTypes
<1>6. loop' \in Loops /\ left' \in 0 .. MaxChunks
  <2>1. CASE loop = "chunks"
    BY <1>1, <2>1, RepliesAssumption DEF Handle, TypeInv, ClientTypes
  <2>2. CASE loop # "chunks"
    <3>1. "main" \in Loops /\ "chunks" \in Loops
      BY DEF Loops
    <3>2. ReplyOf(head.main).chunks \in 0 .. MaxChunks
      BY <1>1, <3>1, ReplyKnown DEF TypeInv, HeadTypes
    <3> QED
      BY <2>2, <3>1, <3>2 DEF Handle, TypeInv, ClientTypes
  <2> QED
    BY <2>1, <2>2
<1>7. ClientTypes'
  <2>1. 0 <= IF 0 < HeaderSize THEN HeaderSize ELSE 0
    BY DEF HeaderSize
  <2> QED
    BY <1>1, <1>6, <2>1 DEF TypeInv, ClientTypes
<1> QED
  BY <1>2, <1>3, <1>5, <1>7 DEF TypeInv, AskedTypes

LEMMA NextTypes == TypeInv /\ [Next]_vars => TypeInv'
<1> SUFFICES ASSUME TypeInv, [Next]_vars PROVE TypeInv'
  OBVIOUS
<1>1. CASE UNCHANGED vars
  BY <1>1
     DEF vars, serverVars, clientVars, TypeInv, AskedTypes, OutTypes, StreamTypes, HeadTypes,
         ClientTypes, BytesSent, Known
<1>2. ASSUME NEW r \in Requests, Reply(r) \/ Send(r) PROVE TypeInv'
  BY <1>2, ReplyTypes, SendTypes
<1>3. CASE Client
  BY <1>3, IdleTypes, SendRequestTypes, RecvHeaderTypes, RecvBodyTypes, HandleTypes DEF Client
<1> QED
  BY <1>1, <1>2, <1>3, IdleTypes DEF Next

(***************************************************************************)
(* The types: of what is asked, answered, on its way and in the client's   *)
(* buffers, for any commands, sizes and number of chunks (utils.hpp:13-46, *)
(* connection.cpp:30-53).                                                  *)
(***************************************************************************)
THEOREM TypeCorrect == SafeSpec => []TypeOK
<1>1. TypeInv => TypeOK
  BY DEF TypeInv, TypeOK, OutTypes, StreamTypes, HeadTypes, ClientTypes
<1> QED
  BY <1>1, InitTypes, NextTypes, PTL DEF SafeSpec
-----------------------------------------------------------------------------
(***************************************************************************)
(* The stream, while the two are in step.                                  *)
(***************************************************************************)
LEMMA StepsBefore ==
    ASSUME TypeInv, [Next]_vars, InStep'
    PROVE  InStep
<1>1. cut => cut'
  BY DEF Next, Client, Close, Prompt, LoopEnd, SendRequest, SendFails, RecvHeader, RecvBody,
         RecvFails, Handle, Spin, Rest, Reply, Send, Take, vars, clientVars
<1>2. \A q \in DOMAIN out : q \in DOMAIN out' /\ out'[q] = out[q]
  <2>1. CASE out' = out
    BY <2>1
  <2>2. ASSUME NEW r, Reply(r) PROVE \A q \in DOMAIN out : q \in DOMAIN out' /\ out'[q] = out[q]
    BY <2>2 DEF Reply, Entered
  <2> QED
    BY <2>1, <2>2
       DEF Next, Client, Close, Prompt, LoopEnd, SendRequest, SendFails, RecvHeader, RecvBody,
           RecvFails, Handle, Spin, Rest, Send, Take, vars, serverVars
<1> QED
  BY <1>1, <1>2 DEF InStep

LEMMA LastAsked ==
    ASSUME TypeInv
    PROVE  /\ Len(asked) \in Nat /\ DOMAIN asked = 1 .. Len(asked)
           /\ DOMAIN out \subseteq 1 .. Len(asked)
           /\ Len(asked) \in DOMAIN out => sent[Len(asked)] \in Nat
           /\ Len(stream) \in Nat /\ DOMAIN stream = 1 .. Len(stream)
           /\ stream = <<>> <=> Len(stream) = 0
<1>1. Len(asked) \in Nat /\ DOMAIN asked = 1 .. Len(asked)
  BY DEF TypeInv, AskedTypes
<1>2. DOMAIN out \subseteq 1 .. Len(asked)
  BY <1>1 DEF TypeInv, OutTypes
<1>3. Len(asked) \in DOMAIN out => sent[Len(asked)] \in Nat
  BY DEF TypeInv, OutTypes, IsReply
<1>4. /\ Len(stream) \in Nat /\ DOMAIN stream = 1 .. Len(stream)
      /\ stream = <<>> <=> Len(stream) = 0
  BY EmptySeq DEF TypeInv, StreamTypes
<1> QED
  BY <1>1, <1>2, <1>3, <1>4

LEMMA InitStream == Init => StreamInv
BY DEF Init, StreamInv, Waiting, OnlyLastOpen, WhileWaiting, WhenShown

LEMMA ReplyStream ==
    ASSUME TypeInv, StreamInv, InStep, NEW r, Reply(r)
    PROVE  StreamInv'
<1>1. PICK reply : out' = Entered(out, r, reply)
  BY DEF Reply
<1>2. /\ ~gone /\ r \in DOMAIN asked \ DOMAIN out /\ sent' = Entered(sent, r, 0)
      /\ UNCHANGED <<asked, stream, gone, reset, pc, loop, head, size, got>>
  BY DEF Reply, clientVars
<1>3. r = Len(asked) /\ Waiting
  BY <1>2 DEF StreamInv, OnlyLastOpen, Settled
<1>4. pc = "header" /\ Len(asked) > 0 /\ stream = <<>>
  BY <1>2, <1>3, LastAsked DEF Waiting, StreamInv, WhileWaiting, Unread
<1>5. /\ Len(asked) \in DOMAIN out' /\ sent'[Len(asked)] = 0
      /\ \A q \in DOMAIN out : q \in DOMAIN out' /\ out'[q] = out[q] /\ sent'[q] = sent[q]
  BY <1>1, <1>2, <1>3 DEF Entered, TypeInv, OutTypes
<1>6. Unread(0)'
  BY <1>2, <1>4, <1>5, LastAsked DEF Unread
<1>7. OnlyLastOpen'
  BY <1>2, <1>3, <1>5 DEF StreamInv, OnlyLastOpen, Settled, Waiting
<1> QED
  BY <1>2, <1>4, <1>6, <1>7 DEF StreamInv, WhileWaiting, WhenShown, Waiting

LEMMA SendStream ==
    ASSUME TypeInv, StreamInv, InStep, NEW r, Send(r)
    PROVE  StreamInv'
<1>1. PICK n \in Portions(r) : Take(r, n) /\ sent' = [sent EXCEPT ![r] = @ + n]
  BY DEF Send
<1>2. /\ ~gone /\ r \in DOMAIN out
      /\ UNCHANGED <<asked, out, gone, reset, pc, loop, head, size, got>>
  BY <1>1 DEF Send, Take, clientVars
<1>3. /\ n \in Nat /\ n > 0 /\ sent[r] + n <= out[r].length
      /\ Len(stream') = Len(stream) + n
      /\ \A i \in DOMAIN stream : i \in DOMAIN stream' /\ stream'[i] = stream[i]
      /\ \A i \in DOMAIN stream' :
            i \notin DOMAIN stream => stream'[i] = <<r, sent[r] + (i - Len(stream))>>
      /\ DOMAIN sent' = DOMAIN sent /\ sent'[r] = sent[r] + n
      /\ \A q \in DOMAIN sent : q # r => sent'[q] = sent[q]
      /\ stream' \in Seq(Nat \X Nat)
  BY <1>1, <1>2, Sent
<1>4. /\ sent[r] \in Nat /\ out[r].length \in Nat /\ DOMAIN sent = DOMAIN out
      /\ r \in DOMAIN asked
  BY <1>2 DEF TypeInv, OutTypes, IsReply
<1>5. ~Settled(r)
  BY <1>3, <1>4 DEF Settled
<1>6. r = Len(asked) /\ Waiting
  BY <1>2, <1>4, <1>5 DEF StreamInv, OnlyLastOpen
\* The bytes that are appended go on where the others end.
<1>7. ASSUME NEW k \in Nat, Unread(k) PROVE Unread(k)'
  <2>1. Len(stream) = sent[r] - k /\ Len(stream) \in Nat /\ DOMAIN stream = 1 .. Len(stream)
    BY <1>2, <1>6, <1>7, LastAsked DEF Unread
  <2>2. Len(stream') = sent'[r] - k
    BY <1>3, <1>4, <2>1
  <2>3. ASSUME NEW i \in DOMAIN stream' PROVE stream'[i] = <<r, k + i>>
    <3>1. CASE i \in DOMAIN stream
      BY <1>3, <1>6, <1>7, <3>1 DEF Unread
    <3>2. CASE i \notin DOMAIN stream
      <4>1. i \in Nat
        BY <1>3
      <4>2. sent[r] + (i - Len(stream)) = k + i
        BY <1>4, <2>1, <4>1
      <4> QED
        BY <1>3, <3>2, <4>2
    <3> QED
      BY <3>1, <3>2
  <2> QED
    BY <1>2, <1>6, <2>2, <2>3 DEF Unread
<1>8. OnlyLastOpen'
  BY <1>2, <1>3, <1>4, <1>6 DEF StreamInv, OnlyLastOpen, Settled, Waiting
<1>9. WhileWaiting'
  <2>1. CASE pc = "header"
    BY <1>2, <1>7, <2>1 DEF StreamInv, WhileWaiting
  <2>2. CASE pc = "body"
    <3>1. got \in Nat /\ Unread(got) /\ head[loop] = Header(Len(asked))
          /\ size = out[Len(asked)].length /\ Len(asked) > 0
      BY <1>2, <2>2 DEF StreamInv, WhileWaiting, TypeInv, ClientTypes
    <3>2. Unread(got)'
      <4>1. PICK k \in Nat : k = got /\ Unread(k)
        BY <3>1
      <4>2. Unread(k)'
        BY <1>7, <4>1
      <4> QED
        BY <1>2, <4>1, <4>2 DEF Unread
    <3> QED
      BY <1>2, <1>6, <2>2, <3>1, <3>2 DEF WhileWaiting
  <2> QED
    BY <1>6, <2>1, <2>2 DEF Waiting
<1> QED
  BY <1>2, <1>6, <1>8, <1>9 DEF StreamInv, WhenShown, Waiting

LEMMA IdleStream ==
    ASSUME TypeInv, StreamInv, InStep,
           Close \/ Prompt \/ LoopEnd \/ SendFails \/ RecvFails \/ Spin \/ Rest
    PROVE  StreamInv'
<1>1. UNCHANGED <<asked, stream, out, sent, head, size, got>>
  BY DEF Close, Prompt, LoopEnd, SendFails, RecvFails, Spin, Rest, vars, serverVars, clientVars
<1>2. \A n : Unread(n) => Unread(n)'
  BY <1>1 DEF Unread
<1>3. CASE Close
  BY <1>1, <1>2, <1>3
     DEF Close, clientVars, StreamInv, OnlyLastOpen, WhileWaiting, WhenShown, Waiting, Unread
<1>4. CASE Prompt \/ LoopEnd \/ SendFails
  BY <1>1, <1>4
     DEF Prompt, LoopEnd, SendFails, StreamInv, OnlyLastOpen, WhileWaiting, WhenShown, Waiting,
         Settled
<1>5. CASE RecvFails
  BY <1>1, <1>5
     DEF RecvFails, StreamInv, OnlyLastOpen, WhileWaiting, WhenShown, Waiting, Settled
<1>6. CASE Spin \/ Rest
  BY <1>1, <1>6
     DEF Spin, Rest, vars, clientVars, StreamInv, OnlyLastOpen, WhileWaiting, WhenShown, Waiting,
         Settled, Unread
<1> QED
  BY <1>3, <1>4, <1>5, <1>6

LEMMA SendRequestStream ==
    ASSUME TypeInv, StreamInv, InStep, SendRequest
    PROVE  StreamInv'
<1>1. /\ pc = "send" /\ pc' = "header"
      /\ UNCHANGED <<stream, gone, out, sent>>
  BY DEF SendRequest, serverVars
<1>2. PICK k \in Kinds : asked' = Append(asked, k)
  <2>1. todo # <<>> => Head(todo) \in Kinds
    BY DEF TypeInv, AskedTypes
  <2>2. "chunk" \in Kinds
    BY DEF Kinds
  <2> QED
    BY <2>1, <2>2 DEF SendRequest
<1>3. Len(asked') = Len(asked) + 1 /\ DOMAIN asked' = DOMAIN asked \cup {Len(asked')}
      /\ Len(asked') \notin DOMAIN out /\ Len(asked') > 0
  <2>1. asked \in Seq(Kinds) /\ asked' \in Seq(Kinds) /\ Len(asked') = Len(asked) + 1
    BY <1>2 DEF TypeInv, AskedTypes
  <2> QED
    BY <2>1, LastAsked
<1>4. stream = <<>> /\ OnlyLastOpen
  BY <1>1 DEF StreamInv, Waiting
<1>5. OnlyLastOpen'
  BY <1>1, <1>3, <1>4 DEF OnlyLastOpen, Settled, Waiting
<1>6. Unread(0)'
  BY <1>1, <1>3, <1>4, LastAsked DEF Unread
<1> QED
  BY <1>1, <1>3, <1>5, <1>6 DEF StreamInv, WhileWaiting, WhenShown, Waiting

(***************************************************************************)
(* The header that is taken is that of the last request, unless the server *)
(* has gone without one.                                                   *)
(***************************************************************************)
LEMMA RecvHeaderStream ==
    ASSUME TypeInv, StreamInv, InStep, InStep', RecvHeader
    PROVE  StreamInv'
<1> DEFINE h == Buffered
           r == Len(asked)
<1>1. /\ pc = "header" /\ (stream # <<>> \/ gone)
      /\ head' = [head EXCEPT ![loop] = h]
      /\ stream' = SubSeq(stream, Arrived + 1, Len(stream))
      /\ cut' = (cut \/ Arrived \in 1 .. HeaderSize - 1)
      /\ \/ /\ WholeHeader(h) /\ size' = ReplyOf(h).claims
            /\ pc' = IF size' <= HeaderSize THEN "handle" ELSE "body"
         \/ ~WholeHeader(h) /\ pc' = "lost" /\ UNCHANGED size
      /\ got' = HeaderSize
      /\ UNCHANGED <<asked, gone, out, sent, loop>>
  BY RecvHeaderIs
<1>2. Unread(0) /\ r > 0 /\ r \in Nat
  BY <1>1, LastAsked DEF StreamInv, WhileWaiting
<1>3. /\ Len(stream) \in Nat /\ Len(stream') = Len(stream) - Arrived
      /\ \A i \in DOMAIN stream' : i \in Nat /\ i + Arrived \in DOMAIN stream
                                   /\ stream'[i] = stream[i + Arrived]
      /\ StreamTypes'
  BY <1>1, ArrivedIs, Remains
<1>4. Arrived = HeaderSize \/ Arrived = 0
  <2>1. ~cut'
    BY DEF InStep
  <2>2. Arrived \notin 1 .. HeaderSize - 1
    BY <1>1, <2>1
  <2>3. Arrived \in Nat /\ Arrived <= HeaderSize /\ HeaderSize = 4
    BY ArrivedIs DEF HeaderSize
  <2> QED
    BY <2>2, <2>3
<1>5. CASE Arrived = 0
  <2>1. Len(stream) = 0 /\ stream = <<>> /\ gone
    BY <1>1, <1>5, ArrivedIs, LastAsked DEF HeaderSize
  <2>2. stream' = <<>>
    BY <1>3, <1>5, <2>1 DEF StreamTypes
  <2>3. h = head[loop] /\ loop \in Loops
    <3>1. DOMAIN head[loop] = 1 .. HeaderSize /\ loop \in Loops
      BY DEF TypeInv, HeadTypes, ClientTypes
    <3>2. Known(head[loop])
      BY <1>1, <3>1 DEF TypeInv, HeadTypes
    <3>3. \A i \in 1 .. HeaderSize : h[i] = head[loop][i]
      BY <1>5 DEF Buffered
    <3> QED
      BY <3>1, <3>2, <3>3 DEF Buffered, Known, Header
  <2>4. WholeHeader(h)
    BY <1>1, <2>3, ReplyKnown DEF TypeInv, HeadTypes
  <2>5. pc' \in {"handle", "body"}
    BY <1>1, <2>4
  <2> QED
    BY <1>1, <1>2, <2>1, <2>2, <2>5
       DEF StreamInv, OnlyLastOpen, WhileWaiting, WhenShown, Waiting
<1>6. CASE Arrived = HeaderSize
  <2>1. HeaderSize \in Nat /\ HeaderSize > 0 /\ HeaderSize <= Len(stream)
    BY <1>6, ArrivedIs DEF HeaderSize
  <2>2. /\ r \in DOMAIN out /\ sent[r] \in Nat /\ Len(stream) = sent[r]
        /\ \A i \in DOMAIN stream : stream[i] = <<r, i>>
    BY <1>2, <2>1, LastAsked DEF Unread
  <2>3. h = Header(r)
    BY <1>6, <2>1, <2>2, LastAsked DEF Buffered, Header
  <2>4. IsReply(out[r]) /\ sent[r] <= out[r].length /\ out[r].type # "SETTINGS"
    BY <2>2 DEF InStep, TypeInv, OutTypes, IsReply
  <2>5. out[r].length \in Nat /\ out[r].claims = out[r].length
    BY <2>4 DEF IsReply
  <2>6. WholeHeader(h) /\ ReplyOf(h) = out[r]
    <3>1. h # Header(0)
      BY <1>2, <2>3, HeadersDiffer
    <3>2. r \in 0 .. Len(asked)
      BY <1>2
    <3>3. h[1][1] = r
      BY <2>3 DEF Header, HeaderSize
    <3> QED
      BY <2>3, <3>1, <3>2, <3>3 DEF WholeHeader, ReplyOf
  <2>7. size' = out[r].length /\ pc' = IF size' <= HeaderSize THEN "handle" ELSE "body"
    BY <1>1, <2>5, <2>6
  <2>8. head'[loop'] = Header(r)
    BY <1>1, <2>3 DEF TypeInv, HeadTypes, ClientTypes
  <2>9. Unread(HeaderSize)'
    <3>1. Len(stream') = sent[r] - HeaderSize
      BY <1>3, <1>6, <2>2
    <3>2. \A i \in DOMAIN stream' : stream'[i] = <<r, HeaderSize + i>>
      BY <1>3, <1>6, <2>1, <2>2
    <3> QED
      BY <1>1, <2>2, <3>1, <3>2 DEF Unread
  <2>10. CASE size' <= HeaderSize
    <3>1. sent[r] = out[r].length /\ out[r].length = HeaderSize
      BY <2>1, <2>2, <2>4, <2>5, <2>7, <2>10
    <3>2. Len(stream') = 0 /\ stream' = <<>>
      BY <1>3, <1>6, <2>2, <3>1 DEF StreamTypes
    <3>3. OnlyLastOpen'
      BY <1>1, <2>2, <3>1 DEF StreamInv, OnlyLastOpen, Settled
    <3> QED
      BY <1>1, <1>2, <2>2, <2>7, <2>8, <2>10, <3>1, <3>2, <3>3
         DEF StreamInv, WhileWaiting, WhenShown, Waiting, Settled
  <2>11. CASE ~(size' <= HeaderSize)
    <3>1. pc' = "body"
      BY <2>7, <2>11
    <3>2. OnlyLastOpen'
      BY <1>1, <3>1 DEF StreamInv, OnlyLastOpen, Settled, Waiting
    <3>3. Unread(got)'
      BY <1>1, <2>9 DEF Unread
    <3> QED
      BY <1>1, <1>2, <2>2, <2>7, <2>8, <3>1, <3>2, <3>3
         DEF StreamInv, WhileWaiting, WhenShown, Waiting
  <2> QED
    BY <2>10, <2>11
<1> QED
  BY <1>4, <1>5, <1>6

LEMMA RecvBodyStream ==
    ASSUME TypeInv, StreamInv, InStep, RecvBody
    PROVE  StreamInv'
<1> DEFINE r == Len(asked)
<1>1. PICK n \in Nat :
         /\ n > 0 /\ n <= Len(stream) /\ got + n <= size /\ got' = got + n
         /\ stream' = SubSeq(stream, n + 1, Len(stream))
         /\ pc = "body" /\ pc' = IF got' < size THEN "body" ELSE "handle"
         /\ UNCHANGED <<asked, gone, reset, out, sent, todo, loop, left, head, size,
                        commands, cut>>
  BY RecvBodyIs
<1>2. /\ Len(stream) \in Nat /\ Len(stream') = Len(stream) - n
      /\ \A i \in DOMAIN stream' : i \in Nat /\ i + n \in DOMAIN stream
                                   /\ stream'[i] = stream[i + n]
      /\ StreamTypes'
  BY <1>1, Remains
<1>3. stream # <<>>
  BY <1>1, LastAsked
<1>4. /\ r > 0 /\ head[loop] = Header(r) /\ r \in DOMAIN out
      /\ size = out[r].length /\ Unread(got)
  BY <1>1, <1>3 DEF StreamInv, WhileWaiting
<1>5. got \in Nat /\ size \in Nat /\ sent[r] \in Nat /\ sent[r] <= out[r].length
  BY <1>4 DEF TypeInv, ClientTypes, OutTypes, IsReply
<1>6. Len(stream) = sent[r] - got /\ \A i \in DOMAIN stream : stream[i] = <<r, got + i>>
  BY <1>4 DEF Unread
<1>7. Unread(got)'
  <2>1. Len(stream') = sent[r] - got'
    BY <1>1, <1>2, <1>5, <1>6
  <2>2. ASSUME NEW i \in DOMAIN stream' PROVE stream'[i] = <<r, got' + i>>
    <3>1. i \in Nat /\ stream'[i] = stream[i + n] /\ stream[i + n] = <<r, got + (i + n)>>
      BY <1>2, <1>6
    <3>2. got + (i + n) = got' + i
      BY <1>1, <1>5, <3>1
    <3> QED
      BY <3>1, <3>2
  <2> QED
    BY <1>1, <1>4, <2>1, <2>2 DEF Unread
<1>8. CASE got' < size
  <2>1. OnlyLastOpen'
    BY <1>1, <1>8 DEF StreamInv, OnlyLastOpen, Settled, Waiting
  <2> QED
    BY <1>1, <1>4, <1>7, <1>8, <2>1 DEF StreamInv, WhileWaiting, WhenShown, Waiting
<1>9. CASE ~(got' < size)
  <2>1. got' = size /\ sent[r] = out[r].length /\ Len(stream') = 0
    <3>1. PICK l \in Nat : l = out[r].length /\ size = l
      BY <1>4, <1>5
    <3>2. PICK k \in Nat : k = sent[r] /\ k <= l
      BY <1>5, <3>1
    <3>3. /\ n <= Len(stream) /\ Len(stream) = k - got /\ Len(stream') = Len(stream) - n
          /\ got' = got + n /\ got + n <= l /\ ~(got + n < l) /\ got \in Nat
      BY <1>1, <1>2, <1>5, <1>6, <1>9, <3>1, <3>2
    <3>4. got + n = l /\ k = l /\ Len(stream') = 0
      BY <3>2, <3>3
    <3> QED
      BY <3>1, <3>2, <3>3, <3>4
  <2>2. stream' = <<>>
    BY <1>2, <2>1 DEF StreamTypes
  <2>3. OnlyLastOpen'
    BY <1>1, <1>4, <2>1 DEF StreamInv, OnlyLastOpen, Settled
  <2> QED
    BY <1>1, <1>4, <1>9, <2>1, <2>2, <2>3
       DEF StreamInv, WhileWaiting, WhenShown, Waiting, Settled
<1> QED
  BY <1>8, <1>9

LEMMA HandleStream ==
    ASSUME TypeInv, StreamInv, InStep, Handle
    PROVE  StreamInv'
<1>1. UNCHANGED <<asked, stream, out, sent, gone>> /\ pc = "handle" /\ pc' = "send"
  BY DEF Handle, serverVars
<1>2. stream = <<>> /\ (gone \/ Settled(Len(asked)))
  BY <1>1 DEF StreamInv, WhenShown, Waiting
<1> QED
  BY <1>1, <1>2 DEF StreamInv, OnlyLastOpen, WhileWaiting, WhenShown, Waiting, Settled

LEMMA NextStream == TypeInv /\ StreamInv /\ [Next]_vars => StreamInv'
<1> SUFFICES ASSUME TypeInv, StreamInv, [Next]_vars, InStep' PROVE StreamInv'
  BY DEF StreamInv
<1>1. InStep
  BY StepsBefore
<1>2. CASE UNCHANGED vars
  BY <1>2
     DEF vars, serverVars, clientVars, StreamInv, InStep, OnlyLastOpen, WhileWaiting, WhenShown,
         Waiting, Settled, Unread
<1>3. ASSUME NEW r \in Requests, Reply(r) \/ Send(r) PROVE StreamInv'
  BY <1>1, <1>3, ReplyStream, SendStream
<1>4. CASE Client
  BY <1>1, <1>4, IdleStream, SendRequestStream, RecvHeaderStream, RecvBodyStream, HandleStream
     DEF Client
<1> QED
  BY <1>1, <1>2, <1>3, <1>4, IdleStream DEF Next

(***************************************************************************)
(* What the client shows for a request is the reply to it, the whole of it *)
(* and nothing left, however send() and recv() cut the stream, for any     *)
(* commands and sizes; unless settings were asked for, a header came in    *)
(* parts or the server has gone (utils.hpp:15-45, connection.cpp:30-53).   *)
(***************************************************************************)
THEOREM RepliesAreOwn == SafeSpec => []ShownIsOwn
<1>1. TypeInv /\ StreamInv => ShownIsOwn
  <2> SUFFICES ASSUME TypeInv, StreamInv, pc \in {"handle", "lost"}, InStep
               PROVE  \/ /\ head[loop] = Header(Len(asked))
                         /\ sent[Len(asked)] = out[Len(asked)].length
                         /\ got = out[Len(asked)].length
                         /\ stream = <<>>
                      \/ gone /\ stream = <<>> /\ WholeHeader(head[loop])
    BY DEF ShownIsOwn
  <2>1. pc = "handle" /\ stream = <<>>
    BY DEF StreamInv, Waiting
  <2>2. WholeHeader(head[loop])
    BY <2>1, ReplyKnown DEF TypeInv, HeadTypes, ClientTypes
  <2> QED
    BY <2>1, <2>2 DEF StreamInv, WhenShown, Settled
<1> QED
  BY <1>1, InitTypes, InitStream, NextTypes, NextStream, PTL DEF SafeSpec
=============================================================================
