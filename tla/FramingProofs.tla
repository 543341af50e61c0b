--------------------------- MODULE FramingProofs ---------------------------
(***************************************************************************)
(* Framing for a buffer and packets of any size and number.                *)
(*                                                                         *)
(* The argument: the packets follow each other in the stream (Chained),    *)
(* the buffer holds a piece of the stream (Held), and that piece begins    *)
(* where the first packet not yet taken out begins (Aligned).  So the size *)
(* read from the buffer is that packet's, and taking as many bytes out     *)
(* takes the packet out and lets the buffer begin with the next.           *)
(***************************************************************************)
EXTENDS Framing, SequenceTheorems, TLAPS

\* How many bytes of the stream have left the buffer, and the first packet
\* that has not.
Base == taken - buffer_pos
Next1 == Len(packets) + 1

Chained ==
    /\ \A i \in 1 .. Len(sizes) :
         /\ starts[i] \in Nat /\ sizes[i] \in Sizes
         /\ starts[i] + WireSize(sizes[i]) <= total + 1
    /\ \A i, j \in 1 .. Len(sizes) :
         i < j => starts[i] + WireSize(sizes[i]) <= starts[j]
    /\ \A i \in 1 .. Len(sizes) - 1 :
         starts[i + 1] = starts[i] + WireSize(sizes[i])
    /\ sizes # <<>> => starts[Len(sizes)] + WireSize(sizes[Len(sizes)]) = total + 1

Held ==
    /\ buffer_pos <= taken
    /\ \A k \in 1 .. buffer_pos : buffer[k] = Base + k
    /\ pc = "extract" => buffer_pos >= HeaderSize

Aligned ==
    /\ Len(packets) <= Len(sizes)
    /\ Next1 <= Len(sizes) => starts[Next1] = Base + 1
    /\ Next1 > Len(sizes) => Base = total

LEMMA SizesAre ==
    /\ HeaderSize \in Nat /\ HeaderSize <= Cap /\ Cap \in Nat
    /\ \A s \in Sizes : /\ s \in Nat /\ WireSize(s) \in Nat
                        /\ HeaderSize <= WireSize(s) /\ WireSize(s) <= Cap
                        /\ s # 0 => WireSize(s) = s
BY FramingAssumption DEF HeaderSize, WireSize

\* What recv() returns fits in the buffer and has been written.
LEMMA RecvFits ==
    ASSUME TypeOK, NEW n, Recv(n)
    PROVE  n \in Nat \ {0} /\ n <= Cap - buffer_pos /\ n <= total - taken
BY SizesAre DEF TypeOK, Recv, LeastOf

\* The bytes taken out of the buffer are a packet.
LEMMA CutIsSeq ==
    ASSUME buffer \in [1 .. Cap -> Nat], Cap \in Nat, NEW n \in 0 .. Cap
    PROVE  [k \in 1 .. n |-> buffer[k]] \in Seq(Nat)
<1>1. [k \in 1 .. n |-> buffer[k]] \in [1 .. n -> Nat]
  OBVIOUS
<1> QED
  BY <1>1, SeqDef
-----------------------------------------------------------------------------
(***************************************************************************)
(* The variables keep their types: buffer_pos stays inside the buffer.     *)
(***************************************************************************)
THEOREM TypeCorrect == SafeSpec => []TypeOK
<1>1. Init => TypeOK
  <2>1. <<>> \in Seq(Sizes) /\ <<>> \in Seq(Nat) /\ <<>> \in Seq(Seq(Nat))
    BY EmptySeq
  <2>2. [k \in 1 .. Cap |-> 0] \in [1 .. Cap -> Nat]
    OBVIOUS
  <2> SUFFICES ASSUME Init PROVE TypeOK
    OBVIOUS
  <2>3. Len(starts) = Len(sizes) /\ sizes \in Seq(Sizes) /\ starts \in Seq(Nat)
    BY <2>1 DEF Init
  <2>4. total \in Nat /\ taken \in 0 .. total /\ buffer_pos \in 0 .. Cap
    BY SizesAre DEF Init
  <2>5. buffer \in [1 .. Cap -> Nat] /\ packets \in Seq(Seq(Nat))
    BY <2>1, <2>2 DEF Init
  <2> QED
    BY <2>3, <2>4, <2>5 DEF Init, TypeOK
<1>2. TypeOK /\ [Next]_vars => TypeOK'
  <2> SUFFICES ASSUME TypeOK, [Next]_vars PROVE TypeOK'
    OBVIOUS
  <2> USE SizesAre DEF TypeOK
  <2>1. CASE UNCHANGED vars
    BY <2>1 DEF vars, peerVars
  <2>2. ASSUME NEW s \in Sizes, Send(s) PROVE TypeOK'
    <3>1. /\ sizes' \in Seq(Sizes) /\ Len(sizes') = Len(sizes) + 1
          /\ starts' \in Seq(Nat) /\ Len(starts') = Len(starts) + 1
      BY <2>2, AppendProperties DEF Send
    <3> QED
      BY <2>2, <3>1 DEF Send
  <2>3. ASSUME HangUp \/ RecvEnd \/ RecvNoRoom \/ ExtractEnd \/ Closed PROVE TypeOK'
    BY <2>3 DEF HangUp, RecvEnd, RecvNoRoom, ExtractEnd, Closed, vars, peerVars
  <2>4. ASSUME NEW n \in 1 .. Cap, Recv(n) PROVE TypeOK'
    <3>1. n <= Cap - buffer_pos /\ n <= total - taken
      BY <2>4, RecvFits
    <3>2. buffer' \in [1 .. Cap -> Nat]
      BY <2>4 DEF Recv
    <3> QED
      BY <2>4, <3>1, <3>2 DEF Recv, peerVars
  <2>5. ASSUME Extract PROVE TypeOK'
    <3>1. PICK size \in ClaimedSizes \ {0} :
            /\ buffer_pos >= size
            /\ packets' = Append(packets, [k \in 1 .. size |-> buffer[k]])
            /\ buffer' = [k \in 1 .. Cap |-> IF k <= buffer_pos - size
                                             THEN buffer[k + size] ELSE buffer[k]]
            /\ buffer_pos' = buffer_pos - size
            /\ pc' = IF buffer_pos - size < HeaderSize THEN "recv" ELSE "extract"
      BY <2>5 DEF Extract
    <3>2. size \in Nat
      <4>1. \A i \in 1 .. Len(sizes) : sizes[i] \in Nat
        BY ElementOfSeq
      <4> QED
        BY <4>1 DEF ClaimedSizes, HeadersAt
    <3>3. packets' \in Seq(Seq(Nat))
      BY <3>1, <3>2, CutIsSeq, AppendProperties
    <3>4. buffer' \in [1 .. Cap -> Nat]
      BY <3>1, <3>2
    <3> QED
      BY <2>5, <3>1, <3>2, <3>3, <3>4 DEF Extract, peerVars
  <2> QED
    BY <2>1, <2>2, <2>3, <2>4, <2>5 DEF Next, Receive
<1> QED
  BY <1>1, <1>2, PTL DEF SafeSpec
-----------------------------------------------------------------------------
LEMMA ChainFacts ==
    ASSUME TypeOK, Chained
    PROVE  /\ Len(sizes) \in Nat /\ (sizes = <<>> <=> Len(sizes) = 0)
           /\ \A i \in 1 .. Len(sizes) :
                /\ starts[i] \in Nat /\ sizes[i] \in Nat /\ WireSize(sizes[i]) \in Nat
                /\ 4 <= WireSize(sizes[i]) /\ WireSize(sizes[i]) <= Cap
                /\ sizes[i] # 0 => WireSize(sizes[i]) = sizes[i]
<1>1. Len(sizes) \in Nat /\ (sizes = <<>> <=> Len(sizes) = 0)
  BY LenProperties, EmptySeq DEF TypeOK
<1>2. \A i \in 1 .. Len(sizes) : starts[i] \in Nat /\ sizes[i] \in Sizes
  BY DEF Chained
<1> QED
  BY <1>1, <1>2, SizesAre DEF HeaderSize

LEMMA WrittenIsSeq ==
    ASSUME TypeOK, Chained, NEW i \in 1 .. Len(sizes)
    PROVE  Written(i) \in Seq(Nat)
<1>1. sizes[i] \in Nat /\ \A k \in 1 .. sizes[i] : starts[i] + k - 1 \in Nat
  BY ChainFacts
<1>2. Written(i) \in [1 .. sizes[i] -> Nat]
  BY <1>1 DEF Written
<1> QED
  BY <1>1, <1>2, SeqDef

\* The packets sent keep their place when another is sent.
LEMMA SendAppends ==
    ASSUME TypeOK, NEW s \in Sizes, Send(s)
    PROVE  /\ Len(sizes) \in Nat /\ Len(sizes') = Len(sizes) + 1 /\ sizes' # <<>>
           /\ \A i \in 1 .. Len(sizes) : sizes'[i] = sizes[i] /\ starts'[i] = starts[i]
           /\ sizes'[Len(sizes) + 1] = s /\ starts'[Len(sizes) + 1] = total + 1
           /\ total' = total + WireSize(s) /\ total \in Nat /\ WireSize(s) \in Nat
<1>1. /\ sizes \in Seq(Sizes) /\ starts \in Seq(Nat) /\ Len(starts) = Len(sizes)
      /\ total \in Nat /\ total + 1 \in Nat
  BY DEF TypeOK
<1>2. sizes' = Append(sizes, s) /\ starts' = Append(starts, total + 1)
      /\ total' = total + WireSize(s)
  BY DEF Send
<1>3. /\ Len(sizes) \in Nat /\ Len(sizes') = Len(sizes) + 1 /\ sizes' # <<>>
      /\ \A i \in 1 .. Len(sizes) : sizes'[i] = sizes[i]
      /\ sizes'[Len(sizes) + 1] = s
  BY <1>1, <1>2, AppendProperties, LenProperties
<1>4. /\ \A i \in 1 .. Len(sizes) : starts'[i] = starts[i]
      /\ starts'[Len(sizes) + 1] = total + 1
  BY <1>1, <1>2, AppendProperties
<1> QED
  BY <1>1, <1>2, <1>3, <1>4, SizesAre

LEMMA ChainedInductive == SafeSpec => []Chained
<1>1. Init => Chained
  BY DEF Init, Chained
<1>2. TypeOK /\ Chained /\ [Next]_vars => Chained'
  <2> SUFFICES ASSUME TypeOK, Chained, [Next]_vars PROVE Chained'
    OBVIOUS
  <2>1. CASE UNCHANGED <<sizes, starts, total>>
    BY <2>1 DEF Chained, WireSize
  <2>2. ASSUME NEW s \in Sizes, Send(s) PROVE Chained'
    <3> DEFINE n == Len(sizes)
    <3>1. /\ n \in Nat /\ Len(sizes') = n + 1 /\ sizes' # <<>>
          /\ \A i \in 1 .. n : sizes'[i] = sizes[i] /\ starts'[i] = starts[i]
          /\ sizes'[n + 1] = s /\ starts'[n + 1] = total + 1
          /\ total' = total + WireSize(s) /\ total \in Nat /\ WireSize(s) \in Nat
      BY <2>2, SendAppends
    <3>2. /\ \A i \in 1 .. n : starts[i] \in Nat /\ WireSize(sizes[i]) \in Nat
          /\ n > 0 <=> sizes # <<>>
      BY ChainFacts
    <3>3. /\ \A i \in 1 .. n : /\ sizes[i] \in Sizes
                               /\ starts[i] + WireSize(sizes[i]) <= total + 1
          /\ \A i, j \in 1 .. n : i < j => starts[i] + WireSize(sizes[i]) <= starts[j]
          /\ \A i \in 1 .. n - 1 : starts[i + 1] = starts[i] + WireSize(sizes[i])
          /\ n > 0 => starts[n] + WireSize(sizes[n]) = total + 1
      BY <3>2 DEF Chained
    <3> HIDE DEF n
    <3>4. \A i \in 1 .. n + 1 : i \in 1 .. n \/ i = n + 1
      BY <3>1
    <3>5. \A i \in 1 .. n + 1 :
            /\ starts'[i] \in Nat /\ sizes'[i] \in Sizes
            /\ starts'[i] + WireSize(sizes'[i]) <= total' + 1
      <4>1. ASSUME NEW i \in 1 .. n
            PROVE  /\ starts'[i] \in Nat /\ sizes'[i] \in Sizes
                   /\ starts'[i] + WireSize(sizes'[i]) <= total' + 1
        <5>1. starts'[i] = starts[i] /\ sizes'[i] = sizes[i]
          BY <3>1
        <5>2. starts[i] \in Nat /\ sizes[i] \in Sizes /\ WireSize(sizes[i]) \in Nat
              /\ starts[i] + WireSize(sizes[i]) <= total + 1
          BY <3>2, <3>3
        <5>3. total' \in Nat /\ total <= total' /\ total \in Nat
          BY <3>1
        <5> QED
          BY <5>1, <5>2, <5>3
      <4>2. /\ starts'[n + 1] \in Nat /\ sizes'[n + 1] \in Sizes
            /\ starts'[n + 1] + WireSize(sizes'[n + 1]) <= total' + 1
        BY <3>1
      <4> QED
        BY <3>4, <4>1, <4>2
    <3>6. \A i, j \in 1 .. n + 1 :
            i < j => starts'[i] + WireSize(sizes'[i]) <= starts'[j]
      <4> SUFFICES ASSUME NEW i \in 1 .. n + 1, NEW j \in 1 .. n + 1, i < j
                   PROVE  starts'[i] + WireSize(sizes'[i]) <= starts'[j]
        OBVIOUS
      <4>1. i \in 1 .. n /\ starts'[i] = starts[i] /\ sizes'[i] = sizes[i]
        BY <3>1
      <4>2. CASE j \in 1 .. n
        <5>1. starts'[j] = starts[j]
          BY <4>2, <3>1
        <5>2. starts[i] + WireSize(sizes[i]) <= starts[j]
          BY <4>1, <4>2, <3>3
        <5> QED
          BY <4>1, <5>1, <5>2
      <4>3. CASE j = n + 1
        <5>1. starts'[j] = total + 1
          BY <4>3, <3>1
        <5>2. starts[i] + WireSize(sizes[i]) <= total + 1
          BY <4>1, <3>3
        <5> QED
          BY <4>1, <5>1, <5>2
      <4> QED
        BY <4>2, <4>3, <3>4
    <3>7. \A i \in 1 .. n : starts'[i + 1] = starts'[i] + WireSize(sizes'[i])
      <4> SUFFICES ASSUME NEW i \in 1 .. n
                   PROVE  starts'[i + 1] = starts'[i] + WireSize(sizes'[i])
        OBVIOUS
      <4>1. CASE i = n
        BY <4>1, <3>1, <3>2, <3>3
      <4>2. CASE i \in 1 .. n - 1
        <5>1. i + 1 \in 1 .. n
          BY <4>2, <3>1
        <5> QED
          BY <4>2, <5>1, <3>1, <3>3
      <4> QED
        BY <4>1, <4>2, <3>1
    <3>8. starts'[n + 1] + WireSize(sizes'[n + 1]) = total' + 1
      BY <3>1
    <3> QED
      BY <3>1, <3>5, <3>6, <3>7, <3>8 DEF Chained, WireSize, n
  <2> QED
    BY <2>1, <2>2 DEF Next, vars, peerVars, HangUp, Receive, Recv, RecvEnd,
                      RecvNoRoom, Extract, ExtractEnd, Closed
<1> QED
  BY <1>1, <1>2, TypeCorrect, PTL DEF SafeSpec

\* While the loop looks at the buffer, the size it reads is the size of the
\* first packet that has not been taken out.
LEMMA ClaimedIsNext ==
    ASSUME TypeOK, Chained, Held, Aligned, pc = "extract"
    PROVE  Next1 \in 1 .. Len(sizes) /\ ClaimedSizes = {sizes[Next1]}
<1>1. buffer_pos \in Nat /\ buffer_pos >= 4 /\ Base \in Nat /\ Base < total
  BY SizesAre DEF Held, Base, HeaderSize, TypeOK
<1>2. Next1 \in 1 .. Len(sizes) /\ starts[Next1] = Base + 1
  BY <1>1, LenProperties DEF Aligned, Next1, TypeOK
<1>3. buffer[3] = Base + 3 /\ buffer[4] = Base + 4
  BY <1>1 DEF Held
<1>4. \A i \in 1 .. Len(sizes) : starts[i] = Base + 1 => i = Next1
  <2> SUFFICES ASSUME NEW i \in 1 .. Len(sizes), starts[i] = Base + 1, i # Next1
               PROVE  FALSE
    OBVIOUS
  <2>1. starts[i] + WireSize(sizes[i]) > starts[i]
        /\ starts[Next1] + WireSize(sizes[Next1]) > starts[Next1]
    BY <1>2, ChainFacts
  <2>2. i < Next1 \/ Next1 < i
    BY <1>2
  <2>3. /\ i < Next1 => starts[i] + WireSize(sizes[i]) <= starts[Next1]
        /\ Next1 < i => starts[Next1] + WireSize(sizes[Next1]) <= starts[i]
    BY <1>2 DEF Chained
  <2> QED
    BY <1>1, <1>2, <2>1, <2>2, <2>3, ChainFacts
<1>5. HeadersAt(buffer[3], buffer[4]) = {Next1}
  <2>1. \A i \in 1 .. Len(sizes) :
          starts[i] + 2 = Base + 3 /\ starts[i] + 3 = Base + 4 <=> starts[i] = Base + 1
    BY <1>1, ChainFacts
  <2> QED
    BY <1>2, <1>3, <1>4, <2>1 DEF HeadersAt
<1> QED
  BY <1>2, <1>5 DEF ClaimedSizes

\* A packet taken out is the first that was not yet, to the byte.
LEMMA ExtractTakesNext ==
    ASSUME TypeOK, Chained, Held, Aligned, Extract
    PROVE  /\ Next1 \in 1 .. Len(sizes)
           /\ sizes[Next1] \in Nat /\ 4 <= sizes[Next1] /\ sizes[Next1] <= buffer_pos
           /\ WireSize(sizes[Next1]) = sizes[Next1]
           /\ packets' = Append(packets, Written(Next1))
           /\ \A k \in 1 .. buffer_pos - sizes[Next1] :
                  buffer'[k] = buffer[k + sizes[Next1]]
           /\ buffer_pos' = buffer_pos - sizes[Next1]
           /\ pc' = IF buffer_pos' < HeaderSize THEN "recv" ELSE "extract"
           /\ taken' = taken /\ UNCHANGED peerVars
<1>1. pc = "extract"
  BY DEF Extract
<1>2. Next1 \in 1 .. Len(sizes) /\ ClaimedSizes = {sizes[Next1]}
  BY <1>1, ClaimedIsNext
<1> DEFINE size == sizes[Next1]
<1>3. /\ size # 0 /\ buffer_pos >= size
      /\ packets' = Append(packets, [k \in 1 .. size |-> buffer[k]])
      /\ buffer' = [k \in 1 .. Cap |-> IF k <= buffer_pos - size
                                       THEN buffer[k + size] ELSE buffer[k]]
      /\ buffer_pos' = buffer_pos - size
      /\ pc' = IF buffer_pos - size < HeaderSize THEN "recv" ELSE "extract"
  BY <1>2 DEF Extract
<1>4. size \in Nat /\ 4 <= size /\ WireSize(size) = size
  BY <1>2, <1>3, ChainFacts
<1>5. buffer_pos \in 0 .. Cap /\ Cap \in Nat /\ taken \in Nat /\ buffer_pos <= taken
  BY SizesAre DEF TypeOK, Held
<1>6. [k \in 1 .. size |-> buffer[k]] = Written(Next1)
  <2>1. starts[Next1] = Base + 1 /\ Base \in Nat
    BY <1>2, <1>5, LenProperties DEF Aligned, Base, TypeOK
  <2>2. \A k \in 1 .. size : buffer[k] = starts[Next1] + k - 1
    BY <2>1, <1>3, <1>4, <1>5 DEF Held
  <2> QED
    BY <2>2 DEF Written
<1>7. \A k \in 1 .. buffer_pos - size : buffer'[k] = buffer[k + size]
  BY <1>3, <1>4, <1>5
<1>8. taken' = taken /\ UNCHANGED peerVars
  BY DEF Extract
<1> QED
  BY <1>2, <1>3, <1>4, <1>6, <1>7, <1>8
-----------------------------------------------------------------------------
\* What the buffer holds is a piece of the stream that begins with a packet.
HeldAligned == Held /\ Aligned

LEMMA HeldInductive ==
    ASSUME TypeOK, TypeOK', Chained, HeldAligned, [Next]_vars
    PROVE  Held'
<1> USE SizesAre DEF HeldAligned
<1>1. buffer_pos \in Nat /\ taken \in Nat /\ buffer_pos <= taken /\ buffer_pos <= Cap
  BY DEF TypeOK, Held
<1>2. CASE UNCHANGED <<taken, buffer, buffer_pos>> /\ (pc' = pc \/ pc' # "extract")
  BY <1>2 DEF Held, Base
<1>3. ASSUME NEW n \in 1 .. Cap, Recv(n) PROVE Held'
  <2>1. n \in Nat /\ n <= Cap - buffer_pos
    BY <1>3, RecvFits
  <2>2. /\ taken' = taken + n /\ buffer_pos' = buffer_pos + n
        /\ buffer' = [k \in 1 .. Cap |->
                        IF k > buffer_pos /\ k <= buffer_pos + n
                        THEN taken + k - buffer_pos ELSE buffer[k]]
        /\ pc' = IF buffer_pos + n < HeaderSize THEN "recv" ELSE "extract"
    BY <1>3 DEF Recv
  <2>3. Base' = Base /\ Base \in Nat
    BY <1>1, <2>1, <2>2 DEF Base
  <2>4. ASSUME NEW k \in 1 .. buffer_pos' PROVE buffer'[k] = Base' + k
    <3>1. k \in 1 .. Cap
      BY <1>1, <2>1, <2>2
    <3>2. CASE k <= buffer_pos
      BY <1>1, <2>1, <2>2, <2>3, <3>1, <3>2 DEF Held
    <3>3. CASE k > buffer_pos
      BY <1>1, <2>1, <2>2, <2>3, <3>1, <3>3 DEF Base
    <3> QED
      BY <1>1, <3>1, <3>2, <3>3
  <2>5. buffer_pos' <= taken' /\ (pc' = "extract" => buffer_pos' >= HeaderSize)
    BY <1>1, <2>1, <2>2
  <2> QED
    BY <2>4, <2>5 DEF Held
<1>4. CASE Extract
  <2>1. /\ sizes[Next1] \in Nat /\ sizes[Next1] <= buffer_pos
        /\ \A k \in 1 .. buffer_pos - sizes[Next1] :
              buffer'[k] = buffer[k + sizes[Next1]]
        /\ buffer_pos' = buffer_pos - sizes[Next1]
        /\ pc' = IF buffer_pos' < HeaderSize THEN "recv" ELSE "extract"
        /\ taken' = taken
    BY <1>4, ExtractTakesNext
  <2>2. \A k \in 1 .. buffer_pos : buffer[k] = Base + k
    BY DEF Held
  <2> DEFINE size == sizes[Next1]
  <2> HIDE DEF size
  <2>3. Base' = Base + size /\ Base \in Nat
    BY <1>1, <2>1 DEF Base, size
  <2>4. ASSUME NEW k \in 1 .. buffer_pos' PROVE buffer'[k] = Base' + k
    <3>1. k \in 1 .. buffer_pos - size /\ k + size \in 1 .. buffer_pos
          /\ size \in Nat
      BY <1>1, <2>1 DEF size
    <3>2. buffer'[k] = buffer[k + size]
      BY <2>1, <3>1 DEF size
    <3> QED
      BY <2>2, <2>3, <3>1, <3>2
  <2>5. buffer_pos' <= taken' /\ (pc' = "extract" => buffer_pos' >= HeaderSize)
    BY <1>1, <2>1
  <2> QED
    BY <2>4, <2>5 DEF Held
<1> QED
  BY <1>2, <1>3, <1>4 DEF Next, vars, peerVars, Send, HangUp, Receive, RecvEnd,
                          RecvNoRoom, ExtractEnd, Closed

LEMMA AlignedInductive ==
    ASSUME TypeOK, TypeOK', Chained, HeldAligned, [Next]_vars
    PROVE  Aligned'
<1> USE DEF HeldAligned
<1>1. /\ buffer_pos \in Nat /\ taken \in Nat /\ buffer_pos <= taken /\ total \in Nat
      /\ Len(packets) \in Nat /\ Len(sizes) \in Nat /\ packets \in Seq(Seq(Nat))
  BY SizesAre, LenProperties DEF TypeOK, Held
<1>2. /\ Len(packets) <= Len(sizes)
      /\ Next1 <= Len(sizes) => starts[Next1] = Base + 1
      /\ Next1 > Len(sizes) => Base = total
  BY DEF Aligned
<1>3. CASE UNCHANGED <<sizes, starts, total, packets>> /\ Base' = Base
  BY <1>2, <1>3 DEF Aligned, Next1
<1>4. ASSUME NEW s \in Sizes, Send(s) PROVE Aligned'
  <2>1. /\ Len(sizes') = Len(sizes) + 1 /\ starts'[Len(sizes) + 1] = total + 1
        /\ \A i \in 1 .. Len(sizes) : starts'[i] = starts[i]
    BY <1>4, SendAppends
  <2>2. packets' = packets /\ Base' = Base /\ Next1' = Next1
    BY <1>4 DEF Send, Base, Next1
  <2>3. Next1 = Len(packets) + 1
    BY DEF Next1
  <2>4. CASE Next1 \in 1 .. Len(sizes)
    BY <1>1, <1>2, <2>1, <2>2, <2>4 DEF Aligned
  <2>5. CASE Next1 = Len(sizes) + 1
    BY <1>1, <1>2, <2>1, <2>2, <2>5 DEF Aligned
  <2> QED
    BY <1>1, <1>2, <2>3, <2>4, <2>5
<1>5. ASSUME NEW n \in 1 .. Cap, Recv(n) PROVE Aligned'
  <2>1. n \in Nat
    BY <1>5, RecvFits
  <2>2. Base' = Base
    BY <1>1, <1>5, <2>1 DEF Recv, Base
  <2> QED
    BY <1>3, <1>5, <2>2 DEF Recv, peerVars
<1>6. CASE Extract
  <2>1. /\ Next1 \in 1 .. Len(sizes) /\ sizes[Next1] \in Nat
        /\ WireSize(sizes[Next1]) = sizes[Next1]
        /\ packets' = Append(packets, Written(Next1))
        /\ buffer_pos' = buffer_pos - sizes[Next1]
        /\ taken' = taken /\ UNCHANGED peerVars
    BY <1>6, ExtractTakesNext
  <2>2. Len(packets') = Len(packets) + 1
    BY <1>1, <2>1
  <2>3. Base' = starts[Next1] + WireSize(sizes[Next1]) - 1
    BY <1>1, <1>2, <2>1 DEF Base
  <2>4. starts[Next1] \in Nat
    BY <2>1, ChainFacts
  <2>5. CASE Next1 \in 1 .. Len(sizes) - 1
    <3>1. starts[Next1 + 1] = starts[Next1] + WireSize(sizes[Next1])
      BY <2>5 DEF Chained
    <3> QED
      BY <1>1, <2>1, <2>2, <2>3, <2>4, <2>5, <3>1 DEF Aligned, Next1, peerVars
  <2>6. CASE Next1 = Len(sizes)
    <3>1. starts[Next1] + WireSize(sizes[Next1]) = total + 1
      BY <1>1, <2>1, <2>6, ChainFacts DEF Chained
    <3> QED
      BY <1>1, <2>1, <2>2, <2>3, <2>4, <2>6, <3>1 DEF Aligned, Next1, peerVars
  <2> QED
    BY <1>1, <2>1, <2>5, <2>6
<1> QED
  BY <1>3, <1>4, <1>5, <1>6 DEF Next, vars, peerVars, HangUp, Receive, RecvEnd,
                                RecvNoRoom, ExtractEnd, Closed, Base

\* The inductive invariant the theorems below rest on.
IInv == TypeOK /\ Chained /\ HeldAligned

LEMMA IInvCorrect == SafeSpec => []IInv
<1>1. Init => HeldAligned
  BY SizesAre, EmptySeq DEF Init, HeldAligned, Held, Aligned, Base, Next1
<1>2. TypeOK /\ TypeOK' /\ Chained /\ HeldAligned /\ [Next]_vars => HeldAligned'
  BY HeldInductive, AlignedInductive DEF HeldAligned
<1> QED
  BY <1>1, <1>2, TypeCorrect, ChainedInductive, PTL DEF SafeSpec, IInv
-----------------------------------------------------------------------------
(***************************************************************************)
(* The packets taken out are those the peer sent: none missing, split,     *)
(* joined or out of order, to the byte (main.cpp:123-163).                 *)
(***************************************************************************)
THEOREM PacketsAreIntact == SafeSpec => []Intact
<1>1. Init => Intact
  BY EmptySeq DEF Init, Intact
<1>2. IInv /\ Intact /\ [Next]_vars => Intact'
  <2> SUFFICES ASSUME IInv, Intact, [Next]_vars PROVE Intact'
    OBVIOUS
  <2> USE DEF IInv, HeldAligned
  <2>1. /\ packets \in Seq(Seq(Nat)) /\ Len(packets) \in Nat /\ Len(sizes) \in Nat
        /\ DOMAIN packets = 1 .. Len(packets) /\ Len(packets) <= Len(sizes)
    BY LenProperties DEF TypeOK, Intact
  <2>2. \A i \in 1 .. Len(packets) : packets[i] = Written(i)
    BY <2>1 DEF Intact
  <2>3. CASE UNCHANGED <<sizes, starts, packets>>
    BY <2>3 DEF Intact, Written
  <2>4. ASSUME NEW s \in Sizes, Send(s) PROVE Intact'
    <3>1. /\ Len(sizes') = Len(sizes) + 1
          /\ \A i \in 1 .. Len(sizes) : sizes'[i] = sizes[i] /\ starts'[i] = starts[i]
      BY <2>4, SendAppends
    <3>2. packets' = packets
      BY <2>4 DEF Send
    <3>3. \A i \in 1 .. Len(packets) : Written(i)' = Written(i)
      <4> SUFFICES ASSUME NEW i \in 1 .. Len(packets) PROVE Written(i)' = Written(i)
        OBVIOUS
      <4>1. sizes'[i] = sizes[i] /\ starts'[i] = starts[i]
        BY <2>1, <3>1
      <4> QED
        BY <4>1 DEF Written
    <3> QED
      BY <2>1, <2>2, <3>1, <3>2, <3>3 DEF Intact
  <2>5. CASE Extract
    <3>1. /\ Next1 \in 1 .. Len(sizes)
          /\ packets' = Append(packets, Written(Next1))
          /\ sizes' = sizes /\ starts' = starts
          /\ sizes[Next1] \in Nat /\ sizes[Next1] <= buffer_pos
      BY <2>5, ExtractTakesNext DEF peerVars
    <3>2. Written(Next1) \in Seq(Nat) /\ packets' \in Seq(Seq(Nat))
      BY <2>1, <3>1, WrittenIsSeq, AppendProperties
    <3>3. /\ Len(packets') = Len(packets) + 1
          /\ DOMAIN packets' = 1 .. Len(packets) + 1
          /\ \A i \in 1 .. Len(packets) : packets'[i] = packets[i]
          /\ packets'[Len(packets) + 1] = Written(Len(packets) + 1)
      BY <2>1, <3>1, <3>2, AppendProperties, LenProperties DEF Next1
    <3>4. \A i \in 1 .. Len(packets) + 1 : Written(i)' = Written(i)
      BY <3>1 DEF Written
    <3>5. \A i \in 1 .. Len(packets) + 1 : packets'[i] = Written(i)
      BY <2>1, <2>2, <3>3
    <3> QED
      BY <2>1, <3>1, <3>3, <3>4, <3>5 DEF Intact, Next1
  <2> QED
    BY <2>3, <2>4, <2>5 DEF Next, vars, peerVars, HangUp, Receive, Recv, RecvEnd,
                            RecvNoRoom, ExtractEnd, Closed
<1> QED
  BY <1>1, <1>2, IInvCorrect, PTL DEF SafeSpec

(***************************************************************************)
(* No pass over the buffer leaves a whole packet in it for a later one     *)
(* (main.cpp:96-102, 134-163).                                             *)
(***************************************************************************)
THEOREM NoWholePacketWaits == SafeSpec => []NoWholePacketLeft
<1>1. Init => NoWholePacketLeft
  BY EmptySeq DEF Init, NoWholePacketLeft
<1>2. IInv /\ NoWholePacketLeft /\ [Next]_vars => NoWholePacketLeft'
  <2> SUFFICES ASSUME IInv, NoWholePacketLeft, [Next]_vars PROVE NoWholePacketLeft'
    OBVIOUS
  <2> USE DEF IInv, HeldAligned
  <2>1. /\ Len(packets) \in Nat /\ Len(sizes) \in Nat /\ DOMAIN sizes = 1 .. Len(sizes)
        /\ buffer_pos \in Nat
    BY SizesAre, LenProperties DEF TypeOK
  <2>2. (pc = "recv" /\ Next1 \in 1 .. Len(sizes) /\ sizes[Next1] # 0) =>
            buffer_pos < sizes[Next1]
    BY <2>1 DEF NoWholePacketLeft, Next1
  <2>3. CASE UNCHANGED <<sizes, packets, buffer_pos>> /\ (pc' = pc \/ pc' # "recv")
    BY <2>3 DEF NoWholePacketLeft
  <2>4. ASSUME NEW s \in Sizes, Send(s) PROVE NoWholePacketLeft'
    <3>1. /\ Len(sizes') = Len(sizes) + 1 /\ sizes'[Len(sizes) + 1] = s
          /\ \A i \in 1 .. Len(sizes) : sizes'[i] = sizes[i]
      BY <2>4, SendAppends
    <3>2. packets' = packets /\ pc' = pc /\ buffer_pos' = buffer_pos
      BY <2>4 DEF Send
    <3>3. sizes' \in Seq(Sizes) /\ DOMAIN sizes' = 1 .. Len(sizes) + 1
      <4>1. sizes' \in Seq(Sizes)
        BY <2>4, AppendProperties DEF Send, TypeOK
      <4> QED
        BY <4>1, <3>1, LenProperties
    <3>4. CASE Next1 \in 1 .. Len(sizes)
      BY <2>1, <2>2, <3>1, <3>2, <3>3, <3>4 DEF NoWholePacketLeft, Next1
    <3>5. CASE Next1 = Len(sizes) + 1
      <4>1. buffer_pos = 0
        BY <2>1, <3>5 DEF TypeOK, Held, Aligned, Base
      <4>2. s \in Nat
        BY SizesAre
      <4> QED
        BY <2>1, <3>1, <3>2, <3>3, <3>5, <4>1, <4>2 DEF NoWholePacketLeft, Next1
    <3> QED
      BY <2>1, <3>4, <3>5 DEF Aligned, Next1
  <2>5. ASSUME NEW n \in 1 .. Cap, Recv(n) PROVE NoWholePacketLeft'
    <3>1. sizes' = sizes /\ packets' = packets
          /\ (pc' = "recv" => buffer_pos' < 4)
      BY <2>5 DEF Recv, peerVars, HeaderSize
    <3>2. buffer_pos' \in Nat
      BY <2>1, <2>5, RecvFits DEF Recv
    <3> QED
      BY <2>1, <3>1, <3>2, ChainFacts DEF NoWholePacketLeft
  <2>6. CASE Extract
    <3>1. /\ sizes' = sizes /\ (pc' = "recv" => buffer_pos' < 4)
          /\ buffer_pos' = buffer_pos - sizes[Next1] /\ sizes[Next1] \in Nat
      BY <2>6, ExtractTakesNext DEF peerVars, HeaderSize
    <3>2. \A i \in 1 .. Len(sizes) : sizes[i] # 0 => sizes[i] \in Nat /\ 4 <= sizes[i]
      BY ChainFacts
    <3> QED
      BY <2>1, <3>1, <3>2 DEF NoWholePacketLeft
  <2>7. CASE ExtractEnd
    <3>1. Next1 \in 1 .. Len(sizes) /\ ClaimedSizes = {sizes[Next1]}
      BY <2>7, ClaimedIsNext DEF ExtractEnd
    <3>2. sizes[Next1] = 0 \/ buffer_pos < sizes[Next1]
      BY <2>7, <3>1 DEF ExtractEnd
    <3> QED
      BY <2>7, <3>2 DEF ExtractEnd, NoWholePacketLeft, Next1, peerVars
  <2> QED
    BY <2>3, <2>4, <2>5, <2>6, <2>7 DEF Next, vars, peerVars, HangUp, Receive,
                                        RecvEnd, RecvNoRoom, Closed
<1> QED
  BY <1>1, <1>2, IInvCorrect, PTL DEF SafeSpec

(***************************************************************************)
(* A full buffer waits for room only when the peer has sent a header that  *)
(* claims 0: whatever else it sends, a connection is never read as closed  *)
(* because recv() was asked for nothing (main.cpp:93-94, 112-114).         *)
(***************************************************************************)
THEOREM OnlyErasedAtEnd == SafeSpec => []ErasedOnlyIfHungUp
<1> DEFINE Room == HonestSizes => (pc = "recv" => buffer_pos < Cap)
<1>1. IInv /\ NoWholePacketLeft => Room
  <2> SUFFICES ASSUME IInv, NoWholePacketLeft, HonestSizes, pc = "recv"
               PROVE  buffer_pos < Cap
    OBVIOUS
  <2> USE DEF IInv, HeldAligned
  <2>1. /\ Len(packets) \in Nat /\ Len(sizes) \in Nat /\ DOMAIN sizes = 1 .. Len(sizes)
        /\ buffer_pos \in Nat /\ taken \in Nat /\ total \in Nat /\ taken <= total
    BY SizesAre, LenProperties DEF TypeOK
  <2>2. CASE Next1 \in 1 .. Len(sizes)
    <3>1. sizes[Next1] # 0 /\ buffer_pos < sizes[Next1]
      BY <2>1, <2>2 DEF HonestSizes, NoWholePacketLeft, Next1
    <3>2. sizes[Next1] \in Nat /\ sizes[Next1] <= Cap
      BY <2>2, <3>1, ChainFacts
    <3> QED
      BY <2>1, <3>1, <3>2, SizesAre
  <2>3. CASE Next1 > Len(sizes)
    <3>1. buffer_pos = 0
      BY <2>1, <2>3 DEF Held, Aligned, Base
    <3> QED
      BY <3>1, SizesAre DEF HeaderSize
  <2> QED
    BY <2>1, <2>2, <2>3 DEF Next1
<1>2. Init => ErasedOnlyIfHungUp
  BY SizesAre DEF Init, ErasedOnlyIfHungUp, HeaderSize
<1>3. IInv /\ Room /\ Room' /\ ErasedOnlyIfHungUp /\ [Next]_vars => ErasedOnlyIfHungUp'
  <2> SUFFICES ASSUME IInv, Room, Room', ErasedOnlyIfHungUp, [Next]_vars, HonestSizes'
               PROVE  ~erasedByUs'
    BY DEF ErasedOnlyIfHungUp
  <2>1. TypeOK /\ Chained /\ DOMAIN sizes = 1 .. Len(sizes) /\ Len(sizes) \in Nat
    BY LenProperties DEF IInv, TypeOK
  <2>2. HonestSizes
    <3>1. CASE sizes' = sizes
      BY <3>1 DEF HonestSizes
    <3>2. ASSUME NEW s \in Sizes, Send(s) PROVE HonestSizes
      <4>1. /\ Len(sizes') = Len(sizes) + 1
            /\ \A i \in 1 .. Len(sizes) : sizes'[i] = sizes[i]
        BY <2>1, <3>2, SendAppends
      <4>2. DOMAIN sizes' = 1 .. Len(sizes) + 1
        <5>1. sizes' \in Seq(Sizes)
          BY <2>1, <3>2, AppendProperties DEF Send, TypeOK
        <5> QED
          BY <4>1, <5>1, LenProperties
      <4> QED
        BY <2>1, <4>1, <4>2 DEF HonestSizes
    <3> QED
      BY <3>1, <3>2 DEF Next, vars, peerVars, HangUp, Receive, Recv, RecvEnd,
                        RecvNoRoom, Extract, ExtractEnd, Closed
  <2>3. ~erasedByUs
    BY <2>2 DEF ErasedOnlyIfHungUp
  <2>4. ~RecvNoRoom
    BY <2>1, <2>2, SizesAre DEF RecvNoRoom, TypeOK
  <2> QED
    BY <2>3, <2>4 DEF Next, vars, peerVars, Send, HangUp, Receive, Recv, RecvEnd,
                      Extract, ExtractEnd, Closed
<1> HIDE DEF Room
<1> QED
  BY <1>1, <1>2, <1>3, IInvCorrect, NoWholePacketWaits, PTL DEF SafeSpec
=============================================================================
