---------------------------- MODULE ServerProofs ----------------------------
(***************************************************************************)
(* Server for any number of clients, requests and workers: the types, that *)
(* a request is handled once, that a connection has one owner, that a pass *)
(* polls all, and that a connection is destroyed only by the poll loop or  *)
(* with the process.                                                       *)
(***************************************************************************)
EXTENDS Server, SequenceTheorems, FiniteSetTheorems, TLAPS

(***************************************************************************)
(* What taking away from and adding to the stacks and the vector does to   *)
(* their elements.                                                         *)
(***************************************************************************)
LEMMA AppendedElements ==
    ASSUME NEW S, NEW s \in Seq(S), NEW x \in S
    PROVE  /\ Append(s, x) \in Seq(S)
           /\ Range(Append(s, x)) = Range(s) \cup {x}
           /\ IsInjective(s) /\ x \notin Range(s) => IsInjective(Append(s, x))
<1>1. /\ Append(s, x) \in Seq(S)
      /\ DOMAIN s = 1 .. Len(s) /\ Len(s) \in Nat
      /\ DOMAIN Append(s, x) = 1 .. Len(s) + 1
      /\ \A i \in 1 .. Len(s) : Append(s, x)[i] = s[i]
      /\ Append(s, x)[Len(s) + 1] = x
  BY AppendProperties, LenProperties
<1> QED
  BY <1>1 DEF Range, IsInjective

LEMMA ConcatenatedElements ==
    ASSUME NEW S, NEW s \in Seq(S), NEW t \in Seq(S)
    PROVE  /\ s \o t \in Seq(S)
           /\ Range(s \o t) = Range(s) \cup Range(t)
           /\ IsInjective(s \o t) <=> /\ IsInjective(s) /\ IsInjective(t)
                                      /\ Range(s) \cap Range(t) = {}
<1>1. /\ s \o t \in Seq(S)
      /\ DOMAIN s = 1 .. Len(s) /\ DOMAIN t = 1 .. Len(t)
      /\ Len(s) \in Nat /\ Len(t) \in Nat
      /\ DOMAIN (s \o t) = 1 .. Len(s) + Len(t)
      /\ \A i \in 1 .. Len(s) : (s \o t)[i] = s[i]
      /\ \A i \in 1 .. Len(t) : (s \o t)[Len(s) + i] = t[i]
  BY ConcatProperties, LenProperties
<1>2. \A k \in 1 .. Len(s) + Len(t) : k \in 1 .. Len(s) \/ \E i \in 1 .. Len(t) : k = Len(s) + i
  <2> SUFFICES ASSUME NEW k \in 1 .. Len(s) + Len(t), k \notin 1 .. Len(s)
               PROVE  k - Len(s) \in 1 .. Len(t) /\ k = Len(s) + (k - Len(s))
    OBVIOUS
  <2> QED
    BY <1>1
<1>3. /\ \A i \in 1 .. Len(s) : i \in DOMAIN (s \o t)
      /\ \A i \in 1 .. Len(t) : Len(s) + i \in DOMAIN (s \o t)
  BY <1>1
<1>4. Range(s \o t) = Range(s) \cup Range(t)
  BY RangeConcatenation
<1>5. ASSUME IsInjective(s \o t)
      PROVE  IsInjective(s) /\ IsInjective(t) /\ Range(s) \cap Range(t) = {}
  <2>1. IsInjective(s)
    BY <1>1, <1>3, <1>5 DEF IsInjective
  <2>2. IsInjective(t)
    <3> SUFFICES ASSUME NEW i \in 1 .. Len(t), NEW k \in 1 .. Len(t), t[i] = t[k]
                 PROVE  i = k
      BY <1>1 DEF IsInjective
    <3>1. Len(s) + i = Len(s) + k
      BY <1>1, <1>3, <1>5 DEF IsInjective
    <3> QED
      BY <3>1, <1>1
  <2>3. \A i \in 1 .. Len(s), k \in 1 .. Len(t) : s[i] # t[k]
    <3> SUFFICES ASSUME NEW i \in 1 .. Len(s), NEW k \in 1 .. Len(t), s[i] = t[k]
                 PROVE  FALSE
      OBVIOUS
    <3>1. i = Len(s) + k
      BY <1>1, <1>3, <1>5 DEF IsInjective
    <3> QED
      BY <3>1, <1>1
  <2> QED
    BY <2>1, <2>2, <2>3, <1>1 DEF Range
<1>6. ASSUME IsInjective(s), IsInjective(t), Range(s) \cap Range(t) = {}
      PROVE  IsInjective(s \o t)
  <2>1. \A i \in 1 .. Len(s), k \in 1 .. Len(t) : s[i] # t[k]
    BY <1>1, <1>6 DEF Range
  <2> SUFFICES ASSUME NEW a \in 1 .. Len(s) + Len(t), NEW b \in 1 .. Len(s) + Len(t),
                      (s \o t)[a] = (s \o t)[b]
               PROVE  a = b
    BY <1>1 DEF IsInjective
  <2>2. CASE a \in 1 .. Len(s) /\ b \in 1 .. Len(s)
    BY <1>1, <1>6, <2>2 DEF IsInjective
  <2>3. CASE a \notin 1 .. Len(s) /\ b \notin 1 .. Len(s)
    <3>1. PICK i \in 1 .. Len(t), k \in 1 .. Len(t) : a = Len(s) + i /\ b = Len(s) + k
      BY <1>2, <2>3
    <3>2. t[i] = t[k]
      BY <1>1, <3>1
    <3> QED
      BY <1>1, <1>6, <3>1, <3>2 DEF IsInjective
  <2>4. ASSUME NEW i \in 1 .. Len(s), NEW k \in 1 .. Len(t)
        PROVE  (s \o t)[i] # (s \o t)[Len(s) + k]
    BY <1>1, <2>1
  <2> QED
    BY <1>2, <2>2, <2>3, <2>4
<1> QED
  BY <1>1, <1>4, <1>5, <1>6

LEMMA ReversedElements ==
    ASSUME NEW S, NEW s \in Seq(S)
    PROVE  /\ Reverse(s) \in Seq(S)
           /\ Range(Reverse(s)) = Range(s)
           /\ IsInjective(s) => IsInjective(Reverse(s))
<1> DEFINE r == Reverse(s)
           n == Len(s)
<1>1. /\ n \in Nat /\ DOMAIN s = 1 .. n /\ DOMAIN r = 1 .. n
      /\ \A i \in 1 .. n : (n - i) + 1 \in 1 .. n /\ r[i] = s[(n - i) + 1]
      /\ \A i \in 1 .. n : s[i] \in S
  BY LenProperties, ElementOfSeq DEF Reverse
<1>2. r \in Seq(S)
  BY <1>1, IsASeq DEF Reverse
<1>3. \A i \in 1 .. n : \E k \in 1 .. n : i = (n - k) + 1
  <2> SUFFICES ASSUME NEW i \in 1 .. n
               PROVE  (n - i) + 1 \in 1 .. n /\ i = (n - ((n - i) + 1)) + 1
    OBVIOUS
  <2> QED
    BY <1>1
<1> HIDE DEF r, n
<1>4. Range(r) = Range(s)
  <2>1. \A i \in 1 .. n : \E k \in 1 .. n : r[i] = s[k]
    BY <1>1
  <2>2. \A i \in 1 .. n : \E k \in 1 .. n : s[i] = r[k]
    BY <1>1, <1>3
  <2>3. Range(r) = {r[i] : i \in 1 .. n} /\ Range(s) = {s[i] : i \in 1 .. n}
    BY <1>1 DEF Range
  <2> QED
    BY <2>1, <2>2, <2>3
<1>5. ASSUME IsInjective(s) PROVE IsInjective(r)
  <2> SUFFICES ASSUME NEW a \in 1 .. n, NEW b \in 1 .. n, r[a] = r[b]
               PROVE  a = b
    BY <1>1 DEF IsInjective
  <2>1. (n - a) + 1 = (n - b) + 1
    BY <1>1, <1>5 DEF IsInjective
  <2> QED
    BY <2>1, <1>1
<1> QED
  BY <1>2, <1>4, <1>5 DEF r

\* The top of a stack and what is below it.
LEMMA FrontAndLast ==
    ASSUME NEW S, NEW s \in Seq(S), s # <<>>
    PROVE  /\ Last(s) \in S /\ Front(s) \in Seq(S)
           /\ Range(s) = Range(Front(s)) \cup {Last(s)}
           /\ IsInjective(s) => IsInjective(Front(s)) /\ Last(s) \notin Range(Front(s))
<1> DEFINE f == Front(s)
           n == Len(s)
<1>1. n \in Nat \ {0} /\ DOMAIN s = 1 .. n /\ \A i \in 1 .. n : s[i] \in S
  BY LenProperties, ElementOfSeq, EmptySeq
<1>2. /\ f \in Seq(S) /\ Len(f) = n - 1
      /\ \A i \in 1 .. n - 1 : f[i] = s[i]
  <2>1. \A i \in 1 .. n - 1 : s[i] \in S
    BY <1>1
  <2>2. 1 \in Int /\ n - 1 \in Int /\ (n - 1) - 1 + 1 = n - 1
    BY <1>1
  <2> HIDE DEF n
  <2>3. /\ f \in Seq(S) /\ Len(f) = (IF 1 <= n - 1 THEN (n - 1) - 1 + 1 ELSE 0)
        /\ \A i \in 1 .. (n - 1) - 1 + 1 : f[i] = s[1 + i - 1]
    BY <2>1, <2>2, SubSeqProperties DEF Front, n
  <2> QED
    BY <1>1, <2>3
<1>3. DOMAIN f = 1 .. n - 1 /\ Last(s) = s[n]
  BY <1>2, LenProperties DEF Last
<1> HIDE DEF f, n
<1>4. Range(s) = Range(f) \cup {s[n]}
  BY <1>1, <1>2, <1>3 DEF Range
<1>5. IsInjective(s) => IsInjective(f) /\ s[n] \notin Range(f)
  BY <1>1, <1>2, <1>3 DEF Range, IsInjective
<1> QED
  BY <1>1, <1>2, <1>3, <1>4, <1>5 DEF f, n

\* An element leaves the vector; those behind it move up.
LEMMA RemovedAt ==
    ASSUME NEW S, NEW s \in Seq(S), NEW i \in DOMAIN s
    PROVE  /\ RemoveAt(s, i) \in Seq(S) /\ Len(RemoveAt(s, i)) = Len(s) - 1
           /\ \A k \in 1 .. i - 1 : RemoveAt(s, i)[k] = s[k]
           /\ \A k \in i .. Len(s) - 1 : RemoveAt(s, i)[k] = s[k + 1]
<1> DEFINE n == Len(s)
           a == SubSeq(s, 1, i - 1)
           b == SubSeq(s, i + 1, n)
<1>1. n \in Nat /\ DOMAIN s = 1 .. n /\ i \in 1 .. n /\ \A k \in 1 .. n : s[k] \in S
  BY LenProperties, ElementOfSeq
<1> HIDE DEF n
<1>2. /\ a \in Seq(S) /\ Len(a) = i - 1
      /\ \A k \in 1 .. i - 1 : a[k] = s[k]
  <2>1. \A k \in 1 .. i - 1 : s[k] \in S
    BY <1>1
  <2>2. /\ a \in Seq(S) /\ Len(a) = (IF 1 <= i - 1 THEN (i - 1) - 1 + 1 ELSE 0)
        /\ \A k \in 1 .. (i - 1) - 1 + 1 : a[k] = s[1 + k - 1]
    BY <1>1, <2>1, SubSeqProperties
  <2> QED
    BY <1>1, <2>2
<1>3. /\ b \in Seq(S) /\ Len(b) = n - i
      /\ \A k \in 1 .. n - i : b[k] = s[i + k]
  <2>1. \A k \in i + 1 .. n : s[k] \in S
    BY <1>1
  <2>2. /\ b \in Seq(S) /\ Len(b) = (IF i + 1 <= n THEN n - (i + 1) + 1 ELSE 0)
        /\ \A k \in 1 .. n - (i + 1) + 1 : b[k] = s[(i + 1) + k - 1]
    BY <1>1, <2>1, SubSeqProperties
  <2> QED
    BY <1>1, <2>2
<1>4. RemoveAt(s, i) = a \o b
  BY DEF RemoveAt, n
<1> HIDE DEF a, b
<1>5. /\ a \o b \in Seq(S) /\ Len(a \o b) = (i - 1) + (n - i)
      /\ \A k \in 1 .. (i - 1) + (n - i) :
           (a \o b)[k] = IF k <= i - 1 THEN a[k] ELSE b[k - (i - 1)]
  <2>1. /\ a \o b \in Seq(S) /\ Len(a \o b) = Len(a) + Len(b)
        /\ \A k \in 1 .. Len(a) + Len(b) :
             (a \o b)[k] = IF k <= Len(a) THEN a[k] ELSE b[k - Len(a)]
    BY <1>2, <1>3, ConcatProperties
  <2> QED
    BY <1>2, <1>3, <2>1
<1>6. \A k \in i .. n - 1 : (a \o b)[k] = s[k + 1]
  <2> SUFFICES ASSUME NEW k \in i .. n - 1 PROVE (a \o b)[k] = s[k + 1]
    OBVIOUS
  <2>1. /\ k - (i - 1) \in 1 .. n - i /\ i + (k - (i - 1)) = k + 1
        /\ k \in 1 .. (i - 1) + (n - i) /\ ~(k <= i - 1)
    BY <1>1
  <2>2. (a \o b)[k] = b[k - (i - 1)]
    BY <1>5, <2>1
  <2>3. b[k - (i - 1)] = s[i + (k - (i - 1))]
    BY <1>3, <2>1
  <2> QED
    BY <2>1, <2>2, <2>3
<1> QED
  BY <1>1, <1>2, <1>4, <1>5, <1>6 DEF n

LEMMA RemovedElement ==
    ASSUME NEW S, NEW s \in Seq(S), NEW i \in DOMAIN s
    PROVE  /\ Range(RemoveAt(s, i)) \cup {s[i]} = Range(s)
           /\ IsInjective(s) => /\ IsInjective(RemoveAt(s, i))
                                /\ s[i] \notin Range(RemoveAt(s, i))
<1> DEFINE r == RemoveAt(s, i)
           n == Len(s)
<1>1. n \in Nat /\ DOMAIN s = 1 .. n /\ i \in 1 .. n
  BY LenProperties
<1>2. /\ DOMAIN r = 1 .. n - 1
      /\ \A k \in 1 .. i - 1 : r[k] = s[k]
      /\ \A k \in i .. n - 1 : r[k] = s[k + 1]
  BY RemovedAt, LenProperties
<1> HIDE DEF r, n
<1>3. \A k \in 1 .. n - 1 : \E m \in 1 .. n : m # i /\ r[k] = s[m]
  <2> SUFFICES ASSUME NEW k \in 1 .. n - 1
               PROVE  \/ k \in 1 .. n /\ k # i /\ r[k] = s[k]
                      \/ k + 1 \in 1 .. n /\ k + 1 # i /\ r[k] = s[k + 1]
    OBVIOUS
  <2> QED
    BY <1>1, <1>2
<1>4. \A m \in 1 .. n : m # i => \E k \in 1 .. n - 1 : r[k] = s[m]
  <2> SUFFICES ASSUME NEW m \in 1 .. n, m # i
               PROVE  \/ m \in 1 .. n - 1 /\ r[m] = s[m]
                      \/ m - 1 \in 1 .. n - 1 /\ r[m - 1] = s[m]
    OBVIOUS
  <2>1. CASE m < i
    BY <1>1, <1>2, <2>1
  <2>2. CASE m > i
    <3>1. m - 1 \in i .. n - 1 /\ (m - 1) + 1 = m
      BY <1>1, <2>2
    <3> QED
      BY <1>1, <1>2, <3>1
  <2> QED
    BY <1>1, <2>1, <2>2
<1>5. Range(r) \cup {s[i]} = Range(s)
  <2>1. Range(r) = {r[k] : k \in 1 .. n - 1} /\ Range(s) = {s[k] : k \in 1 .. n}
    BY <1>1, <1>2 DEF Range
  <2>2. Range(r) \subseteq Range(s)
    BY <1>3, <2>1
  <2>3. \A m \in 1 .. n : m # i => s[m] \in Range(r)
    BY <1>4, <2>1
  <2> QED
    BY <1>1, <2>1, <2>2, <2>3
<1>6. ASSUME IsInjective(s) PROVE IsInjective(r) /\ s[i] \notin Range(r)
  <2>1. s[i] \notin Range(r)
    <3>1. \A k \in 1 .. n - 1 : r[k] # s[i]
      BY <1>1, <1>3, <1>6 DEF IsInjective
    <3> QED
      BY <1>2, <3>1 DEF Range
  <2>2. IsInjective(r)
    <3> SUFFICES ASSUME NEW a \in 1 .. n - 1, NEW b \in 1 .. n - 1, r[a] = r[b]
                 PROVE  a = b
      BY <1>2 DEF IsInjective
    <3> DEFINE Was(k) == IF k < i THEN k ELSE k + 1
    <3>1. \A k \in 1 .. n - 1 : Was(k) \in 1 .. n /\ r[k] = s[Was(k)]
      BY <1>1, <1>2
    <3>2. Was(a) = Was(b)
      BY <1>1, <1>6, <3>1 DEF IsInjective
    <3> QED
      BY <1>1, <3>2
  <2> QED
    BY <2>1, <2>2
<1> QED
  BY <1>5, <1>6 DEF r

\* The oldest of a queue and what is behind it.
LEMMA HeadAndTail ==
    ASSUME NEW S, NEW s \in Seq(S), s # <<>>
    PROVE  /\ Head(s) \in S /\ Tail(s) \in Seq(S)
           /\ Range(s) = Range(Tail(s)) \cup {Head(s)}
           /\ IsInjective(s) => IsInjective(Tail(s)) /\ Head(s) \notin Range(Tail(s))
<1> DEFINE t == Tail(s)
           n == Len(s)
<1>1. n \in Nat \ {0} /\ DOMAIN s = 1 .. n
  BY LenProperties, EmptySeq
<1>2. /\ Head(s) \in S /\ t \in Seq(S) /\ Len(t) = n - 1
      /\ \A i \in 1 .. n - 1 : t[i] = s[i + 1]
  BY HeadTailProperties
<1>3. DOMAIN t = 1 .. n - 1 /\ Head(s) = s[1]
  BY <1>2, LenProperties
<1> HIDE DEF t, n
<1>4. \A i \in 1 .. n : i = 1 \/ \E k \in 1 .. n - 1 : i = k + 1
  <2> SUFFICES ASSUME NEW i \in 1 .. n, i # 1
               PROVE  i - 1 \in 1 .. n - 1 /\ i = (i - 1) + 1
    OBVIOUS
  <2> QED
    BY <1>1
<1>5. Range(s) = {s[i] : i \in 1 .. n} /\ Range(t) = {t[i] : i \in 1 .. n - 1}
  BY <1>1, <1>3 DEF Range
<1>6. 1 \in 1 .. n /\ \A i \in 1 .. n - 1 : i + 1 \in 1 .. n /\ i + 1 # 1
  BY <1>1
<1>7. Range(s) = Range(t) \cup {s[1]}
  BY <1>2, <1>4, <1>5, <1>6
<1>8. ASSUME IsInjective(s) PROVE IsInjective(t) /\ s[1] \notin Range(t)
  <2>1. \A i, k \in 1 .. n : s[i] = s[k] => i = k
    BY <1>1, <1>8 DEF IsInjective
  <2>2. s[1] \notin Range(t)
    BY <1>2, <1>5, <1>6, <2>1
  <2>3. \A i, k \in 1 .. n - 1 : t[i] = t[k] => i + 1 = k + 1
    BY <1>2, <1>6, <2>1
  <2>4. \A i, k \in 1 .. n - 1 : t[i] = t[k] => i = k
    BY <1>1, <2>3
  <2> QED
    BY <1>3, <2>2, <2>4 DEF IsInjective
<1> QED
  BY <1>2, <1>3, <1>7, <1>8 DEF t

LEMMA EmptyElements == Range(<<>>) = {} /\ IsInjective(<<>>)
BY DEF Range, IsInjective
-----------------------------------------------------------------------------
(***************************************************************************)
(* Types and requests.  A worker that reads a live buffer finds a request  *)
(* there because the packet it works for was once taken out of it.         *)
(***************************************************************************)
Begun == begun <= Len(submitted) /\ done \subseteq Range(submitted)

\* Requests are taken out of a buffer when all of them is in it.
Arrived ==
    \A c \in Clients : rcvd[c] <= body[c] /\ body[c] <= head[c] /\ head[c] <= sent[c]

RequestInv == TypeOK /\ HandledOnce /\ Begun /\ Arrived

\* The whole requests that one recv() completes.
New(c, n) == [i \in 1 .. n - rcvd[c] |-> <<c, rcvd[c] + i>>]

LEMMA NewElements ==
    ASSUME TypeOK, NEW c \in Clients, NEW n \in rcvd[c] .. sent[c]
    PROVE  /\ New(c, n) \in Seq(Packets)
           /\ IsInjective(New(c, n))
           /\ Range(New(c, n)) = {<<c, r>> : r \in rcvd[c] + 1 .. n}
<1> DEFINE m == rcvd[c]
<1>1. m \in Nat /\ n \in Nat /\ m <= n /\ n <= MaxReq /\ MaxReq \in Nat
  BY ServerAssumption DEF TypeOK
<1> HIDE DEF m
<1>2. New(c, n) = [i \in 1 .. n - m |-> <<c, m + i>>]
  BY DEF New, m
<1>3. \A i \in 1 .. n - m : <<c, m + i>> \in Packets
  BY <1>1 DEF Packets, Requests
<1>4. n - m \in Nat
  BY <1>1
<1>5. [i \in 1 .. n - m |-> <<c, m + i>>] \in Seq(Packets)
  BY <1>3, <1>4, IsASeq
<1>6. IsInjective([i \in 1 .. n - m |-> <<c, m + i>>])
  BY <1>1 DEF IsInjective
<1>7. \A r \in m + 1 .. n : r - m \in 1 .. n - m /\ r = m + (r - m)
  BY <1>1
<1>8. \A i \in 1 .. n - m : m + i \in m + 1 .. n
  BY <1>1
<1>9. Range([i \in 1 .. n - m |-> <<c, m + i>>]) = {<<c, r>> : r \in m + 1 .. n}
  BY <1>7, <1>8 DEF Range
<1> QED
  BY <1>2, <1>5, <1>6, <1>9 DEF m

\* A packet a worker holds has been taken out of its connection's buffer.
LEMMA RunningIsTaken ==
    ASSUME RequestInv, NEW p \in Packets, p \in Pool!Running
    PROVE  /\ p \in Range(submitted) /\ p \notin done
           /\ p = <<p[1], p[2]>> /\ p[1] \in Clients /\ p[2] \in Requests
           /\ pc # "over" => p[2] \in 1 .. rcvd[p[1]]
<1>1. p \in Range(submitted) /\ p \notin done
  <2>1. PICK i \in 1 .. begun : p = submitted[i]
    BY DEF Pool!Running, Pool!Begun
  <2>2. i \in DOMAIN submitted
    BY <2>1, LenProperties DEF RequestInv, TypeOK, Begun
  <2> QED
    BY <2>1, <2>2 DEF Range, Pool!Running
<1>2. p = <<p[1], p[2]>> /\ p[1] \in Clients /\ p[2] \in Requests
  BY DEF Packets
<1> QED
  BY <1>1, <1>2 DEF RequestInv, HandledOnce

\* So its payload is in the buffer, and its reply is one.
LEMMA RunningHasReply ==
    ASSUME RequestInv, pc # "over", NEW p \in Packets, p \in Pool!Running, kind[p] # 0
    PROVE  Reply(p) \in Replies
<1>1. p[1] \in Clients /\ p[2] \in 1 .. rcvd[p[1]]
  BY RunningIsTaken
<1>2. rcvd[p[1]] \in 0 .. MaxReq /\ body[p[1]] \in 0 .. MaxReq /\ rcvd[p[1]] <= body[p[1]]
  BY <1>1 DEF RequestInv, TypeOK, Arrived
<1>3. body[p[1]] \in Requests
  BY <1>1, <1>2, ServerAssumption DEF Requests
<1>4. kind[p] \in Requests
  BY ServerAssumption DEF RequestInv, TypeOK, Requests
<1> QED
  BY <1>3, <1>4 DEF Reply, Replies

LEMMA InitRequests == Init => RequestInv
<1> SUFFICES ASSUME Init PROVE RequestInv
  OBVIOUS
<1> USE ServerAssumption DEF Init
<1>1. TypeOK
  <2>1. /\ <<>> \in Seq(Clients) /\ <<>> \in Seq(Packets) /\ <<>> \in Seq(Replies)
        /\ 0 \in 0 .. MaxReq
    BY EmptySeq
  <2>2. /\ sent \in [Clients -> 0 .. MaxReq] /\ rcvd \in [Clients -> 0 .. MaxReq]
        /\ head \in [Clients -> 0 .. MaxReq] /\ body \in [Clients -> 0 .. MaxReq]
        /\ kind \in [Packets -> 0 .. MaxReq] /\ inbox \in [Clients -> Seq(Replies)]
        /\ fd \in [Clients -> {0} \cup Fds]
        /\ peer \in [Clients -> {"away", "up", "gone"}]
    BY <2>1
  <2>3. /\ backlog \in Seq(Clients) /\ pending \in Seq(Clients)
        /\ active \in Seq(Clients) /\ completed \in Seq(Packets)
        /\ submitted \in Seq(Packets)
    BY <2>1
  <2>4. /\ acceptor \in Clients \cup {None} /\ it \in Nat \ {0} /\ begun \in Nat
        /\ pc \in {"receive", "handle", "pending", "exit", "stuck", "over"}
        /\ visited \in SUBSET Clients /\ roster \in SUBSET Clients
        /\ done \in SUBSET Packets
    OBVIOUS
  <2>5. early \in BOOLEAN /\ crashed \in BOOLEAN
    BY Zenon
  <2> QED
    BY <2>2, <2>3, <2>4, <2>5, Zenon DEF TypeOK
<1>2. HandledOnce
  BY EmptyElements DEF HandledOnce
<1>3. Begun /\ Arrived
  BY EmptySeq, EmptyElements DEF Begun, Arrived
<1> QED
  BY <1>1, <1>2, <1>3 DEF RequestInv

LEMMA NextTypes ==
    ASSUME RequestInv, [Next]_vars
    PROVE  TypeOK'
<1> USE ServerAssumption DEF RequestInv, TypeOK, clientVars, acceptVars, bufferVars,
        loopVars, poolVars, workVars
<1>1. CASE UNCHANGED vars
  BY <1>1 DEF vars
<1>2. ASSUME NEW c \in Clients, Connect(c) PROVE TypeOK'
  <2>1. backlog' \in Seq(Clients)
    BY <1>2, AppendProperties DEF Connect
  <2> QED
    BY <1>2, <2>1 DEF Connect
<1>3. ASSUME NEW c \in Clients, SendRequest(c) PROVE TypeOK'
  <2>1. sent' = [sent EXCEPT ![c] = @ + 1] /\ sent[c] < MaxReq
    BY <1>3 DEF SendRequest
  <2>2. sent[c] + 1 \in 0 .. MaxReq
    BY <2>1
  <2>3. sent' \in [Clients -> 0 .. MaxReq]
    BY <2>1, <2>2
  <2> QED
    BY <1>3, <2>3 DEF SendRequest
<1>4. ASSUME NEW c \in Clients, HangUp(c) PROVE TypeOK'
  <2>1. early' \in BOOLEAN
    BY <1>4, Zenon DEF HangUp
  <2> QED
    BY <1>4, <2>1 DEF HangUp
<1>5. ASSUME Accept PROVE TypeOK'
  <2>1. acceptor' \in Clients /\ backlog' \in Seq(Clients)
    BY <1>5, HeadTailProperties DEF Accept
  <2>2. fd' \in [Clients -> {0} \cup Fds]
    BY <1>5, HeadTailProperties DEF Accept
  <2> QED
    BY <1>5, <2>1, <2>2 DEF Accept
<1>6. ASSUME PushPending PROVE TypeOK'
  <2>1. pending' \in Seq(Clients)
    BY <1>6, AppendProperties DEF PushPending
  <2> QED
    BY <1>6, <2>1 DEF PushPending
<1>7. ASSUME NEW c \in Clients, ReceiveNothing(c) PROVE TypeOK'
  <2>1. it' \in Nat \ {0} /\ visited' \in SUBSET Clients
    BY <1>7 DEF ReceiveNothing
  <2> QED
    BY <1>7, <2>1 DEF ReceiveNothing
<1>8. ASSUME NEW c \in Clients, ReceiveData(c) PROVE TypeOK'
  <2>1. PICK n \in rcvd[c] .. sent[c], h \in Requests, b \in Requests :
           /\ rcvd' = [rcvd EXCEPT ![c] = n]
           /\ head' = [head EXCEPT ![c] = h]
           /\ body' = [body EXCEPT ![c] = b]
           /\ completed' = completed \o New(c, n)
    BY <1>8 DEF ReceiveData, New
  <2>2. completed' \in Seq(Packets)
    BY <2>1, NewElements, ConcatProperties
  <2>3. n \in 0 .. MaxReq /\ h \in 0 .. MaxReq /\ b \in 0 .. MaxReq
    BY DEF Requests
  <2>4. rcvd' \in [Clients -> 0 .. MaxReq] /\ head' \in [Clients -> 0 .. MaxReq]
        /\ body' \in [Clients -> 0 .. MaxReq]
    BY <2>1, <2>3
  <2>5. it' \in Nat \ {0} /\ visited' \in SUBSET Clients
    BY <1>8 DEF ReceiveData
  <2> QED
    BY <1>8, <2>2, <2>4, <2>5 DEF ReceiveData
<1>9. ASSUME NEW c \in Clients, ReceiveClosed(c) PROVE TypeOK'
  <2>1. it \in DOMAIN active
    BY <1>9, LenProperties DEF ReceiveClosed, Polling
  <2>2. active' \in Seq(Clients)
    BY <1>9, <2>1, RemovedAt DEF ReceiveClosed
  <2> QED
    BY <1>9, <2>2 DEF ReceiveClosed
<1>10. ASSUME ReceiveEnd \/ HandleEnd PROVE TypeOK'
  BY <1>10 DEF ReceiveEnd, HandleEnd
<1>11. ASSUME Dispatch PROVE TypeOK'
  <2>1. completed' \in Seq(Packets) /\ submitted' \in Seq(Packets)
    BY <1>11, FrontAndLast, AppendProperties DEF Dispatch, Pool!SubmitTask
  <2> QED
    BY <1>11, <2>1 DEF Dispatch, Pool!SubmitTask
<1>12. ASSUME HandlePending PROVE TypeOK'
  <2>1. active' \in Seq(Clients) /\ pending' \in Seq(Clients)
    BY <1>12, ReversedElements, ConcatProperties, EmptySeq DEF HandlePending
  <2>2. Range(active') \in SUBSET Clients
    BY <2>1, RangeOfSeq
  <2> QED
    BY <1>12, <2>1, <2>2 DEF HandlePending
<1>13. ASSUME Terminate PROVE TypeOK'
  BY <1>13 DEF Terminate
<1>14. ASSUME Exit PROVE TypeOK'
  BY <1>14, EmptySeq DEF Exit, Release
<1>15. ASSUME WorkerTake PROVE TypeOK'
  <2>1. begun' \in Nat
    BY <1>15 DEF WorkerTake, Pool!BeginTask
  <2> QED
    BY <1>15, <2>1 DEF WorkerTake, Pool!BeginTask
<1>16. ASSUME NEW p \in Packets, ReadType(p) PROVE TypeOK'
  <2>1. head[p[1]] \in 0 .. MaxReq
    BY DEF Packets
  <2> QED
    BY <1>16, <2>1 DEF ReadType
<1>17. ASSUME NEW p \in Packets, SendReply(p) PROVE TypeOK'
  <2>1. Reply(p) \in Replies
    BY <1>17, RunningHasReply DEF SendReply, Up, Pool!EndTask
  <2>2. inbox' \in [Clients -> Seq(Replies)]
    <3>1. p[1] \in Clients
      BY DEF Packets
    <3>2. Append(inbox[p[1]], Reply(p)) \in Seq(Replies)
      BY <2>1, <3>1, AppendProperties
    <3> QED
      BY <1>17, <3>2 DEF SendReply
  <2> QED
    BY <1>17, <2>2 DEF SendReply, Pool!EndTask
<1>18. ASSUME NEW p \in Packets, UseFreed(p) PROVE TypeOK'
  <2>1. /\ Up /\ p \in Pool!Running
        /\ UNCHANGED <<clientVars, acceptVars, bufferVars, loopVars, pending, active,
                       completed>>
    BY <1>18 DEF UseFreed
  <2>2. ASSUME NEW k \in Requests, kind' = [kind EXCEPT ![p] = k],
               UNCHANGED <<poolVars, inbox, crashed>>
        PROVE  TypeOK'
    <3>1. kind' \in [Packets -> 0 .. MaxReq]
      BY <2>2 DEF Requests
    <3> QED
      BY <2>1, <2>2, <3>1
  <2>3. ASSUME kind[p] # 0, NEW d \in Clients, NEW b \in Requests, Pool!EndTask(p),
               inbox' = [inbox EXCEPT ![d] = Append(@, [Reply(p) EXCEPT !.value = b])],
               UNCHANGED <<kind, crashed>>
        PROVE  TypeOK'
    <3>1. Reply(p) \in Replies
      BY <2>1, <2>3, RunningHasReply DEF Up
    <3>2. [Reply(p) EXCEPT !.value = b] \in Replies
      BY <3>1 DEF Replies
    <3>3. Append(inbox[d], [Reply(p) EXCEPT !.value = b]) \in Seq(Replies)
      BY <3>2, AppendProperties
    <3>4. inbox' \in [Clients -> Seq(Replies)]
      BY <2>3, <3>3
    <3> QED
      BY <2>1, <2>3, <3>4 DEF Pool!EndTask
  <2>4. ASSUME Pool!EndTask(p), UNCHANGED <<inbox, kind, crashed>>
        PROVE  TypeOK'
    BY <2>1, <2>4 DEF Pool!EndTask
  <2>5. ASSUME crashed' = TRUE, UNCHANGED <<poolVars, kind, inbox>>
        PROVE  TypeOK'
    BY <2>1, <2>5
  <2> QED
    BY <1>18, <2>2, <2>3, <2>4, <2>5 DEF UseFreed
<1> QED
  BY <1>1, <1>2, <1>3, <1>4, <1>5, <1>6, <1>7, <1>8, <1>9, <1>10, <1>11, <1>12, <1>13,
     <1>14, <1>15, <1>16, <1>17, <1>18
  DEF Next, ClientNext, AcceptThread, ServerThread, PacketNext, Stopped

LEMMA NextHandledOnce ==
    ASSUME RequestInv, [Next]_vars
    PROVE  HandledOnce'
<1> DEFINE Held == Range(completed) \cup Range(submitted)
<1> USE DEF RequestInv, clientVars, acceptVars, bufferVars, loopVars, poolVars, workVars
<1>1. CASE UNCHANGED <<completed, submitted, rcvd, pc>>
  BY <1>1 DEF HandledOnce
<1>2. ASSUME pc # "over", UNCHANGED <<completed, submitted, rcvd>>
      PROVE  HandledOnce'
  BY <1>2 DEF HandledOnce
<1>3. ASSUME NEW c \in Clients, ReceiveData(c) PROVE HandledOnce'
  <2>1. PICK n \in rcvd[c] .. sent[c] :
           /\ rcvd' = [rcvd EXCEPT ![c] = n]
           /\ completed' = completed \o New(c, n)
    BY <1>3 DEF ReceiveData, New
  <2>2. UNCHANGED submitted /\ pc = "receive" /\ UNCHANGED pc
    BY <1>3 DEF ReceiveData, Polling
  <2>3. /\ New(c, n) \in Seq(Packets) /\ IsInjective(New(c, n))
        /\ Range(New(c, n)) = {<<c, r>> : r \in rcvd[c] + 1 .. n}
    BY NewElements
  <2>4. /\ rcvd \in [Clients -> 0 .. MaxReq] /\ n \in Nat /\ n <= MaxReq /\ MaxReq \in Nat
        /\ rcvd[c] \in Nat /\ rcvd[c] <= n
    BY ServerAssumption DEF TypeOK
  <2>5. \A r \in rcvd[c] + 1 .. n : r \in Requests /\ r \notin 1 .. rcvd[c]
    BY <2>4 DEF Requests
  <2>6. \A d \in Clients : {r \in Requests : <<d, r>> \in Held} = 1 .. rcvd[d]
    BY <2>2 DEF HandledOnce
  <2>7. Range(New(c, n)) \cap Held = {}
    <3>1. \A r \in rcvd[c] + 1 .. n : <<c, r>> \notin Held
      BY <2>5, <2>6
    <3> QED
      BY <2>3, <3>1
  <2>8. /\ Range(completed') = Range(completed) \cup Range(New(c, n))
        /\ IsInjective(completed')
    <3>1. /\ Range(completed \o New(c, n)) = Range(completed) \cup Range(New(c, n))
          /\ IsInjective(completed \o New(c, n))
                <=> /\ IsInjective(completed) /\ IsInjective(New(c, n))
                    /\ Range(completed) \cap Range(New(c, n)) = {}
      BY <2>3, ConcatenatedElements DEF TypeOK
    <3> QED
      BY <2>1, <2>3, <2>7, <3>1 DEF HandledOnce
  <2>9. ASSUME NEW d \in Clients
        PROVE  {r \in Requests : <<d, r>> \in Held'} = 1 .. rcvd'[d]
    <3>1. Held' = Held \cup {<<c, r>> : r \in rcvd[c] + 1 .. n}
      BY <2>2, <2>3, <2>8
    <3>2. CASE d # c
      <4>1. \A r \in Requests : <<d, r>> \in Held' <=> <<d, r>> \in Held
        BY <3>1, <3>2
      <4>2. rcvd'[d] = rcvd[d]
        BY <2>1, <2>4, <3>2
      <4> QED
        BY <2>6, <4>1, <4>2
    <3>3. CASE d = c
      <4>1. \A r \in Requests : <<c, r>> \in Held' <=> r \in 1 .. rcvd[c] \/ r \in rcvd[c] + 1 .. n
        BY <2>6, <3>1
      <4>2. rcvd'[c] = n
        BY <2>1, <2>4
      <4>3. 1 .. n \subseteq Requests
        BY <2>4 DEF Requests
      <4> QED
        BY <2>4, <3>3, <4>1, <4>2, <4>3
    <3> QED
      BY <3>2, <3>3
  <2>10. Range(completed') \cap Range(submitted') = {} /\ IsInjective(submitted')
    BY <2>2, <2>7, <2>8 DEF HandledOnce
  <2> QED
    BY <2>8, <2>9, <2>10 DEF HandledOnce
<1>4. ASSUME Dispatch PROVE HandledOnce'
  <2>1. /\ completed # <<>> /\ completed' = Front(completed)
        /\ submitted' = Append(submitted, Last(completed))
        /\ UNCHANGED <<rcvd, pc>>
    BY <1>4 DEF Dispatch, Pool!SubmitTask
  <2>2. /\ Last(completed) \in Packets
        /\ Range(completed) = Range(Front(completed)) \cup {Last(completed)}
        /\ IsInjective(Front(completed)) /\ Last(completed) \notin Range(Front(completed))
    BY <2>1, FrontAndLast DEF TypeOK, HandledOnce
  <2>3. Last(completed) \notin Range(submitted)
    BY <2>2 DEF HandledOnce
  <2>4. /\ Range(submitted') = Range(submitted) \cup {Last(completed)}
        /\ IsInjective(submitted')
    BY <2>1, <2>2, <2>3, AppendedElements DEF TypeOK, HandledOnce
  <2>5. Held' = Held
    BY <2>1, <2>2, <2>4
  <2> QED
    BY <2>1, <2>2, <2>3, <2>4, <2>5 DEF HandledOnce
<1>5. ASSUME Exit PROVE HandledOnce'
  <2>1. completed' = <<>> /\ UNCHANGED submitted /\ pc' = "over"
    BY <1>5 DEF Exit, Release
  <2> QED
    BY <2>1, EmptyElements DEF HandledOnce
<1>6. ASSUME NEW c \in Clients, ClientNext(c) PROVE HandledOnce'
  BY <1>1, <1>6 DEF ClientNext, Connect, SendRequest, HangUp
<1>7. ASSUME AcceptThread PROVE HandledOnce'
  BY <1>1, <1>7 DEF AcceptThread, Accept, PushPending
<1>8. ASSUME NEW c \in Clients, ReceiveNothing(c) \/ ReceiveClosed(c) PROVE HandledOnce'
  BY <1>1, <1>8 DEF ReceiveNothing, ReceiveClosed
<1>9. ASSUME ReceiveEnd \/ HandleEnd \/ HandlePending \/ Terminate PROVE HandledOnce'
  BY <1>2, <1>9 DEF ReceiveEnd, HandleEnd, HandlePending, Terminate, Up
<1>10. ASSUME WorkerTake PROVE HandledOnce'
  BY <1>1, <1>10 DEF WorkerTake, Pool!BeginTask
<1>11. ASSUME NEW p \in Packets, PacketNext(p) PROVE HandledOnce'
  BY <1>1, <1>11 DEF PacketNext, ReadType, SendReply, UseFreed, Pool!EndTask
<1>12. CASE UNCHANGED vars
  BY <1>1, <1>12 DEF vars
<1> QED
  BY <1>3, <1>4, <1>5, <1>6, <1>7, <1>8, <1>9, <1>10, <1>11, <1>12
  DEF Next, ServerThread, Stopped

LEMMA NextRequests ==
    ASSUME RequestInv, [Next]_vars
    PROVE  RequestInv'
<1> USE DEF clientVars, acceptVars, bufferVars, loopVars, poolVars, workVars
<1>1. TypeOK' /\ HandledOnce'
  BY NextTypes, NextHandledOnce
<1>2. Arrived'
  <2>1. CASE UNCHANGED <<rcvd, body, head, sent>>
    BY <2>1 DEF RequestInv, Arrived
  <2>2. ASSUME NEW c \in Clients, ReceiveData(c) PROVE Arrived'
    <3>1. PICK n \in rcvd[c] .. sent[c], h \in Requests, b \in Requests :
             /\ b \in {n, n + 1} /\ b <= h /\ h <= sent[c]
             /\ rcvd' = [rcvd EXCEPT ![c] = n]
             /\ head' = [head EXCEPT ![c] = h]
             /\ body' = [body EXCEPT ![c] = b]
             /\ UNCHANGED sent
      BY <2>2 DEF ReceiveData
    <3>2. n \in Int /\ n <= b
      BY <3>1 DEF RequestInv, TypeOK
    <3> QED
      BY <3>1, <3>2 DEF RequestInv, TypeOK, Arrived
  <2>3. ASSUME NEW c \in Clients, SendRequest(c) PROVE Arrived'
    <3>1. sent' = [sent EXCEPT ![c] = @ + 1] /\ UNCHANGED <<rcvd, head, body>>
      BY <2>3 DEF SendRequest
    <3> QED
      BY <3>1 DEF RequestInv, TypeOK, Arrived
  <2>9. ASSUME NEW c \in Clients, Connect(c) \/ HangUp(c) PROVE Arrived'
    BY <2>1, <2>9 DEF Connect, HangUp
  <2>4. ASSUME AcceptThread \/ WorkerTake \/ Terminate PROVE Arrived'
    BY <2>1, <2>4 DEF AcceptThread, Accept, PushPending, WorkerTake, Terminate
  <2>5. ASSUME NEW c \in Clients, ReceiveNothing(c) \/ ReceiveClosed(c) PROVE Arrived'
    BY <2>1, <2>5 DEF ReceiveNothing, ReceiveClosed
  <2>6. ASSUME ReceiveEnd \/ Dispatch \/ HandleEnd \/ HandlePending \/ Exit PROVE Arrived'
    BY <2>1, <2>6 DEF ReceiveEnd, Dispatch, HandleEnd, HandlePending, Exit, Release
  <2>7. ASSUME NEW p \in Packets, PacketNext(p) PROVE Arrived'
    BY <2>1, <2>7 DEF PacketNext, ReadType, SendReply, UseFreed
  <2>8. CASE UNCHANGED vars
    BY <2>1, <2>8 DEF vars
  <2> QED
    BY <2>2, <2>3, <2>4, <2>5, <2>6, <2>7, <2>8, <2>9
    DEF Next, ClientNext, ServerThread, Stopped
<1>3. Begun'
  <2>1. CASE UNCHANGED <<submitted, begun, done>>
    BY <2>1 DEF RequestInv, Begun
  <2>2. ASSUME Dispatch PROVE Begun'
    <3>1. submitted' = Append(submitted, Last(completed)) /\ UNCHANGED <<begun, done>>
      BY <2>2 DEF Dispatch, Pool!SubmitTask
    <3>2. Last(completed) \in Packets
      BY <2>2, FrontAndLast DEF Dispatch, RequestInv, TypeOK
    <3>3. Len(submitted') = Len(submitted) + 1 /\ Len(submitted) \in Nat
      BY <3>1, <3>2, AppendProperties, LenProperties DEF RequestInv, TypeOK
    <3>4. Range(submitted) \subseteq Range(submitted')
      BY <3>1, <3>2, AppendedElements DEF RequestInv, TypeOK
    <3> QED
      BY <3>1, <3>3, <3>4 DEF RequestInv, TypeOK, Begun
  <2>3. ASSUME WorkerTake PROVE Begun'
    <3>1. /\ begun < Len(submitted) /\ begun' = begun + 1
          /\ UNCHANGED <<submitted, done>>
      BY <2>3 DEF WorkerTake, Pool!BeginTask
    <3>2. Len(submitted) \in Nat /\ begun \in Nat
      BY LenProperties DEF RequestInv, TypeOK
    <3> QED
      BY <3>1, <3>2 DEF RequestInv, Begun
  <2>4. ASSUME NEW c \in Clients, ClientNext(c) PROVE Begun'
    BY <2>1, <2>4 DEF ClientNext, Connect, SendRequest, HangUp
  <2>5. ASSUME AcceptThread \/ Terminate PROVE Begun'
    BY <2>1, <2>5 DEF AcceptThread, Accept, PushPending, Terminate
  <2>6. ASSUME NEW c \in Clients, ReceiveNothing(c) \/ ReceiveData(c) \/ ReceiveClosed(c)
        PROVE Begun'
    BY <2>1, <2>6 DEF ReceiveNothing, ReceiveData, ReceiveClosed
  <2>7. ASSUME ReceiveEnd \/ HandleEnd \/ HandlePending \/ Exit PROVE Begun'
    BY <2>1, <2>7 DEF ReceiveEnd, HandleEnd, HandlePending, Exit, Release
  <2>8. ASSUME NEW p \in Packets, PacketNext(p) PROVE Begun'
    <3>1. CASE Pool!EndTask(p)
      <4>1. /\ p \in Pool!Running /\ done' = done \cup {p}
            /\ UNCHANGED <<submitted, begun>>
        BY <3>1 DEF Pool!EndTask
      <4> QED
        BY <4>1, RunningIsTaken DEF RequestInv, Begun
    <3> QED
      BY <2>1, <2>8, <3>1 DEF PacketNext, ReadType, SendReply, UseFreed
  <2>9. CASE UNCHANGED vars
    BY <2>1, <2>9 DEF vars
  <2> QED
    BY <2>2, <2>3, <2>4, <2>5, <2>6, <2>7, <2>8, <2>9 DEF Next, ServerThread, Stopped
<1> QED
  BY <1>1, <1>2, <1>3 DEF RequestInv

(***************************************************************************)
(* The variables keep their types.                                         *)
(***************************************************************************)
THEOREM TypeCorrect == SafeSpec => []TypeOK
<1>1. RequestInv /\ [Next]_vars => RequestInv'
  BY NextRequests
<1>2. RequestInv => TypeOK
  BY DEF RequestInv
<1> QED
  BY <1>1, <1>2, InitRequests, PTL DEF SafeSpec

(***************************************************************************)
(* A request is in the stack of completed packets or with the pool, never  *)
(* both and never twice, and it is there as soon as it has been taken out  *)
(* of the buffer (main.cpp:25-38, 134-163).                                *)
(***************************************************************************)
THEOREM RequestsHandledOnce == SafeSpec => []HandledOnce
<1>1. RequestInv /\ [Next]_vars => RequestInv'
  BY NextRequests
<1>2. RequestInv => HandledOnce
  BY DEF RequestInv
<1> QED
  BY <1>1, <1>2, InitRequests, PTL DEF SafeSpec
-----------------------------------------------------------------------------
(***************************************************************************)
(* Owners.  A wrapper is made once because each client connects once and   *)
(* waits in the backlog until it is accepted, and its descriptor is free   *)
(* because only wrappers that exist hold one.                              *)
(***************************************************************************)
Connected ==
    /\ IsInjective(backlog)
    /\ \A c \in Range(backlog) : ~Alive(c) /\ peer[c] # "away"
    /\ \A c \in Clients : Alive(c) => peer[c] # "away"

OwnerInv == TypeOK /\ OneOwner /\ Connected

\* OneOwner, for the stack and the vector one by one.
Owners ==
    /\ IsInjective(pending) /\ IsInjective(active)
    /\ Range(pending) \cap Range(active) = {}
    /\ acceptor \notin Range(pending) \cup Range(active)
    /\ \A c, d \in Clients : Alive(c) /\ Alive(d) /\ fd[c] = fd[d] => c = d

LEMMA OwnersOneByOne == TypeOK => (OneOwner <=> Owners)
<1> SUFFICES ASSUME TypeOK PROVE OneOwner <=> Owners
  OBVIOUS
<1>1. /\ Range(pending \o active) = Range(pending) \cup Range(active)
      /\ IsInjective(pending \o active)
            <=> /\ IsInjective(pending) /\ IsInjective(active)
                /\ Range(pending) \cap Range(active) = {}
  BY ConcatenatedElements DEF TypeOK
<1> QED
  BY <1>1 DEF OneOwner, Owners

LEMMA InitOwners == Init => OwnerInv
<1> SUFFICES ASSUME Init PROVE OwnerInv
  OBVIOUS
<1>1. TypeOK
  BY InitRequests DEF RequestInv
<1>2. \A c \in Clients : ~Alive(c)
  BY EmptyElements, ServerAssumption DEF Init, Alive
<1>3. Owners
  BY <1>2, EmptyElements DEF Init, Owners
<1>4. Connected
  BY <1>2, EmptyElements DEF Init, Connected
<1> QED
  BY <1>1, <1>3, <1>4, OwnersOneByOne DEF OwnerInv

LEMMA NextOwners ==
    ASSUME OwnerInv, TypeOK', [Next]_vars
    PROVE  OwnerInv'
<1> USE DEF clientVars, acceptVars, bufferVars, loopVars, poolVars, workVars
<1> SUFFICES Owners' /\ Connected'
  <2>1. TypeOK' => (OneOwner' <=> Owners')
    BY OwnersOneByOne, PTL
  <2> QED
    BY <2>1 DEF OwnerInv
<1>0. TypeOK /\ Owners /\ Connected
  BY OwnersOneByOne DEF OwnerInv
<1>1. CASE UNCHANGED <<backlog, acceptor, pending, active, fd, peer>>
  <2>1. \A c : Alive(c)' <=> Alive(c)
    BY <1>1 DEF Alive
  <2> QED
    BY <1>0, <1>1, <2>1 DEF Owners, Connected
<1>2. ASSUME NEW c \in Clients, Connect(c) PROVE Owners' /\ Connected'
  <2>1. /\ peer[c] = "away" /\ peer' = [peer EXCEPT ![c] = "up"]
        /\ backlog' = Append(backlog, c)
        /\ UNCHANGED <<acceptor, pending, active, fd>>
    BY <1>2 DEF Connect
  <2>2. \A d : Alive(d)' <=> Alive(d)
    BY <2>1 DEF Alive
  <2>3. c \notin Range(backlog) /\ ~Alive(c)
    BY <1>0, <2>1 DEF Connected
  <2>4. Range(backlog') = Range(backlog) \cup {c} /\ IsInjective(backlog')
    BY <1>0, <2>1, <2>3, AppendedElements DEF TypeOK, Connected
  <2>5. peer'[c] # "away" /\ \A d \in Clients : peer[d] # "away" => peer'[d] # "away"
    BY <1>0, <2>1 DEF TypeOK
  <2>6. Range(backlog) \subseteq Clients
    BY <1>0, RangeOfSeq DEF TypeOK
  <2>7. Owners'
    BY <1>0, <2>1, <2>2 DEF Owners
  <2>8. Connected'
    BY <1>0, <2>2, <2>3, <2>4, <2>5, <2>6 DEF Connected
  <2> QED
    BY <2>7, <2>8
<1>3. ASSUME NEW c \in Clients, HangUp(c) PROVE Owners' /\ Connected'
  <2>1. /\ peer' = [peer EXCEPT ![c] = "gone"]
        /\ UNCHANGED <<backlog, acceptor, pending, active, fd>>
    BY <1>3 DEF HangUp
  <2>2. \A d : Alive(d)' <=> Alive(d)
    BY <2>1 DEF Alive
  <2>3. \A d \in Clients : peer[d] # "away" => peer'[d] # "away"
    BY <1>0, <2>1 DEF TypeOK
  <2>4. Range(backlog) \subseteq Clients
    BY <1>0, RangeOfSeq DEF TypeOK
  <2> QED
    BY <1>0, <2>1, <2>2, <2>3, <2>4 DEF Owners, Connected
<1>4. ASSUME Accept PROVE Owners' /\ Connected'
  <2> DEFINE new == Head(backlog)
  <2>1. /\ acceptor = None /\ backlog # <<>>
        /\ acceptor' = new /\ backlog' = Tail(backlog)
        /\ UNCHANGED <<peer, pending, active>>
    BY <1>4 DEF Accept
  <2>2. PICK n \in FreeFds : fd' = [fd EXCEPT ![new] = n]
    BY <1>4 DEF Accept, LowestFree
  <2>3. /\ new \in Clients /\ Range(backlog) = Range(backlog') \cup {new}
        /\ IsInjective(backlog') /\ new \notin Range(backlog')
    BY <1>0, <2>1, HeadAndTail DEF TypeOK, Connected
  <2>4. ~Alive(new) /\ peer[new] # "away"
    BY <1>0, <2>3 DEF Connected
  <2>5. \A d \in Clients : Alive(d)' <=> Alive(d) \/ d = new
    BY <2>1, ServerAssumption DEF Alive
  <2>6. fd'[new] = n /\ \A d \in Clients : d # new => fd'[d] = fd[d]
    BY <1>0, <2>2, <2>3 DEF TypeOK
  <2>7. \A d \in Clients : Alive(d) => fd[d] # n
    BY DEF FreeFds
  <2> HIDE DEF new
  <2>8. \A c, d \in Clients : Alive(c)' /\ Alive(d)' /\ fd'[c] = fd'[d] => c = d
    BY <1>0, <2>4, <2>5, <2>6, <2>7 DEF Owners
  <2>9. new \notin Range(pending) \cup Range(active)
    BY <2>4 DEF Alive
  <2>10. Range(backlog) \subseteq Clients
    BY <1>0, RangeOfSeq DEF TypeOK
  <2>11. Owners'
    BY <1>0, <2>1, <2>8, <2>9 DEF Owners
  <2>12. Connected'
    BY <1>0, <2>1, <2>3, <2>4, <2>5, <2>10 DEF Connected
  <2> QED
    BY <2>11, <2>12
<1>5. ASSUME PushPending PROVE Owners' /\ Connected'
  <2>1. /\ acceptor # None /\ acceptor' = None /\ pending' = Append(pending, acceptor)
        /\ UNCHANGED <<peer, backlog, active, fd>>
    BY <1>5 DEF PushPending
  <2>2. /\ acceptor \in Clients
        /\ Range(pending') = Range(pending) \cup {acceptor} /\ IsInjective(pending')
    BY <1>0, <2>1, AppendedElements DEF TypeOK, Owners
  <2>3. Range(pending') \cup Range(active') \subseteq Clients
    BY <1>0, <2>1, <2>2, RangeOfSeq DEF TypeOK
  <2>4. Range(backlog) \subseteq Clients
    BY <1>0, RangeOfSeq DEF TypeOK
  <2>5. \A d \in Clients : Alive(d)' <=> Alive(d)
    BY <2>1, <2>2, ServerAssumption DEF Alive
  <2>6. Owners'
    BY <1>0, <2>1, <2>2, <2>3, <2>5, ServerAssumption DEF Owners
  <2>7. Connected'
    BY <1>0, <2>1, <2>4, <2>5 DEF Connected
  <2> QED
    BY <2>6, <2>7
<1>6. ASSUME NEW c \in Clients, ReceiveClosed(c) PROVE Owners' /\ Connected'
  <2>1. /\ active' = RemoveAt(active, it) /\ it \in DOMAIN active
        /\ UNCHANGED <<peer, backlog, acceptor, pending, fd>>
    BY <1>0, <1>6, LenProperties DEF TypeOK, ReceiveClosed, Polling
  <2>2. Range(active') \subseteq Range(active) /\ IsInjective(active')
    <3>1. IsInjective(active) /\ active \in Seq(Clients)
      BY <1>0 DEF TypeOK, Owners
    <3> QED
      BY <2>1, <3>1, RemovedElement
  <2>3. \A d : Alive(d)' => Alive(d)
    BY <2>1, <2>2 DEF Alive
  <2>4. Owners'
    BY <1>0, <2>1, <2>2, <2>3 DEF Owners
  <2>5. Connected'
    BY <1>0, <2>1, <2>3 DEF Connected
  <2> QED
    BY <2>4, <2>5
<1>7. ASSUME HandlePending PROVE Owners' /\ Connected'
  <2>1. /\ active' = active \o Reverse(pending) /\ pending' = <<>>
        /\ UNCHANGED <<peer, backlog, acceptor, fd>>
    BY <1>7 DEF HandlePending
  <2>2. /\ Reverse(pending) \in Seq(Clients) /\ IsInjective(Reverse(pending))
        /\ Range(Reverse(pending)) = Range(pending)
    BY <1>0, ReversedElements DEF TypeOK, Owners
  <2>3. /\ Range(active') = Range(active) \cup Range(pending)
        /\ IsInjective(active')
    <3>1. /\ IsInjective(active) /\ active \in Seq(Clients)
          /\ Range(active) \cap Range(Reverse(pending)) = {}
      BY <1>0, <2>2 DEF TypeOK, Owners
    <3> QED
      BY <2>1, <2>2, <3>1, ConcatenatedElements
  <2>4. Range(pending') = {} /\ IsInjective(pending')
    BY <2>1, EmptyElements
  <2>5. \A d : Alive(d)' <=> Alive(d)
    BY <2>1, <2>3, <2>4 DEF Alive
  <2>6. Owners'
    BY <1>0, <2>1, <2>3, <2>4, <2>5 DEF Owners
  <2>7. Connected'
    BY <1>0, <2>1, <2>5 DEF Connected
  <2> QED
    BY <2>6, <2>7
<1>8. ASSUME Exit PROVE Owners' /\ Connected'
  <2>1. /\ active' = <<>> /\ pending' = <<>>
        /\ UNCHANGED <<peer, backlog, acceptor, fd>>
    BY <1>8 DEF Exit, Release
  <2>2. \A d : Alive(d)' => Alive(d)
    BY <2>1, EmptyElements DEF Alive
  <2>3. Owners'
    BY <1>0, <2>1, <2>2, EmptyElements DEF Owners
  <2>4. Connected'
    BY <1>0, <2>1, <2>2 DEF Connected
  <2> QED
    BY <2>3, <2>4
<1>9. ASSUME NEW c \in Clients, SendRequest(c) \/ ReceiveNothing(c) \/ ReceiveData(c)
      PROVE Owners' /\ Connected'
  BY <1>1, <1>9 DEF SendRequest, ReceiveNothing, ReceiveData
<1>10. ASSUME ReceiveEnd \/ Dispatch \/ HandleEnd \/ Terminate \/ WorkerTake
       PROVE Owners' /\ Connected'
  BY <1>1, <1>10 DEF ReceiveEnd, Dispatch, HandleEnd, Terminate, WorkerTake
<1>11. ASSUME NEW p \in Packets, PacketNext(p) PROVE Owners' /\ Connected'
  BY <1>1, <1>11 DEF PacketNext, ReadType, SendReply, UseFreed
<1>12. CASE UNCHANGED vars
  BY <1>1, <1>12 DEF vars
<1> QED
  BY <1>2, <1>3, <1>4, <1>5, <1>6, <1>7, <1>8, <1>9, <1>10, <1>11, <1>12
  DEF Next, ClientNext, AcceptThread, ServerThread, Stopped

(***************************************************************************)
(* A wrapper has one owner at a time, and wrappers that exist have         *)
(* distinct descriptors.                                                   *)
(***************************************************************************)
THEOREM ConnectionsHaveOneOwner == SafeSpec => []OneOwner
<1>1. Init => RequestInv /\ OwnerInv
  BY InitRequests, InitOwners
<1>2. RequestInv /\ OwnerInv /\ [Next]_vars => RequestInv' /\ OwnerInv'
  BY NextRequests, NextOwners DEF RequestInv
<1>3. OwnerInv => OneOwner
  BY DEF OwnerInv
<1> QED
  BY <1>1, <1>2, <1>3, PTL DEF SafeSpec

LEMMA StepDestroys ==
    ASSUME RequestInv, [Next]_vars
    PROVE  \A c \in Clients :
             Alive(c) /\ ~Alive(c)' =>
                (peer[c] = "gone" /\ pc = "receive") \/ pc' = "over"
<1> DEFINE Step ==
        \A c \in Clients :
            Alive(c) /\ ~Alive(c)' =>
                (peer[c] = "gone" /\ pc = "receive") \/ pc' = "over"
<1> SUFFICES Step
  OBVIOUS
<1> USE DEF clientVars, acceptVars, bufferVars, loopVars, poolVars, workVars
<1>0. TypeOK
  BY DEF RequestInv
<1>1. CASE UNCHANGED <<acceptor, pending, active>>
  BY <1>1 DEF Alive
<1>2. CASE Accept
  BY <1>2, ServerAssumption DEF Accept, Alive
<1>3. CASE PushPending
  <2>1. /\ acceptor # None /\ UNCHANGED active
        /\ pending' = Append(pending, acceptor)
    BY <1>3 DEF PushPending
  <2>2. Range(pending') = Range(pending) \cup {acceptor}
    BY <1>0, <2>1, AppendedElements DEF TypeOK
  <2> QED
    BY <2>1, <2>2 DEF Alive
<1>4. ASSUME NEW d \in Clients, ReceiveClosed(d) PROVE Step
  <2>1. /\ active' = RemoveAt(active, it) /\ it \in DOMAIN active /\ d = active[it]
        /\ peer[d] = "gone" /\ pc = "receive"
        /\ UNCHANGED <<acceptor, pending>>
    BY <1>0, <1>4, LenProperties DEF TypeOK, ReceiveClosed, Polling
  <2>2. Range(active) = Range(active') \cup {d}
    BY <1>0, <2>1, RemovedElement DEF TypeOK
  <2> QED
    BY <2>1, <2>2 DEF Alive
<1>5. CASE HandlePending
  <2>1. /\ active' = active \o Reverse(pending) /\ UNCHANGED acceptor
    BY <1>5 DEF HandlePending
  <2>2. Range(active') = Range(active) \cup Range(pending)
    BY <1>0, <2>1, ReversedElements, ConcatenatedElements DEF TypeOK
  <2> QED
    BY <2>1, <2>2 DEF Alive
<1>6. CASE Exit
  BY <1>6 DEF Exit, Release
<1>7. ASSUME NEW d \in Clients, ClientNext(d) \/ ReceiveNothing(d) \/ ReceiveData(d)
      PROVE Step
  BY <1>1, <1>7 DEF ClientNext, Connect, SendRequest, HangUp, ReceiveNothing, ReceiveData
<1>8. CASE ReceiveEnd \/ Dispatch \/ HandleEnd \/ Terminate \/ WorkerTake
  BY <1>1, <1>8 DEF ReceiveEnd, Dispatch, HandleEnd, Terminate, WorkerTake
<1>9. ASSUME NEW p \in Packets, PacketNext(p) PROVE Step
  BY <1>1, <1>9 DEF PacketNext, ReadType, SendReply, UseFreed
<1>10. CASE UNCHANGED vars
  BY <1>1, <1>10 DEF vars
<1> HIDE DEF Step
<1> QED
  BY <1>2, <1>3, <1>4, <1>5, <1>6, <1>7, <1>8, <1>9, <1>10
  DEF Next, AcceptThread, ServerThread, Stopped

(***************************************************************************)
(* A connection is destroyed only by the server thread after its client    *)
(* has gone, or with the process.                                          *)
(***************************************************************************)
THEOREM OnlyPollDestroys == SafeSpec => DestroyedByPollOnly
<1>1. Init => RequestInv
  BY InitRequests
<1>2. RequestInv /\ [Next]_vars => RequestInv'
  BY NextRequests
<1>3. RequestInv /\ [Next]_vars =>
        [\A c \in Clients :
            Alive(c) /\ ~Alive(c)' =>
                (peer[c] = "gone" /\ pc = "receive") \/ pc' = "over"]_vars
  BY StepDestroys
<1> QED
  BY <1>1, <1>2, <1>3, PTL DEF SafeSpec, DestroyedByPollOnly
-----------------------------------------------------------------------------
(***************************************************************************)
(* A pass: what is still ahead of the iterator is what of the roster has   *)
(* not been polled, also after an erase, which moves the rest up.          *)
(***************************************************************************)
Ahead == {active[j] : j \in it .. Len(active)}

PassInv ==
    /\ PassPollsAll
    /\ pc = "receive" => it <= Len(active) + 1 /\ roster = visited \cup Ahead

LEMMA InitPass == Init => PassInv
<1> SUFFICES ASSUME Init PROVE PassInv
  OBVIOUS
<1>1. active = <<>> /\ Len(active) = 0 /\ it = 1 /\ visited = {} /\ roster = {}
  BY EmptySeq DEF Init
<1>2. Ahead = {}
  BY <1>1 DEF Ahead
<1> QED
  BY <1>1, <1>2 DEF PassInv, PassPollsAll

LEMMA NextPass ==
    ASSUME TypeOK, PassInv, [Next]_vars
    PROVE  PassInv'
<1> USE DEF clientVars, acceptVars, bufferVars, loopVars, poolVars, workVars
<1>0. Len(active) \in Nat /\ it \in Nat \ {0} /\ DOMAIN active = 1 .. Len(active)
  BY LenProperties DEF TypeOK
<1>1. CASE UNCHANGED <<pc, it, visited, roster, active>>
  BY <1>1 DEF PassInv, PassPollsAll, Ahead
<1>2. ASSUME NEW c \in Clients, ReceiveNothing(c) \/ ReceiveData(c) PROVE PassInv'
  <2>1. /\ pc = "receive" /\ it <= Len(active) /\ c = active[it]
        /\ it' = it + 1 /\ visited' = visited \cup {c}
        /\ UNCHANGED <<pc, roster, active>>
    BY <1>2 DEF ReceiveNothing, ReceiveData, Polling
  <2>2. \A j : j \in it .. Len(active) <=> j = it \/ j \in it + 1 .. Len(active)
    BY <1>0, <2>1
  <2>3. Ahead = {c} \cup Ahead'
    BY <2>1, <2>2 DEF Ahead
  <2> QED
    BY <1>0, <2>1, <2>3 DEF PassInv, PassPollsAll
<1>3. ASSUME NEW c \in Clients, ReceiveClosed(c) PROVE PassInv'
  <2>1. /\ pc = "receive" /\ it <= Len(active) /\ c = active[it]
        /\ active' = RemoveAt(active, it) /\ visited' = visited \cup {c}
        /\ UNCHANGED <<pc, it, roster>>
    BY <1>3 DEF ReceiveClosed, Polling
  <2>2. it \in DOMAIN active
    BY <1>0, <2>1
  <2>3. /\ Len(active') = Len(active) - 1
        /\ \A k \in it .. Len(active) - 1 : active'[k] = active[k + 1]
    BY <2>1, <2>2, RemovedAt DEF TypeOK
  <2>4. /\ \A j \in it .. Len(active) :
             j = it \/ \E k \in it .. Len(active) - 1 : j = k + 1
        /\ \A k \in it .. Len(active) - 1 : k + 1 \in it .. Len(active)
    <3>1. ASSUME NEW j \in it .. Len(active), j # it
          PROVE  j - 1 \in it .. Len(active) - 1 /\ j = (j - 1) + 1
      BY <1>0, <3>1
    <3> QED
      BY <1>0, <3>1
  <2>5. Ahead' = {active'[k] : k \in it .. Len(active) - 1}
    BY <2>1, <2>3 DEF Ahead
  <2>6. Ahead = {c} \cup Ahead'
    <3>1. it \in it .. Len(active)
      BY <1>0, <2>1
    <3>2. \A j \in it .. Len(active) : active[j] \in {c} \cup Ahead'
      BY <2>1, <2>3, <2>4, <2>5
    <3>3. \A k \in it .. Len(active) - 1 : active'[k] \in Ahead
      BY <2>3, <2>4 DEF Ahead
    <3>4. Ahead = {active[j] : j \in it .. Len(active)}
      BY DEF Ahead
    <3> QED
      BY <2>1, <2>5, <3>1, <3>2, <3>3, <3>4
  <2> QED
    BY <1>0, <2>1, <2>3, <2>6 DEF PassInv, PassPollsAll
<1>4. ASSUME ReceiveEnd PROVE PassInv'
  <2>1. /\ pc = "receive" /\ it > Len(active) /\ pc' = "handle"
        /\ UNCHANGED <<visited, roster>>
    BY <1>4 DEF ReceiveEnd
  <2>2. Ahead = {}
    BY <1>0, <2>1 DEF Ahead
  <2> QED
    BY <2>1, <2>2 DEF PassInv, PassPollsAll
<1>5. ASSUME HandleEnd \/ Exit PROVE PassInv'
  BY <1>5 DEF HandleEnd, Exit, Release, PassInv, PassPollsAll
<1>6. ASSUME HandlePending PROVE PassInv'
  <2>1. /\ pc' = "receive" /\ it' = 1 /\ visited' = {} /\ roster' = Range(active')
        /\ active' = active \o Reverse(pending)
    BY <1>6 DEF HandlePending
  <2>2. active' \in Seq(Clients)
    BY <2>1, ReversedElements, ConcatProperties DEF TypeOK
  <2>3. Len(active') \in Nat /\ Range(active') = {active'[j] : j \in 1 .. Len(active')}
    BY <2>2, LenProperties, RangeEquality
  <2>4. Ahead' = Range(active')
    BY <2>1, <2>3 DEF Ahead
  <2> QED
    BY <2>1, <2>3, <2>4 DEF PassInv, PassPollsAll
<1>7. ASSUME Terminate PROVE PassInv'
  BY <1>7 DEF Terminate, PassInv, PassPollsAll
<1>8. ASSUME NEW c \in Clients, ClientNext(c) PROVE PassInv'
  BY <1>1, <1>8 DEF ClientNext, Connect, SendRequest, HangUp
<1>9. ASSUME AcceptThread \/ Dispatch \/ WorkerTake PROVE PassInv'
  BY <1>1, <1>9 DEF AcceptThread, Accept, PushPending, Dispatch, WorkerTake
<1>10. ASSUME NEW p \in Packets, PacketNext(p) PROVE PassInv'
  BY <1>1, <1>10 DEF PacketNext, ReadType, SendReply, UseFreed
<1>11. CASE UNCHANGED vars
  BY <1>1, <1>11 DEF vars
<1> QED
  BY <1>2, <1>3, <1>4, <1>5, <1>6, <1>7, <1>8, <1>9, <1>10, <1>11
  DEF Next, ServerThread, Stopped

(***************************************************************************)
(* A pass polls every connection that was active when it began, whatever   *)
(* it erases on the way (main.cpp:85-171).                                 *)
(***************************************************************************)
THEOREM PassesPollAll == SafeSpec => []PassPollsAll
<1>1. Init => RequestInv /\ PassInv
  BY InitRequests, InitPass
<1>2. RequestInv /\ PassInv /\ [Next]_vars => RequestInv' /\ PassInv'
  BY NextRequests, NextPass DEF RequestInv
<1>3. PassInv => PassPollsAll
  BY DEF PassInv
<1> QED
  BY <1>1, <1>2, <1>3, PTL DEF SafeSpec
-----------------------------------------------------------------------------
(***************************************************************************)
(* The raw pointers.  As long as no client has hung up early, no packet is *)
(* ever handled on a destroyed connection, so each one that a worker has   *)
(* ended has delivered a reply.  A client that has gone has been given as  *)
(* many replies as it sent requests; counting them shows that none of its  *)
(* packets is left.                                                        *)
(***************************************************************************)
Ended(c) == {r \in Requests : <<c, r>> \in done}

Live ==
    /\ ~crashed
    /\ \A c \in Clients : InFlight(c) # {} => Alive(c)
    /\ \A c \in Clients : Len(inbox[c]) = Cardinality(Ended(c))
    /\ \A c \in Clients : peer[c] = "gone" => sent[c] <= Len(inbox[c])

LiveInv == ~early => Live

LEMMA IntervalFromOne ==
    ASSUME NEW n \in Nat
    PROVE  IsFiniteSet(1 .. n) /\ Cardinality(1 .. n) = n
<1>1. /\ IsFiniteSet(1 .. n)
      /\ Cardinality(1 .. n) = IF 1 > n THEN 0 ELSE n - 1 + 1
  BY FS_Interval
<1> QED
  BY <1>1

LEMMA GoneHasNothingInFlight ==
    ASSUME RequestInv, Live, pc # "over", NEW c \in Clients, peer[c] = "gone"
    PROVE  InFlight(c) = {}
<1>1. /\ rcvd[c] \in Nat /\ sent[c] \in Nat /\ rcvd[c] <= sent[c]
      /\ Len(inbox[c]) \in Nat
  <2>1. /\ rcvd[c] \in 0 .. MaxReq /\ body[c] \in 0 .. MaxReq
        /\ head[c] \in 0 .. MaxReq /\ sent[c] \in 0 .. MaxReq
        /\ inbox[c] \in Seq(Replies)
    BY DEF RequestInv, TypeOK
  <2>2. rcvd[c] <= body[c] /\ body[c] <= head[c] /\ head[c] <= sent[c]
    BY DEF RequestInv, Arrived
  <2> QED
    BY <2>1, <2>2, LenProperties, ServerAssumption
<1>2. \A r \in Requests :
        <<c, r>> \in Range(completed) \cup Range(submitted) <=> r \in 1 .. rcvd[c]
  BY DEF RequestInv, HandledOnce
<1>3. Ended(c) \subseteq 1 .. rcvd[c]
  BY <1>2 DEF Ended, RequestInv, Begun
<1>4. /\ IsFiniteSet(1 .. rcvd[c]) /\ Cardinality(1 .. rcvd[c]) = rcvd[c]
  BY <1>1, IntervalFromOne
<1>5. /\ Cardinality(Ended(c)) <= rcvd[c]
      /\ rcvd[c] = Cardinality(Ended(c)) => 1 .. rcvd[c] = Ended(c)
  BY <1>3, <1>4, FS_Subset
<1>6. sent[c] <= Cardinality(Ended(c)) /\ Cardinality(Ended(c)) \in Nat
  BY <1>1 DEF Live
<1>7. Ended(c) = 1 .. rcvd[c]
  BY <1>1, <1>5, <1>6
<1>8. ASSUME NEW p \in Range(completed) \cup (Range(submitted) \ done), p[1] = c
      PROVE  FALSE
  <2>1. p \in Packets
    BY RangeOfSeq DEF RequestInv, TypeOK
  <2>2. p = <<c, p[2]>> /\ p[2] \in Requests
    BY <1>8, <2>1 DEF Packets
  <2>3. p \in done
    BY <1>2, <1>7, <2>2 DEF Ended
  <2> QED
    BY <2>3 DEF RequestInv, Begun, HandledOnce
<1> QED
  BY <1>8 DEF InFlight

\* A worker that holds a packet can use its connection, and is heard.
LEMMA RunningIsHeard ==
    ASSUME RequestInv, OwnerInv, Live, pc # "over", NEW p \in Packets, p \in Pool!Running
    PROVE  Alive(p[1]) /\ peer[p[1]] = "up"
<1>1. p \in InFlight(p[1]) /\ p[1] \in Clients
  BY RunningIsTaken DEF InFlight
<1>2. Alive(p[1])
  BY <1>1 DEF Live
<1>3. peer[p[1]] # "away" /\ peer[p[1]] # "gone"
  BY <1>1, <1>2, GoneHasNothingInFlight DEF OwnerInv, Connected
<1> QED
  BY <1>1, <1>2, <1>3 DEF RequestInv, TypeOK

LEMMA InitLive == Init => LiveInv
<1> SUFFICES ASSUME Init PROVE Live
  BY DEF LiveInv
<1>1. \A c \in Clients : InFlight(c) = {}
  BY EmptyElements DEF Init, InFlight
<1>2. \A c \in Clients : Ended(c) = {} /\ inbox[c] = <<>> /\ peer[c] = "away"
  BY DEF Init, Ended
<1> QED
  BY <1>1, <1>2, FS_EmptySet, EmptySeq DEF Live, Init

\* A reply more for a packet that has ended.
LEMMA EndedAndReplied ==
    ASSUME RequestInv, Live, NEW p \in Packets, p \notin done, done' = done \cup {p},
           p[1] \in Clients, p[2] \in Requests, p = <<p[1], p[2]>>,
           NEW m \in Replies, inbox' = [inbox EXCEPT ![p[1]] = Append(@, m)]
    PROVE  /\ \A c \in Clients : Len(inbox'[c]) = Cardinality(Ended(c)')
           /\ \A c \in Clients : Len(inbox[c]) <= Len(inbox'[c])
<1> SUFFICES ASSUME NEW c \in Clients
             PROVE  Len(inbox'[c]) = Cardinality(Ended(c)') /\ Len(inbox[c]) <= Len(inbox'[c])
  OBVIOUS
<1>1. /\ Len(inbox[c]) \in Nat /\ Len(inbox[c]) = Cardinality(Ended(c))
      /\ Len(inbox[p[1]]) = Cardinality(Ended(p[1]))
  BY LenProperties DEF RequestInv, TypeOK, Live
<1>2. ASSUME c # p[1]
      PROVE  Len(inbox'[c]) = Cardinality(Ended(c)') /\ inbox'[c] = inbox[c]
  <2>1. inbox'[c] = inbox[c]
    BY <1>2 DEF RequestInv, TypeOK
  <2>2. Ended(c)' = Ended(c)
    BY <1>2 DEF Ended
  <2> QED
    BY <1>1, <2>1, <2>2
<1>3. /\ Len(inbox'[p[1]]) = Cardinality(Ended(p[1])')
      /\ Len(inbox[p[1]]) <= Len(inbox'[p[1]])
  <2>1. inbox'[p[1]] = Append(inbox[p[1]], m) /\ inbox[p[1]] \in Seq(Replies)
    BY DEF RequestInv, TypeOK
  <2>2. Len(inbox'[p[1]]) = Len(inbox[p[1]]) + 1
    BY <2>1, AppendProperties
  <2>3. Ended(p[1])' = Ended(p[1]) \cup {p[2]} /\ p[2] \notin Ended(p[1])
    BY DEF Ended
  <2>4. IsFiniteSet(Ended(p[1]))
    <3>1. Ended(p[1]) \in SUBSET (1 .. MaxReq)
      BY DEF Ended, Requests
    <3> QED
      BY <3>1, IntervalFromOne, FS_Subset, ServerAssumption
  <2>5. Cardinality(Ended(p[1])') = Cardinality(Ended(p[1])) + 1
    BY <2>3, <2>4, FS_AddElement
  <2>6. Len(inbox[p[1]]) \in Nat
    BY <2>1, LenProperties
  <2> QED
    BY <1>1, <2>2, <2>5, <2>6
<1>4. CASE c = p[1]
  BY <1>3, <1>4, Zenon
<1>5. CASE c # p[1]
  BY <1>1, <1>2, <1>5
<1> QED
  BY <1>4, <1>5

LEMMA NextLive ==
    ASSUME RequestInv, OwnerInv, LiveInv, [Next]_vars
    PROVE  LiveInv'
<1> USE DEF clientVars, acceptVars, bufferVars, loopVars, poolVars, workVars
<1> DEFINE Counts == \A c \in Clients : Len(inbox[c]) = Cardinality(Ended(c))
           Heard == \A c \in Clients : peer[c] = "gone" => sent[c] <= Len(inbox[c])
           Pointers == \A c \in Clients : InFlight(c) # {} => Alive(c)
<1> SUFFICES ASSUME ~early' PROVE ~crashed' /\ Counts' /\ Heard' /\ Pointers'
  BY DEF LiveInv, Live
<1>1. CASE UNCHANGED vars
  BY <1>1 DEF vars, LiveInv, Live, InFlight, Alive, Ended
<1> SUFFICES ASSUME Next PROVE ~crashed' /\ Counts' /\ Heard' /\ Pointers'
  BY <1>1
<1>2. ~early /\ Live
  <2>1. CASE UNCHANGED early
    BY <2>1 DEF LiveInv
  <2>2. ASSUME NEW c \in Clients, HangUp(c) PROVE ~early
    BY <2>2, Zenon DEF HangUp
  <2> QED
    BY <2>1, <2>2 DEF LiveInv, Next, ClientNext, Connect, SendRequest, AcceptThread, Accept,
      PushPending, ServerThread, ReceiveNothing, ReceiveData, ReceiveClosed, ReceiveEnd,
      Dispatch, HandleEnd, HandlePending, Exit, Release, WorkerTake, PacketNext, ReadType,
      SendReply, UseFreed, Terminate, Stopped, vars
<1>3. UNCHANGED <<inbox, done>> => Counts'
  BY <1>2 DEF Live, Ended
<1>4. UNCHANGED <<inbox, peer, sent>> => Heard'
  BY <1>2 DEF Live
<1>5. ASSUME UNCHANGED <<completed, submitted, done>>, pc # "over", pc' # "over"
      PROVE  Pointers'
  <2> SUFFICES ASSUME NEW c \in Clients, InFlight(c)' # {} PROVE Alive(c)'
    OBVIOUS
  <2>1. InFlight(c)' = InFlight(c)
    BY <1>5 DEF InFlight
  <2>2. Alive(c) /\ peer[c] # "gone"
    BY <1>2, <1>5, <2>1, GoneHasNothingInFlight DEF Live
  <2> QED
    BY <1>5, <2>2, StepDestroys
<1>6. ASSUME NEW c \in Clients, Connect(c) \/ SendRequest(c) \/ HangUp(c)
      PROVE  ~crashed' /\ Counts' /\ Heard' /\ Pointers'
  <2>1. /\ UNCHANGED <<inbox, done, crashed, completed, submitted, pc>>
        /\ pc # "over"
    BY <1>6 DEF Connect, SendRequest, HangUp, Up
  <2>2. ASSUME NEW d \in Clients, peer'[d] = "gone"
        PROVE  sent'[d] <= Len(inbox'[d])
    <3>0. sent[d] \in Nat /\ Len(inbox[d]) \in Nat
      BY LenProperties, ServerAssumption DEF RequestInv, TypeOK
    <3>1. CASE Connect(c)
      <4>1. peer[d] = "gone" /\ UNCHANGED <<inbox, sent>>
        BY <2>2, <3>1 DEF Connect, RequestInv, TypeOK
      <4> QED
        BY <1>2, <4>1 DEF Live
    <3>2. CASE SendRequest(c)
      <4>1. peer[d] = "gone" /\ d # c /\ UNCHANGED <<inbox, peer>>
        BY <2>2, <3>2 DEF SendRequest
      <4>2. sent'[d] = sent[d]
        BY <3>2, <4>1 DEF SendRequest, RequestInv, TypeOK
      <4> QED
        BY <1>2, <4>1, <4>2 DEF Live
    <3>3. CASE HangUp(c)
      <4>1. /\ peer' = [peer EXCEPT ![c] = "gone"] /\ UNCHANGED <<inbox, sent>>
            /\ early' = (early \/ Len(inbox[c]) < sent[c])
        BY <3>3 DEF HangUp
      <4>2. ~(Len(inbox[c]) < sent[c])
        BY <4>1, Zenon
      <4>3. d = c \/ peer[d] = "gone"
        BY <2>2, <4>1 DEF RequestInv, TypeOK
      <4> QED
        BY <1>2, <3>0, <4>1, <4>2, <4>3 DEF Live
    <3> QED
      BY <1>6, <3>1, <3>2, <3>3
  <2> QED
    BY <1>2, <1>3, <1>5, <2>1, <2>2 DEF Live
<1>7. ASSUME AcceptThread \/ ReceiveEnd \/ HandleEnd \/ HandlePending \/ Terminate \/ WorkerTake
      PROVE  ~crashed' /\ Counts' /\ Heard' /\ Pointers'
  <2>1. /\ UNCHANGED <<inbox, done, crashed, completed, submitted, peer, sent>>
        /\ pc # "over" /\ pc' # "over"
    BY <1>7 DEF AcceptThread, Accept, PushPending, ReceiveEnd, HandleEnd, HandlePending,
      Terminate, WorkerTake, Pool!BeginTask, Up
  <2> QED
    BY <1>2, <1>3, <1>4, <1>5, <2>1 DEF Live
<1>8. ASSUME NEW c \in Clients, ReceiveNothing(c) \/ ReceiveClosed(c)
      PROVE  ~crashed' /\ Counts' /\ Heard' /\ Pointers'
  <2>1. /\ UNCHANGED <<inbox, done, crashed, completed, submitted, peer, sent>>
        /\ pc # "over" /\ pc' # "over"
    BY <1>8 DEF ReceiveNothing, ReceiveClosed, Polling
  <2> QED
    BY <1>2, <1>3, <1>4, <1>5, <2>1 DEF Live
<1>9. ASSUME NEW c \in Clients, ReceiveData(c)
      PROVE  ~crashed' /\ Counts' /\ Heard' /\ Pointers'
  <2>1. /\ UNCHANGED <<inbox, done, crashed, submitted, peer, sent, acceptor, pending, active>>
    BY <1>9 DEF ReceiveData
  <2>2. PICK n \in rcvd[c] .. sent[c] : completed' = completed \o New(c, n)
    BY <1>9 DEF ReceiveData, New
  <2>3. Range(completed') = Range(completed) \cup {<<c, r>> : r \in rcvd[c] + 1 .. n}
    <3>1. /\ New(c, n) \in Seq(Packets)
          /\ Range(New(c, n)) = {<<c, r>> : r \in rcvd[c] + 1 .. n}
      BY NewElements DEF RequestInv
    <3> QED
      BY <2>2, <3>1, ConcatenatedElements DEF RequestInv, TypeOK
  <2>4. Alive(c)
    <3>1. it \in DOMAIN active /\ c = active[it]
      BY <1>9, LenProperties DEF ReceiveData, Polling, RequestInv, TypeOK
    <3> QED
      BY <3>1 DEF Alive, Range
  <2>5. \A d \in Clients : Alive(d)' <=> Alive(d)
    BY <2>1 DEF Alive
  <2>6. \A d \in Clients : d # c => InFlight(d)' \subseteq InFlight(d)
    BY <2>1, <2>3 DEF InFlight
  <2>7. Pointers'
    BY <1>2, <2>4, <2>5, <2>6 DEF Live
  <2> QED
    BY <1>2, <1>3, <1>4, <2>1, <2>7 DEF Live
<1>10. ASSUME Dispatch PROVE ~crashed' /\ Counts' /\ Heard' /\ Pointers'
  <2>1. /\ UNCHANGED <<inbox, done, crashed, peer, sent, acceptor, pending, active>>
        /\ completed # <<>> /\ completed' = Front(completed)
        /\ submitted' = Append(submitted, Last(completed))
    BY <1>10 DEF Dispatch, Pool!SubmitTask
  <2>2. /\ Last(completed) \in Packets
        /\ Range(completed) = Range(completed') \cup {Last(completed)}
        /\ Range(submitted') = Range(submitted) \cup {Last(completed)}
    BY <2>1, FrontAndLast, AppendedElements DEF RequestInv, TypeOK
  <2>3. \A d \in Clients : (Alive(d)' <=> Alive(d)) /\ InFlight(d)' \subseteq InFlight(d)
    BY <2>1, <2>2 DEF Alive, InFlight
  <2>4. Pointers'
    BY <1>2, <2>3 DEF Live
  <2> QED
    BY <1>2, <1>3, <1>4, <2>1, <2>4 DEF Live
<1>11. ASSUME Exit PROVE ~crashed' /\ Counts' /\ Heard' /\ Pointers'
  <2>1. /\ UNCHANGED <<inbox, done, crashed, peer, sent, submitted>>
        /\ completed' = <<>> /\ done = Range(submitted)
    BY <1>11 DEF Exit, Release
  <2>2. \A d \in Clients : InFlight(d)' = {}
    BY <2>1, EmptyElements DEF InFlight
  <2> QED
    BY <1>2, <1>3, <1>4, <2>1, <2>2 DEF Live
<1>12. ASSUME NEW p \in Packets, ReadType(p)
       PROVE  ~crashed' /\ Counts' /\ Heard' /\ Pointers'
  <2>1. /\ UNCHANGED <<inbox, done, crashed, completed, submitted, peer, sent, pc>>
        /\ pc # "over"
    BY <1>12 DEF ReadType, Up
  <2> QED
    BY <1>2, <1>3, <1>4, <1>5, <2>1 DEF Live
<1>13. ASSUME NEW p \in Packets, SendReply(p)
       PROVE  ~crashed' /\ Counts' /\ Heard' /\ Pointers'
  <2>1. /\ pc # "over" /\ p \in Pool!Running /\ kind[p] # 0 /\ done' = done \cup {p}
        /\ UNCHANGED <<completed, submitted, peer, sent, acceptor, pending, active>>
    BY <1>13 DEF SendReply, Up, Pool!EndTask
  <2>2. peer[p[1]] = "up"
    BY <1>2, <2>1, RunningIsHeard
  <2>3. inbox' = [inbox EXCEPT ![p[1]] = Append(@, Reply(p))] /\ UNCHANGED crashed
    BY <1>13, <2>2 DEF SendReply
  <2>4. Reply(p) \in Replies /\ p \notin done /\ p = <<p[1], p[2]>>
        /\ p[1] \in Clients /\ p[2] \in Requests
    BY <2>1, RunningHasReply, RunningIsTaken
  <2>5. Counts' /\ \A c \in Clients : Len(inbox[c]) <= Len(inbox'[c])
    BY <1>2, <2>1, <2>3, <2>4, EndedAndReplied
  <2>6. Heard'
    <3> SUFFICES ASSUME NEW c \in Clients, peer[c] = "gone" PROVE sent[c] <= Len(inbox'[c])
      BY <2>1
    <3>1. sent[c] <= Len(inbox[c]) /\ Len(inbox[c]) <= Len(inbox'[c])
      BY <1>2, <2>5 DEF Live
    <3>2. c # p[1]
      BY <2>2
    <3>3. inbox'[c] = inbox[c]
      BY <2>3, <3>2 DEF RequestInv, TypeOK
    <3> QED
      BY <3>1, <3>3
  <2>7. \A d \in Clients : (Alive(d)' <=> Alive(d)) /\ InFlight(d)' \subseteq InFlight(d)
    BY <2>1 DEF Alive, InFlight
  <2>8. Pointers'
    BY <1>2, <2>7 DEF Live
  <2> QED
    BY <1>2, <2>3, <2>5, <2>6, <2>8 DEF Live
<1>14. ASSUME NEW p \in Packets, UseFreed(p) PROVE FALSE
  <2>1. pc # "over" /\ p \in Pool!Running /\ ~Alive(p[1])
    BY <1>14 DEF UseFreed, Up
  <2> QED
    BY <1>2, <2>1, RunningIsHeard
<1>15. ASSUME Stopped PROVE ~crashed' /\ Counts' /\ Heard' /\ Pointers'
  BY <1>1, <1>15 DEF Stopped
<1> QED
  BY <1>6, <1>7, <1>8, <1>9, <1>10, <1>11, <1>12, <1>13, <1>14, <1>15
  DEF Next, ClientNext, ServerThread, PacketNext

(***************************************************************************)
(* The raw pointer of a packet (main.cpp:142) outlives its connection, and *)
(* SIGPIPE ends the process, only if a client hung up on an unanswered     *)
(* request.                                                                *)
(***************************************************************************)
THEOREM PointersOutliveOnlyHangUps == SafeSpec => []FreedOnlyAfterHangUp
<1>1. Init => RequestInv /\ OwnerInv /\ LiveInv
  BY InitRequests, InitOwners, InitLive
<1>2. RequestInv /\ OwnerInv /\ LiveInv /\ [Next]_vars => RequestInv' /\ OwnerInv' /\ LiveInv'
  BY NextRequests, NextOwners, NextLive DEF RequestInv
<1>3. LiveInv => FreedOnlyAfterHangUp
  BY DEF LiveInv, Live, FreedOnlyAfterHangUp
<1> QED
  BY <1>1, <1>2, <1>3, PTL DEF SafeSpec
-----------------------------------------------------------------------------
(***************************************************************************)
(* What a client that waits for each reply is given.  While it waits, the  *)
(* request it sent is the last one that has arrived, so the type at the    *)
(* front of the buffer and the payload behind it are that request's,       *)
(* however late they are read.                                             *)
(***************************************************************************)
InStep(c) ==
    /\ sent[c] <= Len(inbox[c]) + 1
    /\ Ended(c) = 1 .. Len(inbox[c])
    /\ \A r \in Requests : kind[<<c, r>>] \in {0, r}
    /\ \A i \in DOMAIN inbox[c] :
         inbox[c][i] = [to |-> <<c, i>>, kind |-> i, value |-> i]

AnswerInv == ~early => \A c \in Clients \ Eager : InStep(c)

\* A packet of such a client that a worker holds is for the last request sent.
LEMMA RunningIsLastSent ==
    ASSUME RequestInv, pc # "over", NEW p \in Packets, p \in Pool!Running, InStep(p[1])
    PROVE  /\ p[2] = Len(inbox[p[1]]) + 1
           /\ head[p[1]] = p[2] /\ body[p[1]] = p[2]
<1> DEFINE c == p[1]
           r == p[2]
<1>1. c \in Clients /\ r \in Requests /\ p = <<c, r>> /\ p \notin done /\ r \in 1 .. rcvd[c]
  BY RunningIsTaken
<1>2. /\ rcvd[c] \in Int /\ body[c] \in Int /\ head[c] \in Int /\ sent[c] \in Int
      /\ Len(inbox[c]) \in Nat
  BY <1>1, LenProperties DEF RequestInv, TypeOK
<1>3. rcvd[c] <= body[c] /\ body[c] <= head[c] /\ head[c] <= sent[c]
  BY <1>1 DEF RequestInv, Arrived
<1>4. r \notin 1 .. Len(inbox[c]) /\ sent[c] <= Len(inbox[c]) + 1
  BY <1>1 DEF InStep, Ended
<1> HIDE DEF c, r
<1>5. r = Len(inbox[c]) + 1 /\ head[c] = r /\ body[c] = r
  BY <1>1, <1>2, <1>3, <1>4
<1> QED
  BY <1>5 DEF c, r

LEMMA InitAnswers == Init => AnswerInv
<1> SUFFICES ASSUME Init, NEW c \in Clients PROVE InStep(c)
  BY DEF AnswerInv
<1>1. inbox[c] = <<>> /\ Len(inbox[c]) = 0 /\ sent[c] = 0 /\ Ended(c) = {}
  BY EmptySeq DEF Init, Ended
<1>2. \A r \in Requests : kind[<<c, r>>] = 0
  BY DEF Init, Packets
<1>3. DOMAIN inbox[c] = {}
  BY <1>1
<1> QED
  BY <1>1, <1>2, <1>3 DEF InStep

LEMMA NextAnswers ==
    ASSUME RequestInv, OwnerInv, LiveInv, AnswerInv, [Next]_vars
    PROVE  AnswerInv'
<1> USE DEF clientVars, acceptVars, bufferVars, loopVars, poolVars, workVars
<1> SUFFICES ASSUME ~early', NEW c \in Clients \ Eager PROVE InStep(c)'
  BY DEF AnswerInv
<1>1. ~early /\ Live /\ InStep(c)
  <2>1. CASE UNCHANGED early
    BY <2>1 DEF LiveInv, AnswerInv
  <2>2. ASSUME NEW d \in Clients, HangUp(d) PROVE ~early
    BY <2>2, Zenon DEF HangUp
  <2> QED
    BY <2>1, <2>2 DEF LiveInv, AnswerInv, Next, ClientNext, Connect, SendRequest,
      AcceptThread, Accept, PushPending, ServerThread, ReceiveNothing, ReceiveData,
      ReceiveClosed, ReceiveEnd, Dispatch, HandleEnd, HandlePending, Exit, Release,
      WorkerTake, PacketNext, ReadType, SendReply, UseFreed, Terminate, Stopped, vars
<1>2. CASE UNCHANGED <<sent, inbox, done, kind>>
  BY <1>1, <1>2 DEF InStep, Ended
<1>3. ASSUME NEW d \in Clients, SendRequest(d) PROVE InStep(c)'
  <2>1. /\ sent' = [sent EXCEPT ![d] = @ + 1]
        /\ sent[d] < Len(inbox[d]) + Window(d)
        /\ UNCHANGED <<inbox, done, kind>>
    BY <1>3 DEF SendRequest
  <2>2. sent[c] \in Nat /\ Len(inbox[c]) \in Nat
    BY LenProperties, ServerAssumption DEF RequestInv, TypeOK
  <2>3. sent'[c] <= Len(inbox'[c]) + 1
    <3>1. CASE d = c
      <4>1. sent'[c] = sent[c] + 1 /\ sent[c] < Len(inbox[c]) + 1
        BY <2>1, <3>1 DEF Window, RequestInv, TypeOK
      <4> QED
        BY <2>1, <2>2, <4>1
    <3>2. CASE d # c
      <4>1. sent'[c] = sent[c]
        BY <2>1, <3>2 DEF RequestInv, TypeOK
      <4> QED
        BY <1>1, <2>1, <4>1 DEF InStep
    <3> QED
      BY <3>1, <3>2
  <2> QED
    BY <1>1, <2>1, <2>3 DEF InStep, Ended
<1>4. ASSUME NEW p \in Packets, ReadType(p) PROVE InStep(c)'
  <2>1. /\ pc # "over" /\ p \in Pool!Running
        /\ kind' = [kind EXCEPT ![p] = head[p[1]]]
        /\ UNCHANGED <<sent, inbox, done>>
    BY <1>4 DEF ReadType, Up
  <2>2. ASSUME NEW r \in Requests PROVE kind'[<<c, r>>] \in {0, r}
    <3>1. kind[<<c, r>>] \in {0, r} /\ <<c, r>> \in Packets
      BY <1>1 DEF InStep, Packets
    <3>2. CASE p = <<c, r>>
      <4>1. head[p[1]] = p[2] /\ p[1] = c /\ p[2] = r
        BY <1>1, <2>1, <3>2, RunningIsLastSent
      <4> QED
        BY <2>1, <3>1, <3>2, <4>1 DEF RequestInv, TypeOK
    <3>3. CASE p # <<c, r>>
      BY <2>1, <3>1, <3>3 DEF RequestInv, TypeOK
    <3> QED
      BY <3>2, <3>3
  <2> QED
    BY <1>1, <2>1, <2>2 DEF InStep, Ended
<1>5. ASSUME NEW p \in Packets, SendReply(p) PROVE InStep(c)'
  <2>1. /\ pc # "over" /\ p \in Pool!Running /\ kind[p] # 0 /\ done' = done \cup {p}
        /\ UNCHANGED <<sent, kind>>
    BY <1>5 DEF SendReply, Up, Pool!EndTask
  <2>2. peer[p[1]] = "up"
    BY <1>1, <2>1, RunningIsHeard
  <2>3. inbox' = [inbox EXCEPT ![p[1]] = Append(@, Reply(p))]
    BY <1>5, <2>2 DEF SendReply
  <2>4. p[1] \in Clients /\ p[2] \in Requests /\ p = <<p[1], p[2]>>
    BY <2>1, RunningIsTaken
  <2>5. CASE p[1] # c
    <3>1. inbox'[c] = inbox[c] /\ Ended(c)' = Ended(c)
      BY <2>1, <2>3, <2>4, <2>5 DEF RequestInv, TypeOK, Ended
    <3> QED
      BY <1>1, <2>1, <3>1 DEF InStep
  <2>6. CASE p[1] = c
    <3> DEFINE k == Len(inbox[c])
    <3>1. p[2] = k + 1 /\ body[c] = p[2]
      BY <1>1, <2>1, <2>6, RunningIsLastSent
    <3>2. kind[p] = p[2]
      BY <1>1, <2>1, <2>4, <2>6 DEF InStep
    <3>3. Reply(p) = [to |-> <<c, k + 1>>, kind |-> k + 1, value |-> k + 1]
      BY <2>4, <2>6, <3>1, <3>2 DEF Reply
    <3>4. Reply(p) \in Replies /\ inbox[c] \in Seq(Replies) /\ k \in Nat
      BY <2>1, RunningHasReply, LenProperties DEF RequestInv, TypeOK
    <3>5. inbox'[c] = Append(inbox[c], Reply(p))
      BY <2>3, <2>6 DEF RequestInv, TypeOK
    <3>6. /\ Len(inbox'[c]) = k + 1 /\ DOMAIN inbox'[c] = 1 .. k + 1
          /\ \A i \in 1 .. k : inbox'[c][i] = inbox[c][i]
          /\ inbox'[c][k + 1] = Reply(p)
          /\ DOMAIN inbox[c] = 1 .. k
      BY <3>4, <3>5, AppendProperties, LenProperties
    <3> HIDE DEF k
    <3>7. \A i \in DOMAIN inbox'[c] :
             inbox'[c][i] = [to |-> <<c, i>>, kind |-> i, value |-> i]
      <4>1. \A i \in 1 .. k : inbox'[c][i] = [to |-> <<c, i>>, kind |-> i, value |-> i]
        BY <1>1, <3>6 DEF InStep
      <4>2. \A i \in 1 .. k + 1 : i \in 1 .. k \/ i = k + 1
        BY <3>4
      <4> QED
        BY <3>3, <3>6, <4>1, <4>2
    <3>8. Ended(c)' = 1 .. k + 1
      <4>1. Ended(c) = 1 .. k
        BY <1>1 DEF InStep, k
      <4>2. Ended(c)' = Ended(c) \cup {k + 1}
        BY <2>1, <2>4, <2>6, <3>1 DEF Ended
      <4> QED
        BY <3>4, <4>1, <4>2
    <3>9. sent'[c] <= Len(inbox'[c]) + 1
      <4>1. sent[c] <= k + 1 /\ sent[c] \in Int
        BY <1>1 DEF InStep, RequestInv, TypeOK, k
      <4> QED
        BY <2>1, <3>4, <3>6, <4>1
    <3>10. \A r \in Requests : kind'[<<c, r>>] \in {0, r}
      BY <1>1, <2>1 DEF InStep
    <3> QED
      BY <3>6, <3>7, <3>8, <3>9, <3>10 DEF InStep
  <2> QED
    BY <2>5, <2>6
<1>6. ASSUME NEW p \in Packets, UseFreed(p) PROVE FALSE
  <2>1. pc # "over" /\ p \in Pool!Running /\ ~Alive(p[1])
    BY <1>6 DEF UseFreed, Up
  <2> QED
    BY <1>1, <2>1, RunningIsHeard
<1>7. ASSUME NEW d \in Clients,
             \/ Connect(d) \/ HangUp(d)
             \/ ReceiveNothing(d) \/ ReceiveData(d) \/ ReceiveClosed(d)
      PROVE  InStep(c)'
  BY <1>2, <1>7 DEF Connect, HangUp, ReceiveNothing, ReceiveData, ReceiveClosed
<1>8. ASSUME \/ AcceptThread \/ ReceiveEnd \/ Dispatch \/ HandleEnd \/ HandlePending
             \/ Exit \/ WorkerTake \/ Terminate
      PROVE  InStep(c)'
  BY <1>2, <1>8 DEF AcceptThread, Accept, PushPending, ReceiveEnd, Dispatch, HandleEnd,
    HandlePending, Exit, Release, WorkerTake, Terminate, Pool!SubmitTask, Pool!BeginTask
<1>9. CASE UNCHANGED vars
  BY <1>2, <1>9 DEF vars
<1> QED
  BY <1>3, <1>4, <1>5, <1>6, <1>7, <1>8, <1>9
  DEF Next, ClientNext, ServerThread, PacketNext, Stopped

(***************************************************************************)
(* The i-th reply a client is given answers its i-th request, by the       *)
(* handler of that request's type and with its own payload, although both  *)
(* are read late from a buffer the server thread keeps writing to          *)
(* (connection.cpp:55-62, client_controller.cpp:330), if it waits for each *)
(* reply and nobody hangs up early.                                        *)
(***************************************************************************)
THEOREM RepliesAreInKind == SafeSpec => []AnsweredInKind
<1>1. Init => RequestInv /\ OwnerInv /\ LiveInv /\ AnswerInv
  BY InitRequests, InitOwners, InitLive, InitAnswers
<1>2. RequestInv /\ OwnerInv /\ LiveInv /\ AnswerInv /\ [Next]_vars
      => RequestInv' /\ OwnerInv' /\ LiveInv' /\ AnswerInv'
  BY NextRequests, NextOwners, NextLive, NextAnswers DEF RequestInv
<1>3. AnswerInv => AnsweredInKind
  BY DEF AnswerInv, InStep, AnsweredInKind
<1> QED
  BY <1>1, <1>2, <1>3, PTL DEF SafeSpec
=============================================================================
