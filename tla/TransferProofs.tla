--------------------------- MODULE TransferProofs ---------------------------
(***************************************************************************)
(* Transfer for any number of clients, names and files, any lengths and    *)
(* any size of a chunk.  Four inductive invariants, each on top of those   *)
(* before it:                                                              *)
(*   TypeInv      types, and how far a download is in its file;            *)
(*   BlockInv     what a client still has to send is whole files one after *)
(*                another, of blocks that nothing contains yet;            *)
(*   DownloadInv  what has been fetched is what was opened, where the      *)
(*                server's file still is what was opened;                  *)
(*   UploadInv    what has been sent of a file is in front of the server's *)
(*                file, unless another upload of that name overlaps.       *)
(* FlattenSeq is a recursive function: what Upload makes of it is proved   *)
(* by induction up to the number of files.                                 *)
(***************************************************************************)
EXTENDS Transfer, SequenceTheorems, FiniteSetTheorems, WellFoundedInduction, TLAPS

-----------------------------------------------------------------------------
\* TypeInv.
Packets == [command : {"START", "CHUNK", "END"}, data : Contents,
            name : Names, nr : 1 .. MaxFiles, size : Lengths]
FileRecords == [name : Names \cup {Unset}, data : Contents, tail : BOOLEAN]
Claims == [known : BOOLEAN, data : Contents, tail : BOOLEAN]

Types ==
    /\ store \in [Names -> Contents] /\ exists \subseteq Names \ Directories
    /\ todo \in [Conns -> Seq(Packets)]
    /\ fd \in [Conns -> Names \cup {Unset}] /\ offset \in [Conns -> Nat]
    /\ download_fd \in [Conns -> Names \cup {Unset}]
    /\ fetch \in [Conns -> [next : Nat, chunks : Nat]]
    /\ local \in [Conns -> [Names -> Contents]]
    /\ given \in [Conns -> 0 .. MaxFiles]
    /\ uploading \in [Conns -> FileRecords] /\ contested \subseteq Conns
    /\ claim \in [Names -> Claims]
    /\ opened \in [Conns -> FileRecords] /\ fetched \in [Conns -> FileRecords]

\* A chunk is at most ChunkSize blocks, and a descriptor's offset is inside its file.
ChunksFit == \A c \in Conns : \A i \in DOMAIN todo[c] : Len(todo[c][i].data) <= ChunkSize
OffsetInside == \A c \in Conns : fd[c] # Unset => offset[c] <= Len(store[fd[c]])

\* A download under way: the server's file has not become shorter since it was
\* opened, and the local file reaches up to the next chunk.
Fetching(c) ==
    LET f == download_fd[c]
        here == local[c][f]
        n == Len(opened[c].data) IN
    /\ f \in Names /\ opened[c].name = f /\ fetched[c] = NoFile
    /\ fetch[c].chunks = ChunkCount(n) /\ fetch[c].next < fetch[c].chunks
    /\ n <= Len(store[f])
    /\ fetch[c].next * ChunkSize <= Len(here)
    /\ opened[c].tail <=> Len(here) > n

DownloadsUnderWay == \A c \in Conns : IF fetch[c].chunks = 0 THEN fetch[c].next = 0 ELSE Fetching(c)

TypeInv == Types /\ ChunksFit /\ OffsetInside /\ DownloadsUnderWay
-----------------------------------------------------------------------------
\* Which packet of its file a packet is, and the others of that file.
At(p) == IF p.data = <<>> THEN 1 ELSE ((p.data[1].at - 1) \div ChunkSize) + 2
FileOf(c, p) == FilePackets(c, p.name, p.nr, p.size)
SameFile(p, q) == p.name = q.name /\ p.nr = q.nr /\ p.size = q.size

Placed(c, p) == At(p) \in DOMAIN FileOf(c, p) /\ p = FileOf(c, p)[At(p)]
Followed(c, t, i) ==
    IF At(t[i]) < Len(FileOf(c, t[i]))
    THEN i < Len(t) /\ SameFile(t[i], t[i + 1]) /\ At(t[i + 1]) = At(t[i]) + 1
    ELSE i < Len(t) => At(t[i + 1]) = 1
Later(p, q) == p.nr < q.nr \/ (p.nr = q.nr /\ At(p) < At(q))

\* Whole files one after another, but for what is sent of the first.
InOrder(c, t) ==
    /\ \A i \in DOMAIN t : Placed(c, t[i]) /\ Followed(c, t, i)
    /\ \A i, j \in DOMAIN t : i < j => Later(t[i], t[j])

\* What a packet writes.
Written(c, p) ==
    IF p.command # "END" \/ p.data # <<>> THEN p.data ELSE Junk(c, p)

Pending(c) == UNION {Range(Written(c, todo[c][i])) : i \in DOMAIN todo[c]}

\* The blocks in the files of the server, and in what was opened for downloads.
Stored == UNION {Range(store[f]) : f \in Names}
Opened == UNION {Range(opened[c].data) : c \in Conns}
InUse == Stored \cup Opened

QueuesInOrder == \A c \in Conns : InOrder(c, todo[c])

\* Blocks are of files that a client has been told to send.
Counted ==
    /\ \A c \in Conns : \A i \in DOMAIN todo[c] : todo[c][i].nr <= given[c]
    /\ \A b \in InUse : b.nr <= given[b.by]

\* A block is written at most once.
PendingIsNew == \A c \in Conns : Pending(c) \cap InUse = {}

BlockInv == QueuesInOrder /\ Counted /\ PendingIsNew

\* What has been fetched is what was opened, where the server's file still is.
FetchedSoFar(c) ==
    LET f == download_fd[c] IN
    \A i \in 1 .. fetch[c].next * ChunkSize :
        store[f][i] = opened[c].data[i] => local[c][f][i] = opened[c].data[i]

DownloadsSoFar == \A c \in Conns : fetch[c].chunks > 0 => FetchedSoFar(c)

DownloadInv == TypeInv /\ BlockInv /\ DownloadsSoFar /\ DownloadedInFront
-----------------------------------------------------------------------------
\* No file is empty, and no name is a directory: see UploadsOk.
OrdinaryFiles == 0 \notin Lengths /\ Directories = {}

\* The START of the file being sent has gone through.
UnderWay(c) == todo[c] # <<>> /\ At(Head(todo[c])) > 1

\* What has been written is in place.
StoredSoFar(c) ==
    LET f == uploading[c].name
        data == uploading[c].data IN
    /\ \A i \in 1 .. offset[c] : store[f][i] = data[i]
    /\ uploading[c].tail <=> Len(store[f]) > Len(data)

\* An upload whose START has gone through and whose END has not.
Goes(c) ==
    LET p == Head(todo[c]) IN
    /\ uploading[c].name = p.name /\ uploading[c].data = Source(c, p.nr, p.size)
    /\ fd[c] = p.name /\ offset[c] = (At(p) - 2) * ChunkSize
    /\ p.name \in exists
    /\ c \notin contested => StoredSoFar(c)

Uploads == \A c \in Conns : IF UnderWay(c) THEN Goes(c) ELSE uploading[c] = NoFile

\* The history variables: an upload that shares its file is contested, and
\* a claim ends when an upload to its file begins.
SharedIsContested ==
    \A c, d \in Conns : c # d /\ uploading[c] # NoFile /\ uploading[c].name = uploading[d].name =>
        c \in contested

ClaimedIsAtRest == \A f \in Names : claim[f].known => Uploading(f) = {}

UploadInv ==
    /\ TypeInv /\ QueuesInOrder
    /\ Uploads /\ SharedIsContested /\ ClaimedIsAtRest /\ OkMeansStoredInFront
-----------------------------------------------------------------------------
\* Division with remainder.
LEMMA Division ==
    ASSUME NEW n \in Nat, NEW k \in Nat \ {0}
    PROVE  /\ n \div k \in Nat /\ n % k \in 0 .. k - 1
           /\ n = k * (n \div k) + (n % k)
  OBVIOUS

\* The next multiple is not beyond a later one.
LEMMA MultiplesGrow ==
    ASSUME NEW i \in Nat, NEW j \in Nat, NEW k \in Nat, i < j
    PROVE  /\ i * k \in Nat /\ j * k \in Nat
           /\ (i + 1) * k = i * k + k /\ (i + 1) * k <= j * k
  OBVIOUS

\* ChunkCount is the number of chunks that cover a file: each of them begins in it,
\* and only the last one reaches its end.
LEMMA ChunkCountBounds ==
    ASSUME NEW n \in Nat
    PROVE  /\ ChunkCount(n) \in Nat
           /\ n <= ChunkCount(n) * ChunkSize
           /\ ChunkCount(n) > 0 <=> n > 0
           /\ \A i \in Nat : i < ChunkCount(n) => i * ChunkSize < n
           /\ \A i \in Nat : i + 1 < ChunkCount(n) => (i + 1) * ChunkSize < n
           /\ \A i \in Nat : i + 1 = ChunkCount(n) => n <= (i + 1) * ChunkSize
<1>1. ChunkSize \in Nat \ {0}
  BY TransferAssumption
<1> DEFINE q == n \div ChunkSize
           r == n % ChunkSize
<1>2. q \in Nat /\ r \in 0 .. ChunkSize - 1 /\ n = ChunkSize * q + r
  BY <1>1, Division
<1>3. ChunkCount(n) = q + (IF r # 0 THEN 1 ELSE 0)
  BY DEF ChunkCount
<1> HIDE DEF q, r
<1>4. CASE r = 0
  BY <1>1, <1>2, <1>3, <1>4
<1>5. CASE r # 0
  BY <1>1, <1>2, <1>3, <1>5
<1> QED
  BY <1>4, <1>5

\* The blocks of a chunk.
LEMMA ChunkOfFile ==
    ASSUME NEW S, NEW data \in Seq(S), NEW i \in Nat, i * ChunkSize <= Len(data)
    PROVE  /\ ChunkOf(data, i) \in Seq(S)
           /\ i * ChunkSize \in Nat
           /\ Len(ChunkOf(data, i)) = IF (i + 1) * ChunkSize <= Len(data)
                                      THEN ChunkSize ELSE Len(data) - i * ChunkSize
           /\ Len(ChunkOf(data, i)) \in 0 .. ChunkSize
           /\ \A k \in 1 .. Len(ChunkOf(data, i)) :
                 /\ i * ChunkSize + k \in 1 .. Len(data)
                 /\ ChunkOf(data, i)[k] = data[i * ChunkSize + k]
<1> DEFINE m == i * ChunkSize
           n == IF (i + 1) * ChunkSize <= Len(data) THEN (i + 1) * ChunkSize ELSE Len(data)
<1>1. /\ ChunkSize \in Nat \ {0} /\ Len(data) \in Nat
      /\ (i + 1) * ChunkSize = m + ChunkSize /\ m \in Nat
  BY TransferAssumption, LenProperties
<1>2. ChunkOf(data, i) = SubSeq(data, m + 1, n)
  BY DEF ChunkOf
<1>3. m <= Len(data) /\ n \in m .. Len(data)
  BY <1>1
<1>4. n - m = IF (i + 1) * ChunkSize <= Len(data) THEN ChunkSize ELSE Len(data) - m
  <2> DEFINE next == (i + 1) * ChunkSize
  <2> HIDE DEF m, next
  <2>1. next = m + ChunkSize
    BY <1>1 DEF next
  <2> QED
    BY <2>1, <1>1 DEF next
<1>5. n - m \in 0 .. ChunkSize
  BY <1>1, <1>3, <1>4
<1> HIDE DEF m, n
<1>6. /\ SubSeq(data, m + 1, n) \in Seq(S)
      /\ Len(SubSeq(data, m + 1, n)) = n - m
      /\ \A k \in 1 .. n - m : SubSeq(data, m + 1, n)[k] = data[m + k]
  <2>1. m + 1 \in 1 .. Len(data) + 1 /\ n \in m .. Len(data)
    BY <1>1, <1>3
  <2>2. /\ SubSeq(data, m + 1, n) \in Seq(S)
        /\ Len(SubSeq(data, m + 1, n)) = IF m + 1 <= n THEN n - (m + 1) + 1 ELSE 0
        /\ \A k \in 1 .. n - (m + 1) + 1 : SubSeq(data, m + 1, n)[k] = data[(m + 1) + k - 1]
    BY <2>1, <1>1, SubSeqProperties
  <2> QED
    BY <2>2, <1>1, <1>3
<1>7. \A k \in 1 .. n - m : m + k \in 1 .. Len(data)
  BY <1>1, <1>3
<1> QED
  BY <1>1, <1>2, <1>4, <1>5, <1>6, <1>7 DEF m

\* Source is a file of so many blocks, numbered from 1.
LEMMA SourceIsAFile ==
    ASSUME NEW c \in Conns, NEW nr \in 1 .. MaxFiles, NEW n \in Nat
    PROVE  /\ Source(c, nr, n) \in Contents /\ Len(Source(c, nr, n)) = n
           /\ \A i \in 1 .. n : Source(c, nr, n)[i] = [by |-> c, nr |-> nr, at |-> i]
<1>1. \A i \in 1 .. n : [by |-> c, nr |-> nr, at |-> i] \in Blocks
  BY DEF Blocks
<1> QED
  BY <1>1, IsASeq DEF Source, Contents

\* What a write leaves of a file that reaches up to where it is written.
LEMMA WriteExtends ==
    ASSUME NEW S, NEW content \in Seq(S), NEW data \in Seq(S), NEW pos \in 0 .. Len(content)
    PROVE  /\ Write(content, pos, data) \in Seq(S)
           /\ Len(Write(content, pos, data)) = IF pos + Len(data) > Len(content)
                                               THEN pos + Len(data) ELSE Len(content)
           /\ \A i \in 1 .. Len(data) :
                 /\ pos + i \in DOMAIN Write(content, pos, data)
                 /\ Write(content, pos, data)[pos + i] = data[i]
           /\ \A i \in 1 .. Len(content) : ~(i > pos /\ i <= pos + Len(data)) =>
                 Write(content, pos, data)[i] = content[i]
           /\ \A i \in 1 .. Len(content) :
                 \/ Write(content, pos, data)[i] = content[i]
                 \/ Write(content, pos, data)[i] \in Range(data)
           /\ Range(Write(content, pos, data)) \subseteq Range(content) \cup Range(data)
<1> DEFINE w == Write(content, pos, data)
           n == IF pos + Len(data) > Len(content) THEN pos + Len(data) ELSE Len(content)
<1>1. /\ Len(content) \in Nat /\ Len(data) \in Nat /\ pos \in Nat
      /\ DOMAIN content = 1 .. Len(content) /\ DOMAIN data = 1 .. Len(data)
      /\ \A i \in 1 .. Len(content) : content[i] \in S
      /\ \A i \in 1 .. Len(data) : data[i] \in S
  BY LenProperties, ElementOfSeq
<1>2. n \in Nat /\ pos + Len(data) <= n /\ Len(content) <= n
  BY <1>1
<1>3. w = [i \in 1 .. n |-> IF i > pos /\ i <= pos + Len(data) THEN data[i - pos] ELSE content[i]]
  BY DEF Write
<1>4. \A i \in 1 .. n : IF i > pos /\ i <= pos + Len(data)
                        THEN i - pos \in 1 .. Len(data) ELSE i \in 1 .. Len(content)
  BY <1>1
<1> HIDE DEF n, w
<1>5. \A i \in 1 .. n : w[i] \in S /\ w[i] \in Range(content) \cup Range(data)
  <2> SUFFICES ASSUME NEW i \in 1 .. n
               PROVE  w[i] \in S /\ w[i] \in Range(content) \cup Range(data)
    OBVIOUS
  <2>1. CASE i > pos /\ i <= pos + Len(data)
    <3>1. w[i] = data[i - pos] /\ i - pos \in 1 .. Len(data)
      BY <2>1, <1>3, <1>4
    <3> QED
      BY <3>1, <1>1 DEF Range
  <2>2. CASE ~(i > pos /\ i <= pos + Len(data))
    <3>1. w[i] = content[i] /\ i \in 1 .. Len(content)
      BY <2>2, <1>3, <1>4
    <3> QED
      BY <3>1, <1>1 DEF Range
  <2> QED
    BY <2>1, <2>2
<1>6. w \in Seq(S) /\ Len(w) = n /\ DOMAIN w = 1 .. n
  <2>1. w \in [1 .. n -> S]
    BY <1>3, <1>5
  <2>2. w \in Seq(S)
    BY <2>1, <1>2
  <2>3. DOMAIN w = 1 .. n
    BY <1>3
  <2> QED
    BY <2>2, <2>3, <1>2, LenProperties
<1>7. \A i \in 1 .. Len(data) : pos + i \in 1 .. n /\ w[pos + i] = data[i]
  <2> SUFFICES ASSUME NEW i \in 1 .. Len(data)
               PROVE  pos + i \in 1 .. n /\ w[pos + i] = data[i]
    OBVIOUS
  <2>1. pos + i \in 1 .. n /\ pos + i > pos /\ pos + i <= pos + Len(data) /\ (pos + i) - pos = i
    BY <1>1, <1>2
  <2> QED
    BY <2>1, <1>3
<1>8. \A i \in 1 .. Len(content) : ~(i > pos /\ i <= pos + Len(data)) => w[i] = content[i]
  BY <1>1, <1>2, <1>3
<1>9. Range(w) \subseteq Range(content) \cup Range(data)
  BY <1>5, <1>6 DEF Range
<1>10. \A i \in 1 .. Len(content) : w[i] = content[i] \/ w[i] \in Range(data)
  <2> SUFFICES ASSUME NEW i \in 1 .. Len(content), i > pos /\ i <= pos + Len(data)
               PROVE  w[i] \in Range(data)
    BY <1>8
  <2>1. i \in 1 .. n
    BY <1>1, <1>2
  <2>2. w[i] = data[i - pos] /\ i - pos \in 1 .. Len(data)
    BY <2>1, <1>3, <1>4
  <2> QED
    BY <2>2, <1>1 DEF Range
<1> QED
  BY <1>6, <1>7, <1>8, <1>9, <1>10 DEF w, n

-----------------------------------------------------------------------------
\* A set of numbers that is not empty has a least one: from the library's theorem
\* that strict inclusion of finite sets is well founded.
LEMMA LeastNatural ==
    ASSUME NEW T \in SUBSET Nat, T # {}
    PROVE  \E n \in T : \A m \in T : n <= m
<1> DEFINE UpTo(n) == 0 .. n
           Family == {UpTo(n) : n \in T}
<1>1. Family \subseteq FiniteSubsetsOf(Nat)
  <2>1. ASSUME NEW n \in T PROVE UpTo(n) \in SUBSET Nat /\ IsFiniteSet(UpTo(n))
    <3>1. n \in Nat
      OBVIOUS
    <3>2. IsFiniteSet(0 .. n)
      BY <3>1, FS_Interval
    <3> QED
      BY <3>1, <3>2
  <2> QED
    BY <2>1 DEF FiniteSubsetsOf
<1>2. Family # {}
  OBVIOUS
<1>3. PICK x \in Family : \A y \in Family : ~(<<y, x>> \in StrictSubsetOrdering(Nat))
  <2>1. IsWellFoundedOn(StrictSubsetOrdering(Nat), FiniteSubsetsOf(Nat))
    BY FS_StrictSubsetOrderingWellFounded
  <2> HIDE DEF Family
  <2> QED
    BY <1>1, <1>2, <2>1, WFMin
<1>4. PICK n \in T : x = UpTo(n)
  OBVIOUS
<1>5. ASSUME NEW m \in T, m < n PROVE FALSE
  <2>1. UpTo(m) \in Family /\ UpTo(m) \subseteq UpTo(n) /\ n \in UpTo(n) /\ n \notin UpTo(m)
    BY <1>5
  <2>2. <<UpTo(m), UpTo(n)>> \in StrictSubsetOrdering(Nat)
    <3>1. UpTo(m) \in SUBSET Nat /\ UpTo(n) \in SUBSET Nat
      BY <1>5
    <3>2. UpTo(m) # UpTo(n)
      BY <2>1
    <3> HIDE DEF UpTo
    <3> QED
      BY <2>1, <3>1, <3>2 DEF StrictSubsetOrdering
  <2> QED
    BY <1>3, <1>4, <2>1, <2>2
<1> QED
  BY <1>5

\* Induction up to n, over a set: its least exception would have none before it.
LEMMA Induction ==
    ASSUME NEW T, NEW n \in Nat, 1 \in T, \A i \in 1 .. n : i \in T /\ i < n => i + 1 \in T
    PROVE  \A i \in 1 .. n : i \in T
<1> SUFFICES ASSUME NEW i \in 1 .. n, i \notin T
             PROVE  FALSE
  OBVIOUS
<1> DEFINE U == {k \in 1 .. n : k \notin T}
<1>1. U \in SUBSET Nat /\ U # {}
  OBVIOUS
<1>2. PICK k \in U : \A m \in U : k <= m
  <2> HIDE DEF U
  <2> QED
    BY <1>1, LeastNatural
<1>3. k \in 1 .. n /\ k \notin T /\ k # 1
  OBVIOUS
<1>4. k - 1 \in 1 .. n /\ k - 1 < n /\ (k - 1) + 1 = k /\ k - 1 \notin U
  BY <1>2, <1>3
<1> QED
  BY <1>3, <1>4

\* FlattenSeq concatenates from the left.
LEMMA Flattened ==
    ASSUME NEW S, NEW seqs \in Seq(Seq(S)), Len(seqs) > 0
    PROVE  \E g \in [1 .. Len(seqs) -> Seq(S)] :
              /\ g[1] = seqs[1]
              /\ \A i \in 1 .. Len(seqs) - 1 : g[i + 1] = g[i] \o seqs[i + 1]
              /\ FlattenSeq(seqs) = g[Len(seqs)]
<1> DEFINE n == Len(seqs)
           Step(g, i) == IF i = 1 THEN seqs[i] ELSE g[i - 1] \o seqs[i]
           Builds(g, k) == g \in [1 .. k -> Seq(S)] /\ \A i \in 1 .. k : g[i] = Step(g, i)
           T == {k \in 1 .. n : \E g : Builds(g, k)}
<1>1. n \in Nat /\ n > 0 /\ \A i \in 1 .. n : seqs[i] \in Seq(S)
  BY LenProperties, ElementOfSeq
<1> HIDE DEF n
<1>2. 1 \in T
  <2>1. Builds([i \in 1 .. 1 |-> seqs[1]], 1)
    BY <1>1
  <2>2. 1 \in 1 .. n
    BY <1>1
  <2> HIDE DEF Builds
  <2> QED
    BY <2>1, <2>2
<1>3. ASSUME NEW k \in 1 .. n, k \in T, k < n PROVE k + 1 \in T
  <2>1. PICK g : Builds(g, k)
    BY <1>3
  <2> DEFINE h == [i \in 1 .. k + 1 |-> IF i = k + 1 THEN g[k] \o seqs[k + 1] ELSE g[i]]
  <2>2. g[k] \o seqs[k + 1] \in Seq(S)
    <3>1. g[k] \in Seq(S) /\ seqs[k + 1] \in Seq(S)
      BY <2>1, <1>1, <1>3
    <3> QED
      BY <3>1, ConcatProperties
  <2>3. h \in [1 .. k + 1 -> Seq(S)]
    BY <2>1, <2>2, <1>3
  <2>4. ASSUME NEW i \in 1 .. k + 1 PROVE h[i] = Step(h, i)
    <3>1. CASE i = k + 1
      <4>1. i # 1 /\ i - 1 = k /\ h[i - 1] = g[k] /\ k + 1 \in 1 .. k + 1
        BY <3>1, <1>3
      <4>2. h[k + 1] = g[k] \o seqs[k + 1]
        BY <4>1
      <4> QED
        BY <3>1, <4>1, <4>2
    <3>2. CASE i # k + 1
      <4>1. i \in 1 .. k /\ h[i] = g[i]
        BY <3>2, <1>3
      <4>2. g[i] = Step(g, i)
        BY <2>1, <4>1
      <4>3. i # 1 => h[i - 1] = g[i - 1]
        BY <4>1, <1>3
      <4> QED
        BY <4>1, <4>3, <4>2
    <3> QED
      BY <3>1, <3>2
  <2> HIDE DEF h
  <2>5. Builds(h, k + 1)
    BY <2>3, <2>4
  <2>6. k + 1 \in 1 .. n
    BY <1>1, <1>3
  <2> HIDE DEF Builds
  <2> QED
    BY <2>5, <2>6
<1>4. PICK f : Builds(f, n)
  <2>1. \A k \in 1 .. n : k \in T
    <3> HIDE DEF T
    <3> QED
      BY <1>1, <1>2, <1>3, Induction
  <2>2. n \in 1 .. n
    BY <1>1
  <2> HIDE DEF Builds
  <2> QED
    BY <2>1, <2>2
<1> DEFINE Rec(g) == g = [i \in 1 .. Len(seqs) |-> IF i = 1 THEN seqs[i] ELSE g[i - 1] \o seqs[i]]
           F == CHOOSE g : Rec(g)
<1>5. Rec(f)
  BY <1>4 DEF n
<1>6. Rec(F)
  <2> HIDE DEF Rec
  <2> QED
    BY <1>5
<1>7. FlattenSeq(seqs) = F[n]
  BY <1>1 DEF FlattenSeq, n
<1> HIDE DEF F
<1>8. \A i \in 1 .. n : F[i] = IF i = 1 THEN seqs[i] ELSE F[i - 1] \o seqs[i]
  BY <1>6 DEF n
<1>9. \A i \in 1 .. n : F[i] = f[i]
  <2> DEFINE V == {i \in 1 .. n : F[i] = f[i]}
  <2>1. 1 \in V
    <3>1. 1 \in 1 .. n
      BY <1>1
    <3>2. f[1] = seqs[1] /\ F[1] = seqs[1]
      BY <3>1, <1>4, <1>8
    <3> QED
      BY <3>1, <3>2
  <2>2. ASSUME NEW i \in 1 .. n, i \in V, i < n PROVE i + 1 \in V
    <3>1. i + 1 \in 1 .. n /\ i + 1 # 1 /\ (i + 1) - 1 = i
      BY <2>2, <1>1
    <3>2. F[i + 1] = F[i] \o seqs[i + 1] /\ f[i + 1] = f[i] \o seqs[i + 1]
      BY <3>1, <1>4, <1>8
    <3> QED
      BY <2>2, <3>1, <3>2
  <2>3. \A i \in 1 .. n : i \in V
    <3> HIDE DEF V
    <3> QED
      BY <1>1, <2>1, <2>2, Induction
  <2> QED
    BY <2>3
<1>10. /\ f \in [1 .. n -> Seq(S)] /\ f[1] = seqs[1]
       /\ \A i \in 1 .. n - 1 : f[i + 1] = f[i] \o seqs[i + 1]
       /\ FlattenSeq(seqs) = f[n]
  <2>1. \A i \in 1 .. n - 1 : i + 1 \in 1 .. n /\ i + 1 # 1 /\ (i + 1) - 1 = i
    BY <1>1
  <2>2. 1 \in 1 .. n /\ n \in 1 .. n
    BY <1>1
  <2> QED
    BY <2>1, <2>2, <1>4, <1>7, <1>9
<1> QED
  BY <1>10 DEF n

\* What the packets of a file are: the first without data, the i-th with the
\* chunk before the last i - 1.
FileShape(F, n, c, name, nr, size) ==
    /\ n \in Nat /\ F \in Seq(Packets) /\ Len(F) = n + 1 /\ DOMAIN F = 1 .. n + 1
    /\ \A i \in 1 .. n + 1 :
          /\ F[i].name = name /\ F[i].nr = nr /\ F[i].size = size
          /\ F[i].command = IF i = n + 1 THEN "END" ELSE IF i = 1 THEN "START" ELSE "CHUNK"
          /\ At(F[i]) = i /\ Len(F[i].data) <= ChunkSize
    /\ F[1].data = <<>>
    /\ \A i \in 2 .. n + 1 :
          /\ F[i].data = ChunkOf(Source(c, nr, size), i - 2) /\ F[i].data # <<>>
          /\ i - 2 \in Nat /\ (i - 2) * ChunkSize < size

\* The packets of a file, and which of them each is.
LEMMA PacketsOfFile ==
    ASSUME NEW c \in Conns, NEW name \in Names, NEW nr \in 1 .. MaxFiles, NEW size \in Lengths
    PROVE  FileShape(FilePackets(c, name, nr, size), ChunkCount(size), c, name, nr, size)
<1> DEFINE F == FilePackets(c, name, nr, size)
           n == ChunkCount(size)
           data == Source(c, nr, size)
           start == [command |-> "START", data |-> <<>>, name |-> name, nr |-> nr, size |-> size]
           chunks == [i \in 1 .. n |-> [start EXCEPT !.command = "CHUNK", !.data = ChunkOf(data, i - 1)]]
           all == <<start>> \o chunks
<1>1. size \in Nat /\ n \in Nat /\ ChunkSize \in Nat \ {0}
  BY TransferAssumption, ChunkCountBounds
<1>2. /\ data \in Contents /\ Len(data) = size
      /\ \A i \in 1 .. size : data[i] = [by |-> c, nr |-> nr, at |-> i]
  BY <1>1, SourceIsAFile
<1>3. ASSUME NEW i \in 1 .. n
      PROVE  /\ i - 1 \in Nat /\ (i - 1) * ChunkSize < size /\ (i - 1) * ChunkSize \in Nat
             /\ ChunkOf(data, i - 1) \in Contents
             /\ Len(ChunkOf(data, i - 1)) \in 1 .. ChunkSize
             /\ ChunkOf(data, i - 1)[1].at = (i - 1) * ChunkSize + 1
  <2>1. i - 1 \in Nat /\ (i - 1) * ChunkSize < size
    <3>1. i - 1 \in Nat /\ i - 1 < n
      BY <1>1
    <3> QED
      BY <3>1, <1>1, ChunkCountBounds
  <2>2. /\ ChunkOf(data, i - 1) \in Contents
        /\ (i - 1) * ChunkSize \in Nat
        /\ Len(ChunkOf(data, i - 1)) = IF ((i - 1) + 1) * ChunkSize <= Len(data)
                                       THEN ChunkSize ELSE Len(data) - (i - 1) * ChunkSize
        /\ Len(ChunkOf(data, i - 1)) \in 0 .. ChunkSize
        /\ \A k \in 1 .. Len(ChunkOf(data, i - 1)) :
                 /\ (i - 1) * ChunkSize + k \in 1 .. Len(data)
                 /\ ChunkOf(data, i - 1)[k] = data[(i - 1) * ChunkSize + k]
    <3>1. (i - 1) * ChunkSize <= Len(data)
      BY <2>1, <1>1, <1>2
    <3> HIDE DEF data
    <3> QED
      BY <3>1, <2>1, <1>2, ChunkOfFile DEF Contents
  <2>3. Len(ChunkOf(data, i - 1)) > 0
    BY <1>1, <1>2, <2>1, <2>2
  <2>4. 1 \in 1 .. Len(ChunkOf(data, i - 1))
    BY <2>2, <2>3
  <2>5. ChunkOf(data, i - 1)[1].at = (i - 1) * ChunkSize + 1
    BY <1>2, <2>2, <2>4
  <2> QED
    BY <2>1, <2>2, <2>3, <2>5
<1>4. start \in Packets
  <2>1. <<>> \in Contents
    BY DEF Contents
  <2> QED
    BY <2>1 DEF Packets
<1>5. ASSUME NEW i \in 1 .. n PROVE chunks[i] \in Packets
  BY <1>3, <1>4 DEF Packets
<1>6. chunks \in Seq(Packets) /\ Len(chunks) = n
  <2>1. chunks \in [1 .. n -> Packets]
    BY <1>5
  <2> HIDE DEF chunks
  <2> QED
    BY <2>1, <1>1, LenProperties
<1>7. /\ all \in Seq(Packets) /\ Len(all) = n + 1 /\ DOMAIN all = 1 .. n + 1
      /\ all[1] = start /\ \A i \in 2 .. n + 1 : all[i] = chunks[i - 1]
  <2> HIDE DEF start, chunks, n
  <2>1. <<start>> \in Seq(Packets) /\ Len(<<start>>) = 1 /\ <<start>>[1] = start
    BY <1>4
  <2>2. /\ all \in Seq(Packets) /\ Len(all) = 1 + n
        /\ \A i \in 1 .. 1 : all[i] = <<start>>[i]
        /\ \A i \in 1 .. n : all[1 + i] = chunks[i]
    BY <2>1, <1>6, ConcatProperties
  <2>3. \A i \in 2 .. n + 1 : i - 1 \in 1 .. n /\ 1 + (i - 1) = i
    BY <1>1
  <2> HIDE DEF all
  <2> QED
    BY <2>1, <2>2, <2>3, <1>1, LenProperties
<1>8. F = [all EXCEPT ![n + 1].command = "END"]
  BY <1>7 DEF FilePackets
<1>9. \A i \in 1 .. n + 1 : F[i] = IF i = n + 1 THEN [all[i] EXCEPT !.command = "END"] ELSE all[i]
  <2> HIDE DEF all, F
  <2> QED
    BY <1>7, <1>8
<1>10. ASSUME NEW p \in Packets
      PROVE  LET q == [p EXCEPT !.command = "END"] IN
             /\ q \in Packets /\ q.command = "END"
             /\ q.name = p.name /\ q.nr = p.nr /\ q.size = p.size /\ q.data = p.data
  BY DEF Packets
<1>11. ASSUME NEW i \in 1 .. n + 1
       PROVE  /\ F[i].name = name /\ F[i].nr = nr /\ F[i].size = size /\ F[i] \in Packets
              /\ F[i].command = IF i = n + 1 THEN "END" ELSE IF i = 1 THEN "START" ELSE "CHUNK"
              /\ F[i].data = IF i = 1 THEN <<>> ELSE ChunkOf(data, i - 2)
  <2> HIDE DEF all, F, n, data
  <2>1. CASE i = 1
    <3>1. all[i] = start
      BY <2>1, <1>7
    <3>2. /\ all[i] \in Packets /\ all[i].command = "START" /\ all[i].data = <<>>
          /\ all[i].name = name /\ all[i].nr = nr /\ all[i].size = size
      BY <3>1, <1>4
    <3>3. F[i] = IF i = n + 1 THEN [all[i] EXCEPT !.command = "END"] ELSE all[i]
      BY <1>9
    <3> HIDE DEF start
    <3>4. CASE i = n + 1
      BY <3>2, <3>3, <3>4, <1>10, <2>1
    <3>5. CASE i # n + 1
      BY <3>2, <3>3, <3>5, <2>1
    <3> QED
      BY <3>4, <3>5
  <2>2. CASE i # 1
    <3>1. i \in 2 .. n + 1 /\ i - 1 \in 1 .. n /\ (i - 1) - 1 = i - 2
      BY <2>2, <1>1
    <3>2. all[i] = [start EXCEPT !.command = "CHUNK", !.data = ChunkOf(data, i - 2)]
      BY <3>1, <1>7
    <3>3. ChunkOf(data, i - 2) \in Contents
      BY <3>1, <1>3
    <3>4. /\ all[i] \in Packets /\ all[i].command = "CHUNK"
          /\ all[i].name = name /\ all[i].nr = nr /\ all[i].size = size
          /\ all[i].data = ChunkOf(data, i - 2)
      BY <3>2, <3>3, <1>4 DEF Packets
    <3> QED
      BY <2>2, <3>4, <1>9, <1>10
  <2> QED
    BY <2>1, <2>2
<1>12. F \in Seq(Packets) /\ Len(F) = n + 1 /\ DOMAIN F = 1 .. n + 1
  <2>1. DOMAIN F = 1 .. n + 1
    <3> HIDE DEF all, F
    <3> QED
      BY <1>7, <1>8
  <2>2. F = [i \in 1 .. n + 1 |-> F[i]]
    <3> HIDE DEF all
    <3> QED
      BY <1>7, <1>8
  <2>3. F \in [1 .. n + 1 -> Packets]
    <3> HIDE DEF F, n
    <3> QED
      BY <2>2, <1>11
  <2> HIDE DEF F, n
  <2> QED
    BY <2>1, <2>3, <1>1, LenProperties
<1>13. ASSUME NEW i \in 2 .. n + 1
       PROVE  /\ F[i].data = ChunkOf(data, i - 2) /\ F[i].data # <<>>
              /\ i - 2 \in Nat /\ (i - 2) * ChunkSize < size
              /\ At(F[i]) = i /\ Len(F[i].data) <= ChunkSize
  <2> HIDE DEF F, n, data
  <2>1. i \in 1 .. n + 1 /\ i # 1 /\ i - 1 \in 1 .. n /\ (i - 1) - 1 = i - 2 /\ i - 2 \in Nat
    BY <1>1
  <2>2. F[i].data = ChunkOf(data, i - 2)
    BY <2>1, <1>11
  <2>3. /\ (i - 2) * ChunkSize < size /\ (i - 2) * ChunkSize \in Nat
        /\ F[i].data \in Contents
        /\ Len(F[i].data) \in 1 .. ChunkSize
        /\ F[i].data[1].at = (i - 2) * ChunkSize + 1
    BY <2>1, <2>2, <1>3
  <2>4. F[i].data # <<>>
    BY <2>3
  <2>5. ((i - 2) * ChunkSize) \div ChunkSize = i - 2
    BY <2>1, <1>1
  <2>6. ((i - 2) * ChunkSize + 1) - 1 = (i - 2) * ChunkSize
    BY <2>3
  <2>7. At(F[i]) = (i - 2) + 2
    BY <2>3, <2>4, <2>5, <2>6 DEF At
  <2> QED
    BY <2>1, <2>2, <2>3, <2>4, <2>7
<1>14. F[1].data = <<>> /\ At(F[1]) = 1 /\ Len(F[1].data) <= ChunkSize
  <2>1. 1 \in 1 .. n + 1
    BY <1>1
  <2>2. F[1].data = <<>>
    <3> HIDE DEF F, n
    <3> QED
      BY <2>1, <1>11
  <2> HIDE DEF F
  <2> QED
    BY <2>2, <1>1 DEF At
<1>15. \A i \in 1 .. n + 1 : i = 1 \/ i \in 2 .. n + 1
  BY <1>1
<1> HIDE DEF F, n, data
<1>16. \A i \in 1 .. n + 1 :
          /\ F[i].name = name /\ F[i].nr = nr /\ F[i].size = size
          /\ F[i].command = IF i = n + 1 THEN "END" ELSE IF i = 1 THEN "START" ELSE "CHUNK"
          /\ At(F[i]) = i /\ Len(F[i].data) <= ChunkSize
  BY <1>11, <1>13, <1>14, <1>15
<1>17. FileShape(F, n, c, name, nr, size)
  BY <1>1, <1>12, <1>13, <1>14, <1>16 DEF FileShape, data
<1> QED
  BY <1>17 DEF F, n

-----------------------------------------------------------------------------
\* What a packet in its place is known to be.
LEMMA PlacedPacket ==
    ASSUME NEW c \in Conns, NEW p \in Packets, Placed(c, p)
    PROVE  LET n == ChunkCount(p.size)
               data == Source(c, p.nr, p.size) IN
           /\ n \in Nat /\ At(p) \in 1 .. n + 1 /\ Len(FileOf(c, p)) = n + 1
           /\ p.command = IF At(p) = n + 1 THEN "END" ELSE IF At(p) = 1 THEN "START" ELSE "CHUNK"
           /\ IF At(p) = 1 THEN p.data = <<>>
              ELSE /\ p.data = ChunkOf(data, At(p) - 2) /\ p.data # <<>>
                   /\ At(p) - 2 \in Nat /\ (At(p) - 2) * ChunkSize < p.size
<1>1. p.name \in Names /\ p.nr \in 1 .. MaxFiles /\ p.size \in Lengths
  BY DEF Packets
<1> DEFINE F == FilePackets(c, p.name, p.nr, p.size)
           n == ChunkCount(p.size)
<1>2. /\ n \in Nat /\ Len(F) = n + 1 /\ DOMAIN F = 1 .. n + 1
      /\ \A i \in 1 .. n + 1 :
            F[i].command = IF i = n + 1 THEN "END" ELSE IF i = 1 THEN "START" ELSE "CHUNK"
      /\ F[1].data = <<>>
      /\ \A i \in 2 .. n + 1 :
            /\ F[i].data = ChunkOf(Source(c, p.nr, p.size), i - 2) /\ F[i].data # <<>>
            /\ i - 2 \in Nat /\ (i - 2) * ChunkSize < p.size
  <2>1. FileShape(F, n, c, p.name, p.nr, p.size)
    BY <1>1, PacketsOfFile
  <2> HIDE DEF F, n
  <2> QED
    BY <2>1 DEF FileShape
<1>3. FileOf(c, p) = F /\ At(p) \in DOMAIN F /\ p = F[At(p)]
  BY DEF Placed, FileOf
<1> HIDE DEF F, n
<1>4. At(p) \in 1 .. n + 1 /\ (At(p) # 1 => At(p) \in 2 .. n + 1)
  BY <1>2, <1>3
<1> QED
  BY <1>2, <1>3, <1>4 DEF n

\* The packets s, and those of file nr after them.
Appended(c, s, t, nr) ==
    /\ t \in Seq(Packets) /\ InOrder(c, t)
    /\ \A i \in DOMAIN t : \/ (i \in DOMAIN s /\ t[i] = s[i])
                          \/ (t[i].nr = nr /\ Len(t[i].data) <= ChunkSize)
    /\ At(t[1]) = IF s = <<>> THEN 1 ELSE At(s[1])

\* What is in order stays so when the packets of a later file are put behind it.
LEMMA FileAppended ==
    ASSUME NEW c \in Conns, NEW name \in Names, NEW nr \in 1 .. MaxFiles, NEW size \in Lengths,
           NEW s \in Seq(Packets), InOrder(c, s), \A i \in DOMAIN s : s[i].nr < nr
    PROVE  Appended(c, s, s \o FilePackets(c, name, nr, size), nr)
<1> DEFINE F == FilePackets(c, name, nr, size)
           n == ChunkCount(size)
           t == s \o F
           m == Len(s)
<1>1. /\ n \in Nat /\ F \in Seq(Packets) /\ Len(F) = n + 1 /\ DOMAIN F = 1 .. n + 1
      /\ \A i \in 1 .. n + 1 :
            /\ F[i].name = name /\ F[i].nr = nr /\ F[i].size = size
            /\ At(F[i]) = i /\ Len(F[i].data) <= ChunkSize
  <2>1. FileShape(F, n, c, name, nr, size)
    BY PacketsOfFile
  <2> HIDE DEF F, n
  <2> QED
    BY <2>1 DEF FileShape
<1>2. \A i \in 1 .. n + 1 : FileOf(c, F[i]) = F
  BY <1>1 DEF FileOf
<1> HIDE DEF F, n
<1>3. /\ t \in Seq(Packets) /\ Len(t) = m + (n + 1) /\ DOMAIN t = 1 .. m + (n + 1)
      /\ m \in Nat /\ DOMAIN s = 1 .. m
      /\ \A i \in 1 .. m : t[i] = s[i]
      /\ \A i \in 1 .. n + 1 : t[m + i] = F[i]
  <2>1. m \in Nat /\ DOMAIN s = 1 .. m
    BY LenProperties
  <2>2. /\ t \in Seq(Packets) /\ Len(t) = m + (n + 1)
        /\ \A i \in 1 .. m : t[i] = s[i]
        /\ \A i \in 1 .. n + 1 : t[m + i] = F[i]
    BY <1>1, ConcatProperties
  <2>3. DOMAIN t = 1 .. m + (n + 1)
    <3> HIDE DEF t
    <3> QED
      BY <2>2, LenProperties
  <2> QED
    BY <2>1, <2>2, <2>3
<1> HIDE DEF t, m
<1>4. \A i \in DOMAIN t : i \in 1 .. m \/ (i - m \in 1 .. n + 1 /\ t[i] = F[i - m])
  <2> SUFFICES ASSUME NEW i \in 1 .. m + (n + 1), i \notin 1 .. m
               PROVE  i - m \in 1 .. n + 1 /\ m + (i - m) = i
    BY <1>3
  <2> QED
    BY <1>1, <1>3
<1>5. ASSUME NEW i \in DOMAIN t PROVE Placed(c, t[i]) /\ Followed(c, t, i)
  <2>1. CASE i \in 1 .. m
    <3>1. t[i] = s[i] /\ Placed(c, s[i]) /\ Followed(c, s, i)
      BY <2>1, <1>3 DEF InOrder
    <3>2. CASE i < m
      <4>1. t[i + 1] = s[i + 1]
        BY <2>1, <3>2, <1>3
      <4> QED
        BY <3>1, <3>2, <4>1, <1>1, <1>3 DEF Followed, m
    <3>3. CASE i = m
      <4>1. ~(At(s[i]) < Len(FileOf(c, s[i])))
        BY <3>1, <3>3, <1>3 DEF Followed, m
      <4>2. t[i + 1] = F[1] /\ At(F[1]) = 1
        BY <3>3, <1>1, <1>3
      <4> QED
        BY <3>1, <4>1, <4>2 DEF Followed
    <3> QED
      BY <2>1, <3>2, <3>3, <1>3
  <2>2. CASE i \notin 1 .. m
    <3> DEFINE k == i - m
    <3>1. k \in 1 .. n + 1 /\ t[i] = F[k] /\ i \in Nat /\ m + k = i
      BY <2>2, <1>3, <1>4
    <3>2. At(F[k]) = k /\ FileOf(c, F[k]) = F
      BY <3>1, <1>1, <1>2
    <3>3. Placed(c, t[i])
      BY <3>1, <3>2, <1>1 DEF Placed
    <3>4. CASE k < n + 1
      <4>1. k + 1 \in 1 .. n + 1 /\ i + 1 = m + (k + 1) /\ i < Len(t)
        BY <3>1, <3>4, <1>1, <1>3
      <4>2. t[i + 1] = F[k + 1]
        BY <4>1, <1>3
      <4>3. At(t[i + 1]) = k + 1 /\ SameFile(t[i], t[i + 1])
        BY <3>1, <4>1, <4>2, <1>1 DEF SameFile
      <4> QED
        BY <3>1, <3>2, <3>3, <3>4, <4>1, <4>3, <1>1 DEF Followed
    <3>5. CASE k = n + 1
      <4>1. ~(i < Len(t)) /\ ~(At(t[i]) < Len(FileOf(c, t[i])))
        BY <3>1, <3>2, <3>5, <1>1, <1>3
      <4> QED
        BY <3>3, <4>1 DEF Followed
    <3> QED
      BY <3>1, <3>4, <3>5, <1>1
  <2> QED
    BY <2>1, <2>2
<1>6. ASSUME NEW i \in DOMAIN t, NEW j \in DOMAIN t, i < j PROVE Later(t[i], t[j])
  <2>1. CASE j \in 1 .. m
    <3>1. i \in 1 .. m
      BY <2>1, <1>3, <1>6
    <3> QED
      BY <2>1, <3>1, <1>3, <1>6 DEF InOrder
  <2>2. CASE j \notin 1 .. m /\ i \in 1 .. m
    <3>1. t[i].nr < nr /\ t[j].nr = nr
      BY <2>2, <1>1, <1>3, <1>4
    <3> QED
      BY <3>1 DEF Later
  <2>3. CASE j \notin 1 .. m /\ i \notin 1 .. m
    <3>1. /\ i - m \in 1 .. n + 1 /\ j - m \in 1 .. n + 1 /\ i - m < j - m
          /\ t[i] = F[i - m] /\ t[j] = F[j - m]
      BY <2>3, <1>3, <1>4, <1>6
    <3> QED
      BY <3>1, <1>1 DEF Later
  <2> QED
    BY <2>1, <2>2, <2>3
<1>7. InOrder(c, t)
  BY <1>5, <1>6 DEF InOrder
<1>8. \A i \in DOMAIN t : (i \in DOMAIN s /\ t[i] = s[i]) \/ (t[i].nr = nr /\ Len(t[i].data) <= ChunkSize)
  <2> SUFFICES ASSUME NEW i \in DOMAIN t
               PROVE  (i \in DOMAIN s /\ t[i] = s[i]) \/ (t[i].nr = nr /\ Len(t[i].data) <= ChunkSize)
    OBVIOUS
  <2>1. CASE i \in 1 .. m
    <3>1. i \in DOMAIN s /\ t[i] = s[i]
      BY <2>1, <1>3
    <3> QED
      BY <3>1
  <2>2. CASE i - m \in 1 .. n + 1 /\ t[i] = F[i - m]
    BY <2>2, <1>1
  <2> QED
    BY <2>1, <2>2, <1>4
<1>9. At(t[1]) = IF s = <<>> THEN 1 ELSE At(s[1])
  <2>1. CASE s = <<>>
    <3>1. m = 0
      BY <2>1 DEF m
    <3>2. 1 \in 1 .. n + 1 /\ m + 1 = 1
      BY <1>1, <3>1
    <3> QED
      BY <1>1, <1>3, <2>1, <3>2
  <2>2. CASE s # <<>>
    <3>1. 1 \in 1 .. m
      BY <1>3, <2>2, EmptySeq DEF m
    <3> QED
      BY <1>3, <2>2, <3>1
  <2> QED
    BY <2>1, <2>2
<1>10. Appended(c, s, t, nr)
  BY <1>3, <1>7, <1>8, <1>9 DEF Appended
<1> QED
  BY <1>10 DEF t, F

\* What a client that has been told to send k files has to send.
Queued(c, q, m, k) ==
    /\ q \in Seq(Packets) /\ InOrder(c, q)
    /\ \A j \in DOMAIN q : q[j].nr \in m + 1 .. m + k /\ Len(q[j].data) <= ChunkSize
    /\ q # <<>> => At(Head(q)) = 1

\* What Upload makes a client send: all the files, one after another.
LEMMA UploadQueued ==
    ASSUME NEW c \in Conns, NEW m \in Nat, NEW k \in Nat, k > 0, m + k <= MaxFiles,
           NEW f \in [1 .. k -> Names], NEW n \in [1 .. k -> Lengths]
    PROVE  Queued(c, FlattenSeq([i \in 1 .. k |-> FilePackets(c, f[i], m + i, n[i])]), m, k)
<1> DEFINE files == [i \in 1 .. k |-> FilePackets(c, f[i], m + i, n[i])]
           Good(s, i) == /\ s \in Seq(Packets) /\ InOrder(c, s)
                         /\ \A j \in DOMAIN s : /\ s[j].nr \in m + 1 .. m + i
                                                /\ Len(s[j].data) <= ChunkSize
                         /\ s # <<>> => At(s[1]) = 1
<1>1. ASSUME NEW i \in 1 .. k
      PROVE  f[i] \in Names /\ m + i \in 1 .. MaxFiles /\ n[i] \in Lengths /\ files[i] \in Seq(Packets)
  <2>1. f[i] \in Names /\ m + i \in 1 .. MaxFiles /\ n[i] \in Lengths
    BY TransferAssumption
  <2>2. FilePackets(c, f[i], m + i, n[i]) \in Seq(Packets)
    <3>1. FileShape(FilePackets(c, f[i], m + i, n[i]), ChunkCount(n[i]), c, f[i], m + i, n[i])
      BY <2>1, PacketsOfFile
    <3> QED
      BY <3>1 DEF FileShape
  <2> QED
    BY <2>1, <2>2
<1>2. files \in Seq(Seq(Packets)) /\ Len(files) = k
  <2>1. files \in [1 .. k -> Seq(Packets)]
    BY <1>1
  <2> HIDE DEF files
  <2> QED
    BY <2>1, LenProperties
<1>3. PICK g \in [1 .. k -> Seq(Packets)] :
         /\ g[1] = files[1]
         /\ \A i \in 1 .. k - 1 : g[i + 1] = g[i] \o files[i + 1]
         /\ FlattenSeq(files) = g[k]
  <2> HIDE DEF files
  <2> QED
    BY <1>2, Flattened
<1>4. ASSUME NEW i \in 1 .. k, NEW s, Good(s, i - 1) PROVE Good(s \o files[i], i)
  <2> DEFINE t == s \o FilePackets(c, f[i], m + i, n[i])
  <2>1. s \in Seq(Packets) /\ InOrder(c, s) /\ \A j \in DOMAIN s : s[j].nr < m + i
    BY <1>4
  <2>2. Appended(c, s, t, m + i)
    BY <2>1, <1>1, FileAppended
  <2> HIDE DEF t
  <2>3. /\ t \in Seq(Packets) /\ InOrder(c, t)
        /\ \A j \in DOMAIN t : \/ (j \in DOMAIN s /\ t[j] = s[j])
                              \/ (t[j].nr = m + i /\ Len(t[j].data) <= ChunkSize)
        /\ At(t[1]) = IF s = <<>> THEN 1 ELSE At(s[1])
    BY <2>2 DEF Appended
  <2>4. ASSUME NEW j \in DOMAIN t PROVE t[j].nr \in m + 1 .. m + i /\ Len(t[j].data) <= ChunkSize
    <3>1. CASE j \in DOMAIN s /\ t[j] = s[j]
      <4>1. t[j].nr \in m + 1 .. m + (i - 1) /\ Len(t[j].data) <= ChunkSize
        BY <3>1, <1>4
      <4> QED
        BY <4>1
    <3>2. CASE t[j].nr = m + i /\ Len(t[j].data) <= ChunkSize
      BY <3>2
    <3> QED
      BY <2>3, <3>1, <3>2
  <2>5. s \o files[i] = t
    BY DEF t
  <2>6. At(t[1]) = 1
    BY <1>4, <2>3
  <2> QED
    BY <2>3, <2>4, <2>5, <2>6
<1>5. Good(g[1], 1)
  <2>1. Good(<<>>, 1 - 1)
    BY DEF InOrder
  <2>2. 1 \in 1 .. k
    OBVIOUS
  <2>3. <<>> \o files[1] = files[1]
    BY <2>2, <1>1, ConcatEmptySeq
  <2> HIDE DEF Good, files
  <2> QED
    BY <2>1, <2>2, <2>3, <1>3, <1>4
<1> DEFINE V == {i \in 1 .. k : Good(g[i], i)}
<1>6. 1 \in V
  BY <1>5
<1>7. ASSUME NEW i \in 1 .. k, i \in V, i < k PROVE i + 1 \in V
  <2>1. i + 1 \in 1 .. k /\ (i + 1) - 1 = i /\ i \in 1 .. k - 1
    BY <1>7
  <2>2. Good(g[i], (i + 1) - 1)
    BY <2>1, <1>7
  <2> HIDE DEF Good, files
  <2>3. Good(g[i] \o files[i + 1], i + 1)
    BY <2>1, <2>2, <1>4
  <2> QED
    BY <2>1, <2>3, <1>3
<1>8. k \in V
  <2> HIDE DEF V
  <2>1. \A i \in 1 .. k : i \in V
    BY <1>6, <1>7, Induction
  <2> QED
    BY <2>1
<1>9. g[k] # <<>> => At(Head(g[k])) = 1
  <2>1. g[k] \in Seq(Packets) /\ (g[k] # <<>> => At(g[k][1]) = 1)
    BY <1>8
  <2> QED
    BY <2>1, HeadTailProperties
<1>10. Queued(c, g[k], m, k)
  BY <1>8, <1>9 DEF Queued
<1> QED
  BY <1>3, <1>10

\* What is left when the first packet has gone.
LEMMA RestInOrder ==
    ASSUME NEW c \in Conns, NEW t \in Seq(Packets), t # <<>>, InOrder(c, t)
    PROVE  /\ Head(t) \in Packets /\ Head(t) = t[1] /\ 1 \in DOMAIN t
           /\ Tail(t) \in Seq(Packets) /\ InOrder(c, Tail(t))
           /\ \A i \in DOMAIN Tail(t) : i + 1 \in DOMAIN t /\ Tail(t)[i] = t[i + 1]
           /\ Placed(c, Head(t))
           /\ IF At(Head(t)) < Len(FileOf(c, Head(t)))
              THEN /\ Tail(t) # <<>> /\ SameFile(Head(t), Head(Tail(t)))
                   /\ At(Head(Tail(t))) = At(Head(t)) + 1
              ELSE Tail(t) # <<>> => At(Head(Tail(t))) = 1
<1> DEFINE u == Tail(t)
<1>1. /\ Head(t) = t[1] /\ u \in Seq(Packets) /\ Len(t) \in Nat /\ Len(t) > 0
      /\ DOMAIN t = 1 .. Len(t) /\ Len(u) = Len(t) - 1 /\ DOMAIN u = 1 .. Len(t) - 1
      /\ \A i \in 1 .. Len(t) - 1 : u[i] = t[i + 1]
  BY HeadTailProperties, LenProperties, EmptySeq
<1>2. t[1] \in Packets /\ 1 \in DOMAIN t
  BY <1>1, ElementOfSeq
<1> HIDE DEF u
<1>3. \A i \in DOMAIN u : i + 1 \in DOMAIN t /\ u[i] = t[i + 1]
  BY <1>1
<1>4. ASSUME NEW i \in DOMAIN u PROVE Placed(c, u[i]) /\ Followed(c, u, i)
  <2>1. u[i] = t[i + 1] /\ Placed(c, t[i + 1]) /\ Followed(c, t, i + 1)
    BY <1>3 DEF InOrder
  <2>2. (i < Len(u) <=> i + 1 < Len(t)) /\ (i < Len(u) => u[i + 1] = t[(i + 1) + 1])
    BY <1>1
  <2> QED
    BY <2>1, <2>2 DEF Followed
<1>5. ASSUME NEW i \in DOMAIN u, NEW j \in DOMAIN u, i < j PROVE Later(u[i], u[j])
  <2>1. i + 1 < j + 1
    BY <1>1, <1>5
  <2> QED
    BY <2>1, <1>3 DEF InOrder
<1>6. InOrder(c, u)
  BY <1>4, <1>5 DEF InOrder
<1>7. Placed(c, t[1]) /\ Followed(c, t, 1)
  BY <1>2 DEF InOrder
<1>8. u # <<>> => 1 < Len(t) /\ Head(u) = t[1 + 1]
  <2> SUFFICES ASSUME u # <<>> PROVE 1 < Len(t) /\ Head(u) = t[1 + 1]
    OBVIOUS
  <2>1. Len(u) > 0 /\ Head(u) = u[1]
    BY <1>1, HeadTailProperties, EmptySeq
  <2> QED
    BY <2>1, <1>1
<1>9. 1 < Len(t) => u # <<>>
  BY <1>1
<1>10. IF At(t[1]) < Len(FileOf(c, t[1]))
       THEN u # <<>> /\ SameFile(t[1], Head(u)) /\ At(Head(u)) = At(t[1]) + 1
       ELSE u # <<>> => At(Head(u)) = 1
  BY <1>7, <1>8, <1>9 DEF Followed
<1> QED
  BY <1>1, <1>2, <1>3, <1>6, <1>7, <1>10 DEF u

-----------------------------------------------------------------------------
\* The initial states have the types, and more than the types, of TypeInv.
LEMMA InitTypes == Init => TypeInv
<1> SUFFICES ASSUME Init PROVE TypeInv
  OBVIOUS
<1>1. <<>> \in Contents
  BY DEF Contents
<1>2. NoFile \in FileRecords /\ Nothing \in Claims
  BY <1>1 DEF NoFile, FileRecords, Nothing, Claims
<1>3. /\ store \in [Names -> Contents] /\ exists \subseteq Names \ Directories
      /\ todo \in [Conns -> Seq(Packets)]
      /\ local \in [Conns -> [Names -> Contents]]
  BY <1>1 DEF Init
<1>4. /\ fd \in [Conns -> Names \cup {Unset}] /\ offset \in [Conns -> Nat]
      /\ download_fd \in [Conns -> Names \cup {Unset}]
      /\ fetch \in [Conns -> [next : Nat, chunks : Nat]]
      /\ given \in [Conns -> 0 .. MaxFiles] /\ contested \subseteq Conns
  BY TransferAssumption DEF Init
<1>5. /\ uploading \in [Conns -> FileRecords] /\ claim \in [Names -> Claims]
      /\ opened \in [Conns -> FileRecords] /\ fetched \in [Conns -> FileRecords]
  BY <1>2 DEF Init
<1>6. ChunksFit /\ OffsetInside /\ DownloadsUnderWay
  BY DEF Init, ChunksFit, OffsetInside, DownloadsUnderWay
<1> QED
  BY <1>3, <1>4, <1>5, <1>6 DEF TypeInv, Types

\* The packet a handler gets.
LEMMA HeadOfQueue ==
    ASSUME Types, ChunksFit, NEW c \in Conns, todo[c] # <<>>
    PROVE  /\ Head(todo[c]) \in Packets /\ Len(Head(todo[c]).data) <= ChunkSize
           /\ Head(todo[c]) = todo[c][1] /\ 1 \in DOMAIN todo[c]
           /\ Tail(todo[c]) \in Seq(Packets)
           /\ \A i \in DOMAIN Tail(todo[c]) :
                 i + 1 \in DOMAIN todo[c] /\ Tail(todo[c])[i] = todo[c][i + 1]
<1> DEFINE t == todo[c]
           u == Tail(t)
<1>1. t \in Seq(Packets)
  BY DEF Types
<1>2. /\ Head(t) = t[1] /\ u \in Seq(Packets) /\ Len(t) \in Nat /\ Len(t) > 0
      /\ DOMAIN t = 1 .. Len(t) /\ DOMAIN u = 1 .. Len(t) - 1
      /\ \A i \in 1 .. Len(t) - 1 : u[i] = t[i + 1]
  BY <1>1, HeadTailProperties, LenProperties, EmptySeq
<1>3. t[1] \in Packets /\ 1 \in DOMAIN t
  BY <1>1, <1>2, ElementOfSeq
<1>4. \A i \in DOMAIN u : i + 1 \in DOMAIN t
  BY <1>2
<1> QED
  BY <1>2, <1>3, <1>4 DEF ChunksFit

\* What is left to be sent consists of packets.
LEMMA Dequeued ==
    ASSUME Types, ChunksFit, NEW c \in Conns, todo[c] # <<>>,
           Replied(c) \/ todo' = [todo EXCEPT ![c] = <<>>]
    PROVE  todo' \in [Conns -> Seq(Packets)] /\ ChunksFit'
<1>1. CASE Replied(c)
  <2>1. todo' = [todo EXCEPT ![c] = Tail(todo[c])]
    BY <1>1 DEF Replied
  <2>2. todo' \in [Conns -> Seq(Packets)]
    BY <2>1, HeadOfQueue DEF Types
  <2>3. ASSUME NEW d \in Conns, NEW i \in DOMAIN todo'[d] PROVE Len(todo'[d][i].data) <= ChunkSize
    <3>1. CASE d = c
      <4>1. todo'[d] = Tail(todo[c])
        BY <2>1, <3>1 DEF Types
      <4>2. i + 1 \in DOMAIN todo[c] /\ todo'[d][i] = todo[c][i + 1]
        BY <2>3, <4>1, HeadOfQueue
      <4> QED
        BY <4>2 DEF ChunksFit
    <3>2. CASE d # c
      <4>1. todo'[d] = todo[d]
        BY <2>1, <3>2 DEF Types
      <4> QED
        BY <2>3, <4>1 DEF ChunksFit
    <3> QED
      BY <3>1, <3>2
  <2> QED
    BY <2>2, <2>3 DEF ChunksFit
<1>2. CASE todo' = [todo EXCEPT ![c] = <<>>]
  <2>1. todo' \in [Conns -> Seq(Packets)]
    BY <1>2 DEF Types
  <2>2. ASSUME NEW d \in Conns, NEW i \in DOMAIN todo'[d] PROVE Len(todo'[d][i].data) <= ChunkSize
    <3>1. d # c /\ todo'[d] = todo[d]
      BY <1>2, <2>2 DEF Types
    <3> QED
      BY <2>2, <3>1 DEF ChunksFit
  <2> QED
    BY <2>1, <2>2 DEF ChunksFit
<1> QED
  BY <1>1, <1>2

\* What a write does to the files, and what it leaves alone.
LEMMA WriteSteps ==
    ASSUME Types, OffsetInside, NEW c \in Conns, NEW data \in Contents, WritesTo(c, data)
    PROVE  /\ store' \in [Names -> Contents] /\ offset' \in [Conns -> Nat]
           /\ \A d \in Conns : fd[d] # Unset => offset'[d] <= Len(store'[fd[d]])
           /\ \A f \in Names : Len(store[f]) <= Len(store'[f])
           /\ \A f \in Names : f # fd[c] => store'[f] = store[f]
           /\ \A d \in Conns : d # c => offset'[d] = offset[d]
           /\ fd[c] # Unset => /\ store'[fd[c]] = Write(store[fd[c]], offset[c], data)
                               /\ offset'[c] = offset[c] + Len(data)
           /\ \A f \in Names : Range(store'[f]) \subseteq Range(store[f]) \cup Range(data)
           /\ \A f \in Names : \A i \in 1 .. Len(store[f]) :
                 store'[f][i] = store[f][i] \/ store'[f][i] \in Range(data)
<1>1. /\ \A f \in Names : store[f] \in Seq(Blocks) /\ Len(store[f]) \in Nat
      /\ data \in Seq(Blocks) /\ Len(data) \in Nat /\ Unset \notin Names
      /\ fd[c] \in Names \cup {Unset} /\ offset[c] \in Nat
  BY TransferAssumption, LenProperties DEF Types, Contents
<1>2. CASE fd[c] = Unset
  BY <1>1, <1>2 DEF WritesTo, Types, OffsetInside
<1>3. CASE fd[c] # Unset
  <2> DEFINE f == fd[c]
             w == Write(store[f], offset[c], data)
  <2>1. /\ f \in Names /\ offset[c] \in 0 .. Len(store[f])
        /\ store' = [store EXCEPT ![f] = w]
        /\ offset' = [offset EXCEPT ![c] = offset[c] + Len(data)]
    BY <1>1, <1>3 DEF WritesTo, OffsetInside, Types
  <2>2. /\ w \in Seq(Blocks)
        /\ Len(w) = IF offset[c] + Len(data) > Len(store[f])
                    THEN offset[c] + Len(data) ELSE Len(store[f])
        /\ Range(w) \subseteq Range(store[f]) \cup Range(data)
    BY <1>1, <2>1, WriteExtends
  <2>3. \A i \in 1 .. Len(store[f]) : w[i] = store[f][i] \/ w[i] \in Range(data)
    <3> HIDE DEF f
    <3>1. store[f] \in Seq(Blocks) /\ data \in Seq(Blocks) /\ offset[c] \in 0 .. Len(store[f])
      BY <1>1, <2>1
    <3> QED
      BY <3>1, WriteExtends
  <2> HIDE DEF w
  <2>4. store' \in [Names -> Contents] /\ offset' \in [Conns -> Nat]
    BY <1>1, <2>1, <2>2 DEF Types, Contents
  <2>5. /\ store'[f] = w /\ \A g \in Names : g # f => store'[g] = store[g]
        /\ offset'[c] = offset[c] + Len(data) /\ \A d \in Conns : d # c => offset'[d] = offset[d]
    BY <2>1 DEF Types
  <2>6. \A g \in Names : Len(store[g]) <= Len(store'[g])
    BY <1>1, <2>1, <2>2, <2>5
  <2>7. ASSUME NEW d \in Conns, fd[d] # Unset PROVE offset'[d] <= Len(store'[fd[d]])
    <3>1. fd[d] \in Names /\ offset[d] <= Len(store[fd[d]]) /\ offset[d] \in Nat
      BY <2>7 DEF Types, OffsetInside
    <3>2. CASE d = c
      BY <1>1, <2>1, <2>2, <2>5, <3>2
    <3>3. CASE d # c
      <4>1. Len(store[fd[d]]) <= Len(store'[fd[d]]) /\ offset'[d] = offset[d]
        BY <2>5, <2>6, <3>1, <3>3
      <4>2. Len(store'[fd[d]]) \in Nat /\ Len(store[fd[d]]) \in Nat
        BY <2>4, <3>1, <1>1, LenProperties DEF Contents
      <4> QED
        BY <3>1, <4>1, <4>2
    <3> QED
      BY <3>2, <3>3
  <2>8. \A g \in Names : Range(store'[g]) \subseteq Range(store[g]) \cup Range(data)
    BY <2>2, <2>5
  <2>9. \A g \in Names : \A i \in 1 .. Len(store[g]) :
           store'[g][i] = store[g][i] \/ store'[g][i] \in Range(data)
    BY <2>5, <2>3
  <2> QED
    BY <1>3, <2>4, <2>5, <2>6, <2>7, <2>8, <2>9 DEF w
<1> QED
  BY <1>2, <1>3

\* A download goes on while the files only grow.
LEMMA DownloadsGoOn ==
    ASSUME TypeInv, UNCHANGED downloadVars, store' \in [Names -> Contents],
           \A f \in Names : Len(store[f]) <= Len(store'[f])
    PROVE  DownloadsUnderWay'
<1> SUFFICES ASSUME NEW c \in Conns, fetch[c].chunks # 0
             PROVE  Fetching(c)'
  BY DEF downloadVars, TypeInv, DownloadsUnderWay
<1>1. Fetching(c)
  BY DEF TypeInv, DownloadsUnderWay
<1>2. Len(opened[c].data) <= Len(store'[download_fd[c]])
  <2>1. /\ Len(opened[c].data) \in Nat /\ Len(store[download_fd[c]]) \in Nat
        /\ Len(store'[download_fd[c]]) \in Nat
    BY <1>1, LenProperties DEF Fetching, TypeInv, Types, FileRecords, Contents
  <2> QED
    BY <1>1, <2>1 DEF Fetching
<1> QED
  BY <1>1, <1>2 DEF Fetching, downloadVars

\* One chunk arrives.
LEMMA ChunkArrives ==
    ASSUME TypeInv, NEW c \in Conns, FetchChunk(c)
    PROVE  LET f == download_fd[c]
               i == fetch[c].next
               data == ReadChunk(store[f], i)
               n == Len(opened[c].data) IN
           /\ Fetching(c) /\ f \in Names /\ i \in Nat /\ i * ChunkSize \in Nat
           /\ data \in Contents /\ i * ChunkSize < n /\ n <= Len(store[f])
           /\ Len(data) \in 0 .. ChunkSize
           /\ i + 1 # fetch[c].chunks => /\ Len(data) = ChunkSize
                                         /\ (i + 1) * ChunkSize = i * ChunkSize + Len(data)
                                         /\ (i + 1) * ChunkSize < n
           /\ i + 1 = fetch[c].chunks => n <= (i + 1) * ChunkSize
           /\ \A k \in 1 .. Len(data) : data[k] = store[f][i * ChunkSize + k]
           /\ local' = [local EXCEPT ![c] = [local[c] EXCEPT ![f] = local'[c][f]]]
           /\ local'[c][f] = Write(local[c][f], i * ChunkSize, data)
           /\ local'[c][f] \in Contents
           /\ Len(local'[c][f]) = IF i * ChunkSize + Len(data) > Len(local[c][f])
                                  THEN i * ChunkSize + Len(data) ELSE Len(local[c][f])
<1> DEFINE f == download_fd[c]
           i == fetch[c].next
           data == ReadChunk(store[f], i)
           n == Len(opened[c].data)
           here == local[c][f]
           m == i * ChunkSize
<1>1. /\ Fetching(c) /\ f \in Names /\ i \in Nat /\ n \in Nat /\ i < ChunkCount(n)
      /\ n <= Len(store[f]) /\ m <= Len(here) /\ fetch[c].chunks = ChunkCount(n)
  <2>1. fetch[c] \in [next : Nat, chunks : Nat] /\ fetch[c].chunks > 0
    BY DEF FetchChunk, TypeInv, Types
  <2>2. Fetching(c)
    BY <2>1 DEF TypeInv, DownloadsUnderWay
  <2>3. n \in Nat
    BY LenProperties DEF TypeInv, Types, FileRecords, Contents
  <2> QED
    BY <2>1, <2>2, <2>3 DEF Fetching
<1>2. /\ store[f] \in Seq(Blocks) /\ here \in Seq(Blocks) /\ Len(store[f]) \in Nat /\ Len(here) \in Nat
      /\ ChunkSize \in Nat \ {0} /\ m \in Nat
  BY <1>1, TransferAssumption, LenProperties DEF TypeInv, Types, Contents
<1>3. /\ m < n
      /\ i + 1 # ChunkCount(n) => (i + 1) * ChunkSize < n
      /\ i + 1 = ChunkCount(n) => n <= (i + 1) * ChunkSize
  <2>1. ChunkCount(n) \in Nat
    BY <1>1, ChunkCountBounds
  <2>2. i + 1 # ChunkCount(n) => i + 1 < ChunkCount(n)
    BY <1>1, <2>1
  <2> QED
    BY <1>1, <2>1, <2>2, ChunkCountBounds
<1>4. /\ data \in Seq(Blocks)
      /\ Len(data) = IF (i + 1) * ChunkSize <= Len(store[f]) THEN ChunkSize ELSE Len(store[f]) - m
      /\ Len(data) \in 0 .. ChunkSize
      /\ \A k \in 1 .. Len(data) : data[k] = store[f][m + k]
  <2>1. m <= Len(store[f])
    BY <1>1, <1>2, <1>3
  <2> HIDE DEF f, i
  <2> QED
    BY <1>1, <1>2, <2>1, ChunkOfFile DEF ReadChunk
<1>5. (i + 1) * ChunkSize = m + ChunkSize
  BY <1>1, <1>2
<1>6. i + 1 # ChunkCount(n) => Len(data) = ChunkSize
  <2> HIDE DEF f, i, data, n, m
  <2> QED
    BY <1>1, <1>2, <1>3, <1>4, <1>5
<1>7. /\ local' = [local EXCEPT ![c] = [local[c] EXCEPT ![f] = Write(here, m, data)]]
  BY DEF FetchChunk
<1>8. local'[c][f] = Write(here, m, data)
  BY <1>1, <1>7 DEF TypeInv, Types
<1>9. /\ Write(here, m, data) \in Seq(Blocks)
      /\ Len(Write(here, m, data)) = IF m + Len(data) > Len(here) THEN m + Len(data) ELSE Len(here)
  <2>1. m \in 0 .. Len(here)
    BY <1>1, <1>2
  <2> HIDE DEF f, i, data, m
  <2> QED
    BY <1>2, <1>4, <2>1, WriteExtends
<1> QED
  BY <1>1, <1>2, <1>3, <1>4, <1>5, <1>6, <1>7, <1>8, <1>9 DEF Contents

\* TypeInv is inductive.
LEMMA TypesStep == TypeInv /\ [Next]_vars => TypeInv'
<1> SUFFICES ASSUME TypeInv, [Next]_vars PROVE TypeInv'
  OBVIOUS
<1>1. Types /\ ChunksFit /\ OffsetInside /\ DownloadsUnderWay
  BY DEF TypeInv
<1>2. NoFile \in FileRecords /\ Nothing \in Claims /\ <<>> \in Contents
  BY DEF NoFile, FileRecords, Nothing, Claims, Contents
<1>3. ASSUME NEW c \in Conns, Upload(c) PROVE TypeInv'
  <2>1. PICK k \in 1 .. MaxFiles - given[c] :
         \E f \in [1 .. k -> Names], n \in [1 .. k -> Lengths] :
           /\ todo' = [todo EXCEPT ![c] = FlattenSeq(
                        [i \in 1 .. k |-> FilePackets(c, f[i], given[c] + i, n[i])])]
           /\ given' = [given EXCEPT ![c] = @ + k]
    BY <1>3 DEF Upload
  <2>2. PICK f \in [1 .. k -> Names], n \in [1 .. k -> Lengths] :
           /\ todo' = [todo EXCEPT ![c] = FlattenSeq(
                        [i \in 1 .. k |-> FilePackets(c, f[i], given[c] + i, n[i])])]
           /\ given' = [given EXCEPT ![c] = @ + k]
    BY <2>1
  <2> DEFINE q == FlattenSeq([i \in 1 .. k |-> FilePackets(c, f[i], given[c] + i, n[i])])
  <2>3. given[c] \in 0 .. MaxFiles /\ MaxFiles \in Nat
    BY <1>1, TransferAssumption DEF Types
  <2>4. given[c] \in Nat /\ k \in Nat /\ k > 0 /\ given[c] + k <= MaxFiles
    BY <2>3
  <2>5. Queued(c, q, given[c], k)
    BY <2>4, UploadQueued
  <2> HIDE DEF q
  <2>6. todo' = [todo EXCEPT ![c] = q] /\ given' = [given EXCEPT ![c] = given[c] + k]
    BY <2>2 DEF q
  <2>7. todo' \in [Conns -> Seq(Packets)] /\ given' \in [Conns -> 0 .. MaxFiles]
    BY <2>3, <2>4, <2>5, <2>6, <1>1 DEF Types, Queued
  <2>8. ChunksFit'
    BY <2>5, <2>6, <1>1 DEF ChunksFit, Types, Queued
  <2>9. UNCHANGED <<fileVars, uploadVars, downloadVars>>
    BY <1>3 DEF Upload
  <2>10. Types'
    BY <1>1, <2>7, <2>9 DEF Types, fileVars, uploadVars, downloadVars
  <2>11. OffsetInside'
    BY <1>1, <2>9 DEF OffsetInside, fileVars, uploadVars
  <2>12. DownloadsUnderWay'
    BY <1>1, <2>9 DEF DownloadsUnderWay, Fetching, fileVars, downloadVars
  <2> QED
    BY <2>8, <2>10, <2>11, <2>12 DEF TypeInv
<1>4. ASSUME NEW c \in Conns, HandleRefused(c) PROVE TypeInv'
  <2>1. todo' \in [Conns -> Seq(Packets)] /\ ChunksFit'
    BY <1>4, <1>1, Dequeued DEF HandleRefused, Sends
  <2>2. UNCHANGED <<fileVars, uploadVars, downloadVars, given>>
    BY <1>4 DEF HandleRefused
  <2>3. Types'
    BY <1>1, <2>1, <2>2 DEF Types, fileVars, uploadVars, downloadVars
  <2>4. OffsetInside'
    BY <1>1, <2>2 DEF OffsetInside, fileVars, uploadVars
  <2>5. DownloadsUnderWay'
    BY <1>1, <2>2 DEF DownloadsUnderWay, Fetching, fileVars, downloadVars
  <2> QED
    BY <2>1, <2>3, <2>4, <2>5 DEF TypeInv
<1>5. ASSUME NEW c \in Conns, HandleStart(c) PROVE TypeInv'
  <2> DEFINE p == Head(todo[c])
             f == p.name
             new == [name |-> f, data |-> Source(c, p.nr, p.size), tail |-> Len(store[f]) > p.size]
  <2>1. /\ todo[c] # <<>> /\ Replied(c) /\ UNCHANGED <<store, downloadVars, given>>
        /\ offset' = [offset EXCEPT ![c] = 0]
        /\ uploading' = [uploading EXCEPT ![c] = new]
        /\ claim' = [claim EXCEPT ![f] = Nothing]
        /\ \/ fd' = [fd EXCEPT ![c] = Unset] /\ UNCHANGED exists
           \/ f \notin Directories /\ fd' = [fd EXCEPT ![c] = f] /\ exists' = exists \cup {f}
        /\ contested' = IF Uploading(f) \ {c} = {} THEN contested \ {c}
                        ELSE contested \cup (Uploading(f) \ {c}) \cup {c}
    BY <1>5, Zenon DEF HandleStart, Sends
  <2>2. todo' \in [Conns -> Seq(Packets)] /\ ChunksFit'
    BY <1>1, <2>1, Dequeued
  <2>3. p \in Packets
    BY <1>1, <2>1, HeadOfQueue
  <2>4. f \in Names /\ p.nr \in 1 .. MaxFiles /\ p.size \in Nat
    BY <2>3, TransferAssumption DEF Packets
  <2>5. new \in FileRecords
    <3>1. Source(c, p.nr, p.size) \in Contents
      BY <2>4, SourceIsAFile
    <3>2. (Len(store[f]) > p.size) \in BOOLEAN
      OBVIOUS
    <3> QED
      BY <2>4, <3>1, <3>2, Zenon DEF FileRecords
  <2> HIDE DEF new
  <2>6. uploading' \in [Conns -> FileRecords] /\ claim' \in [Names -> Claims]
    BY <1>1, <1>2, <2>1, <2>5 DEF Types
  <2>7. contested' \subseteq Conns
    BY <1>1, <2>1 DEF Types, Uploading
  <2>8. /\ fd' \in [Conns -> Names \cup {Unset}] /\ offset' \in [Conns -> Nat]
        /\ exists' \subseteq Names \ Directories
    <3> HIDE DEF p
    <3> QED
      BY <1>1, <2>1, <2>4 DEF Types
  <2>9. Types'
    BY <1>1, <2>1, <2>2, <2>6, <2>7, <2>8 DEF Types, downloadVars
  <2>10. OffsetInside'
    <3> SUFFICES ASSUME NEW d \in Conns, fd'[d] # Unset
                 PROVE  offset'[d] <= Len(store[fd'[d]])
      BY <2>1 DEF OffsetInside
    <3>1. CASE d = c
      <4>1. offset'[d] = 0 /\ fd'[d] \in Names
        BY <1>1, <2>1, <2>4, <3>1 DEF Types
      <4>2. Len(store[fd'[d]]) \in Nat
        BY <4>1, <1>1, LenProperties DEF Types, Contents
      <4> QED
        BY <4>1, <4>2
    <3>2. CASE d # c
      <4>1. offset'[d] = offset[d] /\ fd'[d] = fd[d]
        BY <1>1, <2>1, <3>2 DEF Types
      <4> QED
        BY <4>1, <1>1 DEF OffsetInside
    <3> QED
      BY <3>1, <3>2
  <2>11. DownloadsUnderWay'
    BY <1>1, <2>1 DEF DownloadsUnderWay, Fetching, downloadVars
  <2> QED
    BY <2>2, <2>9, <2>10, <2>11 DEF TypeInv
<1>6. ASSUME NEW c \in Conns, HandleChunk(c) PROVE TypeInv'
  <2>1. /\ todo[c] # <<>> /\ Replied(c) /\ WritesTo(c, Head(todo[c]).data)
        /\ UNCHANGED <<exists, fd, uploading, contested, claim, downloadVars, given>>
    BY <1>6 DEF HandleChunk, Sends
  <2>2. todo' \in [Conns -> Seq(Packets)] /\ ChunksFit'
    BY <1>1, <2>1, Dequeued
  <2>3. Head(todo[c]).data \in Contents
    BY <1>1, <2>1, HeadOfQueue DEF Packets
  <2>4. /\ store' \in [Names -> Contents] /\ offset' \in [Conns -> Nat]
        /\ \A d \in Conns : fd[d] # Unset => offset'[d] <= Len(store'[fd[d]])
        /\ \A f \in Names : Len(store[f]) <= Len(store'[f])
    BY <1>1, <2>1, <2>3, WriteSteps
  <2>5. Types'
    BY <1>1, <2>1, <2>2, <2>4 DEF Types, downloadVars
  <2>6. OffsetInside'
    BY <2>1, <2>4 DEF OffsetInside
  <2>7. DownloadsUnderWay'
    BY <2>1, <2>4, DownloadsGoOn
  <2> QED
    BY <2>2, <2>5, <2>6, <2>7 DEF TypeInv
<1>7. ASSUME NEW c \in Conns, HandleEnd(c) PROVE TypeInv'
  <2> DEFINE p == Head(todo[c])
             empty == p.data = <<>>
             data == IF empty THEN Junk(c, p) ELSE p.data
             said == IF empty THEN [name |-> p.name, data |-> <<>>, tail |-> FALSE] ELSE uploading[c]
             new == [known |-> TRUE, data |-> said.data, tail |-> said.tail]
  <2>1. /\ todo[c] # <<>> /\ Replied(c) /\ WritesTo(c, data)
        /\ claim' = [claim EXCEPT ![said.name] = IF c \in contested THEN Nothing ELSE new]
        /\ uploading' = [uploading EXCEPT ![c] = NoFile]
        /\ contested' = contested \ {c}
        /\ UNCHANGED <<exists, fd, downloadVars, given>>
    BY <1>7, Zenon DEF HandleEnd, Sends
  <2>2. todo' \in [Conns -> Seq(Packets)] /\ ChunksFit'
    BY <1>1, <2>1, Dequeued
  <2>3. p \in Packets
    BY <1>1, <2>1, HeadOfQueue
  <2>4. data \in Contents
    <3>1. [by |-> c, nr |-> p.nr, at |-> 0] \in Blocks
      BY <2>3 DEF Packets, Blocks
    <3>2. Junk(c, p) \in Contents
      BY <3>1 DEF Junk, Contents
    <3> QED
      BY <2>3, <3>2 DEF Packets
  <2>5. said \in FileRecords
    <3>1. p.name \in Names
      BY <2>3 DEF Packets
    <3>2. [name |-> p.name, data |-> <<>>, tail |-> FALSE] \in FileRecords
      BY <3>1, <1>2 DEF FileRecords
    <3>3. uploading[c] \in FileRecords
      BY <1>1 DEF Types
    <3> QED
      BY <3>2, <3>3
  <2>6. new \in Claims
    <3> HIDE DEF said
    <3> QED
      BY <2>5 DEF FileRecords, Claims
  <2> HIDE DEF data, said, new
  <2>7. claim' \in [Names -> Claims] /\ uploading' \in [Conns -> FileRecords]
    BY <1>1, <1>2, <2>1, <2>6 DEF Types
  <2>8. /\ store' \in [Names -> Contents] /\ offset' \in [Conns -> Nat]
        /\ \A d \in Conns : fd[d] # Unset => offset'[d] <= Len(store'[fd[d]])
        /\ \A f \in Names : Len(store[f]) <= Len(store'[f])
    BY <1>1, <2>1, <2>4, WriteSteps
  <2>9. Types'
    BY <1>1, <2>1, <2>2, <2>7, <2>8 DEF Types, downloadVars
  <2>10. OffsetInside'
    BY <2>1, <2>8 DEF OffsetInside
  <2>11. DownloadsUnderWay'
    BY <2>1, <2>8, DownloadsGoOn
  <2> QED
    BY <2>2, <2>9, <2>10, <2>11 DEF TypeInv
<1>8. ASSUME NEW c \in Conns, Download(c) PROVE TypeInv'
  <2>1. PICK f \in exists :
          /\ download_fd' = [download_fd EXCEPT ![c] = f]
          /\ fetch' = [fetch EXCEPT ![c] = [next |-> 0, chunks |-> ChunkCount(Len(store[f]))]]
          /\ opened' = [opened EXCEPT ![c] =
                [name |-> f, data |-> store[f], tail |-> Len(local[c][f]) > Len(store[f])]]
    BY <1>8 DEF Download
  <2>2. /\ given[c] < MaxFiles /\ given' = [given EXCEPT ![c] = given[c] + 1]
        /\ fetched' = [fetched EXCEPT ![c] = NoFile]
        /\ UNCHANGED <<fileVars, uploadVars, local, todo>>
    BY <1>8 DEF Download
  <2> DEFINE new == [name |-> f, data |-> store[f], tail |-> Len(local[c][f]) > Len(store[f])]
             n == Len(store[f])
  <2>3. /\ f \in Names /\ store[f] \in Contents /\ n \in Nat /\ ChunkCount(n) \in Nat
        /\ local[c][f] \in Contents /\ Len(local[c][f]) \in Nat
        /\ n > 0 <=> ChunkCount(n) > 0
    <3>1. f \in Names /\ store[f] \in Contents /\ local[c][f] \in Contents
      BY <1>1 DEF Types
    <3>2. n \in Nat /\ Len(local[c][f]) \in Nat
      BY <3>1, LenProperties DEF Contents
    <3> QED
      BY <3>1, <3>2, ChunkCountBounds
  <2>4. new \in FileRecords
    <3>1. (Len(local[c][f]) > Len(store[f])) \in BOOLEAN
      OBVIOUS
    <3> QED
      BY <2>3, <3>1, Zenon DEF FileRecords
  <2> HIDE DEF new, n
  <2>5. /\ download_fd' \in [Conns -> Names \cup {Unset}]
        /\ fetch' \in [Conns -> [next : Nat, chunks : Nat]]
        /\ opened' \in [Conns -> FileRecords] /\ fetched' \in [Conns -> FileRecords]
    BY <1>1, <1>2, <2>1, <2>2, <2>3, <2>4 DEF Types, new, n
  <2>6. given' \in [Conns -> 0 .. MaxFiles]
    BY <1>1, <2>2, TransferAssumption DEF Types
  <2>7. Types'
    BY <1>1, <2>2, <2>5, <2>6 DEF Types, fileVars, uploadVars
  <2>8. OffsetInside' /\ ChunksFit'
    BY <1>1, <2>2 DEF OffsetInside, ChunksFit, fileVars, uploadVars
  <2>9. ASSUME NEW d \in Conns
        PROVE  (IF fetch[d].chunks = 0 THEN fetch[d].next = 0 ELSE Fetching(d))'
    <3>1. CASE d = c
      <4>1. /\ fetch'[d].next = 0 /\ fetch'[d].chunks = ChunkCount(n) /\ download_fd'[d] = f
            /\ opened'[d] = new /\ fetched'[d] = NoFile
        BY <1>1, <2>1, <2>2, <3>1 DEF Types, new, n
      <4>2. /\ opened'[d].name = f /\ opened'[d].data = store[f]
            /\ opened'[d].tail <=> Len(local[c][f]) > Len(store[f])
        <5>1. new.name = f /\ new.data = store[f] /\ new.tail = (Len(local[c][f]) > Len(store[f]))
          BY DEF new
        <5> QED
          BY <4>1, <5>1, Zenon
      <4>3. store' = store /\ local' = local /\ 0 * ChunkSize = 0
        BY <2>2, TransferAssumption DEF fileVars
      <4> QED
        BY <2>3, <3>1, <4>1, <4>2, <4>3 DEF Fetching, n
    <3>2. CASE d # c
      <4>1. /\ fetch'[d] = fetch[d] /\ download_fd'[d] = download_fd[d]
            /\ opened'[d] = opened[d] /\ fetched'[d] = fetched[d]
            /\ store' = store /\ local' = local
        BY <1>1, <2>1, <2>2, <3>2 DEF Types, fileVars
      <4> QED
        BY <1>1, <4>1 DEF DownloadsUnderWay, Fetching
    <3> QED
      BY <3>1, <3>2
  <2> QED
    BY <2>7, <2>8, <2>9 DEF TypeInv, DownloadsUnderWay
<1>9. ASSUME NEW c \in Conns, FetchChunk(c) PROVE TypeInv'
  <2> DEFINE f == download_fd[c]
             i == fetch[c].next
             data == ReadChunk(store[f], i)
             n == Len(opened[c].data)
             m == i * ChunkSize
             last == i + 1 = fetch[c].chunks
  <2>1. /\ Fetching(c) /\ f \in Names /\ i \in Nat /\ m \in Nat
        /\ data \in Contents /\ m < n /\ n <= Len(store[f])
        /\ Len(data) \in 0 .. ChunkSize
        /\ ~last => /\ Len(data) = ChunkSize
                    /\ (i + 1) * ChunkSize = m + Len(data) /\ (i + 1) * ChunkSize < n
        /\ local' = [local EXCEPT ![c] = [local[c] EXCEPT ![f] = local'[c][f]]]
        /\ local'[c][f] \in Contents
        /\ Len(local'[c][f]) = IF m + Len(data) > Len(local[c][f])
                               THEN m + Len(data) ELSE Len(local[c][f])
    BY <1>9, ChunkArrives
  <2>2. /\ fetch' = [fetch EXCEPT ![c] = IF last THEN [next |-> 0, chunks |-> 0]
                                         ELSE [fetch[c] EXCEPT !.next = i + 1]]
        /\ fetched' = IF last /\ store[f] = opened[c].data
                      THEN [fetched EXCEPT ![c] = opened[c]] ELSE fetched
        /\ UNCHANGED <<fileVars, uploadVars, download_fd, opened, todo, given>>
    BY <1>9, Zenon DEF FetchChunk
  <2>3. local' \in [Conns -> [Names -> Contents]]
    <3> DEFINE here == local'[c][f]
    <3>1. local' = [local EXCEPT ![c] = [local[c] EXCEPT ![f] = here]] /\ here \in Contents
      BY <2>1
    <3> HIDE DEF here, f
    <3>2. [local[c] EXCEPT ![f] = here] \in [Names -> Contents]
      BY <1>1, <3>1 DEF Types
    <3> QED
      BY <1>1, <3>1, <3>2 DEF Types
  <2>4. fetch[c] \in [next : Nat, chunks : Nat] /\ opened[c] \in FileRecords
    BY <1>1 DEF Types
  <2> HIDE DEF f, i, data, n, m, last
  <2>5. fetch' \in [Conns -> [next : Nat, chunks : Nat]]
    <3>1. i + 1 \in Nat
      BY <2>1
    <3> QED
      BY <1>1, <2>2, <2>4, <3>1 DEF Types
  <2>6. fetched' \in [Conns -> FileRecords]
    BY <1>1, <2>2, <2>4 DEF Types
  <2>7. Types'
    BY <1>1, <2>2, <2>3, <2>5, <2>6 DEF Types, fileVars, uploadVars
  <2>8. OffsetInside' /\ ChunksFit'
    BY <1>1, <2>2 DEF OffsetInside, ChunksFit, fileVars, uploadVars
  <2>9. ASSUME NEW d \in Conns
        PROVE  (IF fetch[d].chunks = 0 THEN fetch[d].next = 0 ELSE Fetching(d))'
    <3>1. CASE d = c /\ last
      BY <1>1, <2>2, <3>1 DEF Types
    <3>2. CASE d = c /\ ~last
      <4>1. /\ fetch'[d].next = i + 1 /\ fetch'[d].chunks = fetch[c].chunks
            /\ fetched' = fetched /\ store' = store /\ download_fd' = download_fd /\ opened' = opened
        BY <1>1, <2>2, <2>4, <3>2 DEF Types, fileVars
      <4>2. /\ n \in Nat /\ Len(local[c][f]) \in Nat /\ Len(local'[c][f]) \in Nat
            /\ ChunkSize \in Nat
        <5>1. opened[c].data \in Seq(Blocks)
          BY <2>4 DEF FileRecords, Contents
        <5>2. local[c][f] \in Seq(Blocks) /\ local'[c][f] \in Seq(Blocks)
          BY <1>1, <2>1 DEF Types, Contents
        <5> QED
          BY <5>1, <5>2, LenProperties, TransferAssumption DEF n
      <4>3. (i + 1) * ChunkSize <= Len(local'[c][f])
        BY <2>1, <3>2, <4>2
      <4>4. Len(local'[c][f]) > n <=> Len(local[c][f]) > n
        BY <2>1, <3>2, <4>2
      <4>5. /\ opened[c].name = f /\ fetched[c] = NoFile /\ fetch[c].chunks = ChunkCount(n)
            /\ i < fetch[c].chunks /\ n <= Len(store[f])
            /\ opened[c].tail <=> Len(local[c][f]) > n
        BY <2>1 DEF Fetching, f, n, i
      <4>6. i + 1 < fetch[c].chunks
        BY <2>1, <2>4, <3>2, <4>5 DEF last
      <4>7. Fetching(d)'
        <5>1. /\ download_fd'[d] = f /\ opened'[d] = opened[c] /\ fetched'[d] = NoFile
              /\ Len(opened'[d].data) = n /\ store'[f] = store[f]
          BY <3>2, <4>1, <4>5 DEF f, n
        <5>2. opened[c].tail <=> Len(local'[c][f]) > n
          BY <4>4, <4>5
        <5> QED
          BY <2>1, <3>2, <4>1, <4>3, <4>5, <4>6, <5>1, <5>2 DEF Fetching
      <4>8. fetch'[d].chunks # 0
        BY <2>1, <2>4, <4>1, <4>6
      <4> QED
        BY <4>7, <4>8
    <3>3. CASE d # c
      <4>1. /\ fetch'[d] = fetch[d] /\ download_fd'[d] = download_fd[d]
            /\ opened'[d] = opened[d] /\ fetched'[d] = fetched[d]
            /\ store' = store /\ local'[d] = local[d]
        BY <1>1, <2>1, <2>2, <3>3 DEF Types, fileVars
      <4> QED
        BY <1>1, <4>1 DEF DownloadsUnderWay, Fetching
    <3> QED
      BY <3>1, <3>2, <3>3
  <2> QED
    BY <2>7, <2>8, <2>9 DEF TypeInv, DownloadsUnderWay
<1>10. ASSUME NEW c \in Conns, Disconnect(c) PROVE TypeInv'
  <2>1. ChunksFit' /\ todo' \in [Conns -> Seq(Packets)]
    <3>1. todo' = [todo EXCEPT ![c] = <<>>]
      BY <1>10 DEF Disconnect
    <3> QED
      BY <1>1, <3>1 DEF ChunksFit, Types
  <2>2. Types'
    <3>1. /\ fd' \in [Conns -> Names \cup {Unset}] /\ offset' \in [Conns -> Nat]
          /\ download_fd' \in [Conns -> Names \cup {Unset}]
          /\ fetch' \in [Conns -> [next : Nat, chunks : Nat]]
      BY <1>10, <1>1 DEF Disconnect, Types
    <3>2. /\ uploading' \in [Conns -> FileRecords] /\ contested' \subseteq Conns
          /\ opened' \in [Conns -> FileRecords]
      BY <1>10, <1>1, <1>2 DEF Disconnect, Types
    <3> QED
      BY <1>10, <1>1, <2>1, <3>1, <3>2 DEF Disconnect, Types, fileVars
  <2>3. OffsetInside'
    BY <1>10, <1>1 DEF Disconnect, OffsetInside, Types, fileVars
  <2>4. DownloadsUnderWay'
    <3> SUFFICES ASSUME NEW d \in Conns
                 PROVE  (IF fetch[d].chunks = 0 THEN fetch[d].next = 0 ELSE Fetching(d))'
      BY DEF DownloadsUnderWay
    <3>1. CASE d = c
      BY <1>10, <1>1, <3>1 DEF Disconnect, Types
    <3>2. CASE d # c
      <4>1. /\ fetch'[d] = fetch[d] /\ download_fd'[d] = download_fd[d]
            /\ opened'[d] = opened[d] /\ fetched'[d] = fetched[d]
            /\ store' = store /\ local' = local
        BY <1>10, <1>1, <3>2 DEF Disconnect, Types, fileVars
      <4> QED
        BY <1>1, <4>1 DEF DownloadsUnderWay, Fetching
    <3> QED
      BY <3>1, <3>2
  <2> QED
    BY <2>1, <2>2, <2>3, <2>4 DEF TypeInv
<1>11. CASE UNCHANGED vars
  <2>1. Types' /\ ChunksFit' /\ OffsetInside'
    BY <1>11, <1>1 DEF vars, fileVars, uploadVars, downloadVars, Types, ChunksFit, OffsetInside
  <2>2. DownloadsUnderWay'
    BY <1>11, <1>1 DEF vars, fileVars, downloadVars, DownloadsUnderWay, Fetching
  <2> QED
    BY <2>1, <2>2 DEF TypeInv
<1> QED
  BY <1>3, <1>4, <1>5, <1>6, <1>7, <1>8, <1>9, <1>10, <1>11 DEF Next

(***************************************************************************)
(* The types of every variable; and that a descriptor's offset is never    *)
(* behind the end of its file, so that write() leaves no hole.             *)
(***************************************************************************)
THEOREM TypeCorrect == Spec => []TypeOK
<1>1. TypeInv => TypeOK
  <2> SUFFICES ASSUME TypeInv PROVE TypeOK
    OBVIOUS
  <2>1. \A c \in Conns : \A i \in DOMAIN todo[c] :
           /\ todo[c][i].command \in {"START", "CHUNK", "END"}
           /\ todo[c][i].name \in Names /\ todo[c][i].data \in Contents
           /\ Len(todo[c][i].data) <= ChunkSize
    <3> SUFFICES ASSUME NEW c \in Conns, NEW i \in DOMAIN todo[c]
                 PROVE  todo[c][i] \in Packets /\ Len(todo[c][i].data) <= ChunkSize
      BY DEF Packets
    <3>1. todo[c] \in Seq(Packets)
      BY DEF TypeInv, Types
    <3>2. DOMAIN todo[c] = 1 .. Len(todo[c])
      BY <3>1, LenProperties
    <3> QED
      BY <3>1, <3>2, ElementOfSeq DEF TypeInv, ChunksFit
  <2>2. \A c \in Conns : fd[c] # Unset => offset[c] \in 0 .. Len(store[fd[c]])
    <3> SUFFICES ASSUME NEW c \in Conns, fd[c] # Unset
                 PROVE  offset[c] \in 0 .. Len(store[fd[c]])
      OBVIOUS
    <3>1. store[fd[c]] \in Seq(Blocks) /\ offset[c] \in Nat /\ offset[c] <= Len(store[fd[c]])
      BY DEF TypeInv, Types, OffsetInside, Contents
    <3> QED
      BY <3>1, LenProperties
  <2>3. \A c \in Conns : fetch[c].next \in 0 .. fetch[c].chunks
    <3> SUFFICES ASSUME NEW c \in Conns PROVE fetch[c].next \in 0 .. fetch[c].chunks
      OBVIOUS
    <3>1. fetch[c] \in [next : Nat, chunks : Nat]
      BY DEF TypeInv, Types
    <3> QED
      BY <3>1 DEF TypeInv, DownloadsUnderWay, Fetching
  <2>4. \A f \in Names : claim[f].known => claim[f].data \in Contents
    BY DEF TypeInv, Types, Claims
  <2> QED
    BY <2>1, <2>2, <2>3, <2>4 DEF TypeOK, TypeInv, Types
<1> QED
  BY <1>1, InitTypes, TypesStep, PTL DEF Spec

-----------------------------------------------------------------------------
\* A sequence that begins with another one is that one, or longer.
LEMMA Fronts ==
    ASSUME NEW S, NEW s \in Seq(S), NEW t \in Seq(S), Len(s) <= Len(t),
           \A i \in 1 .. Len(s) : t[i] = s[i]
    PROVE  IF Len(t) > Len(s) THEN IsStrictPrefix(s, t) ELSE t = s
<1>1. Len(s) \in Nat /\ Len(t) \in Nat
  BY LenProperties
<1>2. CASE Len(t) > Len(s)
  <2>1. /\ SubSeq(s, 1, Len(s)) \in Seq(S) /\ SubSeq(t, 1, Len(s)) \in Seq(S)
        /\ Len(SubSeq(s, 1, Len(s))) = Len(s) /\ Len(SubSeq(t, 1, Len(s))) = Len(s)
        /\ \A i \in 1 .. Len(s) : SubSeq(s, 1, Len(s))[i] = s[i] /\ SubSeq(t, 1, Len(s))[i] = t[i]
    BY <1>1, SubSeqProperties
  <2>2. SubSeq(s, 1, Len(s)) = SubSeq(t, 1, Len(s))
    BY <2>1, SeqEqual
  <2>3. s # t
    BY <1>1, <1>2
  <2> QED
    BY <1>2, <2>2, <2>3 DEF IsStrictPrefix, IsPrefix
<1>3. CASE ~(Len(t) > Len(s))
  <2>1. Len(s) = Len(t)
    BY <1>1, <1>3
  <2>2. t = s
    BY <2>1, SeqEqual
  <2> QED
    BY <1>3, <2>2
<1> QED
  BY <1>2, <1>3

\* The blocks a packet writes say which file, and where in it, they are from.
LEMMA WrittenBlocks ==
    ASSUME NEW c \in Conns, NEW p \in Packets, Placed(c, p), NEW b \in Range(Written(c, p))
    PROVE  /\ b.by = c /\ b.nr = p.nr /\ At(p) \in Nat /\ b.at \in Nat
           /\ IF At(p) = 1 THEN b.at = 0
              ELSE /\ At(p) - 2 \in Nat
                   /\ (At(p) - 2) * ChunkSize < b.at /\ b.at <= (At(p) - 1) * ChunkSize
<1> DEFINE data == Source(c, p.nr, p.size)
           k == At(p) - 2
<1>1. /\ At(p) \in Nat
      /\ IF At(p) = 1 THEN p.data = <<>>
         ELSE /\ p.data = ChunkOf(data, At(p) - 2) /\ p.data # <<>>
              /\ At(p) - 2 \in Nat /\ (At(p) - 2) * ChunkSize < p.size
  BY PlacedPacket
<1>2. p.nr \in 1 .. MaxFiles /\ p.size \in Nat
  BY TransferAssumption DEF Packets
<1>3. CASE At(p) = 1
  <2>1. Written(c, p) = <<>> \/ Written(c, p) = Junk(c, p)
    BY <1>1, <1>3 DEF Written
  <2>2. b = [by |-> c, nr |-> p.nr, at |-> 0]
    BY <2>1 DEF Junk, Range
  <2> QED
    BY <1>1, <1>3, <2>2
<1>4. CASE At(p) # 1
  <2>1. /\ data \in Contents /\ Len(data) = p.size
        /\ \A i \in 1 .. p.size : data[i] = [by |-> c, nr |-> p.nr, at |-> i]
    BY <1>2, SourceIsAFile
  <2>2. k \in Nat /\ k * ChunkSize < p.size /\ p.data = ChunkOf(data, k) /\ Written(c, p) = p.data
    BY <1>1, <1>4 DEF Written
  <2> HIDE DEF data, k
  <2>3. /\ ChunkOf(data, k) \in Seq(Blocks) /\ k * ChunkSize \in Nat
        /\ Len(ChunkOf(data, k)) \in 0 .. ChunkSize
        /\ \A i \in 1 .. Len(ChunkOf(data, k)) :
              /\ k * ChunkSize + i \in 1 .. Len(data)
              /\ ChunkOf(data, k)[i] = data[k * ChunkSize + i]
    <3>1. k * ChunkSize <= Len(data)
      BY <1>2, <2>1, <2>2, TransferAssumption
    <3> QED
      BY <2>1, <2>2, <3>1, ChunkOfFile DEF Contents
  <2>4. PICK i \in 1 .. Len(ChunkOf(data, k)) : b = ChunkOf(data, k)[i]
    BY <2>2, <2>3, LenProperties DEF Range
  <2>5. b = [by |-> c, nr |-> p.nr, at |-> k * ChunkSize + i]
    BY <2>1, <2>3, <2>4
  <2>6. ChunkSize \in Nat /\ (k + 1) * ChunkSize = k * ChunkSize + ChunkSize /\ k + 1 = At(p) - 1
    BY <1>1, <2>2, TransferAssumption DEF k
  <2>7. k * ChunkSize + i \in Nat /\ k * ChunkSize < k * ChunkSize + i
        /\ k * ChunkSize + i <= (k + 1) * ChunkSize
    BY <2>3, <2>6
  <2> QED
    BY <1>1, <1>4, <2>2, <2>5, <2>6, <2>7 DEF k
<1> QED
  BY <1>3, <1>4

\* No block is in two packets.
LEMMA WrittenApart ==
    ASSUME NEW c \in Conns, NEW p \in Packets, NEW q \in Packets, Placed(c, p), Placed(c, q),
           Later(p, q)
    PROVE  Range(Written(c, p)) \cap Range(Written(c, q)) = {}
<1> SUFFICES ASSUME NEW b \in Range(Written(c, p)), b \in Range(Written(c, q))
             PROVE  FALSE
  OBVIOUS
<1>1. /\ b.nr = p.nr /\ At(p) \in Nat /\ b.at \in Nat
      /\ IF At(p) = 1 THEN b.at = 0
         ELSE /\ At(p) - 2 \in Nat
              /\ (At(p) - 2) * ChunkSize < b.at /\ b.at <= (At(p) - 1) * ChunkSize
  BY WrittenBlocks
<1>2. /\ b.nr = q.nr /\ At(q) \in Nat
      /\ IF At(q) = 1 THEN b.at = 0
         ELSE At(q) - 2 \in Nat /\ (At(q) - 2) * ChunkSize < b.at
  BY WrittenBlocks
<1>3. At(p) < At(q) /\ At(p) \in 1 .. At(p)
  <2>1. p.nr \in 1 .. MaxFiles
    BY DEF Packets
  <2> QED
    BY <1>1, <1>2, <2>1, TransferAssumption DEF Later
<1>4. ChunkSize \in Nat
  BY TransferAssumption
<1>5. CASE At(p) = 1
  <2>1. (At(q) - 2) * ChunkSize \in Nat /\ At(q) # 1
    BY <1>2, <1>3, <1>4, <1>5
  <2> QED
    BY <1>1, <1>2, <1>5, <2>1
<1>6. CASE At(p) # 1
  <2>1. (At(p) - 1) * ChunkSize <= (At(q) - 2) * ChunkSize
    <3>1. At(p) - 1 \in Nat /\ At(q) - 2 \in Nat /\ At(p) - 1 <= At(q) - 2
      BY <1>1, <1>2, <1>3, <1>6
    <3> QED
      BY <3>1, <1>4
  <2>2. (At(p) - 1) * ChunkSize \in Nat /\ (At(q) - 2) * ChunkSize \in Nat /\ At(q) # 1
    BY <1>1, <1>2, <1>3, <1>4, <1>6
  <2> QED
    BY <1>1, <1>2, <1>6, <2>1, <2>2
<1> QED
  BY <1>5, <1>6

\* How the packets that wait to be sent change in each step.
LEMMA QueuesStep == TypeInv /\ QueuesInOrder /\ [Next]_vars => QueuesInOrder'
<1> SUFFICES ASSUME TypeInv, QueuesInOrder, [Next]_vars, NEW d \in Conns
             PROVE  InOrder(d, todo[d])'
  BY DEF QueuesInOrder
<1>1. Types /\ todo \in [Conns -> Seq(Packets)] /\ InOrder(d, todo[d])
  BY DEF TypeInv, Types, QueuesInOrder
<1>2. ASSUME NEW c \in Conns, Upload(c) PROVE InOrder(d, todo'[d])
  <2>1. PICK k \in 1 .. MaxFiles - given[c] :
         \E f \in [1 .. k -> Names], n \in [1 .. k -> Lengths] :
           todo' = [todo EXCEPT ![c] = FlattenSeq(
                        [i \in 1 .. k |-> FilePackets(c, f[i], given[c] + i, n[i])])]
    BY <1>2 DEF Upload
  <2>2. PICK f \in [1 .. k -> Names], n \in [1 .. k -> Lengths] :
           todo' = [todo EXCEPT ![c] = FlattenSeq(
                        [i \in 1 .. k |-> FilePackets(c, f[i], given[c] + i, n[i])])]
    BY <2>1
  <2>3. given[c] \in Nat /\ k \in Nat /\ k > 0 /\ given[c] + k <= MaxFiles
    <3>1. given[c] \in 0 .. MaxFiles /\ MaxFiles \in Nat
      BY <1>1, TransferAssumption DEF Types
    <3> QED
      BY <3>1
  <2> DEFINE q == FlattenSeq([i \in 1 .. k |-> FilePackets(c, f[i], given[c] + i, n[i])])
  <2>4. Queued(c, q, given[c], k) /\ todo' = [todo EXCEPT ![c] = q]
    BY <2>2, <2>3, UploadQueued
  <2> HIDE DEF q
  <2> QED
    BY <1>1, <2>4 DEF Queued
<1>3. ASSUME NEW c \in Conns, todo[c] # <<>>, Replied(c) PROVE InOrder(d, todo'[d])
  <2>1. InOrder(c, Tail(todo[c]))
    BY <1>1, <1>3, RestInOrder DEF QueuesInOrder
  <2> QED
    BY <1>1, <1>3, <2>1 DEF Replied
<1>4. ASSUME NEW c \in Conns, todo' = [todo EXCEPT ![c] = <<>>] PROVE InOrder(d, todo'[d])
  <2>1. todo'[d] = <<>> \/ todo'[d] = todo[d]
    BY <1>1, <1>4
  <2>2. InOrder(d, <<>>)
    BY DEF InOrder
  <2> QED
    BY <1>1, <2>1, <2>2
<1>5. CASE todo' = todo
  BY <1>1, <1>5
<1>6. ASSUME NEW c \in Conns,
             HandleRefused(c) \/ HandleStart(c) \/ HandleChunk(c) \/ HandleEnd(c)
      PROVE  \/ todo[c] # <<>> /\ Replied(c)
             \/ todo' = [todo EXCEPT ![c] = <<>>]
  BY <1>6 DEF HandleRefused, HandleStart, HandleChunk, HandleEnd, Sends
<1>7. ASSUME NEW c \in Conns, Download(c) \/ FetchChunk(c) PROVE todo' = todo
  BY <1>7 DEF Download, FetchChunk
<1>8. ASSUME NEW c \in Conns, Disconnect(c) PROVE todo' = [todo EXCEPT ![c] = <<>>]
  BY <1>8 DEF Disconnect
<1>9. UNCHANGED vars => todo' = todo
  BY DEF vars
<1>10. InOrder(d, todo'[d])
  BY <1>2, <1>3, <1>4, <1>5, <1>6, <1>7, <1>8, <1>9 DEF Next
<1> QED
  BY <1>10 DEF InOrder, Placed, Followed, FileOf

\* A packet goes, and what it writes is in use from then on.
LEMMA BlocksMove ==
    ASSUME TypeInv, QueuesInOrder, Counted, PendingIsNew, NEW c \in Conns, todo[c] # <<>>,
           Replied(c) \/ todo' = [todo EXCEPT ![c] = <<>>], given' = given,
           InUse' \subseteq InUse \cup Range(Written(c, Head(todo[c])))
    PROVE  Counted' /\ PendingIsNew'
<1> DEFINE p == Head(todo[c])
<1>1. /\ todo \in [Conns -> Seq(Packets)] /\ given \in [Conns -> 0 .. MaxFiles]
      /\ \A d \in Conns : InOrder(d, todo[d])
  BY DEF TypeInv, Types, QueuesInOrder
<1>2. /\ p \in Packets /\ p = todo[c][1] /\ 1 \in DOMAIN todo[c] /\ Placed(c, p)
      /\ \A i \in DOMAIN Tail(todo[c]) : i + 1 \in DOMAIN todo[c] /\ Tail(todo[c])[i] = todo[c][i + 1]
  BY <1>1, RestInOrder
<1>3. \A d \in Conns : \A i \in DOMAIN todo[d] :
         i \in Nat /\ i > 0 /\ todo[d][i] \in Packets /\ Placed(d, todo[d][i])
  <2> SUFFICES ASSUME NEW d \in Conns, NEW i \in DOMAIN todo[d]
               PROVE  i \in Nat /\ i > 0 /\ todo[d][i] \in Packets /\ Placed(d, todo[d][i])
    OBVIOUS
  <2>1. todo[d] \in Seq(Packets) /\ InOrder(d, todo[d])
    BY <1>1
  <2>2. i \in 1 .. Len(todo[d]) /\ Len(todo[d]) \in Nat
    BY <2>1, LenProperties
  <2> QED
    BY <2>1, <2>2, ElementOfSeq DEF InOrder
<1>4. ASSUME NEW d \in Conns, NEW i \in DOMAIN todo'[d]
      PROVE  \E j \in DOMAIN todo[d] : todo'[d][i] = todo[d][j] /\ (d = c => j > 1)
  <2>1. CASE d # c
    <3>1. todo'[d] = todo[d]
      BY <1>1, <2>1 DEF Replied
    <3> QED
      BY <2>1, <3>1, <1>4
  <2>2. CASE d = c
    <3>1. todo'[d] = Tail(todo[c])
      BY <1>1, <1>4, <2>2 DEF Replied
    <3>2. i + 1 \in DOMAIN todo[c] /\ todo'[d][i] = todo[c][i + 1]
      BY <1>2, <1>4, <3>1
    <3>3. i + 1 > 1
      <4>1. Tail(todo[c]) \in Seq(Packets)
        BY <1>1, RestInOrder
      <4>2. i \in 1 .. Len(Tail(todo[c])) /\ Len(Tail(todo[c])) \in Nat
        BY <3>1, <4>1, <1>4, LenProperties
      <4> QED
        BY <4>2
    <3> QED
      BY <2>2, <3>2, <3>3
  <2> QED
    BY <2>1, <2>2
<1>5. ASSUME NEW b \in InUse' PROVE b \in InUse \/ (b \in Range(Written(c, p)) /\ b.by = c /\ b.nr = p.nr)
  BY <1>2, <1>5, WrittenBlocks
<1>6. Counted'
  <2>1. \A d \in Conns : \A i \in DOMAIN todo'[d] : todo'[d][i].nr <= given[d]
    BY <1>4 DEF Counted
  <2>2. \A b \in InUse' : b.nr <= given[b.by]
    BY <1>2, <1>5 DEF Counted
  <2> QED
    BY <2>1, <2>2 DEF Counted
<1>7. ASSUME NEW d \in Conns, NEW b \in Pending(d)' PROVE b \notin InUse'
  <2>1. PICK i \in DOMAIN todo'[d] : b \in Range(Written(d, todo'[d][i]))
    BY <1>7 DEF Pending, Written, Junk
  <2>2. PICK j \in DOMAIN todo[d] : todo'[d][i] = todo[d][j] /\ (d = c => j > 1)
    BY <1>4
  <2>3. /\ todo[d][j] \in Packets /\ Placed(d, todo[d][j]) /\ j \in Nat
        /\ b \in Range(Written(d, todo[d][j]))
    BY <1>3, <2>1, <2>2
  <2>4. b \notin InUse
    BY <2>2, <2>3 DEF PendingIsNew, Pending
  <2>5. b.by = d
    BY <2>3, WrittenBlocks
  <2>6. ASSUME d = c PROVE b \notin Range(Written(c, p))
    <3>1. Later(p, todo[c][j])
      BY <1>1, <1>2, <2>2, <2>6 DEF InOrder
    <3> QED
      BY <1>2, <2>3, <2>6, <3>1, WrittenApart
  <2> QED
    BY <1>5, <2>4, <2>5, <2>6
<1> QED
  BY <1>6, <1>7 DEF PendingIsNew

\* Nothing is sent, or all the rest is dropped.
LEMMA BlocksStay ==
    ASSUME Counted, PendingIsNew, given' = given, InUse' \subseteq InUse,
           \A c \in Conns : todo'[c] = todo[c] \/ todo'[c] = <<>>
    PROVE  Counted' /\ PendingIsNew'
<1>1. \A c \in Conns : \A i \in DOMAIN todo'[c] : i \in DOMAIN todo[c] /\ todo'[c][i] = todo[c][i]
  OBVIOUS
<1>2. Counted'
  BY <1>1 DEF Counted
<1>3. ASSUME NEW c \in Conns, NEW b \in Pending(c)' PROVE b \notin InUse'
  <2>1. PICK i \in DOMAIN todo'[c] : b \in Range(Written(c, todo'[c][i]))
    BY <1>3 DEF Pending, Written, Junk
  <2>2. b \in Pending(c)
    BY <1>1, <2>1 DEF Pending
  <2> QED
    BY <2>2 DEF PendingIsNew
<1> QED
  BY <1>2, <1>3 DEF PendingIsNew

\* What it is to be in use, before a step and after it.
LEMMA InUseMeans ==
    ASSUME NEW b
    PROVE  /\ b \in InUse <=> \/ \E f \in Names : b \in Range(store[f])
                              \/ \E c \in Conns : b \in Range(opened[c].data)
           /\ b \in InUse' <=> \/ \E f \in Names : b \in Range(store'[f])
                               \/ \E c \in Conns : b \in Range(opened'[c].data)
<1>1. b \in Stored <=> \E f \in Names : b \in Range(store[f])
  BY Zenon DEF Stored
<1>2. b \in Opened <=> \E c \in Conns : b \in Range(opened[c].data)
  BY Zenon DEF Opened
<1>3. b \in Stored' <=> \E f \in Names : b \in Range(store'[f])
  BY Zenon DEF Stored, Range
<1>4. b \in Opened' <=> \E c \in Conns : b \in Range(opened'[c].data)
  BY Zenon DEF Opened, Range
<1>5. b \in InUse <=> b \in Stored \/ b \in Opened
  BY DEF InUse
<1>6. b \in InUse' <=> b \in Stored' \/ b \in Opened'
  BY DEF InUse
<1> QED
  BY <1>1, <1>2, <1>3, <1>4, <1>5, <1>6, Zenon

\* A block in use is a block.
LEMMA UsedBlocks ==
    ASSUME Types, NEW b \in InUse
    PROVE  b.by \in Conns /\ b.nr \in Nat
<1> SUFFICES b \in Blocks
  BY DEF Blocks
<1>1. CASE \E g \in Names : b \in Range(store[g])
  <2>1. PICK g \in Names : b \in Range(store[g])
    BY <1>1
  <2>2. store[g] \in Seq(Blocks)
    BY DEF Types, Contents
  <2> QED
    BY <2>1, <2>2, RangeOfSeq, LenProperties, ElementOfSeq DEF Range
<1>2. CASE \E d \in Conns : b \in Range(opened[d].data)
  <2>1. PICK d \in Conns : b \in Range(opened[d].data)
    BY <1>2
  <2>2. opened[d].data \in Seq(Blocks)
    BY DEF Types, FileRecords, Contents
  <2> QED
    BY <2>1, <2>2, LenProperties, ElementOfSeq DEF Range
<1>3. (\E g \in Names : b \in Range(store[g])) \/ (\E d \in Conns : b \in Range(opened[d].data))
  BY InUseMeans
<1> QED
  BY <1>1, <1>2, <1>3

\* A new upload has blocks of its own.
LEMMA BlocksQueued ==
    ASSUME TypeInv, QueuesInOrder', Counted, PendingIsNew, NEW c \in Conns, Upload(c)
    PROVE  Counted' /\ PendingIsNew'
<1>1. Types
  BY DEF TypeInv
<1>2. PICK k \in 1 .. MaxFiles - given[c] :
         \E f \in [1 .. k -> Names], n \in [1 .. k -> Lengths] :
           /\ todo' = [todo EXCEPT ![c] = FlattenSeq(
                        [i \in 1 .. k |-> FilePackets(c, f[i], given[c] + i, n[i])])]
           /\ given' = [given EXCEPT ![c] = @ + k]
  BY DEF Upload
<1>3. PICK f \in [1 .. k -> Names], n \in [1 .. k -> Lengths] :
           /\ todo' = [todo EXCEPT ![c] = FlattenSeq(
                        [i \in 1 .. k |-> FilePackets(c, f[i], given[c] + i, n[i])])]
           /\ given' = [given EXCEPT ![c] = @ + k]
  BY <1>2
<1> DEFINE q == FlattenSeq([i \in 1 .. k |-> FilePackets(c, f[i], given[c] + i, n[i])])
<1>4. given[c] \in Nat /\ k \in Nat /\ k > 0 /\ given[c] + k <= MaxFiles
  <2>1. given[c] \in 0 .. MaxFiles /\ MaxFiles \in Nat
    BY <1>1, TransferAssumption DEF Types
  <2> QED
    BY <2>1
<1>5. Queued(c, q, given[c], k)
  BY <1>4, UploadQueued
<1> HIDE DEF q
<1>6. q \in Seq(Packets) /\ \A j \in DOMAIN q : q[j].nr \in given[c] + 1 .. given[c] + k
  BY <1>5 DEF Queued
<1>7. todo' = [todo EXCEPT ![c] = q] /\ given' = [given EXCEPT ![c] = given[c] + k]
  BY <1>3 DEF q
<1>8. InUse' = InUse
  BY DEF Upload, fileVars, downloadVars, InUse, Stored, Opened
<1>9. /\ todo'[c] = q /\ given'[c] = given[c] + k
      /\ \A d \in Conns : d # c => todo'[d] = todo[d] /\ given'[d] = given[d]
  BY <1>1, <1>7 DEF Types
<1>10. \A b \in InUse : b.by \in Conns /\ b.nr \in Nat
  BY <1>1, UsedBlocks
<1>11. \A d \in Conns : given[d] \in Nat /\ given'[d] \in Nat /\ given[d] <= given'[d]
  <2>1. \A d \in Conns : given[d] \in Nat
    BY <1>1 DEF Types
  <2> QED
    BY <2>1, <1>4, <1>9
<1>12. Counted'
  <2>1. ASSUME NEW d \in Conns, NEW i \in DOMAIN todo'[d] PROVE todo'[d][i].nr <= given'[d]
    <3>1. CASE d = c
      BY <1>4, <1>6, <1>9, <2>1, <3>1
    <3>2. CASE d # c
      BY <1>9, <2>1, <3>2 DEF Counted
    <3> QED
      BY <3>1, <3>2
  <2>2. ASSUME NEW b \in InUse PROVE b.nr <= given'[b.by]
    <3>1. b.nr <= given[b.by] /\ given[b.by] <= given'[b.by]
      BY <1>10, <1>11 DEF Counted
    <3>2. b.nr \in Nat /\ given[b.by] \in Nat /\ given'[b.by] \in Nat
      BY <1>10, <1>11
    <3> QED
      BY <3>1, <3>2
  <2> QED
    BY <2>1, <2>2, <1>8 DEF Counted
<1>13. ASSUME NEW d \in Conns, NEW b \in Pending(d)' PROVE b \notin InUse
  <2>1. PICK i \in DOMAIN todo'[d] : b \in Range(Written(d, todo'[d][i]))
    BY <1>13 DEF Pending, Written, Junk
  <2>2. CASE d = c
    <3>1. i \in DOMAIN q /\ q[i].nr \in given[c] + 1 .. given[c] + k /\ q[i] \in Packets
      <4>1. i \in 1 .. Len(q)
        BY <1>6, <1>9, <2>1, <2>2, LenProperties
      <4> QED
        BY <4>1, <1>6, <1>9, <2>1, <2>2, ElementOfSeq
    <3>2. Placed(c, q[i])
      <4>1. InOrder(c, q)
        BY <1>9 DEF QueuesInOrder, InOrder, Placed, Followed, FileOf
      <4> QED
        BY <3>1, <4>1 DEF InOrder
    <3>3. b.by = c /\ b.nr = q[i].nr
      BY <1>9, <2>1, <2>2, <3>1, <3>2, WrittenBlocks
    <3>4. ~(b.nr <= given[b.by])
      BY <1>4, <3>1, <3>3
    <3> QED
      BY <3>4 DEF Counted
  <2>3. CASE d # c
    <3>1. b \in Pending(d)
      BY <1>9, <2>1, <2>3 DEF Pending
    <3> QED
      BY <3>1 DEF PendingIsNew
  <2> QED
    BY <2>2, <2>3
<1> QED
  BY <1>8, <1>12, <1>13 DEF PendingIsNew


\* What is in use grows by what is written, and shrinks by what is forgotten.
LEMMA NewInUse ==
    ASSUME NEW D, \A f \in Names : Range(store'[f]) \subseteq Range(store[f]) \cup D,
           opened' = opened
    PROVE  InUse' \subseteq InUse \cup D
<1> SUFFICES ASSUME NEW b \in InUse' PROVE b \in InUse \cup D
  OBVIOUS
<1>1. CASE \E f \in Names : b \in Range(store'[f])
  BY <1>1, InUseMeans
<1>2. CASE \E c \in Conns : b \in Range(opened[c].data)
  BY <1>2, InUseMeans
<1>3. (\E f \in Names : b \in Range(store'[f])) \/ (\E c \in Conns : b \in Range(opened[c].data))
  BY InUseMeans
<1> QED
  BY <1>1, <1>2, <1>3

\* BlockInv is inductive relative to TypeInv.
LEMMA BlocksStep == TypeInv /\ BlockInv /\ [Next]_vars => BlockInv'
<1> SUFFICES ASSUME TypeInv, BlockInv, [Next]_vars PROVE Counted' /\ PendingIsNew' /\ QueuesInOrder'
  BY DEF BlockInv
<1>1. QueuesInOrder' /\ Types /\ OffsetInside /\ ChunksFit /\ Counted /\ PendingIsNew /\ QueuesInOrder
  BY QueuesStep DEF TypeInv, BlockInv
<1>2. ASSUME NEW c \in Conns, Upload(c) PROVE Counted' /\ PendingIsNew'
  BY <1>1, <1>2, BlocksQueued
<1>3. ASSUME NEW c \in Conns, HandleRefused(c) PROVE Counted' /\ PendingIsNew'
  <2>1. /\ todo' = [todo EXCEPT ![c] = <<>>] /\ given' = given
        /\ store' = store /\ opened' = opened
    BY <1>3 DEF HandleRefused, fileVars, downloadVars
  <2>2. InUse' \subseteq InUse
    BY <2>1 DEF InUse, Stored, Opened
  <2>3. \A d \in Conns : todo'[d] = todo[d] \/ todo'[d] = <<>>
    BY <2>1, <1>1 DEF Types
  <2> QED
    BY <1>1, <2>1, <2>2, <2>3, BlocksStay
<1>4. ASSUME NEW c \in Conns, HandleStart(c) PROVE Counted' /\ PendingIsNew'
  <2>1. /\ todo[c] # <<>> /\ Replied(c) /\ given' = given /\ store' = store /\ opened' = opened
    BY <1>4 DEF HandleStart, Sends, downloadVars
  <2>2. InUse' \subseteq InUse
    BY <2>1 DEF InUse, Stored, Opened
  <2> QED
    BY <1>1, <2>1, <2>2, BlocksMove
<1>5. ASSUME NEW c \in Conns, NEW data \in Contents, WritesTo(c, data), todo[c] # <<>>, Replied(c),
             data = Written(c, Head(todo[c])), given' = given, opened' = opened
      PROVE  Counted' /\ PendingIsNew'
  <2>1. \A f \in Names : Range(store'[f]) \subseteq Range(store[f]) \cup Range(data)
    BY <1>1, <1>5, WriteSteps
  <2>2. InUse' \subseteq InUse \cup Range(data)
    BY <1>5, <2>1, NewInUse
  <2> QED
    BY <1>1, <1>5, <2>2, BlocksMove
<1>6. ASSUME NEW c \in Conns, HandleChunk(c) PROVE Counted' /\ PendingIsNew'
  <2>1. /\ todo[c] # <<>> /\ Replied(c) /\ given' = given /\ opened' = opened
        /\ WritesTo(c, Head(todo[c]).data) /\ Head(todo[c]).command = "CHUNK"
    BY <1>6 DEF HandleChunk, Sends, downloadVars
  <2>2. Head(todo[c]).data \in Contents
    BY <1>1, <2>1, HeadOfQueue DEF Packets
  <2>3. Written(c, Head(todo[c])) = Head(todo[c]).data
    BY <2>1 DEF Written
  <2> QED
    BY <1>5, <2>1, <2>2, <2>3
<1>7. ASSUME NEW c \in Conns, HandleEnd(c) PROVE Counted' /\ PendingIsNew'
  <2> DEFINE p == Head(todo[c])
             data == IF p.data = <<>> THEN Junk(c, p) ELSE p.data
  <2>1. /\ todo[c] # <<>> /\ Replied(c) /\ given' = given /\ opened' = opened
        /\ WritesTo(c, data) /\ p.command = "END"
    BY <1>7 DEF HandleEnd, Sends, downloadVars
  <2>2. p \in Packets
    BY <1>1, <2>1, HeadOfQueue
  <2>3. data \in Contents
    <3>1. [by |-> c, nr |-> p.nr, at |-> 0] \in Blocks
      BY <2>2 DEF Packets, Blocks
    <3>2. Junk(c, p) \in Contents
      BY <3>1 DEF Junk, Contents
    <3> QED
      BY <2>2, <3>2 DEF Packets
  <2>4. Written(c, p) = data
    BY <2>1 DEF Written
  <2> HIDE DEF data, p
  <2> QED
    BY <1>5, <2>1, <2>3, <2>4 DEF p
<1>8. ASSUME NEW c \in Conns, Download(c) PROVE Counted' /\ PendingIsNew'
  <2>1. PICK f \in exists :
          opened' = [opened EXCEPT ![c] =
             [name |-> f, data |-> store[f], tail |-> Len(local[c][f]) > Len(store[f])]]
    BY <1>8 DEF Download
  <2>2. given' = [given EXCEPT ![c] = given[c] + 1] /\ todo' = todo /\ store' = store
    BY <1>8 DEF Download, fileVars
  <2>3. f \in Names
    BY <1>1 DEF Types
  <2>4. InUse' \subseteq InUse
    <3> SUFFICES ASSUME NEW b \in InUse' PROVE b \in InUse
      OBVIOUS
    <3>1. (\E g \in Names : b \in Range(store[g])) \/ (\E d \in Conns : b \in Range(opened'[d].data))
      BY <2>2, InUseMeans
    <3>2. ASSUME NEW d \in Conns, b \in Range(opened'[d].data) PROVE b \in InUse
      <4>1. CASE d = c
        <5>1. opened'[d].data = store[f]
          BY <1>1, <2>1, <4>1 DEF Types
        <5> QED
          BY <2>3, <3>2, <5>1, InUseMeans
      <4>2. CASE d # c
        <5>1. opened'[d] = opened[d]
          BY <1>1, <2>1, <4>2 DEF Types
        <5> QED
          BY <3>2, <5>1, InUseMeans
      <4> QED
        BY <4>1, <4>2
    <3> QED
      BY <3>1, <3>2, InUseMeans
  <2> QED
    <3>1. \A d \in Conns : given[d] \in Nat /\ given'[d] \in Nat /\ given[d] <= given'[d]
      BY <1>1, <2>2 DEF Types
    <3>2. ASSUME NEW b \in InUse' PROVE b.by \in Conns /\ b.nr \in Nat
      BY <3>2, <2>4, <1>1, UsedBlocks
    <3>3. PendingIsNew'
      <4>1. \A d \in Conns : Pending(d)' = Pending(d)
        BY <2>2 DEF Pending, Written, Junk
      <4> QED
        BY <1>1, <2>4, <4>1 DEF PendingIsNew
    <3>4. ASSUME NEW d \in Conns, NEW i \in DOMAIN todo'[d] PROVE todo'[d][i].nr <= given'[d]
      <4>1. todo[d][i].nr <= given[d] /\ todo[d][i].nr \in Nat
        <5>1. todo[d] \in Seq(Packets)
          BY <1>1 DEF Types
        <5>2. i \in 1 .. Len(todo[d])
          BY <2>2, <3>4, <5>1, LenProperties
        <5>3. todo[d][i] \in Packets
          BY <5>1, <5>2, ElementOfSeq
        <5>4. todo[d][i].nr \in 1 .. MaxFiles
          BY <5>3 DEF Packets
        <5> QED
          BY <1>1, <2>2, <3>4, <5>4 DEF Counted
      <4> QED
        BY <2>2, <3>1, <4>1
    <3>5. ASSUME NEW b \in InUse' PROVE b.nr <= given'[b.by]
      <4>1. b.nr <= given[b.by] /\ b.by \in Conns /\ b.nr \in Nat
        BY <1>1, <2>4, <3>2, <3>5 DEF Counted
      <4> QED
        BY <3>1, <4>1
    <3> QED
      BY <1>1, <3>3, <3>4, <3>5 DEF Counted
<1>9. ASSUME NEW c \in Conns, FetchChunk(c) PROVE Counted' /\ PendingIsNew'
  <2>1. given' = given /\ todo' = todo /\ store' = store /\ opened' = opened
    BY <1>9 DEF FetchChunk, fileVars
  <2>2. InUse' \subseteq InUse
    BY <2>1 DEF InUse, Stored, Opened
  <2> QED
    BY <1>1, <2>1, <2>2, BlocksStay
<1>10. ASSUME NEW c \in Conns, Disconnect(c) PROVE Counted' /\ PendingIsNew'
  <2>1. /\ todo' = [todo EXCEPT ![c] = <<>>] /\ given' = given
        /\ store' = store /\ opened' = [opened EXCEPT ![c] = NoFile]
    BY <1>10 DEF Disconnect, fileVars
  <2>2. InUse' \subseteq InUse
    <3> SUFFICES ASSUME NEW b \in InUse' PROVE b \in InUse
      OBVIOUS
    <3>1. (\E g \in Names : b \in Range(store[g])) \/ (\E d \in Conns : b \in Range(opened'[d].data))
      BY <2>1, InUseMeans
    <3>2. ASSUME NEW d \in Conns, b \in Range(opened'[d].data) PROVE b \in InUse
      <4>1. d # c
        BY <1>1, <2>1, <3>2 DEF Types, NoFile, Range
      <4>2. opened'[d] = opened[d]
        BY <1>1, <2>1, <4>1 DEF Types
      <4> QED
        BY <3>2, <4>2, InUseMeans
    <3> QED
      BY <3>1, <3>2, InUseMeans
  <2>3. \A d \in Conns : todo'[d] = todo[d] \/ todo'[d] = <<>>
    BY <2>1, <1>1 DEF Types
  <2> QED
    BY <1>1, <2>1, <2>2, <2>3, BlocksStay
<1>11. CASE UNCHANGED vars
  <2>1. given' = given /\ todo' = todo /\ store' = store /\ opened' = opened
    BY <1>11 DEF vars, fileVars, downloadVars
  <2>2. InUse' \subseteq InUse
    BY <2>1 DEF InUse, Stored, Opened
  <2> QED
    BY <1>1, <2>1, <2>2, BlocksStay
<1> QED
  BY <1>1, <1>2, <1>3, <1>4, <1>6, <1>7, <1>8, <1>9, <1>10, <1>11 DEF Next

-----------------------------------------------------------------------------
\* What another connection writes is not what was opened.
LEMMA FetchedStays ==
    ASSUME TypeInv, NEW c \in Conns, fetch[c].chunks > 0, FetchedSoFar(c), NEW D, D \cap InUse = {},
           \A f \in Names : \A i \in 1 .. Len(store[f]) :
               store'[f][i] = store[f][i] \/ store'[f][i] \in D,
           fetch'[c] = fetch[c], download_fd'[c] = download_fd[c], opened'[c] = opened[c],
           local'[c] = local[c]
    PROVE  FetchedSoFar(c)'
<1> DEFINE f == download_fd[c]
           n == Len(opened[c].data)
           m == fetch[c].next * ChunkSize
<1>1. /\ Fetching(c) /\ fetch[c].next \in Nat /\ opened[c].data \in Seq(Blocks) /\ n \in Nat
  <2>1. Types /\ DownloadsUnderWay /\ fetch[c].chunks # 0
    BY DEF TypeInv
  <2>2. fetch[c].next \in Nat /\ opened[c].data \in Seq(Blocks)
    BY <2>1 DEF Types, FileRecords, Contents
  <2> QED
    BY <2>1, <2>2, LenProperties DEF DownloadsUnderWay
<1>2. f \in Names /\ m \in Nat /\ m < n /\ n <= Len(store[f]) /\ Len(store[f]) \in Nat
  <2>1. f \in Names /\ n <= Len(store[f]) /\ fetch[c].next < ChunkCount(n)
    BY <1>1 DEF Fetching
  <2>2. fetch[c].next * ChunkSize < n
    <3> HIDE DEF n
    <3> QED
      BY <1>1, <2>1, ChunkCountBounds
  <2>3. store[f] \in Seq(Blocks)
    BY <2>1 DEF TypeInv, Types, Contents
  <2>4. m \in Nat
    BY <1>1, TransferAssumption
  <2> QED
    BY <2>1, <2>2, <2>3, <2>4, LenProperties
<1>3. ASSUME NEW i \in 1 .. m, store'[f][i] = opened[c].data[i] PROVE local[c][f][i] = opened[c].data[i]
  <2>1. i \in 1 .. n /\ i \in 1 .. Len(store[f])
    BY <1>2, <1>3
  <2>2. opened[c].data[i] \in Range(opened[c].data)
    BY <1>1, <2>1, LenProperties DEF Range
  <2>3. opened[c].data[i] \in InUse
    BY <2>2, InUseMeans
  <2>4. store[f][i] = opened[c].data[i]
    BY <1>2, <1>3, <2>1, <2>3
  <2> QED
    BY <1>3, <2>4 DEF FetchedSoFar
<1> QED
  BY <1>3 DEF FetchedSoFar

\* Another chunk: what was fetched stays, and the chunk is as the server has it.
LEMMA FetchedFurther ==
    ASSUME TypeInv, NEW c \in Conns, FetchedSoFar(c), FetchChunk(c)
    PROVE  LET f == download_fd[c]
               i == fetch[c].next IN
           \A k \in 1 .. i * ChunkSize + Len(ReadChunk(store[f], i)) :
               store[f][k] = opened[c].data[k] => local'[c][f][k] = opened[c].data[k]
<1> DEFINE f == download_fd[c]
           i == fetch[c].next
           data == ReadChunk(store[f], i)
           m == i * ChunkSize
           here == local[c][f]
<1>1. /\ f \in Names /\ i \in Nat /\ m \in Nat /\ data \in Seq(Blocks) /\ Len(data) \in Nat
      /\ \A k \in 1 .. Len(data) : data[k] = store[f][m + k]
      /\ local'[c][f] = Write(here, m, data) /\ m <= Len(here)
  <2>1. ChunkSize \in Nat
    BY TransferAssumption
  <2> QED
    BY <2>1, ChunkArrives, LenProperties DEF Fetching, Contents
<1>2. here \in Seq(Blocks) /\ Len(here) \in Nat
  BY <1>1, LenProperties DEF TypeInv, Types, Contents
<1>3. \A k \in 1 .. m : store[f][k] = opened[c].data[k] => here[k] = opened[c].data[k]
  BY DEF FetchedSoFar
<1> HIDE DEF f, i, data, m, here
<1>4. /\ \A k \in 1 .. Len(data) : Write(here, m, data)[m + k] = data[k]
      /\ \A k \in 1 .. Len(here) : ~(k > m /\ k <= m + Len(data)) => Write(here, m, data)[k] = here[k]
  <2>1. m \in 0 .. Len(here) /\ here \in Seq(Blocks) /\ data \in Seq(Blocks)
    BY <1>1, <1>2
  <2>2. \A k \in 1 .. Len(data) : /\ m + k \in DOMAIN Write(here, m, data)
                                  /\ Write(here, m, data)[m + k] = data[k]
    BY <2>1, WriteExtends
  <2>3. \A k \in 1 .. Len(here) : ~(k > m /\ k <= m + Len(data)) => Write(here, m, data)[k] = here[k]
    BY <2>1, WriteExtends
  <2> QED
    BY <2>2, <2>3
<1>5. ASSUME NEW k \in 1 .. m + Len(data), store[f][k] = opened[c].data[k]
      PROVE  local'[c][f][k] = opened[c].data[k]
  <2>1. CASE k <= m
    <3>1. k \in 1 .. m /\ k \in 1 .. Len(here) /\ ~(k > m)
      BY <1>1, <1>2, <2>1
    <3> QED
      BY <1>1, <1>3, <1>4, <1>5, <3>1
  <2>2. CASE k > m
    <3>1. k - m \in 1 .. Len(data) /\ m + (k - m) = k
      BY <1>1, <2>2
    <3> QED
      BY <1>1, <1>4, <1>5, <3>1
  <2> QED
    BY <1>1, <2>1, <2>2
<1> QED
  BY <1>5 DEF f, i, data, m

\* What a writing handler does to the files: it changes them to blocks that were not in use.
LEMMA WritesAreNew ==
    ASSUME TypeInv, BlockInv, NEW c \in Conns, HandleChunk(c) \/ HandleEnd(c)
    PROVE  /\ Range(Written(c, Head(todo[c]))) \cap InUse = {}
           /\ \A f \in Names : \A i \in 1 .. Len(store[f]) :
                 \/ store'[f][i] = store[f][i]
                 \/ store'[f][i] \in Range(Written(c, Head(todo[c])))
           /\ WritesTo(c, Written(c, Head(todo[c]))) /\ Written(c, Head(todo[c])) \in Contents
<1> DEFINE p == Head(todo[c])
<1>1. Types /\ OffsetInside /\ ChunksFit /\ PendingIsNew
  BY DEF TypeInv, BlockInv
<1>2. todo[c] # <<>> /\ WritesTo(c, Written(c, p))
  <2>1. CASE HandleChunk(c)
    BY <2>1 DEF HandleChunk, Sends, Written
  <2>2. CASE HandleEnd(c)
    <3>1. p.command = "END" /\ todo[c] # <<>>
      BY <2>2 DEF HandleEnd, Sends
    <3>2. WritesTo(c, IF p.data = <<>> THEN Junk(c, p) ELSE p.data)
      BY <2>2 DEF HandleEnd
    <3> QED
      BY <3>1, <3>2 DEF Written
  <2> QED
    BY <2>1, <2>2
<1>3. p \in Packets /\ p = todo[c][1] /\ 1 \in DOMAIN todo[c]
  BY <1>1, <1>2, HeadOfQueue
<1>4. Written(c, p) \in Contents
  <2>1. [by |-> c, nr |-> p.nr, at |-> 0] \in Blocks
    BY <1>3 DEF Packets, Blocks
  <2>2. Junk(c, p) \in Contents
    BY <2>1 DEF Junk, Contents
  <2> QED
    BY <1>3, <2>2 DEF Packets, Written
<1>5. Range(Written(c, p)) \subseteq Pending(c)
  BY <1>3 DEF Pending
<1> QED
  BY <1>1, <1>2, <1>4, <1>5, WriteSteps DEF PendingIsNew

\* A download under way has fetched what the file still is.
LEMMA DownloadsStep == TypeInv /\ BlockInv /\ DownloadsSoFar /\ [Next]_vars => DownloadsSoFar'
<1> SUFFICES ASSUME TypeInv, BlockInv, DownloadsSoFar, [Next]_vars,
                    NEW d \in Conns, fetch'[d].chunks > 0
             PROVE  FetchedSoFar(d)'
  BY DEF DownloadsSoFar
<1>1. Types
  BY DEF TypeInv
<1>2. ASSUME store' = store, fetch'[d] = fetch[d], download_fd'[d] = download_fd[d],
             opened'[d] = opened[d], local'[d] = local[d]
      PROVE  FetchedSoFar(d)'
  <2>1. fetch[d].chunks > 0 /\ FetchedSoFar(d)
    BY <1>2 DEF DownloadsSoFar
  <2>2. {} \cap InUse = {}
    OBVIOUS
  <2>3. \A f \in Names : \A i \in 1 .. Len(store[f]) :
           store'[f][i] = store[f][i] \/ store'[f][i] \in {}
    BY <1>2
  <2> QED
    BY <1>2, <2>1, <2>2, <2>3, FetchedStays
<1>3. ASSUME NEW c \in Conns, Upload(c) \/ HandleRefused(c) \/ HandleStart(c) PROVE FetchedSoFar(d)'
  <2>1. store' = store /\ UNCHANGED downloadVars
    BY <1>3 DEF Upload, HandleRefused, HandleStart, fileVars
  <2> QED
    BY <1>2, <2>1 DEF downloadVars
<1>4. ASSUME NEW c \in Conns, HandleChunk(c) \/ HandleEnd(c) PROVE FetchedSoFar(d)'
  <2>1. UNCHANGED downloadVars
    BY <1>4 DEF HandleChunk, HandleEnd
  <2>2. fetch[d].chunks > 0 /\ FetchedSoFar(d)
    BY <2>1 DEF DownloadsSoFar, downloadVars
  <2> QED
    BY <1>4, <2>1, <2>2, WritesAreNew, FetchedStays DEF downloadVars
<1>5. ASSUME NEW c \in Conns, Download(c) PROVE FetchedSoFar(d)'
  <2>1. CASE d = c
    <3>1. fetch'[d].next = 0
      BY <1>1, <1>5, <2>1 DEF Download, Types
    <3>2. 0 * ChunkSize = 0
      BY TransferAssumption
    <3> QED
      BY <3>1, <3>2 DEF FetchedSoFar
  <2>2. CASE d # c
    <3>1. store' = store /\ fetch'[d] = fetch[d] /\ download_fd'[d] = download_fd[d]
          /\ opened'[d] = opened[d] /\ local' = local
      BY <1>1, <1>5, <2>2 DEF Download, fileVars, Types
    <3> QED
      BY <1>2, <3>1
  <2> QED
    BY <2>1, <2>2
<1>6. ASSUME NEW c \in Conns, FetchChunk(c) PROVE FetchedSoFar(d)'
  <2> DEFINE f == download_fd[c]
             i == fetch[c].next
             data == ReadChunk(store[f], i)
  <2>1. /\ fetch' = [fetch EXCEPT ![c] = IF i + 1 = fetch[c].chunks THEN [next |-> 0, chunks |-> 0]
                                         ELSE [fetch[c] EXCEPT !.next = i + 1]]
        /\ store' = store /\ download_fd' = download_fd /\ opened' = opened
        /\ fetch[c].chunks > 0
    BY <1>6, Zenon DEF FetchChunk, fileVars
  <2>2. local' = [local EXCEPT ![c] = [local[c] EXCEPT ![f] = local'[c][f]]]
        /\ (i + 1 # fetch[c].chunks => (i + 1) * ChunkSize = i * ChunkSize + Len(data))
    BY <1>6, ChunkArrives
  <2>3. CASE d = c
    <3>1. fetch'[c].next = i + 1 /\ i + 1 # fetch[c].chunks
      BY <1>1, <2>1, <2>3 DEF Types
    <3>2. \A k \in 1 .. i * ChunkSize + Len(data) :
            store[f][k] = opened[c].data[k] => local'[c][f][k] = opened[c].data[k]
      <4>1. FetchedSoFar(c)
        BY <2>1 DEF DownloadsSoFar
      <4> QED
        BY <1>6, <4>1, FetchedFurther
    <3> QED
      BY <2>1, <2>2, <2>3, <3>1, <3>2 DEF FetchedSoFar
  <2>4. CASE d # c
    <3>1. fetch'[d] = fetch[d] /\ local'[d] = local[d]
      <4> HIDE DEF f, i
      <4> QED
        BY <1>1, <2>1, <2>2, <2>4 DEF Types
    <3> QED
      BY <1>2, <2>1, <3>1
  <2> QED
    BY <2>3, <2>4
<1>7. ASSUME NEW c \in Conns, Disconnect(c) PROVE FetchedSoFar(d)'
  <2>1. d # c
    BY <1>1, <1>7 DEF Disconnect, Types
  <2>2. store' = store /\ fetch'[d] = fetch[d] /\ download_fd'[d] = download_fd[d]
        /\ opened'[d] = opened[d] /\ local' = local
    BY <1>1, <1>7, <2>1 DEF Disconnect, fileVars, Types
  <2> QED
    BY <1>2, <2>2
<1>8. CASE UNCHANGED vars
  BY <1>2, <1>8 DEF vars, fileVars, downloadVars
<1> QED
  BY <1>3, <1>4, <1>5, <1>6, <1>7, <1>8 DEF Next

\* A download that ends leaves the client with the file; nothing disturbs it later.
LEMMA DownloadedStep ==
    TypeInv /\ DownloadsSoFar /\ DownloadedInFront /\ [Next]_vars => DownloadedInFront'
<1> DEFINE Holds(here, was) == IF was.tail THEN IsStrictPrefix(was.data, here) ELSE here = was.data
<1> SUFFICES ASSUME TypeInv, DownloadsSoFar, DownloadedInFront, [Next]_vars,
                    NEW d \in Conns, fetched'[d] # NoFile
             PROVE  Holds(local'[d][fetched'[d].name], fetched'[d])
  BY DEF DownloadedInFront
<1>1. Types
  BY DEF TypeInv
<1>2. ASSUME fetched'[d] = fetched[d], local'[d] = local[d]
      PROVE  Holds(local'[d][fetched'[d].name], fetched'[d])
  BY <1>2 DEF DownloadedInFront
<1> HIDE DEF Holds
<1>3. ASSUME NEW c \in Conns,
             \/ Upload(c) \/ HandleRefused(c) \/ HandleStart(c) \/ HandleChunk(c) \/ HandleEnd(c)
             \/ Disconnect(c)
      PROVE  local' = local /\ fetched' = fetched
  BY <1>3 DEF Upload, HandleRefused, HandleStart, HandleChunk, HandleEnd, Disconnect, downloadVars
<1>4. ASSUME NEW c \in Conns, Download(c) PROVE local' = local /\ fetched'[d] = fetched[d]
  <2>1. d # c
    BY <1>1, <1>4 DEF Download, Types
  <2> QED
    BY <1>1, <1>4, <2>1 DEF Download, Types
<1>5. ASSUME NEW c \in Conns, FetchChunk(c) PROVE Holds(local'[d][fetched'[d].name], fetched'[d])
  <2> DEFINE f == download_fd[c]
             i == fetch[c].next
             data == ReadChunk(store[f], i)
             n == Len(opened[c].data)
             m == i * ChunkSize
             here == local[c][f]
             new == local'[c][f]
  <2>1. /\ Fetching(c) /\ f \in Names /\ i \in Nat /\ m \in Nat /\ m < n
        /\ (i + 1 = fetch[c].chunks => n <= (i + 1) * ChunkSize)
        /\ new \in Seq(Blocks)
        /\ Len(new) = IF m + Len(data) > Len(here) THEN m + Len(data) ELSE Len(here)
        /\ local' = [local EXCEPT ![c] = [local[c] EXCEPT ![f] = new]]
    BY <1>5, ChunkArrives DEF Contents
  <2>2. /\ opened[c].data \in Seq(Blocks) /\ opened[c].name = f /\ fetched[c] = NoFile
        /\ (opened[c].tail <=> Len(here) > n) /\ n \in Nat /\ Len(here) \in Nat
    <3>1. opened[c].data \in Seq(Blocks) /\ here \in Seq(Blocks)
      BY <1>1, <2>1 DEF Types, FileRecords, Contents
    <3> QED
      BY <2>1, <3>1, LenProperties DEF Fetching
  <2>3. fetched' = IF i + 1 = fetch[c].chunks /\ store[f] = opened[c].data
                   THEN [fetched EXCEPT ![c] = opened[c]] ELSE fetched
    BY <1>5, Zenon DEF FetchChunk
  <2>4. CASE d # c
    <3>1. fetched'[d] = fetched[d] /\ local'[d] = local[d]
      <4> HIDE DEF f, i
      <4> QED
        BY <1>1, <2>1, <2>3, <2>4 DEF Types
    <3> QED
      BY <1>2, <3>1
  <2>5. CASE d = c
    <3>1. i + 1 = fetch[c].chunks /\ store[f] = opened[c].data /\ fetched'[d] = opened[c]
      <4> HIDE DEF f, i
      <4> QED
        BY <1>1, <2>2, <2>3, <2>5 DEF Types
    <3>2. m + Len(data) = n
      <4>1. /\ Len(data) = IF (i + 1) * ChunkSize <= n THEN ChunkSize ELSE n - m
            /\ ChunkSize \in Nat /\ (i + 1) * ChunkSize = m + ChunkSize
        <5>1. ChunkSize \in Nat /\ (i + 1) * ChunkSize = m + ChunkSize
          BY <2>1, TransferAssumption
        <5>2. store[f] \in Seq(Blocks) /\ Len(store[f]) = n /\ m <= n
          BY <2>1, <2>2, <3>1
        <5>3. Len(data) = IF (i + 1) * ChunkSize <= Len(store[f]) THEN ChunkSize
                          ELSE Len(store[f]) - m
          <6> HIDE DEF f, i, n
          <6> QED
            BY <2>1, <5>2, ChunkOfFile DEF ReadChunk
        <5> QED
          BY <5>1, <5>2, <5>3
      <4>2. n <= (i + 1) * ChunkSize
        BY <2>1, <3>1
      <4> HIDE DEF n, m, i, data
      <4> QED
        BY <2>1, <2>2, <4>1, <4>2
    <3>3. \A k \in 1 .. n : new[k] = opened[c].data[k]
      <4>1. FetchedSoFar(c)
        BY <1>5 DEF DownloadsSoFar, FetchChunk
      <4>2. \A k \in 1 .. m + Len(data) : store[f][k] = opened[c].data[k] => new[k] = opened[c].data[k]
        BY <1>5, <4>1, FetchedFurther
      <4> QED
        BY <3>1, <3>2, <4>2
    <3> HIDE DEF n, m, i, data, here, new
    <3>4. n <= Len(new) /\ (Len(new) > n <=> opened[c].tail)
      BY <2>1, <2>2, <3>2
    <3>5. IF Len(new) > n THEN IsStrictPrefix(opened[c].data, new) ELSE new = opened[c].data
      BY <2>1, <2>2, <3>3, <3>4, Fronts DEF n
    <3>6. Holds(new, opened[c])
      BY <3>4, <3>5 DEF Holds
    <3>7. local'[d][fetched'[d].name] = new
      BY <2>2, <2>5, <3>1 DEF new
    <3> QED
      BY <3>1, <3>6, <3>7
  <2> QED
    BY <2>4, <2>5
<1>6. UNCHANGED vars => local' = local /\ fetched' = fetched
  BY DEF vars, downloadVars
<1>7. Holds(local'[d][fetched'[d].name], fetched'[d])
  BY <1>2, <1>3, <1>4, <1>5, <1>6 DEF Next
<1> QED
  BY <1>7

(***************************************************************************)
(* A download of a file that nobody changed meanwhile leaves the client    *)
(* with that file in front (handle_file_open, create_chunk_packet and the  *)
(* client's loop over the chunks), for any number of clients and files,    *)
(* and whatever their lengths and the size of a chunk.                     *)
(***************************************************************************)
THEOREM Downloads == Spec => []DownloadedInFront
<1>1. Init => DownloadInv
  <2> SUFFICES ASSUME Init PROVE DownloadInv
    OBVIOUS
  <2>1. TypeInv
    BY InitTypes
  <2>2. \A c \in Conns : todo[c] = <<>> /\ fetch[c].chunks = 0 /\ fetched[c] = NoFile
    BY DEF Init
  <2>3. QueuesInOrder
    BY <2>2 DEF QueuesInOrder, InOrder
  <2>4. \A b : b \notin InUse
    BY InUseMeans DEF Init, NoFile, Range
  <2>5. Counted /\ PendingIsNew
    BY <2>2, <2>4 DEF Counted, PendingIsNew
  <2>6. DownloadsSoFar /\ DownloadedInFront
    BY <2>2 DEF DownloadsSoFar, DownloadedInFront
  <2> QED
    BY <2>1, <2>3, <2>5, <2>6 DEF DownloadInv, BlockInv
<1>2. DownloadInv /\ [Next]_vars => DownloadInv'
  BY TypesStep, BlocksStep, DownloadsStep, DownloadedStep DEF DownloadInv
<1>3. DownloadInv => DownloadedInFront
  BY DEF DownloadInv
<1> QED
  BY <1>1, <1>2, <1>3, PTL DEF Spec

-----------------------------------------------------------------------------
\* What the first packet is, and what follows it.
FirstPacket(c, p, rest) ==
    LET k == At(p) - 2
        data == Source(c, p.nr, p.size) IN
    /\ p \in Packets /\ p.name \in Names /\ p.name # Unset /\ p.size \in Nat /\ At(p) \in Nat
    /\ data \in Contents /\ Len(data) = p.size
    /\ p.command = "START" <=> At(p) = 1
    /\ p.command # "END" =>
          rest # <<>> /\ SameFile(p, Head(rest)) /\ At(Head(rest)) = At(p) + 1
    /\ p.command = "END" => (rest # <<>> => At(Head(rest)) = 1)
    /\ p.command # "START" =>
          /\ At(p) > 1 /\ k \in Nat /\ k * ChunkSize \in Nat /\ p.data \in Contents /\ p.data # <<>>
          /\ k * ChunkSize + Len(p.data) <= p.size
          /\ \A i \in 1 .. Len(p.data) : p.data[i] = data[k * ChunkSize + i]
    /\ p.command = "CHUNK" => k * ChunkSize + Len(p.data) = (At(p) + 1 - 2) * ChunkSize
    /\ p.command = "END" => k * ChunkSize + Len(p.data) = p.size

\* The first packet of a queue, when no file is empty.
LEMMA FirstPackets ==
    ASSUME OrdinaryFiles, TypeInv, QueuesInOrder, NEW c \in Conns, todo[c] # <<>>
    PROVE  FirstPacket(c, Head(todo[c]), Tail(todo[c]))
<1> DEFINE p == Head(todo[c])
           rest == Tail(todo[c])
           k == At(p) - 2
           data == Source(c, p.nr, p.size)
           n == ChunkCount(p.size)
<1>1. /\ p \in Packets /\ Placed(c, p)
      /\ IF At(p) < Len(FileOf(c, p))
         THEN rest # <<>> /\ SameFile(p, Head(rest)) /\ At(Head(rest)) = At(p) + 1
         ELSE rest # <<>> => At(Head(rest)) = 1
  <2>1. todo[c] \in Seq(Packets) /\ InOrder(c, todo[c])
    BY DEF TypeInv, Types, QueuesInOrder
  <2> QED
    BY <2>1, RestInOrder
<1>2. /\ n \in Nat /\ At(p) \in 1 .. n + 1 /\ Len(FileOf(c, p)) = n + 1
      /\ p.command = IF At(p) = n + 1 THEN "END" ELSE IF At(p) = 1 THEN "START" ELSE "CHUNK"
      /\ At(p) # 1 => /\ p.data = ChunkOf(data, k) /\ p.data # <<>> /\ k \in Nat
                      /\ k * ChunkSize < p.size
  BY <1>1, PlacedPacket
<1>3. /\ p.name \in Names /\ p.name # Unset /\ p.size \in Nat /\ p.size > 0 /\ p.nr \in 1 .. MaxFiles
      /\ p.data \in Contents /\ ChunkSize \in Nat \ {0}
  <2> HIDE DEF p
  <2>1. p.size \in Lengths /\ p.name \in Names /\ p.nr \in 1 .. MaxFiles /\ p.data \in Contents
    BY <1>1 DEF Packets
  <2>2. p.size \in Nat /\ p.size # 0
    BY <2>1, TransferAssumption DEF OrdinaryFiles
  <2> QED
    BY <2>1, <2>2, TransferAssumption
<1>4. n > 0
  BY <1>3, ChunkCountBounds
<1>5. data \in Seq(Blocks) /\ Len(data) = p.size
  <2> HIDE DEF p
  <2> QED
    BY <1>3, SourceIsAFile DEF Contents
<1> HIDE DEF p, rest, n, k, data
<1>6. p.command = "START" <=> At(p) = 1
  BY <1>2, <1>4
<1>7. p.command # "END" => rest # <<>> /\ SameFile(p, Head(rest)) /\ At(Head(rest)) = At(p) + 1
  BY <1>1, <1>2
<1>8. p.command = "END" => (rest # <<>> => At(Head(rest)) = 1)
  BY <1>1, <1>2
<1>9. ASSUME p.command # "START"
      PROVE  /\ At(p) > 1 /\ k \in Nat /\ k * ChunkSize \in Nat /\ p.data # <<>>
             /\ Len(p.data) = IF (k + 1) * ChunkSize <= p.size THEN ChunkSize ELSE p.size - k * ChunkSize
             /\ (k + 1) * ChunkSize = k * ChunkSize + ChunkSize
             /\ k * ChunkSize < p.size
             /\ \A i \in 1 .. Len(p.data) : p.data[i] = data[k * ChunkSize + i]
  <2>1. k \in Nat /\ k * ChunkSize < p.size /\ p.data = ChunkOf(data, k) /\ p.data # <<>> /\ At(p) > 1
    BY <1>2, <1>6, <1>9
  <2>2. k * ChunkSize \in Nat /\ (k + 1) * ChunkSize = k * ChunkSize + ChunkSize
    BY <2>1, <1>3
  <2>3. k * ChunkSize <= Len(data)
    BY <2>1, <2>2, <1>3, <1>5
  <2>4. /\ Len(ChunkOf(data, k)) = IF (k + 1) * ChunkSize <= Len(data)
                                   THEN ChunkSize ELSE Len(data) - k * ChunkSize
        /\ \A i \in 1 .. Len(ChunkOf(data, k)) :
              /\ k * ChunkSize + i \in 1 .. Len(data)
              /\ ChunkOf(data, k)[i] = data[k * ChunkSize + i]
    BY <2>1, <2>3, <1>5, ChunkOfFile
  <2> QED
    BY <2>1, <2>2, <2>4, <1>5
<1>10. p.command = "CHUNK" => (k + 1) * ChunkSize < p.size
  <2> SUFFICES ASSUME p.command = "CHUNK" PROVE (k + 1) * ChunkSize < p.size
    OBVIOUS
  <2>1. At(p) < n + 1 /\ k \in Nat /\ k + 2 = At(p)
    BY <1>2, <1>6, <1>9 DEF k
  <2>2. k + 1 < n
    BY <2>1, <1>2
  <2> QED
    BY <2>1, <2>2, <1>3, ChunkCountBounds DEF n
<1>11. p.command = "END" => p.size <= (k + 1) * ChunkSize
  <2> SUFFICES ASSUME p.command = "END" PROVE p.size <= (k + 1) * ChunkSize
    OBVIOUS
  <2>1. k \in Nat /\ k + 2 = n + 1
    BY <1>2, <1>9 DEF k
  <2>2. k + 1 = n
    BY <2>1, <1>2
  <2> QED
    BY <2>1, <2>2, <1>3, ChunkCountBounds DEF n
<1>12. p.command # "START" => k * ChunkSize + Len(p.data) <= p.size
  BY <1>3, <1>9
<1>13. p.command = "CHUNK" => k * ChunkSize + Len(p.data) = (At(p) + 1 - 2) * ChunkSize
  <2> SUFFICES ASSUME p.command = "CHUNK" PROVE k * ChunkSize + Len(p.data) = (At(p) + 1 - 2) * ChunkSize
    OBVIOUS
  <2>1. k + 1 = At(p) + 1 - 2
    BY <1>2 DEF k
  <2> QED
    BY <2>1, <1>3, <1>9, <1>10
<1>14. p.command = "END" => k * ChunkSize + Len(p.data) = p.size
  <2> SUFFICES ASSUME p.command = "END" PROVE k * ChunkSize + Len(p.data) = p.size
    OBVIOUS
  <2>1. /\ Len(p.data) = IF (k + 1) * ChunkSize <= p.size THEN ChunkSize ELSE p.size - k * ChunkSize
        /\ (k + 1) * ChunkSize = k * ChunkSize + ChunkSize /\ k * ChunkSize \in Nat
    BY <1>9
  <2> QED
    BY <2>1, <1>3, <1>11
<1>15. At(p) \in Nat
  BY <1>2
<1>16. FirstPacket(c, p, rest)
  BY <1>1, <1>3, <1>5, <1>6, <1>7, <1>8, <1>9, <1>12, <1>13, <1>14, <1>15
  DEF FirstPacket, k, data, Contents
<1> QED
  BY <1>16 DEF p, rest

\* An upload under way has a name, and one that is not has none.
LEMMA UploadName ==
    ASSUME OrdinaryFiles, TypeInv, QueuesInOrder, Uploads, NEW c \in Conns
    PROVE  /\ uploading[c] # NoFile <=> UnderWay(c)
           /\ UnderWay(c) => /\ uploading[c].name \in Names /\ uploading[c].name # Unset
                             /\ uploading[c].name = Head(todo[c]).name
           /\ ~UnderWay(c) => uploading[c].name = Unset
           /\ uploading[c].name \in Names <=> UnderWay(c)
<1>1. CASE UnderWay(c)
  <2>1. Goes(c) /\ todo[c] # <<>>
    BY <1>1 DEF Uploads, UnderWay
  <2>2. FirstPacket(c, Head(todo[c]), Tail(todo[c]))
    BY <2>1, FirstPackets
  <2> QED
    BY <1>1, <2>1, <2>2 DEF Goes, FirstPacket, NoFile
<1>2. CASE ~UnderWay(c)
  <2>1. uploading[c] = NoFile
    BY <1>2 DEF Uploads
  <2>2. NoFile.name = Unset
    BY DEF NoFile
  <2> QED
    BY <1>2, <2>1, <2>2, TransferAssumption
<1> QED
  BY <1>1, <1>2

\* The upload of a connection that does nothing, and whose file nobody writes.
LEMMA UploadStays ==
    ASSUME Uploads, NEW c \in Conns,
           todo'[c] = todo[c], uploading'[c] = uploading[c], fd'[c] = fd[c], offset'[c] = offset[c],
           exists \subseteq exists',
           c \notin contested' => c \notin contested,
           UnderWay(c) /\ c \notin contested => store'[uploading[c].name] = store[uploading[c].name]
    PROVE  (IF UnderWay(c) THEN Goes(c) ELSE uploading[c] = NoFile)'
<1>1. UnderWay(c)' <=> UnderWay(c)
  BY DEF UnderWay, At
<1>2. CASE ~UnderWay(c)
  BY <1>1, <1>2 DEF Uploads
<1>3. CASE UnderWay(c)
  <2>1. Goes(c)
    BY <1>3 DEF Uploads
  <2>2. c \notin contested' => StoredSoFar(c)'
    BY <1>3, <2>1 DEF Goes, StoredSoFar
  <2>3. Goes(c)'
    BY <2>1, <2>2 DEF Goes, At, Source
  <2> QED
    BY <1>1, <1>3, <2>3
<1> QED
  BY <1>2, <1>3

\* What UploadInv says beyond types and queues.
UploadFacts == Uploads /\ SharedIsContested /\ ClaimedIsAtRest /\ OkMeansStoredInFront

\* REQ_FILE_TRANSFER_START: the upload begins, and the claim on its file ends.
LEMMA StartStep ==
    ASSUME OrdinaryFiles, UploadInv, NEW c \in Conns, HandleStart(c)
    PROVE  UploadFacts'
<1> DEFINE p == Head(todo[c])
           f == p.name
           data == Source(c, p.nr, p.size)
           new == [name |-> f, data |-> data, tail |-> Len(store[f]) > p.size]
           others == Uploading(f) \ {c}
<1>1. TypeInv /\ QueuesInOrder /\ Types /\ Uploads /\ SharedIsContested /\ ClaimedIsAtRest /\ OkMeansStoredInFront
  BY DEF UploadInv, TypeInv
<1>2. /\ todo[c] # <<>> /\ p.command = "START" /\ todo' = [todo EXCEPT ![c] = Tail(todo[c])]
      /\ store' = store
      /\ offset' = [offset EXCEPT ![c] = 0]
      /\ uploading' = [uploading EXCEPT ![c] = new]
      /\ claim' = [claim EXCEPT ![f] = Nothing]
      /\ fd' = [fd EXCEPT ![c] = f] /\ exists' = exists \cup {f}
      /\ contested' = IF others = {} THEN contested \ {c} ELSE contested \cup others \cup {c}
  BY Zenon DEF HandleStart, Sends, Replied, OrdinaryFiles
<1>3. FirstPacket(c, p, Tail(todo[c]))
  BY <1>1, <1>2, FirstPackets
<1>4. /\ f \in Names /\ f # Unset /\ p.size \in Nat /\ Len(data) = p.size /\ At(p) = 1
      /\ Tail(todo[c]) # <<>> /\ SameFile(p, Head(Tail(todo[c]))) /\ At(Head(Tail(todo[c]))) = 2
  BY <1>2, <1>3 DEF FirstPacket
<1>5. new.name = f /\ new.data = data /\ new.tail = (Len(store[f]) > p.size)
  OBVIOUS
<1> HIDE DEF new
<1>6. /\ todo'[c] = Tail(todo[c]) /\ offset'[c] = 0 /\ uploading'[c] = new /\ fd'[c] = f
      /\ \A d \in Conns : d # c => /\ todo'[d] = todo[d] /\ offset'[d] = offset[d]
                                   /\ uploading'[d] = uploading[d] /\ fd'[d] = fd[d]
  BY <1>1, <1>2 DEF Types
<1>7. Uploads'
  <2> SUFFICES ASSUME NEW d \in Conns
               PROVE  (IF UnderWay(d) THEN Goes(d) ELSE uploading[d] = NoFile)'
    BY DEF Uploads
  <2>1. CASE d = c
    <3> DEFINE q == Head(Tail(todo[c]))
    <3>1. q.name = f /\ q.nr = p.nr /\ q.size = p.size /\ At(q) = 2 /\ Head(todo'[c]) = q
      BY <1>4, <1>6 DEF SameFile
    <3>2. UnderWay(c)'
      BY <1>4, <1>6, <3>1 DEF UnderWay, At
    <3>3. StoredSoFar(c)'
      <4>1. uploading'[c].tail <=> Len(store'[f]) > Len(data)
        BY <1>2, <1>4, <1>5, <1>6, Zenon
      <4> QED
        BY <1>5, <1>6, <4>1 DEF StoredSoFar
    <3>4. (2 - 2) * ChunkSize = 0
      BY TransferAssumption
    <3>5. Goes(c)'
      <4>1. /\ uploading'[c].name = f /\ uploading'[c].data = Source(c, q.nr, q.size)
            /\ fd'[c] = q.name /\ offset'[c] = (At(q) - 2) * ChunkSize /\ q.name \in exists'
        BY <1>2, <1>5, <1>6, <3>1, <3>4
      <4> HIDE DEF q
      <4> QED
        BY <3>1, <3>3, <4>1 DEF Goes
    <3> QED
      BY <2>1, <3>2, <3>5
  <2>2. CASE d # c
    BY <1>1, <1>2, <1>6, <2>2, UploadStays
  <2> QED
    BY <2>1, <2>2
<1>8. \A d \in Conns : d \in others <=> d # c /\ uploading[d].name = f
  BY DEF Uploading
<1>9. SharedIsContested'
  <2> SUFFICES ASSUME NEW d \in Conns, NEW e \in Conns, d # e, uploading'[d] # NoFile,
                      uploading'[d].name = uploading'[e].name
               PROVE  d \in contested'
    BY DEF SharedIsContested
  <2>1. CASE d = c
    BY <1>2, <1>5, <1>6, <1>8, <2>1
  <2>2. CASE e = c
    BY <1>2, <1>5, <1>6, <1>8, <2>2
  <2>3. CASE d # c /\ e # c
    <3>1. d \in contested
      BY <1>1, <1>6, <2>3 DEF SharedIsContested
    <3> QED
      BY <1>2, <2>3, <3>1
  <2> QED
    BY <2>1, <2>2, <2>3
<1>10. \A g \in Names : claim'[g].known => g # f /\ claim'[g] = claim[g] /\ claim[g].known
  BY <1>1, <1>2, <1>4 DEF Types, Nothing
<1>11. ClaimedIsAtRest'
  <2> SUFFICES ASSUME NEW g \in Names, claim'[g].known, NEW d \in Conns
               PROVE  uploading'[d].name # g
    BY DEF ClaimedIsAtRest, Uploading
  <2>1. g # f /\ Uploading(g) = {}
    BY <1>1, <1>10 DEF ClaimedIsAtRest
  <2> QED
    BY <1>5, <1>6, <2>1 DEF Uploading
<1>12. OkMeansStoredInFront'
  BY <1>1, <1>2, <1>10 DEF OkMeansStoredInFront
<1> QED
  BY <1>7, <1>9, <1>11, <1>12 DEF UploadFacts

\* WriteExtends in one word.
Extended(new, content, pos, data) ==
    /\ new \in Contents
    /\ Len(new) = IF pos + Len(data) > Len(content) THEN pos + Len(data) ELSE Len(content)
    /\ \A i \in 1 .. Len(data) : pos + i \in DOMAIN new /\ new[pos + i] = data[i]
    /\ \A i \in 1 .. Len(content) : ~(i > pos /\ i <= pos + Len(data)) => new[i] = content[i]

LEMMA WriteExtended ==
    ASSUME NEW content \in Seq(Blocks), NEW data \in Seq(Blocks), NEW pos \in 0 .. Len(content)
    PROVE  Extended(Write(content, pos, data), content, pos, data)
<1> DEFINE w == Write(content, pos, data)
<1>1. w \in Seq(Blocks)
  BY WriteExtends
<1>2. Len(w) = IF pos + Len(data) > Len(content) THEN pos + Len(data) ELSE Len(content)
  BY WriteExtends
<1>3. \A i \in 1 .. Len(data) : pos + i \in DOMAIN w /\ w[pos + i] = data[i]
  BY WriteExtends
<1>4. \A i \in 1 .. Len(content) : ~(i > pos /\ i <= pos + Len(data)) => w[i] = content[i]
  BY WriteExtends
<1> QED
  BY <1>1, <1>2, <1>3, <1>4 DEF Extended, Contents

\* What a write of the next chunk does: to the file of the upload, and to that one only.
LEMMA NextChunk ==
    ASSUME OrdinaryFiles, UploadInv, NEW c \in Conns, todo[c] # <<>>, Head(todo[c]).command # "START",
           WritesTo(c, Head(todo[c]).data)
    PROVE  LET p == Head(todo[c])
               f == p.name
               m == offset[c] + Len(p.data) IN
           /\ UnderWay(c) /\ Goes(c) /\ m \in Nat /\ m <= p.size
           /\ offset' = [offset EXCEPT ![c] = m]
           /\ \A g \in Names : g # f => store'[g] = store[g]
           /\ store'[f] \in Contents /\ m <= Len(store'[f])
           /\ Len(store'[f]) > p.size <=> Len(store[f]) > p.size
           /\ c \notin contested => \A i \in 1 .. m : store'[f][i] = uploading[c].data[i]
<1> DEFINE p == Head(todo[c])
           f == p.name
           k == At(p) - 2
           m == offset[c] + Len(p.data)
<1>1. TypeInv /\ Types /\ OffsetInside /\ QueuesInOrder /\ Uploads
  BY DEF UploadInv, TypeInv
<1>2. FirstPacket(c, p, Tail(todo[c]))
  BY <1>1, FirstPackets
<1>3. /\ f \in Names /\ f # Unset /\ p.size \in Nat /\ At(p) > 1 /\ k * ChunkSize \in Nat
      /\ p.data \in Seq(Blocks)
      /\ k * ChunkSize + Len(p.data) <= p.size
      /\ \A i \in 1 .. Len(p.data) : p.data[i] = Source(c, p.nr, p.size)[k * ChunkSize + i]
  BY <1>2 DEF FirstPacket, Contents
<1>4. UnderWay(c) /\ Goes(c)
  BY <1>1, <1>3 DEF UnderWay, Uploads
<1>5. /\ fd[c] = f /\ offset[c] = k * ChunkSize /\ uploading[c].data = Source(c, p.nr, p.size)
      /\ uploading[c].name = f /\ (c \notin contested => StoredSoFar(c))
  BY <1>4 DEF Goes
<1>6. /\ store[f] \in Seq(Blocks) /\ Len(store[f]) \in Nat /\ Len(p.data) \in Nat
      /\ offset[c] \in 0 .. Len(store[f])
  <2>1. store[f] \in Seq(Blocks) /\ Len(store[f]) \in Nat /\ Len(p.data) \in Nat
    BY <1>1, <1>3, LenProperties DEF Types, Contents
  <2>2. offset[c] <= Len(store[f])
    BY <1>1, <1>3, <1>5 DEF OffsetInside
  <2> QED
    BY <1>3, <1>5, <2>1, <2>2
<1>7. /\ store' = [store EXCEPT ![f] = Write(store[f], offset[c], p.data)]
      /\ offset' = [offset EXCEPT ![c] = m]
  BY <1>3, <1>5 DEF WritesTo
<1>8. store'[f] = Write(store[f], offset[c], p.data) /\ \A g \in Names : g # f => store'[g] = store[g]
  BY <1>1, <1>3, <1>7 DEF Types
<1> DEFINE w == Write(store[f], offset[c], p.data)
           o == offset[c]
<1>9. /\ w \in Seq(Blocks)
      /\ Len(w) = IF o + Len(p.data) > Len(store[f]) THEN o + Len(p.data) ELSE Len(store[f])
      /\ \A i \in 1 .. Len(p.data) : o + i \in DOMAIN w /\ w[o + i] = p.data[i]
      /\ \A i \in 1 .. Len(store[f]) : ~(i > o /\ i <= o + Len(p.data)) => w[i] = store[f][i]
  <2>1. o \in 0 .. Len(store[f]) /\ store[f] \in Seq(Blocks) /\ p.data \in Seq(Blocks)
    BY <1>3, <1>6
  <2> HIDE DEF p, f, o
  <2>2. Extended(w, store[f], o, p.data)
    BY <2>1, WriteExtended DEF o
  <2> HIDE DEF w
  <2> QED
    BY <2>2 DEF Extended, Contents
<1> HIDE DEF w, o
<1>10. c \notin contested => \A i \in 1 .. m : w[i] = uploading[c].data[i]
  <2> SUFFICES ASSUME c \notin contested, NEW i \in 1 .. m PROVE w[i] = uploading[c].data[i]
    OBVIOUS
  <2>1. CASE i <= o
    <3>1. i \in 1 .. Len(store[f]) /\ i \in 1 .. o
      BY <1>6, <2>1 DEF o
    <3>2. store[f][i] = uploading[c].data[i]
      BY <1>5, <3>1 DEF StoredSoFar, o
    <3>3. ~(i > o)
      BY <1>6, <2>1 DEF o
    <3> QED
      BY <1>9, <3>1, <3>2, <3>3
  <2>2. CASE i > o
    <3>1. i - o \in 1 .. Len(p.data) /\ o + (i - o) = i
      BY <1>6, <2>2 DEF o
    <3> QED
      BY <1>3, <1>5, <1>9, <3>1 DEF o
  <2> QED
    BY <2>1, <2>2, <1>6 DEF o
<1>11. m \in Nat /\ m <= p.size /\ m <= Len(w) /\ (Len(w) > p.size <=> Len(store[f]) > p.size)
  <2>1. o \in Nat /\ m = o + Len(p.data) /\ o + Len(p.data) <= p.size /\ p.size \in Nat
    BY <1>3, <1>5, <1>6 DEF o
  <2> HIDE DEF m, p, f
  <2> QED
    BY <1>6, <1>9, <2>1
<1> QED
  BY <1>4, <1>7, <1>8, <1>9, <1>10, <1>11 DEF w, Contents

\* Whatever else is being uploaded to the name of an upload is not to the file
\* of one that is not contested.
LEMMA OthersStay ==
    ASSUME OrdinaryFiles, UploadInv, NEW c \in Conns, UnderWay(c), NEW d \in Conns, d # c,
           todo'[d] = todo[d], uploading'[d] = uploading[d], fd' = fd, exists' = exists,
           \A e \in Conns : e # c => offset'[e] = offset[e],
           d \notin contested' => d \notin contested,
           \A g \in Names : g # uploading[c].name => store'[g] = store[g]
    PROVE  (IF UnderWay(d) THEN Goes(d) ELSE uploading[d] = NoFile)'
<1>1. TypeInv /\ QueuesInOrder /\ Uploads /\ SharedIsContested
  BY DEF UploadInv
<1>2. ASSUME UnderWay(d), d \notin contested
      PROVE  store'[uploading[d].name] = store[uploading[d].name]
  <2>1. uploading[d] # NoFile /\ uploading[d].name \in Names
    BY <1>1, <1>2, UploadName
  <2>2. uploading[d].name # uploading[c].name
    BY <1>1, <1>2, <2>1 DEF SharedIsContested
  <2> QED
    BY <2>1, <2>2
<1> QED
  BY <1>1, <1>2, UploadStays

\* REQ_FILE_TRANSFER_CHUNK: one chunk further.
LEMMA ChunkStep ==
    ASSUME OrdinaryFiles, UploadInv, NEW c \in Conns, HandleChunk(c)
    PROVE  UploadFacts'
<1> DEFINE p == Head(todo[c])
           f == p.name
           m == offset[c] + Len(p.data)
<1>1. /\ TypeInv /\ QueuesInOrder /\ Types /\ Uploads /\ SharedIsContested /\ ClaimedIsAtRest
      /\ OkMeansStoredInFront
  BY DEF UploadInv, TypeInv
<1>2. /\ todo[c] # <<>> /\ p.command = "CHUNK" /\ todo' = [todo EXCEPT ![c] = Tail(todo[c])]
      /\ WritesTo(c, p.data)
      /\ exists' = exists /\ fd' = fd /\ uploading' = uploading /\ contested' = contested
      /\ claim' = claim
  BY DEF HandleChunk, Sends, Replied
<1>3. /\ UnderWay(c) /\ Goes(c) /\ m \in Nat /\ m <= p.size
      /\ offset' = [offset EXCEPT ![c] = m]
      /\ \A g \in Names : g # f => store'[g] = store[g]
      /\ Len(store'[f]) > p.size <=> Len(store[f]) > p.size
      /\ c \notin contested => \A i \in 1 .. m : store'[f][i] = uploading[c].data[i]
  BY <1>1, <1>2, NextChunk
<1>4. FirstPacket(c, p, Tail(todo[c]))
  BY <1>1, <1>2, FirstPackets
<1>5. /\ uploading[c].name = f /\ uploading[c].data = Source(c, p.nr, p.size) /\ fd[c] = f
      /\ offset[c] = (At(p) - 2) * ChunkSize /\ f \in exists
      /\ c \notin contested => StoredSoFar(c)
  BY <1>3 DEF Goes
<1>6. /\ f \in Names /\ f # Unset /\ Len(Source(c, p.nr, p.size)) = p.size /\ At(p) \in Nat /\ At(p) > 1
      /\ Tail(todo[c]) # <<>> /\ SameFile(p, Head(Tail(todo[c])))
      /\ At(Head(Tail(todo[c]))) = At(p) + 1
      /\ (At(p) - 2) * ChunkSize + Len(p.data) = (At(p) + 1 - 2) * ChunkSize
  BY <1>2, <1>4 DEF FirstPacket
<1>7. /\ todo'[c] = Tail(todo[c]) /\ offset'[c] = m
      /\ \A d \in Conns : d # c => todo'[d] = todo[d] /\ offset'[d] = offset[d]
  BY <1>1, <1>2, <1>3 DEF Types
<1>8. Uploads'
  <2> SUFFICES ASSUME NEW d \in Conns
               PROVE  (IF UnderWay(d) THEN Goes(d) ELSE uploading[d] = NoFile)'
    BY DEF Uploads
  <2>1. CASE d = c
    <3> DEFINE q == Head(Tail(todo[c]))
    <3>1. q.name = f /\ q.nr = p.nr /\ q.size = p.size /\ At(q) = At(p) + 1 /\ Head(todo'[c]) = q
      BY <1>6, <1>7 DEF SameFile
    <3>2. At(q) > 1 /\ todo'[c] # <<>>
      BY <1>6, <1>7, <3>1
    <3>3. c \notin contested' => StoredSoFar(c)'
      <4> SUFFICES ASSUME c \notin contested PROVE StoredSoFar(c)'
        BY <1>2
      <4>1. uploading[c].tail <=> Len(store[f]) > p.size
        BY <1>5, <1>6 DEF StoredSoFar
      <4>2. uploading[c].tail <=> Len(store'[f]) > p.size
        BY <1>3, <4>1
      <4>3. uploading'[c].tail <=> Len(store'[f]) > Len(uploading'[c].data)
        <5>1. uploading'[c] = uploading[c] /\ Len(uploading[c].data) = p.size
          BY <1>2, <1>5, <1>6
        <5> QED
          BY <4>2, <5>1, Zenon
      <4>4. \A i \in 1 .. offset'[c] : store'[f][i] = uploading'[c].data[i]
        BY <1>2, <1>3, <1>7
      <4>5. uploading'[c].name = f
        BY <1>2, <1>5
      <4> QED
        BY <4>3, <4>4, <4>5, Zenon DEF StoredSoFar
    <3>4. /\ uploading'[c].name = q.name /\ uploading'[c].data = Source(c, q.nr, q.size)
          /\ fd'[c] = q.name /\ offset'[c] = (At(q) - 2) * ChunkSize /\ q.name \in exists'
      <4>1. offset'[c] = (At(p) + 1 - 2) * ChunkSize
        BY <1>5, <1>6, <1>7
      <4>2. offset'[c] = (At(q) - 2) * ChunkSize
        <5> HIDE DEF p, q
        <5>1. At(q) - 2 = At(p) + 1 - 2
          BY <1>6, <3>1
        <5> QED
          BY <4>1, <5>1
      <4> QED
        BY <1>2, <1>5, <3>1, <4>2
    <3> HIDE DEF q
    <3>5. UnderWay(c)'
      BY <3>1, <3>2 DEF UnderWay
    <3>6. Goes(c)'
      BY <3>1, <3>3, <3>4 DEF Goes
    <3> QED
      BY <2>1, <3>5, <3>6
  <2>2. CASE d # c
    BY <1>2, <1>3, <1>5, <1>7, <2>2, OthersStay
  <2> QED
    BY <2>1, <2>2
<1>9. SharedIsContested' /\ ClaimedIsAtRest'
  BY <1>1, <1>2 DEF SharedIsContested, ClaimedIsAtRest, Uploading
<1>10. OkMeansStoredInFront'
  <2>1. \A g \in Names : claim[g].known => g # f
    BY <1>1, <1>5 DEF ClaimedIsAtRest, Uploading
  <2> QED
    BY <1>1, <1>2, <1>3, <2>1 DEF OkMeansStoredInFront
<1> QED
  BY <1>8, <1>9, <1>10 DEF UploadFacts

\* A connection whose upload is over, or cut short, no longer shares a file.
LEMMA OneLess ==
    ASSUME OrdinaryFiles, UploadInv, NEW c \in Conns,
           uploading' = [uploading EXCEPT ![c] = NoFile], contested' = contested \ {c}
    PROVE  /\ uploading'[c] = NoFile
           /\ \A d \in Conns : d # c => uploading'[d] = uploading[d]
           /\ SharedIsContested'
           /\ \A g \in Names : Uploading(g)' = Uploading(g) \ {c}
<1>1. /\ TypeInv /\ QueuesInOrder /\ Types /\ Uploads /\ SharedIsContested
  BY DEF UploadInv, TypeInv
<1>2. uploading'[c] = NoFile /\ \A d \in Conns : d # c => uploading'[d] = uploading[d]
  BY <1>1 DEF Types
<1>3. NoFile.name = Unset /\ Unset \notin Names
  BY TransferAssumption DEF NoFile
<1>4. SharedIsContested'
  <2> SUFFICES ASSUME NEW d \in Conns, NEW e \in Conns, d # e, uploading'[d] # NoFile,
                      uploading'[d].name = uploading'[e].name
               PROVE  d \in contested'
    BY DEF SharedIsContested
  <2>1. d # c /\ uploading'[d] = uploading[d]
    BY <1>2
  <2>2. uploading[d].name # Unset
    BY <1>1, <2>1, UploadName
  <2>3. e # c /\ uploading'[e] = uploading[e]
    BY <1>2, <1>3, <2>1, <2>2
  <2> QED
    BY <1>1, <2>1, <2>3 DEF SharedIsContested
<1>5. \A g \in Names : Uploading(g)' = Uploading(g) \ {c}
  BY <1>2, <1>3 DEF Uploading
<1> QED
  BY <1>2, <1>4, <1>5

\* REQ_FILE_TRANSFER_END: all of the file is stored, and is claimed if nobody else wrote.
LEMMA EndStep ==
    ASSUME OrdinaryFiles, UploadInv, NEW c \in Conns, HandleEnd(c)
    PROVE  UploadFacts'
<1> DEFINE p == Head(todo[c])
           f == p.name
           m == offset[c] + Len(p.data)
           up == uploading[c]
           new == [known |-> TRUE, data |-> up.data, tail |-> up.tail]
<1>1. /\ TypeInv /\ QueuesInOrder /\ Types /\ Uploads /\ SharedIsContested /\ ClaimedIsAtRest
      /\ OkMeansStoredInFront
  BY DEF UploadInv, TypeInv
<1>2. todo[c] # <<>> /\ p.command = "END"
  BY DEF HandleEnd, Sends
<1>3. FirstPacket(c, p, Tail(todo[c]))
  BY <1>1, <1>2, FirstPackets
<1>4. /\ f \in Names /\ f # Unset /\ p.size \in Nat
      /\ Source(c, p.nr, p.size) \in Contents /\ Len(Source(c, p.nr, p.size)) = p.size
      /\ p.data # <<>> /\ p.data \in Contents
      /\ Tail(todo[c]) # <<>> => At(Head(Tail(todo[c]))) = 1
      /\ (At(p) - 2) * ChunkSize + Len(p.data) = p.size
  BY <1>2, <1>3 DEF FirstPacket
<1>5. /\ todo' = [todo EXCEPT ![c] = Tail(todo[c])]
      /\ WritesTo(c, p.data)
      /\ claim' = [claim EXCEPT ![up.name] = IF c \in contested THEN Nothing ELSE new]
      /\ uploading' = [uploading EXCEPT ![c] = NoFile] /\ contested' = contested \ {c}
      /\ exists' = exists /\ fd' = fd
  BY <1>4, Zenon DEF HandleEnd, Replied
<1>6. /\ UnderWay(c) /\ Goes(c) /\ m \in Nat
      /\ offset' = [offset EXCEPT ![c] = m]
      /\ \A g \in Names : g # f => store'[g] = store[g]
      /\ store'[f] \in Contents /\ m <= Len(store'[f])
      /\ Len(store'[f]) > p.size <=> Len(store[f]) > p.size
      /\ c \notin contested => \A i \in 1 .. m : store'[f][i] = up.data[i]
  BY <1>1, <1>2, <1>5, NextChunk
<1>7. /\ up.name = f /\ up.data = Source(c, p.nr, p.size) /\ m = p.size /\ f \in exists
      /\ c \notin contested => (up.tail <=> Len(store[f]) > p.size)
  BY <1>4, <1>6 DEF Goes, StoredSoFar
<1>8. /\ uploading'[c] = NoFile /\ SharedIsContested'
      /\ \A d \in Conns : d # c => uploading'[d] = uploading[d]
      /\ \A g \in Names : Uploading(g)' = Uploading(g) \ {c}
  BY <1>5, OneLess
<1>9. Uploads'
  <2> SUFFICES ASSUME NEW d \in Conns
               PROVE  (IF UnderWay(d) THEN Goes(d) ELSE uploading[d] = NoFile)'
    BY DEF Uploads
  <2>1. CASE d = c
    <3>1. todo'[c] = Tail(todo[c])
      BY <1>1, <1>5 DEF Types
    <3>2. todo'[c] # <<>> => ~(At(Head(todo'[c])) > 1)
      BY <1>4, <3>1
    <3>3. ~UnderWay(c)'
      BY <3>2 DEF UnderWay
    <3> QED
      BY <1>8, <2>1, <3>3
  <2>2. CASE d # c
    <3>1. todo'[d] = todo[d] /\ \A e \in Conns : e # c => offset'[e] = offset[e]
      BY <1>1, <1>5, <1>6, <2>2 DEF Types
    <3> QED
      BY <1>5, <1>6, <1>7, <1>8, <2>2, <3>1, OthersStay
  <2> QED
    BY <2>1, <2>2
<1> HIDE DEF f, m, up, new
<1>10. /\ \A g \in Names : g # f => claim'[g] = claim[g]
       /\ claim'[f] = IF c \in contested THEN Nothing ELSE new
  BY <1>1, <1>4, <1>5, <1>7 DEF Types
<1>11. Nothing.known = FALSE /\ new.data = up.data /\ new.tail = up.tail
  BY DEF Nothing, new
<1>12. claim'[f].known => c \notin contested /\ claim'[f] = new
  BY <1>10, <1>11, Zenon
<1>13. ClaimedIsAtRest'
  <2> SUFFICES ASSUME NEW g \in Names, claim'[g].known PROVE Uploading(g) \ {c} = {}
    BY <1>8 DEF ClaimedIsAtRest
  <2>1. CASE g # f
    BY <1>1, <1>10, <2>1 DEF ClaimedIsAtRest
  <2>2. CASE g = f
    <3>1. c \notin contested
      BY <1>12, <2>2
    <3>2. uploading[c] # NoFile
      BY <1>1, <1>6, UploadName
    <3>3. ASSUME NEW d \in Conns, d # c, uploading[d].name = f PROVE FALSE
      BY <1>1, <1>7, <3>1, <3>2, <3>3 DEF SharedIsContested, up
    <3> QED
      BY <2>2, <3>3 DEF Uploading
  <2> QED
    BY <2>1, <2>2
<1>14. OkMeansStoredInFront'
  <2> SUFFICES ASSUME NEW g \in Names, claim'[g].known
               PROVE  /\ g \in exists'
                      /\ IF claim'[g].tail THEN IsStrictPrefix(claim'[g].data, store'[g])
                         ELSE store'[g] = claim'[g].data
    BY DEF OkMeansStoredInFront
  <2>1. CASE g # f
    BY <1>1, <1>5, <1>6, <1>10, <2>1 DEF OkMeansStoredInFront
  <2>2. CASE g = f
    <3>1. c \notin contested /\ claim'[g].data = up.data /\ claim'[g].tail = up.tail
      BY <1>11, <1>12, <2>2
    <3>2. /\ up.data \in Seq(Blocks) /\ store'[f] \in Seq(Blocks)
          /\ Len(up.data) <= Len(store'[f])
          /\ \A i \in 1 .. Len(up.data) : store'[f][i] = up.data[i]
      BY <1>4, <1>6, <1>7, <3>1 DEF Contents
    <3>3. IF Len(store'[f]) > Len(up.data) THEN IsStrictPrefix(up.data, store'[f])
          ELSE store'[f] = up.data
      BY <3>2, Fronts
    <3>4. up.tail <=> Len(store'[f]) > Len(up.data)
      BY <1>4, <1>6, <1>7, <3>1
    <3> QED
      BY <1>5, <1>7, <2>2, <3>1, <3>3, <3>4
  <2> QED
    BY <2>1, <2>2
<1> QED
  BY <1>8, <1>9, <1>13, <1>14 DEF UploadFacts

\* Steps that do not touch the files, nor what is being uploaded.
LEMMA UploadsRest ==
    ASSUME UploadInv, UNCHANGED fileVars, UNCHANGED uploadVars,
           \A c \in Conns : todo'[c] = todo[c] \/ (~UnderWay(c) /\ ~UnderWay(c)')
    PROVE  UploadFacts'
<1>1. /\ Uploads /\ SharedIsContested /\ ClaimedIsAtRest /\ OkMeansStoredInFront
      /\ store' = store /\ exists' = exists /\ fd' = fd /\ offset' = offset
      /\ uploading' = uploading /\ contested' = contested /\ claim' = claim
  BY DEF UploadInv, fileVars, uploadVars
<1>2. Uploads'
  <2> SUFFICES ASSUME NEW c \in Conns
               PROVE  (IF UnderWay(c) THEN Goes(c) ELSE uploading[c] = NoFile)'
    BY DEF Uploads
  <2>1. CASE todo'[c] = todo[c]
    BY <1>1, <2>1, UploadStays
  <2>2. CASE ~UnderWay(c) /\ ~UnderWay(c)'
    BY <1>1, <2>2 DEF Uploads
  <2> QED
    BY <2>1, <2>2
<1>3. SharedIsContested' /\ ClaimedIsAtRest'
  BY <1>1 DEF SharedIsContested, ClaimedIsAtRest, Uploading
<1>4. OkMeansStoredInFront'
  BY <1>1 DEF OkMeansStoredInFront
<1> QED
  BY <1>2, <1>3, <1>4 DEF UploadFacts

\* A connection is lost, with its upload; the file stays as it is.
LEMMA DisconnectStep ==
    ASSUME OrdinaryFiles, UploadInv, NEW c \in Conns, Disconnect(c)
    PROVE  UploadFacts'
<1>1. Types /\ Uploads /\ ClaimedIsAtRest /\ OkMeansStoredInFront
  BY DEF UploadInv, TypeInv
<1>2. /\ todo' = [todo EXCEPT ![c] = <<>>] /\ fd' = [fd EXCEPT ![c] = Unset]
      /\ offset' = [offset EXCEPT ![c] = 0]
      /\ uploading' = [uploading EXCEPT ![c] = NoFile] /\ contested' = contested \ {c}
      /\ store' = store /\ exists' = exists /\ claim' = claim
  BY DEF Disconnect, fileVars
<1>3. /\ uploading'[c] = NoFile /\ SharedIsContested'
      /\ \A d \in Conns : d # c => uploading'[d] = uploading[d]
      /\ \A g \in Names : Uploading(g)' = Uploading(g) \ {c}
  BY <1>2, OneLess
<1>4. Uploads'
  <2> SUFFICES ASSUME NEW d \in Conns
               PROVE  (IF UnderWay(d) THEN Goes(d) ELSE uploading[d] = NoFile)'
    BY DEF Uploads
  <2>1. CASE d = c
    <3>1. todo'[c] = <<>>
      BY <1>1, <1>2 DEF Types
    <3>2. ~UnderWay(c)'
      BY <3>1 DEF UnderWay
    <3> QED
      BY <1>3, <2>1, <3>2
  <2>2. CASE d # c
    <3>1. todo'[d] = todo[d] /\ fd'[d] = fd[d] /\ offset'[d] = offset[d]
      BY <1>1, <1>2, <2>2 DEF Types
    <3> QED
      BY <1>1, <1>2, <1>3, <2>2, <3>1, UploadStays
  <2> QED
    BY <2>1, <2>2
<1>5. ClaimedIsAtRest'
  BY <1>1, <1>2, <1>3 DEF ClaimedIsAtRest
<1>6. OkMeansStoredInFront'
  BY <1>1, <1>2 DEF OkMeansStoredInFront
<1> QED
  BY <1>3, <1>4, <1>5, <1>6 DEF UploadFacts

\* UploadInv is inductive.
LEMMA UploadsStep == OrdinaryFiles /\ UploadInv /\ [Next]_vars => UploadInv'
<1> SUFFICES ASSUME OrdinaryFiles, UploadInv, [Next]_vars PROVE UploadInv'
  OBVIOUS
<1>1. TypeInv /\ Types /\ QueuesInOrder
  BY DEF UploadInv, TypeInv
<1>2. ASSUME NEW c \in Conns, Upload(c) PROVE UploadFacts'
  <2>1. PICK k \in 1 .. MaxFiles - given[c] :
         \E f \in [1 .. k -> Names], n \in [1 .. k -> Lengths] :
           todo' = [todo EXCEPT ![c] = FlattenSeq(
                        [i \in 1 .. k |-> FilePackets(c, f[i], given[c] + i, n[i])])]
    BY <1>2 DEF Upload
  <2>2. PICK f \in [1 .. k -> Names], n \in [1 .. k -> Lengths] :
           todo' = [todo EXCEPT ![c] = FlattenSeq(
                        [i \in 1 .. k |-> FilePackets(c, f[i], given[c] + i, n[i])])]
    BY <2>1
  <2>3. given[c] \in Nat /\ k \in Nat /\ k > 0 /\ given[c] + k <= MaxFiles
    <3>1. given[c] \in 0 .. MaxFiles /\ MaxFiles \in Nat
      BY <1>1, TransferAssumption DEF Types
    <3> QED
      BY <3>1
  <2> DEFINE q == FlattenSeq([i \in 1 .. k |-> FilePackets(c, f[i], given[c] + i, n[i])])
  <2>4. Queued(c, q, given[c], k) /\ todo' = [todo EXCEPT ![c] = q]
    BY <2>2, <2>3, UploadQueued
  <2> HIDE DEF q
  <2>5. todo'[c] = q /\ \A d \in Conns : d # c => todo'[d] = todo[d]
    BY <1>1, <2>4 DEF Types
  <2>6. ~UnderWay(c) /\ UNCHANGED <<fileVars, uploadVars>>
    BY <1>2 DEF Upload, Idle, UnderWay
  <2>7. todo'[c] # <<>> => At(Head(todo'[c])) = 1
    BY <2>4, <2>5 DEF Queued
  <2>8. ~UnderWay(c)'
    BY <2>7 DEF UnderWay
  <2> QED
    BY <2>5, <2>6, <2>8, UploadsRest
<1>3. ASSUME NEW c \in Conns, HandleRefused(c) PROVE UploadFacts'
  <2>1. /\ todo[c] # <<>> /\ Head(todo[c]).command = "START"
        /\ todo' = [todo EXCEPT ![c] = <<>>] /\ UNCHANGED <<fileVars, uploadVars>>
    BY <1>3 DEF HandleRefused, Sends
  <2>2. FirstPacket(c, Head(todo[c]), Tail(todo[c]))
    BY <1>1, <2>1, FirstPackets
  <2>3. ~UnderWay(c)
    BY <2>1, <2>2 DEF FirstPacket, UnderWay
  <2>4. todo'[c] = <<>> /\ \A d \in Conns : d # c => todo'[d] = todo[d]
    BY <1>1, <2>1 DEF Types
  <2>5. ~UnderWay(c)'
    BY <2>4 DEF UnderWay
  <2> QED
    BY <2>1, <2>3, <2>4, <2>5, UploadsRest
<1>4. ASSUME NEW c \in Conns, Download(c) \/ FetchChunk(c) PROVE UploadFacts'
  <2>1. UNCHANGED <<fileVars, uploadVars, todo>>
    BY <1>4 DEF Download, FetchChunk
  <2> QED
    BY <2>1, UploadsRest
<1>5. ASSUME UNCHANGED vars PROVE UploadFacts'
  <2>1. UNCHANGED <<fileVars, uploadVars, todo>>
    BY <1>5 DEF vars
  <2>2. UNCHANGED fileVars /\ UNCHANGED uploadVars /\ \A c \in Conns : todo'[c] = todo[c]
    BY <2>1
  <2> QED
    BY <2>2, UploadsRest
<1>6. ASSUME NEW c \in Conns, HandleStart(c) \/ HandleChunk(c) \/ HandleEnd(c) \/ Disconnect(c)
      PROVE  UploadFacts'
  BY <1>6, StartStep, ChunkStep, EndStep, DisconnectStep
<1>7. UploadFacts'
  BY <1>2, <1>3, <1>4, <1>5, <1>6 DEF Next
<1> QED
  BY <1>1, <1>7, TypesStep, QueuesStep DEF UploadInv, UploadFacts

(***************************************************************************)
(* RESP_FILE_TRANSFER_OK: the file on the server begins with the one that  *)
(* was sent, and is that one unless it was longer before.  It is so only   *)
(* where no file is empty, for the END of an empty file writes a packet,   *)
(* and no name is a directory, for the failure of open() is answered with  *)
(* RESP_CONTINUE.                                                          *)
(***************************************************************************)
THEOREM UploadsOk == ASSUME OrdinaryFiles PROVE Spec => []OkMeansStoredInFront
<1>1. Init => UploadInv
  <2> SUFFICES ASSUME Init PROVE UploadInv
    OBVIOUS
  <2>1. /\ \A c \in Conns : todo[c] = <<>> /\ uploading[c] = NoFile
        /\ \A f \in Names : claim[f] = Nothing
    BY DEF Init
  <2>2. QueuesInOrder /\ Uploads /\ SharedIsContested
    BY <2>1 DEF QueuesInOrder, InOrder, Uploads, UnderWay, SharedIsContested
  <2>3. ClaimedIsAtRest /\ OkMeansStoredInFront
    BY <2>1 DEF ClaimedIsAtRest, OkMeansStoredInFront, Nothing
  <2> QED
    BY <2>2, <2>3, InitTypes DEF UploadInv
<1>2. UploadInv /\ [Next]_vars => UploadInv'
  BY UploadsStep
<1>3. UploadInv => OkMeansStoredInFront
  BY DEF UploadInv
<1> QED
  BY <1>1, <1>2, <1>3, PTL DEF Spec
=============================================================================
