------------------------------ MODULE FilesProofs ------------------------------
(***************************************************************************)
(* Files for any number of users, sessions and names, paths of any depth   *)
(* and any number of requests.  Four inductive invariants, the later three *)
(* each on top of the first:                                               *)
(*   TypeInv     types, that what names what is a tree (above every path   *)
(*               are directories, and a file has one name), and what the   *)
(*               jobs look like;                                           *)
(*   OwnInv      where a session's current directory, target, tar, archive *)
(*               and open file are;                                        *)
(*   JobInv      that what a job has checked is so until another session   *)
(*               changes files, and that it knows whether it has changed   *)
(*               any;                                                      *)
(*   ArchiveInv  what of the files is in the tar and in the archive.       *)
(* Before them, paths and their prefixes, and what unlink, open and rename *)
(* make of a tree.                                                         *)
(***************************************************************************)
EXTENDS Files, SequenceTheorems, FiniteSetTheorems, WellFoundedInduction, TLAPS

-----------------------------------------------------------------------------
\* Paths: a home, then names.
Elements == Homes \cup Names \cup Written

PathOf(p, names) ==
    /\ p \in Seq(Elements)
    /\ Len(p) \in 1 .. MaxDepth + 1
    /\ p[1] \in Homes
    /\ \A i \in 2 .. Len(p) : p[i] \in names

LEMMA UnderNames ==
    ASSUME NEW names, names \subseteq Names \cup Written
    PROVE  \A p : p \in Under(names) <=> PathOf(p, names)
<1>1. MaxDepth \in Nat
  BY FilesAssumption
<1> DEFINE E == Elements
<1>2. Homes \subseteq E /\ names \subseteq E
  BY DEF Elements
<1>3. ASSUME NEW h \in Homes, NEW n \in 0 .. MaxDepth, NEW q \in [1 .. n -> names]
      PROVE  PathOf(<<h>> \o q, names)
  <2>1. q \in Seq(E) /\ Len(q) = n
    BY <1>2, <1>1
  <2>2. <<h>> \in Seq(E) /\ Len(<<h>>) = 1 /\ <<h>>[1] = h
    BY <1>2
  <2> HIDE DEF E
  <2>3. /\ <<h>> \o q \in Seq(E) /\ Len(<<h>> \o q) = 1 + n
        /\ \A i \in 1 .. 1 + n : (<<h>> \o q)[i] = IF i <= 1 THEN <<h>>[i] ELSE q[i - 1]
    BY <2>1, <2>2, ConcatProperties
  <2>4. \A i \in 2 .. 1 + n : (<<h>> \o q)[i] \in names
    BY <2>3, <1>1
  <2>5. (<<h>> \o q)[1] = h
    BY <2>2, <2>3, <1>1
  <2> QED
    BY <2>3, <2>4, <2>5, <1>1 DEF PathOf, E
<1>4. ASSUME NEW p, PathOf(p, names)
      PROVE  \E h \in Homes, n \in 0 .. MaxDepth : \E q \in [1 .. n -> names] : p = <<h>> \o q
  <2> DEFINE n == Len(p) - 1
             q == [i \in 1 .. n |-> p[i + 1]]
  <2>1. p \in Seq(E) /\ Len(p) \in 1 .. MaxDepth + 1 /\ p[1] \in Homes
        /\ \A i \in 2 .. Len(p) : p[i] \in names
    BY <1>4 DEF PathOf
  <2>2. n \in 0 .. MaxDepth
    BY <2>1, <1>1
  <2>3. q \in [1 .. n -> names]
    BY <2>1, <2>2, <1>1
  <2>4. \A i \in 1 .. n : q[i] = p[i + 1]
    OBVIOUS
  <2> HIDE DEF q
  <2>5. q \in Seq(E) /\ Len(q) = n
    BY <2>3, <2>2, <1>2, <1>1
  <2>6. <<p[1]>> \in Seq(E) /\ Len(<<p[1]>>) = 1 /\ <<p[1]>>[1] = p[1]
    BY <2>1, <1>2
  <2> HIDE DEF E
  <2>7. /\ <<p[1]>> \o q \in Seq(E) /\ Len(<<p[1]>> \o q) = 1 + n
        /\ \A i \in 1 .. 1 + n : (<<p[1]>> \o q)[i] = IF i <= 1 THEN <<p[1]>>[i] ELSE q[i - 1]
    BY <2>5, <2>6, ConcatProperties
  <2>8. \A i \in 1 .. Len(p) : p[i] = (<<p[1]>> \o q)[i]
    BY <2>1, <2>6, <2>4, <2>7, <1>1
  <2>9. p = <<p[1]>> \o q
    <3>1. Len(<<p[1]>> \o q) = Len(p)
      BY <2>1, <2>7, <1>1
    <3> QED
      BY <2>1, <2>7, <2>8, <3>1, SeqEqual
  <2> QED
    BY <2>1, <2>2, <2>3, <2>9
<1>5. ASSUME NEW p
      PROVE  p \in Under(names) <=>
               \E n \in 0 .. MaxDepth : \E h \in Homes, q \in [1 .. n -> names] : p = <<h>> \o q
  <2> DEFINE Level(n) == {<<h>> \o q : h \in Homes, q \in [1 .. n -> names]}
  <2>1. \A n \in 0 .. MaxDepth :
           p \in Level(n) <=> \E h \in Homes, q \in [1 .. n -> names] : p = <<h>> \o q
    OBVIOUS
  <2>2. Under(names) = UNION {Level(n) : n \in 0 .. MaxDepth}
    BY DEF Under
  <2> HIDE DEF Level
  <2>3. p \in UNION {Level(n) : n \in 0 .. MaxDepth} <=> \E n \in 0 .. MaxDepth : p \in Level(n)
    BY Zenon
  <2> QED
    BY <2>1, <2>2, <2>3
<1>6. ASSUME NEW p, p \in Under(names) PROVE PathOf(p, names)
  <2>1. PICK n \in 0 .. MaxDepth : \E h \in Homes, q \in [1 .. n -> names] : p = <<h>> \o q
    BY <1>5, <1>6
  <2>2. PICK h \in Homes, q \in [1 .. n -> names] : p = <<h>> \o q
    BY <2>1
  <2> QED
    BY <1>3, <2>2
<1>7. ASSUME NEW p, PathOf(p, names) PROVE p \in Under(names)
  BY <1>4, <1>5, <1>7, Zenon
<1> QED
  BY <1>6, <1>7

\* A path is a home and names below it.
LEMMA PathsAre ==
    /\ \A p : p \in AllPaths <=> PathOf(p, Names \cup Written)
    /\ \A p : p \in Paths <=> PathOf(p, Names)
BY UnderNames DEF AllPaths, Paths

LEMMA PathShape ==
    ASSUME NEW p \in AllPaths
    PROVE  /\ p \in Seq(Elements) /\ Len(p) \in Nat /\ Len(p) > 0 /\ Len(p) <= MaxDepth + 1
           /\ p # <<>> /\ Head(p) = p[1] /\ p[1] \in Homes
<1>1. PathOf(p, Names \cup Written) /\ MaxDepth \in Nat
  BY PathsAre, FilesAssumption
<1> QED
  BY <1>1, EmptySeq DEF PathOf

LEMMA PathsAmong == Paths \subseteq AllPaths
BY PathsAre DEF PathOf

\* Prefixes, by their elements.
LEMMA Prefixed ==
    ASSUME NEW p \in Seq(Elements), NEW r \in Seq(Elements)
    PROVE  /\ IsPrefix(p, r) <=> Len(p) <= Len(r) /\ \A i \in 1 .. Len(p) : p[i] = r[i]
           /\ IsStrictPrefix(p, r) <=> Len(p) < Len(r) /\ \A i \in 1 .. Len(p) : p[i] = r[i]
<1> DEFINE E == Elements
<1>1. Len(p) \in Nat /\ Len(r) \in Nat
  BY LenProperties
<1>2. SubSeq(p, 1, Len(p)) = p
  BY SubSeqFull
<1>3. ASSUME Len(p) <= Len(r)
      PROVE  /\ SubSeq(r, 1, Len(p)) \in Seq(E) /\ Len(SubSeq(r, 1, Len(p))) = Len(p)
             /\ \A i \in 1 .. Len(p) : SubSeq(r, 1, Len(p))[i] = r[i]
  <2>1. \A i \in 1 .. Len(p) : r[i] \in E
    BY <1>1, <1>3, ElementOfSeq
  <2> HIDE DEF E
  <2> QED
    BY <1>1, <2>1, SubSeqProperties
<1>4. IsPrefix(p, r) <=> Len(p) <= Len(r) /\ \A i \in 1 .. Len(p) : p[i] = r[i]
  <2>1. ASSUME Len(p) <= Len(r), \A i \in 1 .. Len(p) : p[i] = r[i]
        PROVE  p = SubSeq(r, 1, Len(p))
    BY <1>1, <1>3, <2>1, SeqEqual
  <2>2. ASSUME Len(p) <= Len(r), p = SubSeq(r, 1, Len(p))
        PROVE  \A i \in 1 .. Len(p) : p[i] = r[i]
    BY <1>3, <2>2
  <2> QED
    BY <1>2, <2>1, <2>2 DEF IsPrefix
<1>5. ASSUME Len(p) = Len(r), \A i \in 1 .. Len(p) : p[i] = r[i]
      PROVE  p = r
  BY <1>5, SeqEqual
<1> QED
  BY <1>1, <1>4, <1>5 DEF IsStrictPrefix

\* The directory a path is in.
LEMMA FrontOf ==
    ASSUME NEW p \in Seq(Elements), p # <<>>
    PROVE  /\ Front(p) \in Seq(Elements) /\ Len(Front(p)) = Len(p) - 1
           /\ \A i \in 1 .. Len(p) - 1 : Front(p)[i] = p[i]
           /\ IsStrictPrefix(Front(p), p)
           /\ \A r \in Seq(Elements) : IsStrictPrefix(r, p) <=> IsPrefix(r, Front(p))
           /\ Len(p) = 1 <=> Front(p) = <<>>
<1>1. Len(p) \in Nat /\ Len(p) > 0
  BY EmptySeq
<1>2. \A i \in 1 .. Len(p) - 1 : p[i] \in Elements
  BY <1>1, ElementOfSeq
<1>3. /\ Front(p) \in Seq(Elements) /\ Len(Front(p)) = Len(p) - 1
      /\ \A i \in 1 .. Len(p) - 1 : Front(p)[i] = p[i]
  <2>1. /\ SubSeq(p, 1, Len(p) - 1) \in Seq(Elements)
        /\ Len(SubSeq(p, 1, Len(p) - 1)) = IF 1 <= Len(p) - 1 THEN Len(p) - 1 - 1 + 1 ELSE 0
        /\ \A i \in 1 .. Len(p) - 1 - 1 + 1 : SubSeq(p, 1, Len(p) - 1)[i] = p[1 + i - 1]
    <3>1. 1 \in Int /\ Len(p) - 1 \in Int
      BY <1>1
    <3> QED
      BY <3>1, <1>2, SubSeqProperties
  <2>2. Front(p) = SubSeq(p, 1, Len(p) - 1)
    BY DEF Front
  <2>3. Len(p) - 1 - 1 + 1 = Len(p) - 1 /\ \A i \in 1 .. Len(p) - 1 : 1 + i - 1 = i
    BY <1>1
  <2> QED
    BY <1>1, <2>1, <2>2, <2>3
<1>4. IsStrictPrefix(Front(p), p)
  BY <1>1, <1>3, Prefixed
<1>5. ASSUME NEW r \in Seq(Elements)
      PROVE  IsStrictPrefix(r, p) <=> IsPrefix(r, Front(p))
  <2>1. Len(r) \in Nat
    BY LenProperties
  <2>2. IsStrictPrefix(r, p) <=> Len(r) < Len(p) /\ \A i \in 1 .. Len(r) : r[i] = p[i]
    BY Prefixed
  <2>3. IsPrefix(r, Front(p)) <=> Len(r) <= Len(p) - 1 /\ \A i \in 1 .. Len(r) : r[i] = Front(p)[i]
    BY <1>3, Prefixed
  <2> QED
    BY <1>1, <1>3, <2>1, <2>2, <2>3
<1>6. Len(p) = 1 <=> Front(p) = <<>>
  BY <1>1, <1>3, EmptySeq
<1> QED
  BY <1>3, <1>4, <1>5, <1>6

\* A name below a directory.
LEMMA NameBelow ==
    ASSUME NEW p \in AllPaths, NEW n \in Names \cup Written, Len(p) <= MaxDepth
    PROVE  /\ Append(p, n) \in AllPaths /\ Front(Append(p, n)) = p
           /\ Head(Append(p, n)) = Head(p)
           /\ p \in Paths /\ n \in Names => Append(p, n) \in Paths
<1>1. /\ p \in Seq(Elements) /\ Len(p) \in Nat /\ Len(p) > 0 /\ p # <<>>
      /\ PathOf(p, Names \cup Written) /\ MaxDepth \in Nat /\ Head(p) = p[1]
  BY PathShape, PathsAre, FilesAssumption
<1>2. n \in Elements
  BY DEF Elements
<1>3. /\ Append(p, n) \in Seq(Elements) /\ Append(p, n) # <<>> /\ Len(Append(p, n)) = Len(p) + 1
      /\ \A i \in 1 .. Len(p) : Append(p, n)[i] = p[i]
      /\ Append(p, n)[Len(p) + 1] = n
  BY <1>1, <1>2, AppendProperties
<1>4. PathOf(Append(p, n), Names \cup Written)
  BY <1>1, <1>3 DEF PathOf
<1>5. Append(p, n) \in AllPaths
  BY <1>4, PathsAre
<1>6. p \in Paths /\ n \in Names => Append(p, n) \in Paths
  <2> SUFFICES ASSUME PathOf(p, Names), n \in Names PROVE PathOf(Append(p, n), Names)
    BY PathsAre
  <2> QED
    BY <1>1, <1>3 DEF PathOf
<1>7. Front(Append(p, n)) = p
  <2>1. /\ Front(Append(p, n)) \in Seq(Elements) /\ Len(Front(Append(p, n))) = Len(p)
        /\ \A i \in 1 .. Len(p) : Front(Append(p, n))[i] = p[i]
    <3>1. Len(Append(p, n)) - 1 = Len(p)
      BY <1>1, <1>3
    <3>2. /\ Front(Append(p, n)) \in Seq(Elements)
          /\ Len(Front(Append(p, n))) = Len(Append(p, n)) - 1
          /\ \A i \in 1 .. Len(Append(p, n)) - 1 : Front(Append(p, n))[i] = Append(p, n)[i]
      BY <1>3, FrontOf
    <3> QED
      BY <1>1, <1>3, <3>1, <3>2
  <2> QED
    BY <1>1, <2>1, SeqEqual
<1>8. Head(Append(p, n)) = Head(p)
  BY <1>1, HeadTailAppend
<1> QED
  BY <1>5, <1>6, <1>7, <1>8
-----------------------------------------------------------------------------
IsTree(t) ==
    /\ DOMAIN t \subseteq AllPaths /\ IsFiniteSet(DOMAIN t)
    /\ t \in [DOMAIN t -> 0 .. MaxFiles]
    /\ \A p \in DOMAIN t, r \in Seq(Elements) :
          r # <<>> /\ IsStrictPrefix(r, p) => r \in DOMAIN t /\ t[r] = Dir
    /\ \A p, q \in DOMAIN t : t[p] = t[q] /\ t[p] # Dir => p = q

\* A directory has everything above it.
LEMMA AboveDirectory ==
    ASSUME IsTree(tree), NEW p \in AllPaths, IsDir(Front(p)),
           NEW r \in Seq(Elements), r # <<>>, IsStrictPrefix(r, p)
    PROVE  r \in DOMAIN tree /\ tree[r] = Dir
<1>1. p \in Seq(Elements) /\ p # <<>>
  BY PathShape
<1>2. IsPrefix(r, Front(p)) /\ Front(p) \in Seq(Elements)
  BY <1>1, FrontOf
<1>3. CASE Front(p) = <<>>
  <2>1. Len(r) \in Nat /\ Len(r) # 0
    BY EmptySeq
  <2>2. <<>> \in Seq(Elements) /\ Len(<<>>) = 0
    BY EmptySeq
  <2>3. IsPrefix(r, <<>>)
    BY <1>2, <1>3
  <2>4. Len(r) <= Len(<<>>)
    BY <2>3 DEF IsPrefix
  <2> QED
    BY <2>1, <2>2, <2>4
<1>4. CASE Front(p) \in DOMAIN tree /\ tree[Front(p)] = Dir
  <2>1. CASE r = Front(p)
    BY <2>1, <1>4
  <2>2. CASE IsStrictPrefix(r, Front(p))
    BY <2>2, <1>4 DEF IsTree
  <2> QED
    BY <2>1, <2>2, <1>2 DEF IsStrictPrefix
<1> QED
  BY <1>3, <1>4 DEF IsDir, Exists

LEMMA InTree ==
    ASSUME IsTree(tree), NEW p \in DOMAIN tree
    PROVE  /\ p \in AllPaths /\ p \in Seq(Elements) /\ p # <<>>
           /\ tree[p] \in 0 .. MaxFiles
           /\ IsDir(Front(p))
           /\ \A r \in Seq(Elements) : r # <<>> /\ p \in Below(r) =>
                 r \in DOMAIN tree /\ tree[r] = Dir
<1>1. p \in AllPaths /\ p \in Seq(Elements) /\ p # <<>>
  BY PathShape DEF IsTree
<1>2. Front(p) \in Seq(Elements) /\ IsStrictPrefix(Front(p), p)
  BY <1>1, FrontOf
<1>3. IsDir(Front(p))
  BY <1>2 DEF IsTree, IsDir, Exists
<1> QED
  BY <1>1, <1>3 DEF IsTree, Below

\* Nothing is below what is no directory.
LEMMA NothingBelow ==
    ASSUME IsTree(tree), NEW p \in Seq(Elements), p # <<>>, ~IsDir(p)
    PROVE  Below(p) = {}
<1>1. \A q \in DOMAIN tree : ~IsStrictPrefix(p, q)
  BY DEF IsTree, IsDir, Exists
<1> QED
  BY <1>1 DEF Below

LEMMA Unlinked ==
    ASSUME IsTree(tree), NEW p \in DOMAIN tree, Below(p) = {}
    PROVE  IsTree([q \in DOMAIN tree \ {p} |-> tree[q]])
<1> DEFINE t == [q \in DOMAIN tree \ {p} |-> tree[q]]
<1>1. DOMAIN t = DOMAIN tree \ {p} /\ \A q \in DOMAIN t : t[q] = tree[q]
  OBVIOUS
<1>2. t \in [DOMAIN t -> 0 .. MaxFiles]
  BY DEF IsTree
<1>3. IsFiniteSet(DOMAIN tree \ {p})
  BY FS_RemoveElement DEF IsTree
<1> HIDE DEF t
<1>4. \A q \in DOMAIN t : ~IsStrictPrefix(p, q)
  BY <1>1 DEF Below
<1>5. ASSUME NEW q \in DOMAIN t, NEW r \in Seq(Elements), r # <<>>, IsStrictPrefix(r, q)
      PROVE  r \in DOMAIN t /\ t[r] = Dir
  <2>1. q \in DOMAIN tree
    BY <1>1
  <2>2. r \in DOMAIN tree /\ tree[r] = Dir
    BY <1>5, <2>1 DEF IsTree
  <2>3. r # p
    BY <1>4, <1>5
  <2> QED
    BY <1>1, <2>2, <2>3
<1>6. \A q, r \in DOMAIN t : t[q] = t[r] /\ t[q] # Dir => q = r
  BY <1>1 DEF IsTree
<1>7. DOMAIN t \subseteq AllPaths
  BY <1>1 DEF IsTree
<1>8. IsTree(t)
  BY <1>1, <1>2, <1>3, <1>5, <1>6, <1>7 DEF IsTree
<1> QED
  BY <1>8 DEF t

LEMMA Named ==
    ASSUME IsTree(tree), NEW p \in AllPaths, IsDir(Front(p)), ~IsDir(p), NEW n \in 0 .. MaxFiles,
           n # Dir => \A q \in DOMAIN tree : tree[q] = n => q = p
    PROVE  IsTree(Naming(p, n))
<1> DEFINE t == Naming(p, n)
<1>1. /\ DOMAIN t = DOMAIN tree \cup {p}
      /\ \A q \in DOMAIN t : t[q] = IF q = p THEN n ELSE tree[q]
  BY DEF Naming
<1>2. t \in [DOMAIN t -> 0 .. MaxFiles]
  BY DEF IsTree, Naming
<1>3. IsFiniteSet(DOMAIN tree \cup {p})
  BY FS_AddElement DEF IsTree
<1> HIDE DEF t
<1>4. p \in Seq(Elements) /\ p # <<>>
  BY PathShape
<1>5. Below(p) = {}
  BY <1>4, NothingBelow
<1>6. ASSUME NEW q \in DOMAIN t, NEW r \in Seq(Elements), r # <<>>, IsStrictPrefix(r, q)
      PROVE  r \in DOMAIN tree /\ tree[r] = Dir
  <2>1. CASE q = p
    BY <1>6, <2>1, AboveDirectory
  <2>2. CASE q \in DOMAIN tree
    BY <1>6, <2>2 DEF IsTree
  <2> QED
    BY <1>1, <2>1, <2>2
<1>7. ASSUME NEW q \in DOMAIN t, NEW r \in Seq(Elements), r # <<>>, IsStrictPrefix(r, q)
      PROVE  r \in DOMAIN t /\ t[r] = Dir
  <2>1. r \in DOMAIN tree /\ tree[r] = Dir
    BY <1>6, <1>7
  <2>2. r # p
    BY <2>1 DEF IsDir, Exists
  <2> QED
    BY <1>1, <2>1, <2>2
<1>8. \A q, r \in DOMAIN t : t[q] = t[r] /\ t[q] # Dir => q = r
  BY <1>1 DEF IsTree
<1>9. DOMAIN t \subseteq AllPaths
  BY <1>1 DEF IsTree
<1>10. IsTree(t)
  BY <1>1, <1>2, <1>3, <1>7, <1>8, <1>9 DEF IsTree
<1> QED
  BY <1>10 DEF t
-----------------------------------------------------------------------------
\* Where a path m below p goes when p becomes q.
Moved(p, q, m) == q \o SubSeq(m, Len(p) + 1, Len(m))

LEMMA MovedPath ==
    ASSUME NEW p \in Seq(Elements), NEW q \in Seq(Elements), NEW m \in Seq(Elements),
           IsPrefix(p, m)
    PROVE  LET a == Moved(p, q, m) IN
           /\ a \in Seq(Elements) /\ Len(a) = Len(q) + Len(m) - Len(p)
           /\ \A i \in 1 .. Len(q) : a[i] = q[i]
           /\ \A i \in Len(q) + 1 .. Len(a) : a[i] = m[i - Len(q) + Len(p)]
           /\ IsPrefix(q, a)
<1> DEFINE a == Moved(p, q, m)
           b == SubSeq(m, Len(p) + 1, Len(m))
<1>1. Len(p) \in Nat /\ Len(q) \in Nat /\ Len(m) \in Nat /\ Len(p) <= Len(m)
  BY LenProperties, Prefixed
<1>2. \A i \in Len(p) + 1 .. Len(m) : m[i] \in Elements
  BY <1>1, ElementOfSeq
<1>3. /\ b \in Seq(Elements)
      /\ Len(b) = IF Len(p) + 1 <= Len(m) THEN Len(m) - (Len(p) + 1) + 1 ELSE 0
      /\ \A i \in 1 .. Len(m) - (Len(p) + 1) + 1 : b[i] = m[Len(p) + 1 + i - 1]
  <2>1. Len(p) + 1 \in Int /\ Len(m) \in Int
    BY <1>1
  <2> QED
    BY <2>1, <1>2, SubSeqProperties
<1> HIDE DEF b
<1>4. Len(b) = Len(m) - Len(p) /\ \A i \in 1 .. Len(b) : b[i] = m[Len(p) + i]
  BY <1>1, <1>3
<1>5. a = q \o b
  BY DEF Moved, b
<1> HIDE DEF a
<1>6. /\ a \in Seq(Elements) /\ Len(a) = Len(q) + Len(b)
      /\ \A i \in 1 .. Len(q) + Len(b) : a[i] = IF i <= Len(q) THEN q[i] ELSE b[i - Len(q)]
  BY <1>3, <1>5, ConcatProperties
<1>7. Len(a) = Len(q) + Len(m) - Len(p) /\ Len(a) \in Nat /\ Len(q) <= Len(a)
  BY <1>1, <1>4, <1>6
<1>8. ASSUME NEW i \in 1 .. Len(q) PROVE a[i] = q[i]
  <2>1. i \in 1 .. Len(q) + Len(b) /\ i <= Len(q)
    BY <1>1, <1>4
  <2> QED
    BY <1>6, <2>1
<1>9. ASSUME NEW i \in Len(q) + 1 .. Len(a) PROVE a[i] = m[i - Len(q) + Len(p)]
  <2>1. i \in 1 .. Len(q) + Len(b) /\ ~(i <= Len(q)) /\ i - Len(q) \in 1 .. Len(b)
    BY <1>1, <1>4, <1>6
  <2>2. a[i] = m[Len(p) + (i - Len(q))]
    BY <2>1, <1>4, <1>6
  <2>3. Len(p) + (i - Len(q)) = i - Len(q) + Len(p)
    BY <1>1
  <2> QED
    BY <2>2, <2>3
<1>10. IsPrefix(q, a)
  BY <1>6, <1>7, <1>8, Prefixed
<1>11. /\ a \in Seq(Elements) /\ Len(a) = Len(q) + Len(m) - Len(p)
       /\ \A i \in 1 .. Len(q) : a[i] = q[i]
       /\ \A i \in Len(q) + 1 .. Len(a) : a[i] = m[i - Len(q) + Len(p)]
       /\ IsPrefix(q, a)
  BY <1>6, <1>7, <1>8, <1>9, <1>10
<1> QED
  BY <1>11 DEF a

\* Moving back undoes it.
LEMMA MovedBack ==
    ASSUME NEW p \in Seq(Elements), NEW q \in Seq(Elements), NEW m \in Seq(Elements),
           IsPrefix(p, m)
    PROVE  Moved(q, p, Moved(p, q, m)) = m
<1> DEFINE a == Moved(p, q, m)
           c == Moved(q, p, a)
<1>1. Len(p) \in Nat /\ Len(q) \in Nat /\ Len(m) \in Nat /\ Len(p) <= Len(m)
      /\ \A i \in 1 .. Len(p) : p[i] = m[i]
  BY LenProperties, Prefixed
<1>2. /\ a \in Seq(Elements) /\ Len(a) = Len(q) + Len(m) - Len(p)
      /\ \A i \in Len(q) + 1 .. Len(a) : a[i] = m[i - Len(q) + Len(p)]
      /\ IsPrefix(q, a)
  BY MovedPath
<1> HIDE DEF a
<1>3. /\ c \in Seq(Elements) /\ Len(c) = Len(p) + Len(a) - Len(q)
      /\ \A i \in 1 .. Len(p) : c[i] = p[i]
      /\ \A i \in Len(p) + 1 .. Len(c) : c[i] = a[i - Len(p) + Len(q)]
  BY <1>2, MovedPath
<1> HIDE DEF c
<1>4. Len(c) = Len(m)
  BY <1>1, <1>2, <1>3
<1>5. ASSUME NEW i \in 1 .. Len(c) PROVE c[i] = m[i]
  <2>1. CASE i <= Len(p)
    BY <2>1, <1>1, <1>3, <1>4
  <2>2. CASE ~(i <= Len(p))
    <3>1. i - Len(p) + Len(q) \in Len(q) + 1 .. Len(a) /\ i \in Len(p) + 1 .. Len(c)
      BY <2>2, <1>1, <1>2, <1>4
    <3>2. (i - Len(p) + Len(q)) - Len(q) + Len(p) = i
      BY <1>1
    <3> QED
      BY <1>2, <1>3, <3>1, <3>2
  <2> QED
    BY <2>1, <2>2
<1>6. c = m
  BY <1>3, <1>4, <1>5, SeqEqual
<1> QED
  BY <1>6 DEF c, a

\* What is above a moved path is above q, or was moved with it.
LEMMA AboveMoved ==
    ASSUME NEW p \in Seq(Elements), NEW q \in Seq(Elements), NEW m \in Seq(Elements),
           IsPrefix(p, m), NEW x \in Seq(Elements), IsStrictPrefix(x, Moved(p, q, m)),
           ~IsStrictPrefix(x, q)
    PROVE  /\ IsPrefix(q, x)
           /\ Moved(q, p, x) \in Seq(Elements) /\ IsPrefix(p, Moved(q, p, x))
           /\ IsStrictPrefix(Moved(q, p, x), m)
<1> DEFINE a == Moved(p, q, m)
           y == Moved(q, p, x)
<1>1. Len(p) \in Nat /\ Len(q) \in Nat /\ Len(m) \in Nat /\ Len(x) \in Nat /\ Len(p) <= Len(m)
      /\ \A i \in 1 .. Len(p) : p[i] = m[i]
  BY LenProperties, Prefixed
<1>2. /\ a \in Seq(Elements) /\ Len(a) = Len(q) + Len(m) - Len(p)
      /\ \A i \in 1 .. Len(q) : a[i] = q[i]
      /\ \A i \in Len(q) + 1 .. Len(a) : a[i] = m[i - Len(q) + Len(p)]
      /\ IsStrictPrefix(x, a)
  BY MovedPath
<1> HIDE DEF a
<1>3. Len(x) < Len(a) /\ \A i \in 1 .. Len(x) : x[i] = a[i]
  BY <1>2, Prefixed
<1>4. Len(q) <= Len(x)
  <2> SUFFICES ASSUME Len(x) < Len(q) PROVE FALSE
    BY <1>1
  <2>1. \A i \in 1 .. Len(x) : x[i] = q[i]
    BY <1>1, <1>2, <1>3
  <2> QED
    BY <2>1, Prefixed
<1>5. IsPrefix(q, x)
  <2>1. \A i \in 1 .. Len(q) : q[i] = x[i]
    BY <1>1, <1>2, <1>3, <1>4
  <2> QED
    BY <1>4, <2>1, Prefixed
<1>6. /\ y \in Seq(Elements) /\ Len(y) = Len(p) + Len(x) - Len(q)
      /\ \A i \in 1 .. Len(p) : y[i] = p[i]
      /\ \A i \in Len(p) + 1 .. Len(y) : y[i] = x[i - Len(p) + Len(q)]
      /\ IsPrefix(p, y)
  BY <1>5, MovedPath
<1> HIDE DEF y
<1>7. Len(y) < Len(m) /\ Len(y) \in Nat
  BY <1>1, <1>2, <1>3, <1>4, <1>6
<1>8. ASSUME NEW i \in 1 .. Len(y) PROVE y[i] = m[i]
  <2>1. CASE i <= Len(p)
    BY <2>1, <1>1, <1>6, <1>7
  <2>2. CASE ~(i <= Len(p))
    <3> DEFINE k == i - Len(p) + Len(q)
    <3>1. k \in Len(q) + 1 .. Len(x) /\ i \in Len(p) + 1 .. Len(y) /\ k - Len(q) + Len(p) = i
      BY <2>2, <1>1, <1>4, <1>6, <1>7
    <3>2. y[i] = x[k]
      BY <1>6, <3>1
    <3>3. k \in 1 .. Len(x) /\ k \in Len(q) + 1 .. Len(a)
      BY <1>1, <1>2, <1>3, <3>1
    <3> HIDE DEF k
    <3>4. x[k] = a[k] /\ a[k] = m[k - Len(q) + Len(p)]
      BY <1>2, <1>3, <3>3
    <3> QED
      BY <3>1, <3>2, <3>4
  <2> QED
    BY <2>1, <2>2
<1>9. IsStrictPrefix(y, m)
  BY <1>6, <1>7, <1>8, Prefixed
<1>10. IsPrefix(q, x) /\ y \in Seq(Elements) /\ IsPrefix(p, y) /\ IsStrictPrefix(y, m)
  BY <1>5, <1>6, <1>9
<1> QED
  BY <1>10 DEF y
-----------------------------------------------------------------------------
\* A renamed tree: every path of it is one that stayed, or one that moved.
Stays(p, q, r) == r \in DOMAIN tree /\ ~IsPrefix(p, r) /\ ~IsPrefix(q, r)
Moves(p, m) == m \in DOMAIN tree /\ IsPrefix(p, m)

RenamedShape(p, q, t) ==
    /\ \A r : Stays(p, q, r) => r \in DOMAIN t /\ t[r] = tree[r]
    /\ \A m : Moves(p, m) =>
          /\ Moved(p, q, m) \in DOMAIN t /\ t[Moved(p, q, m)] = tree[m]
          /\ IsPrefix(q, Moved(p, q, m)) /\ Moved(q, p, Moved(p, q, m)) = m
    /\ \A r \in DOMAIN t : Stays(p, q, r) \/ \E m : Moves(p, m) /\ r = Moved(p, q, m)

LEMMA RenamedIs ==
    ASSUME IsTree(tree), NEW p \in AllPaths, NEW q \in AllPaths, CanRename(p, q)
    PROVE  RenamedShape(p, q, Renamed(p, q))
<1> DEFINE t == Renamed(p, q)
           moving == {p} \cup Below(p)
           D == (DOMAIN tree \ moving) \cup {Moved(p, q, m) : m \in moving}
<1>1. p \in Seq(Elements) /\ q \in Seq(Elements) /\ p \in DOMAIN tree
      /\ DOMAIN tree \subseteq Seq(Elements)
  BY PathShape DEF IsTree, CanRename, Exists
<1>2. \A m : m \in moving <=> Moves(p, m)
  <2>1. IsPrefix(p, p)
    BY <1>1, Prefixed, LenProperties
  <2> QED
    BY <1>1, <2>1 DEF Moves, Below, IsStrictPrefix
<1>3. t = [r \in D |-> IF IsPrefix(q, r) THEN tree[Moved(q, p, r)] ELSE tree[r]]
  BY DEF Renamed, Moved
<1>4. \A r : r \in D <=> (r \in DOMAIN tree /\ ~Moves(p, r)) \/ \E m : Moves(p, m) /\ r = Moved(p, q, m)
  BY <1>2
<1> HIDE DEF moving, D
<1>5. DOMAIN t = D /\ \A r \in D : t[r] = IF IsPrefix(q, r) THEN tree[Moved(q, p, r)] ELSE tree[r]
  BY <1>3
<1> HIDE DEF t
<1>6. ASSUME NEW m, Moves(p, m)
      PROVE  /\ Moved(p, q, m) \in D /\ t[Moved(p, q, m)] = tree[m]
             /\ IsPrefix(q, Moved(p, q, m)) /\ Moved(q, p, Moved(p, q, m)) = m
  <2>1. m \in Seq(Elements) /\ IsPrefix(p, m)
    BY <1>1, <1>6 DEF Moves
  <2>2. IsPrefix(q, Moved(p, q, m)) /\ Moved(q, p, Moved(p, q, m)) = m
    BY <1>1, <2>1, MovedPath, MovedBack
  <2>3. Moved(p, q, m) \in D
    BY <1>4, <1>6
  <2> QED
    BY <1>5, <2>2, <2>3
<1>7. ASSUME NEW r, Stays(p, q, r)
      PROVE  r \in D /\ t[r] = tree[r]
  BY <1>4, <1>5, <1>7 DEF Stays, Moves
<1>8. ASSUME NEW r \in D, ~Stays(p, q, r)
      PROVE  \E m : Moves(p, m) /\ r = Moved(p, q, m)
  <2> SUFFICES ASSUME r \in DOMAIN tree, ~IsPrefix(p, r), IsPrefix(q, r)
               PROVE  \E m : Moves(p, m) /\ r = Moved(p, q, m)
    BY <1>4, <1>8 DEF Stays, Moves
  <2>1. p # q
    OBVIOUS
  <2>2. Below(q) = {}
    <3>1. CASE ~IsDir(q)
      BY <3>1, NothingBelow, PathShape
    <3>2. CASE IsDir(q)
      <4>1. Exists(q)
        BY <3>2, PathShape DEF IsDir
      <4> QED
        BY <2>1, <3>2, <4>1, PathShape DEF CanRename, IsFile, IsDir
    <3> QED
      BY <3>1, <3>2
  <2>3. r = q
    BY <2>2 DEF Below, IsStrictPrefix
  <2>4. Moved(p, q, p) = q
    <3>1. IsPrefix(p, p)
      BY <1>1, Prefixed, LenProperties
    <3>2. /\ Moved(p, q, p) \in Seq(Elements) /\ Len(Moved(p, q, p)) = Len(q) + Len(p) - Len(p)
          /\ \A i \in 1 .. Len(q) : Moved(p, q, p)[i] = q[i]
      BY <1>1, <3>1, MovedPath
    <3>3. Len(p) \in Nat /\ Len(q) \in Nat
      BY <1>1, LenProperties
    <3>4. Len(Moved(p, q, p)) = Len(q)
      BY <3>2, <3>3
    <3> QED
      BY <1>1, <3>2, <3>4, SeqEqual
  <2>5. Moves(p, p)
    BY <1>1, Prefixed, LenProperties DEF Moves
  <2> QED
    BY <2>3, <2>4, <2>5
<1>9. RenamedShape(p, q, t)
  BY <1>5, <1>6, <1>7, <1>8 DEF RenamedShape
<1> QED
  BY <1>9 DEF t

LEMMA RenamedTree ==
    ASSUME IsTree(tree), NEW p \in AllPaths, NEW q \in AllPaths, CanRename(p, q),
           \A r \in Below(p) : Len(r) - Len(p) + Len(q) <= MaxDepth + 1
    PROVE  IsTree(Renamed(p, q))
<1> DEFINE t == Renamed(p, q)
<1>1. RenamedShape(p, q, t)
  BY RenamedIs
<1>2. /\ p \in Seq(Elements) /\ q \in Seq(Elements) /\ p # <<>> /\ p \in DOMAIN tree
      /\ DOMAIN tree \subseteq Seq(Elements) /\ DOMAIN tree \subseteq AllPaths
      /\ ~IsStrictPrefix(p, q) /\ IsDir(Front(q))
  BY PathShape DEF IsTree, CanRename, Exists
<1>3. t = [r \in DOMAIN t |-> t[r]]
  BY DEF Renamed
<1> HIDE DEF t
<1>4. ASSUME NEW m, Moves(p, m)
      PROVE  Moved(p, q, m) \in AllPaths
  <2> DEFINE a == Moved(p, q, m)
  <2>1. m \in AllPaths /\ m \in Seq(Elements) /\ IsPrefix(p, m)
    BY <1>2, <1>4 DEF Moves
  <2>2. /\ a \in Seq(Elements) /\ Len(a) = Len(q) + Len(m) - Len(p)
        /\ \A i \in 1 .. Len(q) : a[i] = q[i]
        /\ \A i \in Len(q) + 1 .. Len(a) : a[i] = m[i - Len(q) + Len(p)]
    BY <1>2, <2>1, MovedPath
  <2> HIDE DEF a
  <2>3. /\ Len(p) \in Nat /\ Len(q) \in Nat /\ Len(m) \in Nat /\ Len(p) <= Len(m)
        /\ Len(p) > 0 /\ Len(q) > 0 /\ MaxDepth \in Nat /\ Len(q) <= MaxDepth + 1
    BY <1>2, <2>1, Prefixed, PathShape, FilesAssumption
  <2>4. PathOf(q, Names \cup Written) /\ PathOf(m, Names \cup Written)
    BY <2>1, PathsAre
  <2>5. Len(a) \in 1 .. MaxDepth + 1
    <3>1. CASE m = p
      BY <3>1, <2>2, <2>3
    <3>2. CASE m # p
      <4>1. m \in Below(p)
        BY <1>4, <3>2 DEF Moves, Below, IsStrictPrefix
      <4>2. Len(m) - Len(p) + Len(q) <= MaxDepth + 1
        BY <4>1
      <4> QED
        BY <4>2, <2>2, <2>3
    <3> QED
      BY <3>1, <3>2
  <2>6. a[1] \in Homes
    BY <2>2, <2>3, <2>4 DEF PathOf
  <2>7. ASSUME NEW i \in 2 .. Len(a) PROVE a[i] \in Names \cup Written
    <3>1. CASE i <= Len(q)
      <4>1. i \in 1 .. Len(q) /\ i \in 2 .. Len(q)
        BY <3>1, <2>3
      <4>2. q[i] \in Names \cup Written
        BY <2>4, <4>1 DEF PathOf
      <4> QED
        BY <2>2, <4>1, <4>2
    <3>2. CASE ~(i <= Len(q))
      <4>1. i \in Len(q) + 1 .. Len(a) /\ i - Len(q) + Len(p) \in 2 .. Len(m)
        BY <3>2, <2>2, <2>3
      <4> QED
        BY <4>1, <2>2, <2>4 DEF PathOf
    <3> QED
      BY <3>1, <3>2
  <2>8. PathOf(a, Names \cup Written)
    BY <2>2, <2>5, <2>6, <2>7 DEF PathOf
  <2> QED
    BY <2>8, PathsAre DEF a
<1>5. DOMAIN t \subseteq AllPaths
  BY <1>1, <1>2, <1>4 DEF RenamedShape, Stays
<1>6. t \in [DOMAIN t -> 0 .. MaxFiles]
  <2>1. \A r \in DOMAIN t : t[r] \in 0 .. MaxFiles
    BY <1>1 DEF RenamedShape, Stays, Moves, IsTree
  <2> QED
    BY <1>3, <2>1
<1>7. \A r, x \in DOMAIN t : t[r] = t[x] /\ t[r] # Dir => r = x
  <2> SUFFICES ASSUME NEW r \in DOMAIN t, NEW x \in DOMAIN t, t[r] = t[x], t[r] # Dir
               PROVE  r = x
    OBVIOUS
  <2>1. ASSUME NEW u \in DOMAIN tree, NEW v \in DOMAIN tree, tree[u] = tree[v], tree[u] # Dir
        PROVE  u = v
    BY <2>1 DEF IsTree
  <2>2. ASSUME NEW u, NEW m, Stays(p, q, u), Moves(p, m) PROVE u # m
    BY <2>2 DEF Stays, Moves
  <2> QED
    BY <1>1, <2>1, <2>2 DEF RenamedShape, Stays, Moves
<1>8. IsFiniteSet(DOMAIN t)
  <2> DEFINE Was(r) == IF IsPrefix(q, r) THEN Moved(q, p, r) ELSE r
             g == [r \in DOMAIN t |-> Was(r)]
  <2>1. ASSUME NEW r \in DOMAIN t
        PROVE  /\ Was(r) \in DOMAIN tree
              /\ \/ r = Was(r) /\ Stays(p, q, r)
                 \/ Moves(p, Was(r)) /\ r = Moved(p, q, Was(r))
    <3>1. CASE Stays(p, q, r)
      BY <3>1 DEF Stays
    <3>2. CASE \E m : Moves(p, m) /\ r = Moved(p, q, m)
      BY <1>1, <3>2 DEF RenamedShape, Moves
    <3> QED
      BY <1>1, <3>1, <3>2 DEF RenamedShape
  <2> HIDE DEF Was
  <2>2. g \in [DOMAIN t -> DOMAIN tree]
    BY <2>1
  <2>3. \A r, x \in DOMAIN t : g[r] = g[x] => r = x
    BY <2>1 DEF Stays, Moves
  <2>4. g \in Injection(DOMAIN t, DOMAIN tree)
    BY <2>2, <2>3 DEF Injection, IsInjective
  <2> QED
    BY <2>4, FS_Injection DEF IsTree
<1>9. ASSUME NEW r \in DOMAIN t, NEW x \in Seq(Elements), x # <<>>, IsStrictPrefix(x, r)
      PROVE  x \in DOMAIN t /\ t[x] = Dir
  <2>1. r \in Seq(Elements)
    BY <1>5, PathShape
  <2>2. CASE Stays(p, q, r)
    <3>1. x \in DOMAIN tree /\ tree[x] = Dir
      BY <1>9, <2>2 DEF IsTree, Stays
    <3>2. ASSUME NEW y \in Seq(Elements), IsPrefix(y, x) PROVE IsPrefix(y, r)
      <4>1. Len(x) < Len(r) /\ \A i \in 1 .. Len(x) : x[i] = r[i]
        BY <1>9, <2>1, Prefixed
      <4>2. Len(y) <= Len(x) /\ \A i \in 1 .. Len(y) : y[i] = x[i]
        BY <3>2, Prefixed
      <4>3. Len(y) \in Nat /\ Len(x) \in Nat /\ Len(r) \in Nat
        BY <2>1, LenProperties
      <4>4. Len(y) <= Len(r) /\ \A i \in 1 .. Len(y) : y[i] = r[i]
        BY <4>1, <4>2, <4>3
      <4> QED
        BY <2>1, <4>4, Prefixed
    <3>3. Stays(p, q, x)
      BY <1>2, <2>2, <3>1, <3>2 DEF Stays
    <3> QED
      BY <1>1, <3>1, <3>3 DEF RenamedShape
  <2>3. ASSUME NEW m, Moves(p, m), r = Moved(p, q, m)
        PROVE  x \in DOMAIN t /\ t[x] = Dir
    <3>1. m \in DOMAIN tree /\ m \in Seq(Elements) /\ IsPrefix(p, m)
      BY <1>2, <2>3 DEF Moves
    <3>2. CASE IsStrictPrefix(x, q)
      <4>1. x \in DOMAIN tree /\ tree[x] = Dir
        BY <1>2, <1>9, <3>2, AboveDirectory
      <4>2. Len(x) < Len(q) /\ (\A i \in 1 .. Len(x) : x[i] = q[i]) /\ Len(x) \in Nat /\ Len(q) \in Nat
            /\ Len(p) \in Nat
        BY <1>2, <3>2, Prefixed, LenProperties
      <4>3. ~IsPrefix(q, x)
        BY <1>2, <4>2, Prefixed
      <4>4. ~IsPrefix(p, x)
        <5> SUFFICES ASSUME IsPrefix(p, x) PROVE IsStrictPrefix(p, q)
          BY <1>2
        <5>1. Len(p) <= Len(x) /\ \A i \in 1 .. Len(p) : p[i] = x[i]
          BY <1>2, Prefixed
        <5>2. Len(p) < Len(q) /\ \A i \in 1 .. Len(p) : p[i] = q[i]
          BY <4>2, <5>1
        <5> QED
          BY <1>2, <5>2, Prefixed
      <4>5. Stays(p, q, x)
        BY <4>1, <4>3, <4>4 DEF Stays
      <4> QED
        BY <1>1, <4>1, <4>5 DEF RenamedShape
    <3>3. CASE ~IsStrictPrefix(x, q)
      <4> DEFINE y == Moved(q, p, x)
      <4>1. IsPrefix(q, x) /\ y \in Seq(Elements) /\ IsPrefix(p, y) /\ IsStrictPrefix(y, m)
        BY <1>2, <1>9, <2>3, <3>1, <3>3, AboveMoved
      <4>2. Moved(p, q, y) = x
        BY <1>2, <4>1, MovedBack
      <4> HIDE DEF y
      <4>3. y # <<>>
        <5>1. Len(p) <= Len(y) /\ Len(p) > 0
          BY <1>2, <4>1, Prefixed, PathShape
        <5> QED
          BY <5>1, EmptySeq
      <4>4. y \in DOMAIN tree /\ tree[y] = Dir
        BY <3>1, <4>1, <4>3 DEF IsTree
      <4>5. Moves(p, y)
        BY <4>1, <4>4 DEF Moves
      <4> QED
        BY <1>1, <4>2, <4>4, <4>5 DEF RenamedShape
    <3> QED
      BY <3>2, <3>3
  <2> QED
    BY <1>1, <2>2, <2>3 DEF RenamedShape
<1>10. IsTree(t)
  BY <1>5, <1>6, <1>7, <1>8, <1>9 DEF IsTree
<1> QED
  BY <1>10 DEF t
-----------------------------------------------------------------------------
\* A set of numbers that is not empty has a least one: from the library's theorem
\* that strict inclusion of finite sets is well founded.
LEMMA LeastNatural ==
    ASSUME NEW T \in SUBSET Nat, T # {}
    PROVE  \E n \in T : \A m \in T : n <= m
<1> DEFINE UpTo(n) == 0 .. n
           Family == {UpTo(n) : n \in T}
<1>1. Family \subseteq FiniteSubsetsOf(Nat)
  <2>1. ASSUME NEW n \in T PROVE UpTo(n) \in SUBSET Nat /\ IsFiniteSet(UpTo(n))
    <3>1. n \in Nat
      OBVIOUS
    <3>2. IsFiniteSet(0 .. n)
      BY <3>1, FS_Interval
    <3> QED
      BY <3>1, <3>2
  <2> QED
    BY <2>1 DEF FiniteSubsetsOf
<1>2. Family # {}
  OBVIOUS
<1>3. PICK x \in Family : \A y \in Family : ~(<<y, x>> \in StrictSubsetOrdering(Nat))
  <2>1. IsWellFoundedOn(StrictSubsetOrdering(Nat), FiniteSubsetsOf(Nat))
    BY FS_StrictSubsetOrderingWellFounded
  <2> HIDE DEF Family
  <2> QED
    BY <1>1, <1>2, <2>1, WFMin
<1>4. PICK n \in T : x = UpTo(n)
  OBVIOUS
<1>5. ASSUME NEW m \in T, m < n PROVE FALSE
  <2>1. UpTo(m) \in Family /\ UpTo(m) \subseteq UpTo(n) /\ n \in UpTo(n) /\ n \notin UpTo(m)
    BY <1>5
  <2>2. <<UpTo(m), UpTo(n)>> \in StrictSubsetOrdering(Nat)
    <3>1. UpTo(m) \in SUBSET Nat /\ UpTo(n) \in SUBSET Nat
      BY <1>5
    <3>2. UpTo(m) # UpTo(n)
      BY <2>1
    <3> HIDE DEF UpTo
    <3> QED
      BY <2>1, <3>1, <3>2 DEF StrictSubsetOrdering
  <2> QED
    BY <1>3, <1>4, <2>1, <2>2
<1> QED
  BY <1>5

\* The number the kernel gives a new file is nobody's.
LEMMA FreshIsFree ==
    ASSUME Free # {}
    PROVE  /\ Fresh \in 1 .. MaxFiles /\ Fresh # Dir
           /\ \A p \in DOMAIN tree : tree[p] # Fresh
           /\ Fresh \notin Open
<1>1. Free \in SUBSET Nat
  BY DEF Free
<1>2. \E n \in Free : \A m \in Free : n <= m
  BY <1>1, LeastNatural
<1>3. Fresh \in Free
  BY <1>2 DEF Fresh
<1>4. MaxFiles \in Nat
  BY FilesAssumption
<1> QED
  BY <1>3, <1>4 DEF Free, Range, Dir

LEMMA NumberIsOwn ==
    ASSUME IsTree(tree), NEW p \in AllPaths, CanCreate(p), Free # {}
    PROVE  /\ NumberFor(p) \in 1 .. MaxFiles /\ NumberFor(p) # Dir
           /\ \A q \in DOMAIN tree : tree[q] = NumberFor(p) => q = p
           /\ IsDir(Front(p)) /\ ~IsDir(p)
           /\ ~Exists(p) => NumberFor(p) = Fresh
<1>1. p # <<>> /\ MaxFiles \in Nat
  BY PathShape, FilesAssumption
<1>2. CASE Exists(p)
  <2>1. p \in DOMAIN tree /\ tree[p] # Dir /\ NumberFor(p) = tree[p] /\ IsDir(Front(p))
    BY <1>2 DEF CanCreate, IsFile, Exists, NumberFor
  <2>2. tree[p] \in 0 .. MaxFiles
    BY <2>1 DEF IsTree
  <2>3. tree[p] \in 1 .. MaxFiles
    BY <1>1, <2>1, <2>2 DEF Dir
  <2>4. \A q \in DOMAIN tree : tree[q] = tree[p] => q = p
    BY <2>1 DEF IsTree
  <2>5. ~IsDir(p)
    BY <1>1, <2>1 DEF IsDir
  <2> QED
    BY <1>2, <2>1, <2>3, <2>4, <2>5
<1>3. CASE ~Exists(p)
  BY <1>1, <1>3, FreshIsFree DEF CanCreate, NumberFor, IsDir
<1> QED
  BY <1>2, <1>3

LEMMA CreatedTree ==
    ASSUME IsTree(tree), NEW p \in AllPaths, CanCreate(p), Free # {}
    PROVE  IsTree(Naming(p, NumberFor(p)))
<1>1. NumberFor(p) \in 0 .. MaxFiles
  BY NumberIsOwn, FilesAssumption
<1> QED
  BY <1>1, NumberIsOwn, Named

LEMMA FreshTree ==
    ASSUME IsTree(tree), NEW p \in AllPaths, CanCreate(p), Free # {}
    PROVE  IsTree(Naming(p, Fresh))
<1>1. Fresh \in 0 .. MaxFiles /\ \A q \in DOMAIN tree : tree[q] # Fresh
  BY FreshIsFree, FilesAssumption
<1>2. IsDir(Front(p)) /\ ~IsDir(p)
  BY NumberIsOwn
<1> QED
  BY <1>1, <1>2, Named
-----------------------------------------------------------------------------
(***************************************************************************)
(* What a job is.                                                          *)
(***************************************************************************)
RemoveFields == {"step", "cmd", "target", "seen", "any"}
ArchiveFields == {"step", "tar", "archive", "files", "next", "out", "listed", "directory"}
TarSteps == {"tar open", "add", "copy", "unlink"}
ZipSteps == {"zip open", "zip close"}

Removing(j) ==
    /\ j.step = "remove"
    /\ \/ DOMAIN j = RemoveFields /\ j.cmd \in {"rm", "rm .."}
       \/ DOMAIN j = RemoveFields \cup {"left"} /\ j.cmd = "clean"
          /\ j.left \subseteq Homes /\ \E h \in Homes : j.target = <<h>> /\ h \notin j.left
    /\ j.target \in AllPaths \/ j.target = <<>>
    /\ j.any \in BOOLEAN

Cleaning(j) == j.step = "clean" /\ DOMAIN j = {"step", "left"} /\ j.left \subseteq Homes

Archiving(j) ==
    /\ j.step \in TarSteps \cup ZipSteps
    /\ DOMAIN j = ArchiveFields
    /\ j.tar \in AllPaths /\ j.archive \in AllPaths
    /\ j.files \in Seq(AllPaths) /\ j.next \in Nat \ {0}
    /\ j.out \in 0 .. MaxFiles /\ j.directory \in BOOLEAN

JobShape(j) == j = Idle \/ Removing(j) \/ Cleaning(j) \/ Archiving(j)

LEMMA RemoveAllShape ==
    ASSUME NEW cmd \in {"rm", "rm .."}, NEW p, p \in AllPaths \/ p = <<>>
    PROVE  Removing(RemoveAll(cmd, p))
BY DEF Removing, RemoveAll, RemoveFields

LEMMA CleanShape ==
    ASSUME NEW left, left \subseteq Homes, NEW h \in left
    PROVE  Removing(CleanHome(h, left \ {h}))
<1>1. <<h>> \in AllPaths
  <2>1. <<h>> \in Seq(Elements) /\ Len(<<h>>) = 1 /\ <<h>>[1] = h
    BY DEF Elements
  <2>2. PathOf(<<h>>, Names \cup Written)
    BY <2>1, FilesAssumption DEF PathOf
  <2> QED
    BY <2>2, PathsAre
<1> QED
  BY <1>1 DEF Removing, CleanHome, RemoveFields

LEMMA ArchiveShape ==
    ASSUME NEW s \in Sessions, cwd[s] \in Paths, Len(cwd[s]) <= MaxDepth,
           NEW a \in Archives, NEW f \in Formats, NEW files \in Seq(AllPaths)
    PROVE  Archiving(Archive(s, a, f, files))
<1>1. cwd[s] \in AllPaths
  BY PathsAmong
<1>2. a \o ".tar" \in Names \cup Written /\ a \o Extension[f] \in Names \cup Written
  BY DEF Written
<1>3. Append(cwd[s], a \o ".tar") \in AllPaths
  BY <1>1, <1>2, NameBelow
<1>4. Append(cwd[s], a \o Extension[f]) \in AllPaths
  BY <1>1, <1>2, NameBelow
<1>5. 0 \in 0 .. MaxFiles
  BY FilesAssumption
<1>6. (\E i \in DOMAIN files : IsDir(files[i])) \in BOOLEAN
  OBVIOUS
<1> DEFINE r == Archive(s, a, f, files)
<1>7. /\ r.step \in TarSteps \cup ZipSteps /\ DOMAIN r = ArchiveFields
      /\ r.files = files /\ r.next = 1 /\ r.out = 0
  BY DEF Archive, TarSteps, ZipSteps, ArchiveFields
<1>8. r.tar = Append(cwd[s], a \o ".tar") /\ r.archive = Append(cwd[s], a \o Extension[f])
  BY DEF Archive
<1>9. r.directory \in BOOLEAN
  BY <1>6 DEF Archive
<1> HIDE DEF r
<1>10. Archiving(r)
  BY <1>3, <1>4, <1>5, <1>7, <1>8, <1>9 DEF Archiving
<1> QED
  BY <1>10 DEF r
-----------------------------------------------------------------------------
(***************************************************************************)
(* Types.  What names what is a tree without names in the air, and a file  *)
(* has one name.                                                           *)
(***************************************************************************)
Replies == {"none", "RESP_OK", "RESP_IO_ERROR", "RESP_COMPRESS"}
Ends == {"no", "cp", "directory listed", "cwd lost", "race"}

OtherTypes ==
    /\ DOMAIN data = 1 .. MaxFiles
    /\ cwd \in [Sessions -> Paths]
    /\ DOMAIN job = Sessions
    /\ last \in (Sessions \cup {"nobody"}) \X Replies
    /\ ended \in Ends
    /\ requests \in 0 .. MaxRequests
    /\ overlapped \in [Sessions -> BOOLEAN] /\ changed \in [Sessions -> BOOLEAN]
    /\ climbed \in BOOLEAN

TypeInv ==
    /\ IsTree(tree)
    /\ \A s \in Sessions : JobShape(job[s])
    /\ OtherTypes

LEMMA TypeInvIsTypeOK == TypeInv => TypeOK
<1> SUFFICES ASSUME TypeInv PROVE TypeOK
  OBVIOUS
<1>1. DOMAIN tree \subseteq AllPaths /\ \A p \in DOMAIN tree : tree[p] \in 0 .. MaxFiles
  BY DEF TypeInv, IsTree
<1>2. Range(tree) \subseteq 0 .. MaxFiles
  BY <1>1 DEF Range
<1>3. \A p \in DOMAIN tree : IsDir(Front(p))
  BY InTree DEF TypeInv
<1> QED
  BY <1>1, <1>2, <1>3 DEF TypeInv, OtherTypes, TypeOK, Replies, Ends

\* How a step of s ends, whatever it does to the files.
Outcome(s) ==
    \/ \E r \in Replies : Answer(s, r)
    \/ \E j : JobShape(j) /\ Continue(s, j)
    \/ \E w \in Ends : Throw(s, w)

FileTypes ==
    /\ IsTree(tree)' /\ DOMAIN data' = 1 .. MaxFiles
    /\ cwd' \in [Sessions -> Paths] /\ climbed' \in BOOLEAN

LEMMA Unchanged ==
    ASSUME TypeInv, UNCHANGED <<tree, data>> PROVE IsTree(tree)' /\ DOMAIN data' = 1 .. MaxFiles
BY DEF TypeInv, OtherTypes, IsTree

LEMMA UnlinkTypes ==
    ASSUME TypeInv, NEW p \in DOMAIN tree, Below(p) = {}, Unlink(p)
    PROVE  IsTree(tree)' /\ DOMAIN data' = 1 .. MaxFiles
<1>1. IsTree([q \in DOMAIN tree \ {p} |-> tree[q]])
  BY Unlinked DEF TypeInv
<1> QED
  BY <1>1 DEF Unlink, TypeInv, OtherTypes, IsTree

LEMMA CreateTypes ==
    ASSUME TypeInv, NEW p \in AllPaths, CanCreate(p), Free # {}, Create(p)
    PROVE  IsTree(tree)' /\ DOMAIN data' = 1 .. MaxFiles
<1>1. IsTree(Naming(p, NumberFor(p)))
  BY CreatedTree DEF TypeInv
<1> QED
  BY <1>1 DEF Create, TypeInv, OtherTypes, IsTree

LEMMA HomeIsPath ==
    ASSUME NEW h \in Homes
    PROVE  /\ <<h>> \in Paths /\ <<h>> \in AllPaths /\ Front(<<h>>) = <<>> /\ Head(<<h>>) = h
           /\ Len(<<h>>) = 1
<1>1. <<h>> \in Seq(Elements) /\ Len(<<h>>) = 1 /\ <<h>>[1] = h /\ <<h>> # <<>>
  BY DEF Elements
<1>2. PathOf(<<h>>, Names)
  BY <1>1, FilesAssumption DEF PathOf
<1>3. <<h>> \in Paths /\ <<h>> \in AllPaths
  BY <1>2, PathsAre, PathsAmong
<1>4. Len(<<h>>) = 1 <=> Front(<<h>>) = <<>>
  BY <1>1, FrontOf
<1>5. Head(<<h>>) = h
  BY <1>1, <1>3, PathShape
<1> QED
  BY <1>1, <1>3, <1>4, <1>5

LEMMA FrontPath ==
    ASSUME NEW p \in Paths, Len(p) > 1
    PROVE  Front(p) \in Paths /\ Head(Front(p)) = Head(p)
<1>1. PathOf(p, Names) /\ p \in Seq(Elements) /\ p # <<>> /\ Len(p) \in Nat /\ MaxDepth \in Nat
      /\ Head(p) = p[1]
  BY PathsAre, PathsAmong, PathShape, FilesAssumption
<1>2. /\ Front(p) \in Seq(Elements) /\ Len(Front(p)) = Len(p) - 1
      /\ \A i \in 1 .. Len(p) - 1 : Front(p)[i] = p[i]
  BY <1>1, FrontOf
<1>3. PathOf(Front(p), Names)
  BY <1>1, <1>2 DEF PathOf
<1>4. Front(p) \in Paths /\ Front(p) \in AllPaths
  BY <1>3, PathsAre, PathsAmong
<1> QED
  BY <1>1, <1>2, <1>4, PathShape

LEMMA RemovePathTypes ==
    ASSUME TypeInv, NEW s \in Sessions, RemovePath(s)
    PROVE  FileTypes /\ Outcome(s)
<1>1. PICK n \in Names \cup Written :
         LET p == Append(cwd[s], n) IN
         \/ Exists(p) /\ Below(p) = {} /\ Unlink(p) /\ Answer(s, "RESP_OK")
         \/ Below(p) # {} /\ Continue(s, RemoveAll("rm", p)) /\ UNCHANGED <<tree, data>>
         \/ ~Exists(p) /\ Answer(s, "RESP_IO_ERROR") /\ UNCHANGED <<tree, data>>
  BY DEF RemovePath
<1> DEFINE p == Append(cwd[s], n)
<1>2. UNCHANGED <<cwd, climbed>>
  BY DEF RemovePath
<1>3. cwd[s] \in AllPaths /\ cwd' \in [Sessions -> Paths] /\ climbed' \in BOOLEAN
  BY <1>2, PathsAmong DEF TypeInv, OtherTypes
<1>4. CASE Exists(p) /\ Below(p) = {} /\ Unlink(p) /\ Answer(s, "RESP_OK")
  BY <1>3, <1>4, UnlinkTypes DEF Exists, FileTypes, Outcome, Replies
<1>5. CASE Below(p) # {} /\ Continue(s, RemoveAll("rm", p)) /\ UNCHANGED <<tree, data>>
  <2>1. p \in AllPaths
    <3>1. PICK q \in DOMAIN tree : IsStrictPrefix(p, q)
      BY <1>5 DEF Below
    <3>2. q \in AllPaths
      BY <3>1, InTree DEF TypeInv
    <3>3. p \in Seq(Elements) /\ Len(p) = Len(cwd[s]) + 1
      <4>1. n \in Elements /\ cwd[s] \in Seq(Elements)
        BY <1>3, PathShape DEF Elements
      <4> QED
        BY <4>1, AppendProperties
    <3> HIDE DEF p
    <3>4. Len(p) < Len(q) /\ Len(q) <= MaxDepth + 1 /\ MaxDepth \in Nat /\ Len(cwd[s]) \in Nat /\ Len(q) \in Nat
      BY <1>3, <3>1, <3>2, <3>3, PathShape, Prefixed, FilesAssumption
    <3>5. Len(cwd[s]) <= MaxDepth
      BY <3>3, <3>4
    <3> QED
      BY <1>3, <3>5, NameBelow DEF p
  <2>2. JobShape(RemoveAll("rm", p))
    BY <2>1, RemoveAllShape DEF JobShape
  <2> QED
    BY <1>3, <1>5, <2>2, Unchanged DEF FileTypes, Outcome
<1>6. CASE ~Exists(p) /\ Answer(s, "RESP_IO_ERROR") /\ UNCHANGED <<tree, data>>
  BY <1>3, <1>6, Unchanged DEF FileTypes, Outcome, Replies
<1> QED
  BY <1>1, <1>4, <1>5, <1>6

LEMMA RemoveTypes ==
    ASSUME TypeInv, NEW s \in Sessions,
           RemoveParent(s) \/ RemoveEntry(s) \/ RemoveThrows(s) \/ RemoveTarget(s)
    PROVE  FileTypes /\ Outcome(s)
<1>1. cwd[s] \in Paths /\ JobShape(job[s])
  BY DEF TypeInv, OtherTypes
<1>2. cwd' = cwd => cwd' \in [Sessions -> Paths]
  BY DEF TypeInv, OtherTypes
<1>3. climbed' = climbed => climbed' \in BOOLEAN
  BY DEF TypeInv, OtherTypes
<1>4. CASE RemoveParent(s)
  <2>1. Front(cwd[s]) \in AllPaths \/ Front(cwd[s]) = <<>>
    <3>1. cwd[s] \in Seq(Elements) /\ cwd[s] # <<>> /\ Len(cwd[s]) \in Nat /\ Len(cwd[s]) > 0
      BY <1>1, PathsAmong, PathShape
    <3>2. CASE Len(cwd[s]) > 1
      BY <1>1, <3>2, FrontPath, PathsAmong
    <3>3. CASE Len(cwd[s]) = 1
      BY <3>1, <3>3, FrontOf
    <3>4. \A n \in Nat : n > 0 => n > 1 \/ n = 1
      OBVIOUS
    <3>5. Len(cwd[s]) > 1 \/ Len(cwd[s]) = 1
      BY <3>1, <3>4
    <3> QED
      BY <3>2, <3>3, <3>5
  <2>2. JobShape(RemoveAll("rm ..", Front(cwd[s])))
    BY <2>1, RemoveAllShape DEF JobShape
  <2>3. Outcome(s)
    BY <1>4, <2>2 DEF RemoveParent, Outcome, Replies
  <2> QED
    BY <1>4, <1>2, <2>3, Unchanged DEF RemoveParent, FileTypes
<1>5. CASE RemoveEntry(s)
  <2>1. PICK q \in Below(job[s].target) :
           Below(q) = {} /\ Unlink(q) /\ Continue(s, [job[s] EXCEPT !.any = TRUE])
    BY <1>5 DEF RemoveEntry
  <2>2. q \in DOMAIN tree /\ job[s].step = "remove"
    BY <1>5, <2>1 DEF Below, RemoveEntry
  <2>3. Removing(job[s])
    BY <1>1, <2>2 DEF JobShape, Idle, Cleaning, Archiving, TarSteps, ZipSteps
  <2>4. Removing([job[s] EXCEPT !.any = TRUE])
    BY <2>3 DEF Removing, RemoveFields
  <2>5. Outcome(s)
    BY <2>1, <2>4 DEF Outcome, JobShape
  <2> QED
    BY <1>5, <1>2, <1>3, <2>1, <2>2, <2>5, UnlinkTypes DEF RemoveEntry, FileTypes
<1>6. CASE RemoveThrows(s)
  BY <1>6, <1>2, <1>3, Unchanged DEF RemoveThrows, FileTypes, Outcome, Ends
<1>7. CASE RemoveTarget(s)
  <2> DEFINE j == job[s]
             any == j.any \/ (Exists(j.target) /\ j.cmd # "rm ..")
  <2>1. /\ j.step = "remove" /\ Below(j.target) = {}
        /\ IF Exists(j.target) /\ j.cmd # "rm .." THEN Unlink(j.target) ELSE UNCHANGED <<tree, data>>
        /\ CASE ~any -> Answer(s, "RESP_IO_ERROR")
             [] any /\ j.cmd = "clean" -> Continue(s, [step |-> "clean", left |-> j.left])
             [] OTHER -> Answer(s, "RESP_OK")
        /\ UNCHANGED <<cwd, climbed>>
    BY <1>7 DEF RemoveTarget
  <2>2. IsTree(tree)' /\ DOMAIN data' = 1 .. MaxFiles
    <3>1. CASE Exists(j.target) /\ j.cmd # "rm .."
      BY <2>1, <3>1, UnlinkTypes DEF Exists
    <3>2. CASE ~(Exists(j.target) /\ j.cmd # "rm ..")
      BY <2>1, <3>2, Unchanged
    <3> QED
      BY <3>1, <3>2
  <2>3. j.step = "remove"
    BY <2>1
  <2>4. Removing(j)
    BY <1>1, <2>3 DEF JobShape, Idle, Cleaning, Archiving, TarSteps, ZipSteps
  <2>5. j.cmd = "clean" => JobShape([step |-> "clean", left |-> j.left])
    BY <2>4 DEF Removing, RemoveFields, JobShape, Cleaning
  <2>6. Outcome(s)
    <3> HIDE DEF any
    <3>1. \/ Answer(s, "RESP_IO_ERROR") \/ Answer(s, "RESP_OK")
          \/ j.cmd = "clean" /\ Continue(s, [step |-> "clean", left |-> j.left])
      BY <2>1
    <3> QED
      BY <2>5, <3>1 DEF Outcome, Replies
  <2> QED
    BY <1>2, <1>3, <2>1, <2>2, <2>6 DEF FileTypes
<1> QED
  BY <1>4, <1>5, <1>6, <1>7

LEMMA CleanTypes ==
    ASSUME TypeInv, NEW s \in Sessions, Clean(s) \/ CleanNext(s)
    PROVE  FileTypes /\ Outcome(s)
<1>1. JobShape(job[s])
  BY DEF TypeInv
<1>2. UNCHANGED <<tree, data, cwd, climbed>>
  BY DEF Clean, CleanNext
<1>3. FileTypes
  BY <1>2, Unchanged DEF FileTypes, TypeInv, OtherTypes
<1>4. CASE Clean(s)
  <2>1. JobShape([step |-> "clean", left |-> {h \in Homes : IsDir(<<h>>)}])
    BY DEF JobShape, Cleaning
  <2> QED
    BY <1>3, <1>4, <2>1 DEF Clean, Outcome
<1>5. CASE CleanNext(s)
  <2>1. job[s].step = "clean"
    BY <1>5 DEF CleanNext
  <2>2. job[s].left \subseteq Homes
    BY <1>1, <2>1 DEF JobShape, Idle, Cleaning, Removing, Archiving, TarSteps, ZipSteps
  <2>3. CASE job[s].left = {}
    BY <1>3, <1>5, <2>3 DEF CleanNext, Outcome, Replies
  <2>4. CASE job[s].left # {}
    <3>1. PICK h \in job[s].left : Continue(s, CleanHome(h, job[s].left \ {h}))
      BY <1>5, <2>4 DEF CleanNext
    <3>2. JobShape(CleanHome(h, job[s].left \ {h}))
      BY <2>2, CleanShape DEF JobShape
    <3> QED
      BY <1>3, <3>1, <3>2 DEF Outcome
  <2> QED
    BY <2>3, <2>4
<1> QED
  BY <1>4, <1>5

LEMMA MakeDirectoryTypes ==
    ASSUME TypeInv, NEW s \in Sessions, MakeDirectory(s)
    PROVE  FileTypes /\ Outcome(s)
<1>1. PICK n \in Names :
         LET p == Append(cwd[s], n) IN
         /\ Len(p) <= MaxDepth + 1
         /\ IF IsDir(cwd[s]) /\ ~Exists(p)
            THEN tree' = Naming(p, Dir) /\ Answer(s, "RESP_OK")
            ELSE Answer(s, "RESP_IO_ERROR") /\ UNCHANGED tree
  BY DEF MakeDirectory
<1> DEFINE p == Append(cwd[s], n)
<1>2. UNCHANGED <<data, cwd, climbed>>
  BY DEF MakeDirectory
<1>3. DOMAIN data' = 1 .. MaxFiles /\ cwd' \in [Sessions -> Paths] /\ climbed' \in BOOLEAN
  BY <1>2 DEF TypeInv, OtherTypes
<1>4. Outcome(s)
  BY <1>1 DEF Outcome, Replies
<1>5. CASE tree' = Naming(p, Dir) /\ IsDir(cwd[s]) /\ ~Exists(p)
  <2>1. cwd[s] \in AllPaths /\ n \in Names \cup Written
    BY PathsAmong DEF TypeInv, OtherTypes
  <2>2. Len(cwd[s]) <= MaxDepth
    <3>1. n \in Elements /\ cwd[s] \in Seq(Elements) /\ Len(cwd[s]) \in Nat
      BY <2>1, PathShape DEF Elements
    <3>2. Len(p) = Len(cwd[s]) + 1 /\ MaxDepth \in Nat
      BY <3>1, AppendProperties, FilesAssumption
    <3> QED
      BY <1>1, <3>1, <3>2
  <2>3. p \in AllPaths /\ Front(p) = cwd[s]
    BY <2>1, <2>2, NameBelow
  <2> HIDE DEF p
  <2>4. Dir \in 0 .. MaxFiles /\ ~IsDir(p)
    <3>1. p # <<>>
      BY <2>3, PathShape
    <3>2. ~Exists(p)
      BY <1>5
    <3> QED
      BY <3>1, <3>2, FilesAssumption DEF Dir, IsDir
  <2>5. IsTree(Naming(p, Dir))
    BY <1>5, <2>3, <2>4, Named DEF TypeInv
  <2> QED
    BY <1>3, <1>4, <1>5, <2>5 DEF FileTypes, IsTree
<1>6. CASE UNCHANGED tree
  BY <1>2, <1>3, <1>4, <1>6, Unchanged DEF FileTypes
<1> QED
  BY <1>1, <1>5, <1>6

LEMMA ChangeDirectoryTypes ==
    ASSUME TypeInv, NEW s \in Sessions, ChangeDirectory(s)
    PROVE  FileTypes /\ Outcome(s)
<1>1. UNCHANGED <<tree, data, climbed>>
  BY DEF ChangeDirectory
<1>2. Outcome(s)
  BY DEF ChangeDirectory, Outcome, Replies
<1>3. cwd[s] \in Paths /\ cwd \in [Sessions -> Paths]
  BY DEF TypeInv, OtherTypes
<1>4. cwd' \in [Sessions -> Paths]
  <2>1. ASSUME NEW n \in Names, Len(cwd[s]) <= MaxDepth, cwd' = [cwd EXCEPT ![s] = Append(@, n)]
        PROVE  cwd' \in [Sessions -> Paths]
    <3>1. Append(cwd[s], n) \in Paths
      BY <1>3, <2>1, PathsAmong, NameBelow
    <3> QED
      BY <1>3, <2>1, <3>1
  <2>2. ASSUME cwd' = [cwd EXCEPT ![s] = IF Len(@) > 1 THEN Front(@) ELSE @]
        PROVE  cwd' \in [Sessions -> Paths]
    <3>1. Len(cwd[s]) > 1 => Front(cwd[s]) \in Paths
      BY <1>3, FrontPath
    <3> QED
      BY <1>3, <2>2, <3>1
  <2> QED
    BY <1>3, <2>1, <2>2 DEF ChangeDirectory
<1> QED
  BY <1>1, <1>2, <1>4, Unchanged DEF FileTypes, TypeInv, OtherTypes

LEMMA ArgumentsArePaths == TypeInv => Arguments \subseteq AllPaths
BY PathsAmong, InTree DEF TypeInv, Arguments

LEMMA MoveTypes ==
    ASSUME TypeInv, NEW s \in Sessions, Move(s)
    PROVE  FileTypes /\ Outcome(s)
<1>1. PICK p \in Arguments, q \in Paths :
         /\ \A r \in Below(p) : Len(r) - Len(p) + Len(q) <= MaxDepth + 1
         /\ IF Within(p, HomeOf[s]) /\ Within(q, HomeOf[s]) /\ CanRename(p, q)
            THEN tree' = Renamed(p, q) /\ Answer(s, "RESP_OK")
            ELSE Answer(s, "RESP_IO_ERROR") /\ UNCHANGED tree
  BY DEF Move
<1>2. UNCHANGED <<data, cwd, climbed>>
  BY DEF Move
<1>3. DOMAIN data' = 1 .. MaxFiles /\ cwd' \in [Sessions -> Paths] /\ climbed' \in BOOLEAN
  BY <1>2 DEF TypeInv, OtherTypes
<1>4. Outcome(s)
  BY <1>1 DEF Outcome, Replies
<1>5. CASE tree' = Renamed(p, q) /\ CanRename(p, q)
  <2>1. p \in AllPaths /\ q \in AllPaths
    BY ArgumentsArePaths, PathsAmong
  <2>2. IsTree(Renamed(p, q))
    BY <1>1, <1>5, <2>1, RenamedTree DEF TypeInv
  <2> QED
    BY <1>3, <1>4, <1>5, <2>2 DEF FileTypes, IsTree
<1>6. CASE UNCHANGED tree
  BY <1>2, <1>3, <1>4, <1>6, Unchanged DEF FileTypes
<1> QED
  BY <1>1, <1>5, <1>6

LEMMA CopyTypes ==
    ASSUME TypeInv, NEW s \in Sessions, Copy(s)
    PROVE  FileTypes /\ Outcome(s)
<1>1. PICK p \in Arguments, q \in Paths :
         IF ~Within(p, HomeOf[s]) \/ ~Within(q, HomeOf[s])
         THEN Answer(s, "RESP_IO_ERROR") /\ UNCHANGED <<tree, data>>
         ELSE IF IsFile(p) /\ ~Exists(q) /\ IsDir(Front(q))
              THEN /\ Free # {}
                   /\ tree' = Naming(q, Fresh)
                   /\ data' = [data EXCEPT ![Fresh] = data[tree[p]]]
                   /\ Answer(s, "RESP_OK")
              ELSE Throw(s, "cp") /\ UNCHANGED <<tree, data>>
  BY DEF Copy
<1>2. UNCHANGED <<cwd, climbed>>
  BY DEF Copy
<1>3. cwd' \in [Sessions -> Paths] /\ climbed' \in BOOLEAN
  BY <1>2 DEF TypeInv, OtherTypes
<1>4. Outcome(s)
  BY <1>1 DEF Outcome, Replies, Ends
<1>5. CASE UNCHANGED <<tree, data>>
  BY <1>3, <1>4, <1>5, Unchanged DEF FileTypes
<1>6. CASE /\ ~Exists(q) /\ IsDir(Front(q)) /\ Free # {} /\ tree' = Naming(q, Fresh)
           /\ data' = [data EXCEPT ![Fresh] = data[tree[p]]]
  <2>1. q \in AllPaths /\ CanCreate(q)
    BY <1>6, PathsAmong DEF CanCreate
  <2>2. IsTree(Naming(q, Fresh))
    BY <1>6, <2>1, FreshTree DEF TypeInv
  <2> QED
    BY <1>3, <1>4, <1>6, <2>2 DEF FileTypes, IsTree, TypeInv, OtherTypes
<1> QED
  BY <1>1, <1>5, <1>6

LEMMA LoginTypes ==
    ASSUME TypeInv, NEW s \in Sessions, Login(s)
    PROVE  FileTypes /\ Outcome(s)
<1> DEFINE home == <<HomeOf[s]>>
<1>1. /\ cwd' = [cwd EXCEPT ![s] = home]
      /\ tree' = IF Exists(home) THEN tree ELSE Naming(home, Dir)
      /\ Answer(s, "RESP_OK")
      /\ UNCHANGED <<data, climbed>>
  BY DEF Login
<1>2. HomeOf[s] \in Homes
  BY FilesAssumption
<1>3. home \in Paths /\ home \in AllPaths /\ Front(home) = <<>>
  BY <1>2, HomeIsPath
<1> HIDE DEF home
<1>4. cwd' \in [Sessions -> Paths] /\ DOMAIN data' = 1 .. MaxFiles /\ climbed' \in BOOLEAN
  BY <1>1, <1>3 DEF TypeInv, OtherTypes
<1>5. Outcome(s)
  BY <1>1 DEF Outcome, Replies
<1>6. CASE Exists(home)
  BY <1>1, <1>4, <1>5, <1>6, Unchanged DEF FileTypes
<1>7. CASE ~Exists(home)
  <2>1. Dir \in 0 .. MaxFiles /\ ~IsDir(home) /\ IsDir(Front(home))
    BY <1>3, <1>7, PathShape, FilesAssumption DEF Dir, IsDir
  <2>2. IsTree(Naming(home, Dir))
    BY <1>3, <2>1, Named DEF TypeInv
  <2> QED
    BY <1>1, <1>4, <1>5, <1>7, <2>2 DEF FileTypes, IsTree
<1> QED
  BY <1>6, <1>7

\* The files of "*", in some order.
LEMMA AllFilesListed ==
    ASSUME NEW S, IsFiniteSet(S)
    PROVE  /\ SetToSeq(S) \in Seq(S)
           /\ \A i \in 1 .. Len(SetToSeq(S)) : SetToSeq(S)[i] \in S
<1>1. Cardinality(S) \in Nat /\ ExistsBijection(1 .. Cardinality(S), S)
  BY FS_CardinalityType
<1>2. \E f \in [1 .. Cardinality(S) -> S] : IsInjective(f)
  BY <1>1 DEF ExistsBijection, Bijection, Injection
<1>3. SetToSeq(S) \in [1 .. Cardinality(S) -> S]
  BY <1>2 DEF SetToSeq
<1>4. SetToSeq(S) \in Seq(S)
  BY <1>1, <1>3
<1> QED
  BY <1>4, ElementOfSeq

LEMMA ListedFiles ==
    ASSUME TypeInv, NEW s \in Sessions, Len(cwd[s]) <= MaxDepth, NEW files \in Listings(s)
    PROVE  /\ files \in Seq(AllPaths)
           /\ \A i \in DOMAIN files : files[i] \in Paths /\ Front(files[i]) = cwd[s]
<1>1. PICK l \in SetToAllKPermutations(Names) \ {<<>>} : files = [i \in DOMAIN l |-> Append(cwd[s], l[i])]
  BY DEF Listings
<1>2. PICK S \in SUBSET Names : l \in SetToSeqs(S)
  BY <1>1 DEF SetToAllKPermutations
<1>3. l \in [1 .. Cardinality(S) -> S]
  BY <1>2 DEF SetToSeqs
<1>4. cwd[s] \in Paths /\ cwd[s] \in AllPaths
  BY PathsAmong DEF TypeInv, OtherTypes
<1>5. DOMAIN files = 1 .. Cardinality(S) /\ \A i \in 1 .. Cardinality(S) : files[i] = Append(cwd[s], l[i])
  BY <1>1, <1>3
<1>6. ASSUME NEW i \in DOMAIN files
      PROVE  files[i] \in Paths /\ Front(files[i]) = cwd[s] /\ files[i] \in AllPaths
  <2>1. l[i] \in Names
    BY <1>2, <1>3, <1>5
  <2>2. files[i] = Append(cwd[s], l[i])
    BY <1>5
  <2> QED
    BY <1>4, <2>1, <2>2, NameBelow
<1>7. files = [i \in 1 .. Cardinality(S) |-> files[i]]
  BY <1>1, <1>3
<1>8. Cardinality(S) \in Nat
  <2>1. IsFiniteSet(S)
    BY FilesAssumption, FS_Subset
  <2> QED
    BY <2>1, FS_CardinalityType
<1>9. files \in [1 .. Cardinality(S) -> AllPaths]
  BY <1>5, <1>6, <1>7
<1>10. files \in Seq(AllPaths)
  BY <1>8, <1>9
<1> QED
  BY <1>6, <1>10

LEMMA CompressTypes ==
    ASSUME TypeInv, NEW s \in Sessions, Compress(s) \/ CompressAll(s)
    PROVE  FileTypes /\ Outcome(s)
<1>1. UNCHANGED <<tree, data, cwd, climbed>> /\ Len(cwd[s]) <= MaxDepth
  BY DEF Compress, CompressAll
<1>2. FileTypes
  BY <1>1, Unchanged DEF FileTypes, TypeInv, OtherTypes
<1>3. cwd[s] \in Paths
  BY DEF TypeInv, OtherTypes
<1>4. CASE Compress(s)
  <2>1. PICK a \in Archives, f \in Formats, files \in Listings(s) :
           IF \A i \in DOMAIN files : Exists(files[i])
           THEN Continue(s, Archive(s, a, f, files))
           ELSE Answer(s, "RESP_IO_ERROR")
    BY <1>4 DEF Compress
  <2>2. files \in Seq(AllPaths)
    BY <1>1, ListedFiles
  <2>3. JobShape(Archive(s, a, f, files))
    BY <1>1, <1>3, <2>2, ArchiveShape DEF JobShape
  <2> QED
    BY <1>2, <2>1, <2>3 DEF Outcome, Replies
<1>5. CASE CompressAll(s)
  <2> DEFINE S == {p \in Below(cwd[s]) : IsFile(p)}
  <2>1. PICK a \in Archives, f \in Formats :
           IF IsDir(cwd[s]) THEN Continue(s, Archive(s, a, f, SetToSeq(S))) ELSE Throw(s, "cwd lost")
    BY <1>5 DEF CompressAll
  <2>2. S \in SUBSET DOMAIN tree /\ S \subseteq AllPaths
    BY InTree DEF TypeInv, Below
  <2>3. IsFiniteSet(S)
    BY <2>2, FS_Subset DEF TypeInv, IsTree
  <2> HIDE DEF S
  <2>4. SetToSeq(S) \in Seq(AllPaths)
    BY <2>2, <2>3, AllFilesListed, SeqMonotonic
  <2>5. JobShape(Archive(s, a, f, SetToSeq(S)))
    BY <1>1, <1>3, <2>4, ArchiveShape DEF JobShape
  <2> QED
    BY <1>2, <2>1, <2>5 DEF Outcome, Ends
<1> QED
  BY <1>4, <1>5

LEMMA ArchivingSteps ==
    ASSUME NEW s \in Sessions, JobShape(job[s]), job[s].step \in TarSteps \cup ZipSteps
    PROVE  Archiving(job[s])
<1>1. job[s].step # "idle" /\ job[s].step # "remove" /\ job[s].step # "clean"
  BY DEF TarSteps, ZipSteps
<1>2. job[s] # Idle
  BY <1>1 DEF Idle
<1> QED
  BY <1>1, <1>2 DEF JobShape, Cleaning, Removing

LEMMA NextStep ==
    ASSUME NEW j, Archiving(j)
    PROVE  /\ \A step \in TarSteps \cup ZipSteps :
                /\ Archiving([j EXCEPT !.step = step])
                /\ \A n \in 1 .. MaxFiles : Archiving([j EXCEPT !.step = step, !.out = n])
           /\ Archiving([j EXCEPT !.next = @ + 1])
<1>1. DOMAIN j = ArchiveFields /\ j.next \in Nat \ {0} /\ MaxFiles \in Nat
  BY FilesAssumption DEF Archiving
<1>2. ASSUME NEW step \in TarSteps \cup ZipSteps PROVE Archiving([j EXCEPT !.step = step])
  BY DEF Archiving, ArchiveFields
<1>3. ASSUME NEW step \in TarSteps \cup ZipSteps, NEW n \in 1 .. MaxFiles
      PROVE  Archiving([j EXCEPT !.step = step, !.out = n])
  <2>1. n \in 0 .. MaxFiles
    BY <1>1
  <2> QED
    BY <2>1 DEF Archiving, ArchiveFields
<1>4. Archiving([j EXCEPT !.next = @ + 1])
  <2>1. j.next + 1 \in Nat \ {0}
    BY <1>1
  <2> QED
    BY <2>1 DEF Archiving, ArchiveFields
<1> QED
  BY <1>2, <1>3, <1>4

LEMMA TarTypes ==
    ASSUME TypeInv, NEW s \in Sessions, TarOpen(s) \/ TarAdd(s) \/ ArchiveOpen(s)
    PROVE  FileTypes /\ Outcome(s)
<1> DEFINE j == job[s]
<1>1. Archiving(j)
  <2>1. j.step \in TarSteps \cup ZipSteps
    BY DEF TarOpen, TarAdd, ArchiveOpen, TarSteps
  <2> QED
    BY <2>1, ArchivingSteps DEF TypeInv
<1>2. cwd' \in [Sessions -> Paths] /\ climbed' \in BOOLEAN
  BY DEF TarOpen, TarAdd, ArchiveOpen, TypeInv, OtherTypes
<1>3. j.tar \in AllPaths /\ j.archive \in AllPaths
  BY <1>1 DEF Archiving
<1>4. "add" \in TarSteps \cup ZipSteps /\ "copy" \in TarSteps \cup ZipSteps
  BY DEF TarSteps
<1>5. CASE TarOpen(s)
  <2>1. Free # {}
    BY <1>5 DEF TarOpen
  <2>2. CASE CanCreate(j.tar)
    <3>1. Create(j.tar) /\ Continue(s, [j EXCEPT !.step = "add", !.out = NumberFor(j.tar)])
      BY <1>5, <2>2 DEF TarOpen
    <3>2. NumberFor(j.tar) \in 1 .. MaxFiles
      BY <1>3, <2>1, <2>2, NumberIsOwn DEF TypeInv
    <3>3. JobShape([j EXCEPT !.step = "add", !.out = NumberFor(j.tar)])
      BY <1>1, <1>4, <3>2, NextStep DEF JobShape
    <3>4. Outcome(s)
      BY <3>1, <3>3 DEF Outcome
    <3> QED
      BY <1>2, <1>3, <2>1, <2>2, <3>1, <3>4, CreateTypes DEF FileTypes
  <2>3. CASE ~CanCreate(j.tar)
    <3>1. Continue(s, [j EXCEPT !.step = "add"]) /\ UNCHANGED <<tree, data>>
      BY <1>5, <2>3 DEF TarOpen
    <3>2. JobShape([j EXCEPT !.step = "add"])
      BY <1>1, <1>4, NextStep DEF JobShape
    <3> QED
      BY <1>2, <3>1, <3>2, Unchanged DEF FileTypes, Outcome
  <2> QED
    BY <2>2, <2>3
<1>6. CASE TarAdd(s)
  <2> DEFINE f == j.files[j.next]
  <2>1. UNCHANGED tree
    BY <1>6 DEF TarAdd
  <2>2. CASE IsFile(f)
    <3>1. Continue(s, [j EXCEPT !.next = @ + 1])
      BY <1>6, <2>2 DEF TarAdd
    <3>2. DOMAIN data' = 1 .. MaxFiles
      <4>1. data' = data \/ \E m : data' = [data EXCEPT ![j.out] = WriteAt(@, j.next, m)]
        BY <1>6, <2>2 DEF TarAdd
      <4> QED
        BY <4>1 DEF TypeInv, OtherTypes
    <3>3. JobShape([j EXCEPT !.next = @ + 1])
      BY <1>1, NextStep DEF JobShape
    <3> QED
      BY <1>2, <2>1, <3>1, <3>2, <3>3 DEF FileTypes, Outcome, TypeInv, IsTree
  <2>3. CASE ~IsFile(f)
    <3>1. Throw(s, "directory listed") \/ Throw(s, "race")
      BY <1>6, <2>3 DEF TarAdd
    <3>2. UNCHANGED data
      BY <1>6, <2>3 DEF TarAdd
    <3> QED
      BY <1>2, <2>1, <3>1, <3>2, Unchanged DEF FileTypes, Outcome, Ends
  <2> QED
    BY <2>2, <2>3
<1>7. CASE ArchiveOpen(s)
  <2>1. Free # {}
    BY <1>7 DEF ArchiveOpen
  <2>2. CASE CanCreate(j.archive)
    <3>1. Create(j.archive) /\ Continue(s, [j EXCEPT !.step = "copy", !.out = NumberFor(j.archive)])
      BY <1>7, <2>2 DEF ArchiveOpen
    <3>2. NumberFor(j.archive) \in 1 .. MaxFiles
      BY <1>3, <2>1, <2>2, NumberIsOwn DEF TypeInv
    <3>3. JobShape([j EXCEPT !.step = "copy", !.out = NumberFor(j.archive)])
      BY <1>1, <1>4, <3>2, NextStep DEF JobShape
    <3>4. Outcome(s)
      BY <3>1, <3>3 DEF Outcome
    <3> QED
      BY <1>2, <1>3, <2>1, <2>2, <3>1, <3>4, CreateTypes DEF FileTypes
  <2>3. CASE ~CanCreate(j.archive)
    <3>1. Answer(s, "RESP_IO_ERROR") /\ UNCHANGED <<tree, data>>
      BY <1>7, <2>3 DEF ArchiveOpen
    <3> QED
      BY <1>2, <3>1, Unchanged DEF FileTypes, Outcome, Replies
  <2> QED
    BY <2>2, <2>3
<1> QED
  BY <1>5, <1>6, <1>7

LEMMA ArchiveTypes ==
    ASSUME TypeInv, NEW s \in Sessions, ArchiveCopy(s) \/ TarUnlink(s) \/ ZipOpen(s) \/ ZipClose(s)
    PROVE  FileTypes /\ Outcome(s)
<1> DEFINE j == job[s]
<1>1. Archiving(j)
  <2>1. j.step \in TarSteps \cup ZipSteps
    BY DEF ArchiveCopy, TarUnlink, ZipOpen, ZipClose, TarSteps, ZipSteps
  <2> QED
    BY <2>1, ArchivingSteps DEF TypeInv
<1>2. cwd' \in [Sessions -> Paths] /\ climbed' \in BOOLEAN
  BY DEF ArchiveCopy, TarUnlink, ZipOpen, ZipClose, TypeInv, OtherTypes
<1>3. j.tar \in AllPaths /\ j.archive \in AllPaths
  BY <1>1 DEF Archiving
<1>4. "unlink" \in TarSteps \cup ZipSteps /\ "zip close" \in TarSteps \cup ZipSteps
  BY DEF TarSteps, ZipSteps
<1>5. CASE ArchiveCopy(s)
  <2>1. UNCHANGED tree
    BY <1>5 DEF ArchiveCopy
  <2>2. \/ Answer(s, "RESP_IO_ERROR") /\ UNCHANGED data
        \/ Continue(s, [j EXCEPT !.step = "unlink"]) /\ \E v : data' = [data EXCEPT ![j.out] = v]
    BY <1>5 DEF ArchiveCopy
  <2>3. DOMAIN data' = 1 .. MaxFiles
    BY <2>2 DEF TypeInv, OtherTypes
  <2>4. JobShape([j EXCEPT !.step = "unlink"])
    BY <1>1, <1>4, NextStep DEF JobShape
  <2>5. Outcome(s)
    BY <2>2, <2>4 DEF Outcome, Replies
  <2> QED
    BY <1>2, <2>1, <2>3, <2>5 DEF FileTypes, TypeInv, IsTree
<1>6. CASE TarUnlink(s)
  <2>1. /\ IF Exists(j.tar) /\ Below(j.tar) = {} THEN Unlink(j.tar) ELSE UNCHANGED <<tree, data>>
        /\ Answer(s, "RESP_COMPRESS")
    BY <1>6 DEF TarUnlink
  <2>2. IsTree(tree)' /\ DOMAIN data' = 1 .. MaxFiles
    <3>1. CASE Exists(j.tar) /\ Below(j.tar) = {}
      BY <2>1, <3>1, UnlinkTypes DEF Exists
    <3>2. CASE ~(Exists(j.tar) /\ Below(j.tar) = {})
      BY <2>1, <3>2, Unchanged
    <3> QED
      BY <3>1, <3>2
  <2> QED
    BY <1>2, <2>1, <2>2 DEF FileTypes, Outcome, Replies
<1>7. CASE ZipOpen(s)
  <2>1. Answer(s, "RESP_IO_ERROR") \/ Continue(s, [j EXCEPT !.step = "zip close"])
    BY <1>7 DEF ZipOpen
  <2>2. JobShape([j EXCEPT !.step = "zip close"])
    BY <1>1, <1>4, NextStep DEF JobShape
  <2>3. Outcome(s)
    BY <2>1, <2>2 DEF Outcome, Replies
  <2> QED
    BY <1>2, <1>7, <2>3, Unchanged DEF ZipOpen, FileTypes
<1>8. CASE ZipClose(s)
  <2>1. Free # {} /\ Answer(s, "RESP_COMPRESS")
    BY <1>8 DEF ZipClose
  <2>2. \/ IsFile(j.archive) /\ Unlink(j.archive)
        \/ UNCHANGED <<tree, data>>
        \/ /\ CanCreate(j.archive) /\ tree' = Naming(j.archive, Fresh)
           /\ \E v : data' = [data EXCEPT ![Fresh] = v]
    BY <1>8 DEF ZipClose
  <2>3. IsTree(tree)' /\ DOMAIN data' = 1 .. MaxFiles
    <3>1. CASE IsFile(j.archive) /\ Unlink(j.archive)
      <4>1. j.archive \in DOMAIN tree /\ ~IsDir(j.archive)
        BY <1>3, <3>1, PathShape DEF IsFile, IsDir, Exists
      <4>2. Below(j.archive) = {}
        BY <1>3, <4>1, NothingBelow, PathShape DEF TypeInv
      <4> QED
        BY <3>1, <4>1, <4>2, UnlinkTypes
    <3>2. CASE UNCHANGED <<tree, data>>
      BY <3>2, Unchanged
    <3>3. CASE /\ CanCreate(j.archive) /\ tree' = Naming(j.archive, Fresh)
               /\ \E v : data' = [data EXCEPT ![Fresh] = v]
      <4>1. IsTree(Naming(j.archive, Fresh))
        BY <1>3, <2>1, <3>3, FreshTree DEF TypeInv
      <4> QED
        BY <3>3, <4>1 DEF IsTree, TypeInv, OtherTypes
    <3> QED
      BY <2>2, <3>1, <3>2, <3>3
  <2> QED
    BY <1>2, <2>1, <2>3 DEF FileTypes, Outcome, Replies
<1> QED
  BY <1>5, <1>6, <1>7, <1>8

LEMMA OutcomeTypes ==
    ASSUME TypeInv, NEW s \in Sessions, FileTypes, Outcome(s), Remember(s),
           requests' \in 0 .. MaxRequests
    PROVE  TypeInv'
<1>1. DOMAIN job' = Sessions /\ \A t \in Sessions : JobShape(job'[t])
  <2>1. CASE \E r \in Replies : Answer(s, r)
    BY <2>1 DEF Answer, TypeInv, OtherTypes, JobShape
  <2>2. CASE \E j : JobShape(j) /\ Continue(s, j)
    BY <2>2 DEF Continue, TypeInv, OtherTypes
  <2>3. CASE \E w \in Ends : Throw(s, w)
    BY <2>3 DEF Throw, TypeInv, OtherTypes
  <2> QED
    BY <2>1, <2>2, <2>3 DEF Outcome
<1>2. ended' \in Ends
  BY DEF Outcome, Answer, Continue, Throw, TypeInv, OtherTypes
<1>3. \E r \in Replies : last' = <<s, r>>
  <2>1. "none" \in Replies
    BY DEF Replies
  <2> QED
    BY <2>1 DEF Outcome, Answer, Continue, Throw
<1>4. last' \in (Sessions \cup {"nobody"}) \X Replies
  BY <1>3
<1>5. overlapped' \in [Sessions -> BOOLEAN] /\ changed' \in [Sessions -> BOOLEAN]
  <2>1. \A t \in Sessions : overlapped[t] \in BOOLEAN /\ changed[t] \in BOOLEAN
    BY DEF TypeInv, OtherTypes
  <2> QED
    BY <2>1, Zenon DEF Remember
<1>6. \A t \in Sessions : JobShape(job[t])'
  BY <1>1 DEF JobShape, Idle, Removing, Cleaning, Archiving, RemoveFields, ArchiveFields, TarSteps, ZipSteps
<1> QED
  BY <1>1, <1>2, <1>4, <1>5, <1>6 DEF TypeInv, OtherTypes, FileTypes

LEMMA Requested ==
    ASSUME TypeInv, NEW s \in Sessions, Ask(s) \/ Work(s)
    PROVE  requests' \in 0 .. MaxRequests
<1>1. requests \in 0 .. MaxRequests /\ MaxRequests \in Nat
  BY FilesAssumption DEF TypeInv, OtherTypes
<1>2. CASE Ask(s)
  <2>1. requests < MaxRequests /\ requests' = requests + 1
    BY <1>2 DEF Ask
  <2> QED
    BY <1>1, <2>1
<1>3. CASE Work(s)
  <2>1. requests' = requests
    BY <1>3 DEF Work
  <2> QED
    BY <1>1, <2>1
<1> QED
  BY <1>2, <1>3

LEMMA StepTypes ==
    ASSUME TypeInv, NEW s \in Sessions, Step(s)
    PROVE  FileTypes /\ Outcome(s) /\ TypeInv'
<1>1. FileTypes /\ Outcome(s)
  <2>1. CASE Ask(s)
    BY <2>1, RemovePathTypes, RemoveTypes, CleanTypes, MakeDirectoryTypes, ChangeDirectoryTypes,
       MoveTypes, CopyTypes, LoginTypes, CompressTypes DEF Ask
  <2>2. CASE Work(s)
    BY <2>2, RemoveTypes, CleanTypes, TarTypes, ArchiveTypes DEF Work
  <2> QED
    BY <2>1, <2>2 DEF Step
<1>2. requests' \in 0 .. MaxRequests /\ Remember(s)
  BY Requested DEF Step
<1> QED
  BY <1>1, <1>2, OutcomeTypes

LEMMA TypeStutters == TypeInv /\ UNCHANGED vars => TypeInv'
BY DEF TypeInv, OtherTypes, IsTree, JobShape, Idle, Removing, Cleaning, Archiving, vars

\* Above the initial files are directories only.
Initial(p) == p \in Seq(Elements) /\ p # <<>> /\ \E i \in DOMAIN InitialFiles : IsPrefix(p, InitialFiles[i])

InitialAbove == UNION {Prefixes(f) : f \in Range(InitialFiles)}

LEMMA InitialPaths ==
    /\ DOMAIN InitialFiles = 1 .. Len(InitialFiles) /\ Len(InitialFiles) \in Nat
    /\ Len(InitialFiles) < MaxFiles
    /\ \A i \in DOMAIN InitialFiles : InitialFiles[i] \in AllPaths /\ InitialFiles[i] \in Seq(Elements)
    /\ \A p : p \in InitialAbove \ {<<>>} <=> Initial(p)
<1>1. /\ DOMAIN InitialFiles = 1 .. Len(InitialFiles) /\ Len(InitialFiles) \in Nat
      /\ Len(InitialFiles) < MaxFiles
      /\ \A i \in DOMAIN InitialFiles : InitialFiles[i] \in Paths
  <2>1. InitialFiles \in Seq(Paths) /\ MaxFiles \in Nat /\ MaxFiles > Len(InitialFiles)
    BY FilesAssumption
  <2>2. DOMAIN InitialFiles = 1 .. Len(InitialFiles) /\ Len(InitialFiles) \in Nat
    BY <2>1, LenProperties
  <2> QED
    BY <2>1, <2>2, ElementOfSeq
<1>2. \A i \in DOMAIN InitialFiles : InitialFiles[i] \in AllPaths /\ InitialFiles[i] \in Seq(Elements)
  BY <1>1, PathsAmong, PathShape
<1>3. ASSUME NEW f \in Seq(Elements), NEW p
      PROVE  p \in Prefixes(f) <=> p \in Seq(Elements) /\ IsPrefix(p, f)
  <2>1. Len(f) \in Nat /\ \A i \in 1 .. Len(f) : f[i] \in Elements
    BY LenProperties, ElementOfSeq
  <2>2. ASSUME NEW n \in 0 .. Len(f)
        PROVE  SubSeq(f, 1, n) \in Seq(Elements) /\ IsPrefix(SubSeq(f, 1, n), f)
    <3> DEFINE q == SubSeq(f, 1, n)
    <3>1. q \in Seq(Elements) /\ Len(q) = (IF 1 <= n THEN n - 1 + 1 ELSE 0)
          /\ \A i \in 1 .. n - 1 + 1 : q[i] = f[1 + i - 1]
      <4>1. 1 \in Int /\ n \in Int /\ \A i \in 1 .. n : f[i] \in Elements
        BY <2>1
      <4> QED
        BY <4>1, SubSeqProperties
    <3>2. Len(q) = n /\ \A i \in 1 .. n : q[i] = f[i]
      BY <2>1, <3>1
    <3> HIDE DEF q
    <3>3. IsPrefix(q, f)
      BY <2>1, <3>1, <3>2, Prefixed
    <3> QED
      BY <3>1, <3>3 DEF q
  <2>3. ASSUME p \in Seq(Elements), IsPrefix(p, f)
        PROVE  \E n \in 0 .. Len(f) : p = SubSeq(f, 1, n)
    <3>1. Len(p) \in Nat /\ SubSeq(p, 1, Len(p)) = p
      BY <2>3, LenProperties, SubSeqFull
    <3>2. Len(p) <= Len(f) /\ SubSeq(p, 1, Len(p)) = SubSeq(f, 1, Len(p))
      BY <2>3 DEF IsPrefix
    <3>3. Len(p) \in 0 .. Len(f) /\ p = SubSeq(f, 1, Len(p))
      BY <2>1, <3>1, <3>2
    <3> QED
      BY <3>3
  <2> QED
    BY <2>2, <2>3 DEF Prefixes
<1>4. ASSUME NEW p
      PROVE  p \in InitialAbove <=> \E i \in DOMAIN InitialFiles : p \in Prefixes(InitialFiles[i])
  <2>1. p \in UNION {Prefixes(f) : f \in Range(InitialFiles)} <=>
           \E f \in Range(InitialFiles) : p \in Prefixes(f)
    BY Zenon
  <2> QED
    BY <2>1 DEF Range, InitialAbove
<1>5. \A p : p \in InitialAbove \ {<<>>} <=> Initial(p)
  <2>1. \A p : p \in InitialAbove \ {<<>>} <=> p \in InitialAbove /\ p # <<>>
    OBVIOUS
  <2> QED
    BY <1>2, <1>3, <1>4, <2>1 DEF Initial
<1> QED
  BY <1>1, <1>2, <1>5

LEMMA InitialTree == Init => IsTree(tree)
<1> SUFFICES ASSUME Init PROVE IsTree(tree)
  OBVIOUS
<1> DEFINE Number(p) == CHOOSE n \in DOMAIN InitialFiles : InitialFiles[n] = p
           D == InitialAbove \ {<<>>}
           At(p) == IF Contains(InitialFiles, p) THEN Number(p) ELSE Dir
<1>1. tree = [p \in D |-> At(p)]
  BY DEF Init, InitialAbove
<1>2. /\ DOMAIN InitialFiles = 1 .. Len(InitialFiles) /\ Len(InitialFiles) \in Nat
      /\ Len(InitialFiles) < MaxFiles /\ MaxFiles \in Nat /\ MaxDepth \in Nat
      /\ \A i \in DOMAIN InitialFiles : InitialFiles[i] \in AllPaths /\ InitialFiles[i] \in Seq(Elements)
      /\ \A p : p \in D <=> Initial(p)
  BY InitialPaths, FilesAssumption
<1>3. ASSUME NEW p, NEW i \in DOMAIN InitialFiles, p = InitialFiles[i]
      PROVE  Number(p) \in DOMAIN InitialFiles /\ InitialFiles[Number(p)] = p
  BY <1>3
<1>4. \A p : Contains(InitialFiles, p) <=> \E i \in DOMAIN InitialFiles : InitialFiles[i] = p
  BY <1>2 DEF Contains
<1> HIDE DEF D, Number
<1>5. ASSUME NEW p \in D
      PROVE  /\ tree[p] \in 0 .. MaxFiles
             /\ tree[p] # Dir => tree[p] \in DOMAIN InitialFiles /\ InitialFiles[tree[p]] = p
             /\ (\A i \in DOMAIN InitialFiles : InitialFiles[i] # p) => tree[p] = Dir
  <2>1. tree[p] = At(p)
    BY <1>1
  <2>2. CASE Contains(InitialFiles, p)
    <3>1. tree[p] = Number(p)
      BY <2>1, <2>2
    <3> QED
      BY <1>2, <1>3, <1>4, <2>2, <3>1
  <2>3. CASE ~Contains(InitialFiles, p)
    <3>1. tree[p] = Dir
      BY <2>1, <2>3
    <3> QED
      BY <1>2, <3>1 DEF Dir
  <2> QED
    BY <2>2, <2>3
<1>6. DOMAIN tree = D
  BY <1>1
<1>7. tree = [p \in D |-> tree[p]]
  BY <1>1
<1> HIDE DEF At
<1>8. D \subseteq AllPaths
  <2> SUFFICES ASSUME NEW p \in D PROVE PathOf(p, Names \cup Written)
    BY PathsAre
  <2>1. PICK i \in DOMAIN InitialFiles : IsPrefix(p, InitialFiles[i])
    BY <1>2 DEF Initial
  <2>2. p \in Seq(Elements) /\ p # <<>>
    BY <1>2 DEF Initial
  <2> DEFINE f == InitialFiles[i]
  <2>3. f \in Seq(Elements) /\ PathOf(f, Names \cup Written)
    BY <1>2, PathsAre
  <2> HIDE DEF f
  <2>4. Len(p) \in Nat /\ Len(p) # 0 /\ Len(f) \in Nat
    BY <2>2, <2>3, EmptySeq, LenProperties
  <2>5. Len(p) <= Len(f) /\ \A k \in 1 .. Len(p) : p[k] = f[k]
    BY <2>1, <2>2, <2>3, Prefixed DEF f
  <2>6. Len(p) \in 1 .. MaxDepth + 1
    BY <1>2, <2>3, <2>4, <2>5 DEF PathOf
  <2>7. p[1] \in Homes /\ \A k \in 2 .. Len(p) : p[k] \in Names \cup Written
    BY <2>3, <2>4, <2>5 DEF PathOf
  <2> QED
    BY <2>2, <2>6, <2>7 DEF PathOf
<1>9. tree \in [D -> 0 .. MaxFiles]
  BY <1>7, <1>5
<1>10. ASSUME NEW p \in D, NEW r \in Seq(Elements), r # <<>>, IsStrictPrefix(r, p)
      PROVE  r \in D /\ tree[r] = Dir
  <2>1. PICK i \in DOMAIN InitialFiles : IsPrefix(p, InitialFiles[i])
    BY <1>2 DEF Initial
  <2>2. p \in Seq(Elements) /\ Len(p) \in Nat /\ Len(r) \in Nat
    BY <1>2, LenProperties DEF Initial
  <2> DEFINE f == InitialFiles[i]
  <2>3. f \in Seq(Elements) /\ Len(f) \in Nat
    BY <1>2, LenProperties
  <2>4. Len(r) < Len(p) /\ \A k \in 1 .. Len(r) : r[k] = p[k]
    BY <1>10, <2>2, Prefixed
  <2>5. Len(p) <= Len(f) /\ \A k \in 1 .. Len(p) : p[k] = f[k]
    BY <2>1, <2>2, <2>3, Prefixed
  <2> HIDE DEF f
  <2>6. Len(r) < Len(f) /\ \A k \in 1 .. Len(r) : r[k] = f[k]
    BY <2>2, <2>3, <2>4, <2>5
  <2>7. IsStrictPrefix(r, f) /\ IsPrefix(r, f)
    BY <2>2, <2>3, <2>6, Prefixed
  <2>8. r \in D
    BY <1>2, <1>10, <2>7 DEF Initial, f
  <2>9. ASSUME NEW k \in DOMAIN InitialFiles, InitialFiles[k] = r PROVE FALSE
    <3>1. k # i
      BY <2>7, <2>9 DEF f, IsStrictPrefix
    <3>2. ~IsPrefix(InitialFiles[k], InitialFiles[i])
      BY <3>1, FilesAssumption
    <3> QED
      BY <2>7, <2>9, <3>2 DEF f
  <2> QED
    BY <1>5, <2>8, <2>9
<1>11. \A p, q \in D : tree[p] = tree[q] /\ tree[p] # Dir => p = q
  BY <1>5
<1>12. IsFiniteSet(D)
  <2> DEFINE I == DOMAIN InitialFiles
             L == 0 .. MaxDepth + 1
             g == [x \in I \X L |-> SubSeq(InitialFiles[x[1]], 1, x[2])]
  <2>1. IsFiniteSet(I) /\ IsFiniteSet(L)
    BY <1>2, FS_Interval
  <2>2. IsFiniteSet(I \X L)
    BY <2>1, FS_Product
  <2>3. g \in Surjection(I \X L, Range(g))
    BY DEF Surjection, Range
  <2>4. IsFiniteSet(Range(g))
    BY <2>2, <2>3, FS_Surjection
  <2>5. ASSUME NEW p \in D PROVE p \in Range(g)
    <3>1. PICK i \in I : IsPrefix(p, InitialFiles[i])
      BY <1>2, <2>5 DEF Initial
    <3>2. p \in Seq(Elements) /\ p \in AllPaths
      BY <1>2, <1>8, <2>5 DEF Initial
    <3>3. Len(p) \in L /\ SubSeq(p, 1, Len(p)) = p
      BY <1>2, <3>2, PathShape, SubSeqFull
    <3>4. p = SubSeq(InitialFiles[i], 1, Len(p))
      BY <3>1, <3>3 DEF IsPrefix
    <3>5. <<i, Len(p)>> \in I \X L /\ g[<<i, Len(p)>>] = p
      BY <3>3, <3>4
    <3> QED
      BY <3>5 DEF Range
  <2> HIDE DEF g
  <2>6. D \in SUBSET Range(g)
    BY <2>5
  <2> QED
    BY <2>4, <2>6, FS_Subset
<1> QED
  BY <1>6, <1>8, <1>9, <1>10, <1>11, <1>12 DEF IsTree

LEMMA TypeInvHolds == Spec => []TypeInv
<1>1. Init => TypeInv
  <2> SUFFICES ASSUME Init PROVE TypeInv
    OBVIOUS
  <2>1. IsTree(tree)
    BY InitialTree
  <2>2. \A s \in Sessions : <<HomeOf[s]>> \in Paths
    BY HomeIsPath, FilesAssumption
  <2>3. \A s \in Sessions : JobShape(job[s])
    BY DEF Init, JobShape
  <2>4. cwd \in [Sessions -> Paths]
    BY <2>2 DEF Init
  <2>5. 0 \in 0 .. MaxRequests
    BY FilesAssumption
  <2>6. OtherTypes
    BY <2>4, <2>5 DEF Init, OtherTypes, Replies, Ends
  <2> QED
    BY <2>1, <2>3, <2>6 DEF TypeInv
<1>2. TypeInv /\ [Next]_vars => TypeInv'
  <2> SUFFICES ASSUME TypeInv, [Next]_vars PROVE TypeInv'
    OBVIOUS
  <2>1. CASE \E s \in Sessions : Step(s)
    BY <2>1, StepTypes
  <2>2. CASE Rest \/ UNCHANGED vars
    BY <2>2, TypeStutters DEF Rest
  <2> QED
    BY <2>1, <2>2 DEF Next
<1> QED
  BY <1>1, <1>2, PTL DEF Spec

(***************************************************************************)
(* The variables keep their types; what names what stays a tree.           *)
(***************************************************************************)
THEOREM TypeCorrect == Spec => []TypeOK
BY TypeInvHolds, TypeInvIsTypeOK, PTL
-----------------------------------------------------------------------------
(***************************************************************************)
(* Whose files a session changes.  Its current directory, what it removes  *)
(* with rm, its tar and its archive are in its user's home, and so is any  *)
(* name of the file it has open; another user cannot have moved that away. *)
(***************************************************************************)
OwnTarget(s, j) ==
    /\ j.step \in TarSteps \cup ZipSteps => Head(j.tar) = HomeOf[s] /\ Head(j.archive) = HomeOf[s]
    /\ j.step = "remove" /\ j.cmd = "rm" => j.target # <<>> /\ Head(j.target) = HomeOf[s]

OutIsOwn(s, j, t) ==
    "out" \in DOMAIN j /\ j.out # Dir => \A p \in DOMAIN t : t[p] = j.out => Head(p) = HomeOf[s]

OwnInv ==
    \A s \in Sessions :
        /\ Head(cwd[s]) = HomeOf[s]
        /\ OwnTarget(s, job[s])
        /\ job[s].step = "remove" /\ job[s].cmd = "rm .." => climbed
        /\ OutIsOwn(s, job[s], tree)

\* What s makes of the tree: what is new in it is s's, and was s's or nobody's before.
OwnNames(s) ==
    \A p \in DOMAIN tree' :
        \/ p \in DOMAIN tree /\ tree'[p] = tree[p]
        \/ /\ Head(p) = HomeOf[s]
           /\ \/ tree'[p] = Dir \/ tree'[p] \notin Open
              \/ \E m \in DOMAIN tree : Head(m) = HomeOf[s] /\ tree[m] = tree'[p]

OthersSame(s) ==
    \A p \in DOMAIN tree \cup DOMAIN tree' : Head(p) # HomeOf[s] => Same(p)

LEMMA NothingChanged ==
    ASSUME NEW s \in Sessions, UNCHANGED <<tree, data>> PROVE OwnNames(s) /\ OthersSame(s)
BY DEF OwnNames, OthersSame, Same, Exists, IsFile

LEMMA UnlinkOwn ==
    ASSUME NEW s \in Sessions, NEW p \in DOMAIN tree, Unlink(p)
    PROVE  OwnNames(s) /\ (Head(p) = HomeOf[s] => OthersSame(s))
<1>1. DOMAIN tree' = DOMAIN tree \ {p} /\ (\A q \in DOMAIN tree' : tree'[q] = tree[q]) /\ data' = data
  BY DEF Unlink
<1>2. OwnNames(s)
  BY <1>1 DEF OwnNames
<1>3. ASSUME Head(p) = HomeOf[s] PROVE OthersSame(s)
  BY <1>1, <1>3 DEF OthersSame, Same
<1> QED
  BY <1>2, <1>3

LEMMA NameOwn ==
    ASSUME NEW s \in Sessions, NEW p, Head(p) = HomeOf[s], NEW v, tree' = Naming(p, v),
           v = Dir \/ v \notin Open \/ (p \in DOMAIN tree /\ tree[p] = v),
           v # Dir => \A q \in DOMAIN tree : tree[q] = v => q = p,
           data' = data \/ (v # Dir /\ \E d : data' = [data EXCEPT ![v] = d]),
           DOMAIN data = 1 .. MaxFiles, IsTree(tree)
    PROVE  OwnNames(s) /\ OthersSame(s)
<1>1. /\ DOMAIN tree' = DOMAIN tree \cup {p}
      /\ \A q \in DOMAIN tree' : tree'[q] = IF q = p THEN v ELSE tree[q]
  BY DEF Naming
<1>2. OwnNames(s)
  BY <1>1 DEF OwnNames
<1>3. ASSUME NEW q \in DOMAIN tree \cup DOMAIN tree', Head(q) # HomeOf[s] PROVE Same(q)
  <2>1. q # p /\ q \in DOMAIN tree /\ q \in DOMAIN tree' /\ tree'[q] = tree[q]
    BY <1>1, <1>3
  <2>2. ASSUME tree[q] # Dir PROVE data'[tree[q]] = data[tree[q]]
    <3>1. tree[q] \in 1 .. MaxFiles
      BY <2>1, <2>2, FilesAssumption DEF IsTree, Dir
    <3>2. v # Dir => tree[q] # v
      BY <2>1
    <3> QED
      BY <3>1, <3>2
  <2> QED
    BY <2>1, <2>2 DEF Same, IsFile, Exists
<1> QED
  BY <1>2, <1>3 DEF OthersSame

LEMMA WriteOwn ==
    ASSUME NEW s \in Sessions, UNCHANGED tree, NEW n,
           n # Dir => \A p \in DOMAIN tree : tree[p] = n => Head(p) = HomeOf[s],
           data' = data \/ \E d : data' = [data EXCEPT ![n] = d],
           DOMAIN data = 1 .. MaxFiles, IsTree(tree)
    PROVE  OwnNames(s) /\ OthersSame(s)
<1>1. OwnNames(s)
  BY DEF OwnNames
<1>2. ASSUME NEW q \in DOMAIN tree \cup DOMAIN tree', Head(q) # HomeOf[s] PROVE Same(q)
  <2>1. q \in DOMAIN tree /\ q \in DOMAIN tree' /\ tree'[q] = tree[q]
    BY <1>2
  <2>2. ASSUME tree[q] # Dir PROVE data'[tree[q]] = data[tree[q]]
    <3>1. tree[q] # n
      BY <1>2, <2>1, <2>2
    <3>2. tree[q] \in 1 .. MaxFiles
      BY <2>1, <2>2, FilesAssumption DEF IsTree, Dir
    <3> QED
      BY <3>1, <3>2
  <2> QED
    BY <2>1, <2>2 DEF Same, IsFile, Exists
<1> QED
  BY <1>1, <1>2 DEF OthersSame

\* A path below another begins with the same home.
LEMMA SameHome ==
    ASSUME NEW p \in Seq(Elements), p # <<>>, NEW r \in Seq(Elements), IsPrefix(p, r)
    PROVE  Head(r) = Head(p)
<1>1. Len(p) \in Nat /\ Len(p) # 0 /\ Len(p) <= Len(r) /\ Len(r) \in Nat /\ p[1] = r[1]
  BY EmptySeq, Prefixed, LenProperties
<1>2. r # <<>>
  BY <1>1, EmptySeq
<1>3. Head(r) = r[1] /\ Head(p) = p[1]
  BY <1>2
<1> QED
  BY <1>1, <1>3

LEMMA RenameOwn ==
    ASSUME NEW s \in Sessions, IsTree(tree), NEW p \in AllPaths, NEW q \in AllPaths, CanRename(p, q),
           Head(p) = HomeOf[s], Head(q) = HomeOf[s], tree' = Renamed(p, q), data' = data
    PROVE  OwnNames(s) /\ OthersSame(s)
<1>1. RenamedShape(p, q, tree')
  BY RenamedIs
<1>2. /\ p \in Seq(Elements) /\ q \in Seq(Elements) /\ p # <<>> /\ q # <<>>
      /\ \A r \in DOMAIN tree : r \in Seq(Elements)
  BY PathShape, InTree
<1>3. ASSUME NEW m, Moves(p, m)
      PROVE  m \in DOMAIN tree /\ Head(m) = HomeOf[s] /\ Head(Moved(p, q, m)) = HomeOf[s]
  <2>1. m \in DOMAIN tree /\ m \in Seq(Elements) /\ IsPrefix(p, m)
    BY <1>2, <1>3 DEF Moves
  <2>2. Moved(p, q, m) \in Seq(Elements) /\ IsPrefix(q, Moved(p, q, m))
    BY <1>2, <2>1, MovedPath
  <2> QED
    BY <1>2, <2>1, <2>2, SameHome
<1>4. OwnNames(s)
  <2> SUFFICES ASSUME NEW r \in DOMAIN tree'
               PROVE  \/ r \in DOMAIN tree /\ tree'[r] = tree[r]
                      \/ /\ Head(r) = HomeOf[s]
                         /\ \E m \in DOMAIN tree : Head(m) = HomeOf[s] /\ tree[m] = tree'[r]
    BY DEF OwnNames
  <2>1. CASE Stays(p, q, r)
    BY <1>1, <2>1 DEF RenamedShape, Stays
  <2>2. ASSUME NEW m, Moves(p, m), r = Moved(p, q, m)
        PROVE  Head(r) = HomeOf[s] /\ m \in DOMAIN tree /\ Head(m) = HomeOf[s] /\ tree[m] = tree'[r]
    BY <1>1, <1>3, <2>2 DEF RenamedShape
  <2> QED
    BY <1>1, <2>1, <2>2 DEF RenamedShape
<1>5. OthersSame(s)
  <2> SUFFICES ASSUME NEW r \in DOMAIN tree \cup DOMAIN tree', Head(r) # HomeOf[s]
               PROVE  r \in DOMAIN tree /\ r \in DOMAIN tree' /\ tree'[r] = tree[r]
    BY DEF OthersSame, Same
  <2>1. r \in DOMAIN tree' => r \in DOMAIN tree
    BY <1>1, <1>3 DEF RenamedShape, Stays
  <2>2. r \in DOMAIN tree /\ r \in Seq(Elements)
    BY <1>2, <2>1
  <2>3. ~IsPrefix(p, r) /\ ~IsPrefix(q, r)
    BY <1>2, <2>2, SameHome
  <2>4. Stays(p, q, r)
    BY <2>2, <2>3 DEF Stays
  <2> QED
    BY <1>1, <2>4 DEF RenamedShape, Stays
<1> QED
  BY <1>4, <1>5

\* What a step of s keeps of OwnInv, and what it is to show of OwnFilesOnly.
OwnStep(s) ==
    /\ OwnNames(s)
    /\ climbed' \/ "left" \in DOMAIN job[s] \/ OthersSame(s)
    /\ Head(cwd'[s]) = HomeOf[s] /\ \A t \in Sessions \ {s} : cwd'[t] = cwd[t]
    /\ climbed => climbed'
    /\ OwnTarget(s, job'[s])
    /\ job'[s].step = "remove" /\ job'[s].cmd = "rm .." => climbed'
    /\ OutIsOwn(s, job'[s], tree')

LEMMA EntryIs ==
    ASSUME TypeInv, NEW s \in Sessions, NEW n \in Names \cup Written
    PROVE  LET p == Append(cwd[s], n) IN
           p \in Seq(Elements) /\ p # <<>> /\ Head(p) = Head(cwd[s])
<1>1. cwd[s] \in Seq(Elements) /\ cwd[s] # <<>> /\ n \in Elements /\ Len(cwd[s]) \in Nat /\ Len(cwd[s]) > 0
  BY PathsAmong, PathShape DEF TypeInv, OtherTypes, Elements
<1> DEFINE p == Append(cwd[s], n)
<1>2. p \in Seq(Elements) /\ Len(p) = Len(cwd[s]) + 1 /\ \A i \in 1 .. Len(cwd[s]) : p[i] = cwd[s][i]
  BY <1>1, AppendProperties
<1>3. p[1] = cwd[s][1] /\ Len(p) # 0
  BY <1>1, <1>2
<1> HIDE DEF p
<1>4. p # <<>>
  BY <1>2, <1>3, EmptySeq
<1>5. Head(p) = p[1] /\ Head(cwd[s]) = cwd[s][1]
  BY <1>1, <1>4
<1> QED
  BY <1>2, <1>3, <1>4, <1>5 DEF p

\* An open file stays its user's, whatever the session makes of the tree.
LEMMA OutStays ==
    ASSUME NEW s \in Sessions, NEW t \in Sessions, OwnNames(s),
           OutIsOwn(s, job[s], tree), OutIsOwn(t, job[t], tree)
    PROVE  OutIsOwn(t, job[t], tree')
<1> SUFFICES ASSUME "out" \in DOMAIN job[t], job[t].out # Dir,
                    NEW p \in DOMAIN tree', tree'[p] = job[t].out
             PROVE  Head(p) = HomeOf[t]
  BY DEF OutIsOwn
<1>1. job[t].out \in Open
  BY DEF Open
<1>2. CASE p \in DOMAIN tree /\ tree'[p] = tree[p]
  BY <1>2 DEF OutIsOwn
<1>3. CASE Head(p) = HomeOf[s] /\ \E m \in DOMAIN tree : Head(m) = HomeOf[s] /\ tree[m] = tree'[p]
  <2>1. PICK m \in DOMAIN tree : Head(m) = HomeOf[s] /\ tree[m] = tree'[p]
    BY <1>3
  <2>2. Head(m) = HomeOf[t]
    BY <2>1 DEF OutIsOwn
  <2> QED
    BY <1>3, <2>1, <2>2
<1> QED
  BY <1>1, <1>2, <1>3 DEF OwnNames

\* The steps that change neither the files nor the current directory.
LEMMA OwnQuiet ==
    ASSUME TypeInv, OwnInv, NEW s \in Sessions, UNCHANGED <<tree, data, cwd>>, climbed => climbed',
           OwnTarget(s, job'[s]),
           job'[s].step = "remove" /\ job'[s].cmd = "rm .." => climbed',
           OutIsOwn(s, job'[s], tree)
    PROVE  OwnStep(s)
BY NothingChanged DEF OwnStep, OwnInv, OutIsOwn

LEMMA IdleOwns ==
    ASSUME NEW s \in Sessions, NEW j, j = Idle \/ j.step = "clean", j = Idle \/ DOMAIN j = {"step", "left"}
    PROVE  OwnTarget(s, j) /\ (j.step = "remove" => FALSE) /\ \A t : OutIsOwn(s, j, t)
<1>1. j.step = "idle" \/ j.step = "clean"
  BY DEF Idle
<1>2. "out" \notin DOMAIN j
  BY DEF Idle
<1> QED
  BY <1>1, <1>2 DEF OwnTarget, OutIsOwn, TarSteps, ZipSteps

LEMMA RemovingOwns ==
    ASSUME NEW s \in Sessions, NEW j, Removing(j), NEW t
    PROVE  OutIsOwn(s, j, t)
<1>1. "out" \notin RemoveFields /\ "out" \notin RemoveFields \cup {"left"}
  BY DEF RemoveFields
<1>2. "out" \notin DOMAIN j
  BY <1>1, Zenon DEF Removing
<1> QED
  BY <1>2 DEF OutIsOwn

LEMMA AnswerOwns ==
    ASSUME TypeInv, NEW s \in Sessions, NEW r, Answer(s, r)
    PROVE  /\ job'[s] = Idle /\ OwnTarget(s, job'[s]) /\ OutIsOwn(s, job'[s], tree')
           /\ (job'[s].step = "remove" => FALSE)
<1>1. job'[s] = Idle
  BY DEF Answer, TypeInv, OtherTypes
<1> QED
  BY <1>1, IdleOwns

LEMMA RemovePathOwn ==
    ASSUME TypeInv, OwnInv, NEW s \in Sessions, RemovePath(s)
    PROVE  OwnStep(s)
<1>1. PICK n \in Names \cup Written :
         LET p == Append(cwd[s], n) IN
         \/ Exists(p) /\ Below(p) = {} /\ Unlink(p) /\ Answer(s, "RESP_OK")
         \/ Below(p) # {} /\ Continue(s, RemoveAll("rm", p)) /\ UNCHANGED <<tree, data>>
         \/ ~Exists(p) /\ Answer(s, "RESP_IO_ERROR") /\ UNCHANGED <<tree, data>>
  BY DEF RemovePath
<1> DEFINE p == Append(cwd[s], n)
<1>2. UNCHANGED <<cwd, climbed>>
  BY DEF RemovePath
<1>3. p # <<>> /\ Head(p) = HomeOf[s]
  BY EntryIs DEF OwnInv
<1>4. CASE Exists(p) /\ Unlink(p) /\ Answer(s, "RESP_OK")
  <2>1. OwnNames(s) /\ OthersSame(s)
    BY <1>3, <1>4, UnlinkOwn DEF Exists
  <2> QED
    BY <1>2, <1>4, <2>1, AnswerOwns DEF OwnStep, OwnInv
<1>5. CASE Continue(s, RemoveAll("rm", p)) /\ UNCHANGED <<tree, data>>
  <2>1. job'[s] = RemoveAll("rm", p)
    BY <1>5 DEF Continue, TypeInv, OtherTypes
  <2> HIDE DEF p
  <2>2. job'[s].step = "remove" /\ job'[s].cmd = "rm" /\ job'[s].target = p
        /\ "out" \notin DOMAIN job'[s]
    BY <2>1 DEF RemoveAll
  <2>3. OwnTarget(s, job'[s]) /\ OutIsOwn(s, job'[s], tree)
    BY <1>3, <2>2 DEF OwnTarget, OutIsOwn, TarSteps, ZipSteps
  <2> QED
    BY <1>2, <1>5, <2>2, <2>3, OwnQuiet
<1>6. CASE Answer(s, "RESP_IO_ERROR") /\ UNCHANGED <<tree, data>>
  BY <1>2, <1>6, OwnQuiet, AnswerOwns
<1> QED
  BY <1>1, <1>4, <1>5, <1>6

LEMMA RemoveOwn ==
    ASSUME TypeInv, OwnInv, NEW s \in Sessions,
           RemoveParent(s) \/ RemoveEntry(s) \/ RemoveThrows(s) \/ RemoveTarget(s)
    PROVE  OwnStep(s)
<1>1. CASE RemoveParent(s)
  <2>1. climbed' = TRUE /\ UNCHANGED <<tree, data, cwd>>
    BY <1>1 DEF RemoveParent
  <2>2. CASE Continue(s, RemoveAll("rm ..", Front(cwd[s])))
    <3>1. job'[s] = RemoveAll("rm ..", Front(cwd[s]))
      BY <2>2 DEF Continue, TypeInv, OtherTypes
    <3> DEFINE p == Front(cwd[s])
               c == "rm .."
    <3> HIDE DEF p, c
    <3>2. /\ job'[s].step = "remove" /\ job'[s].cmd = c
          /\ DOMAIN job'[s] = RemoveFields /\ "out" \notin RemoveFields
      <4>1. job'[s] = RemoveAll(c, p)
        BY <3>1 DEF c, p
      <4> QED
        BY <4>1 DEF RemoveAll, RemoveFields
    <3>3. job'[s].cmd # "rm"
      BY <3>2 DEF c
    <3>4. OwnTarget(s, job'[s]) /\ OutIsOwn(s, job'[s], tree)
      BY <3>2, <3>3 DEF OwnTarget, OutIsOwn, TarSteps, ZipSteps
    <3> QED
      BY <2>1, <3>4, OwnQuiet
  <2>3. CASE Answer(s, "RESP_IO_ERROR")
    BY <2>1, <2>3, OwnQuiet, AnswerOwns
  <2> QED
    BY <1>1, <2>2, <2>3 DEF RemoveParent
<1> DEFINE j == job[s]
<1>2. CASE RemoveEntry(s) \/ RemoveThrows(s) \/ RemoveTarget(s)
  <2>1. j.step = "remove" /\ UNCHANGED <<cwd, climbed>>
    BY <1>2 DEF RemoveEntry, RemoveThrows, RemoveTarget
  <2>2. Removing(j)
    <3>1. JobShape(j)
      BY DEF TypeInv
    <3> QED
      BY <2>1, <3>1 DEF JobShape, Idle, Cleaning, Archiving, TarSteps, ZipSteps
  <2>3. ASSUME NEW q \in DOMAIN tree, q = j.target \/ q \in Below(j.target), Unlink(q)
        PROVE  OwnNames(s) /\ (climbed' \/ "left" \in DOMAIN j \/ OthersSame(s))
    <3>1. CASE j.cmd = "rm"
      <4>1. j.target # <<>> /\ Head(j.target) = HomeOf[s]
        BY <2>1, <3>1 DEF OwnInv, OwnTarget
      <4>2. j.target \in Seq(Elements)
        BY <2>2, <4>1, PathShape DEF Removing
      <4>3. q \in Seq(Elements) /\ (q \in Below(j.target) => IsPrefix(j.target, q))
        BY InTree DEF TypeInv, Below, IsStrictPrefix
      <4>4. Head(q) = HomeOf[s]
        BY <2>3, <4>1, <4>2, <4>3, SameHome
      <4> QED
        BY <2>3, <4>4, UnlinkOwn
    <3>2. CASE j.cmd = "rm .."
      BY <2>1, <2>3, <3>2, UnlinkOwn DEF OwnInv
    <3>3. CASE "left" \in DOMAIN j
      BY <2>3, <3>3, UnlinkOwn
    <3> QED
      BY <2>2, <3>1, <3>2, <3>3 DEF Removing
  <2>4. OwnTarget(s, j) /\ (j.cmd = "rm .." => climbed) /\ Head(cwd'[s]) = HomeOf[s]
    BY <2>1 DEF OwnInv
  <2>5. CASE RemoveEntry(s)
    <3>1. PICK q \in Below(j.target) : Unlink(q) /\ Continue(s, [j EXCEPT !.any = TRUE])
      BY <2>5 DEF RemoveEntry
    <3>2. OwnNames(s) /\ (climbed' \/ "left" \in DOMAIN j \/ OthersSame(s))
      BY <2>3, <3>1 DEF Below
    <3>3. job'[s] = [j EXCEPT !.any = TRUE]
      BY <3>1 DEF Continue, TypeInv, OtherTypes
    <3>4. /\ DOMAIN job'[s] = DOMAIN j /\ job'[s].step = "remove" /\ job'[s].cmd = j.cmd
          /\ job'[s].target = j.target /\ "out" \notin DOMAIN j
      BY <2>1, <2>2, <3>3 DEF Removing, RemoveFields
    <3>5. OwnTarget(s, job'[s]) /\ OutIsOwn(s, job'[s], tree')
      BY <2>1, <2>4, <3>4 DEF OwnTarget, OutIsOwn, TarSteps, ZipSteps
    <3> QED
      BY <2>1, <2>4, <3>2, <3>4, <3>5 DEF OwnStep
  <2>6. CASE RemoveThrows(s)
    <3>1. UNCHANGED <<tree, data, cwd, climbed, job>>
      BY <2>6 DEF RemoveThrows, Throw
    <3> QED
      BY <3>1, OwnQuiet DEF OwnInv
  <2>7. CASE RemoveTarget(s)
    <3> DEFINE any == j.any \/ (Exists(j.target) /\ j.cmd # "rm ..")
    <3>1. /\ IF Exists(j.target) /\ j.cmd # "rm .." THEN Unlink(j.target) ELSE UNCHANGED <<tree, data>>
          /\ CASE ~any -> Answer(s, "RESP_IO_ERROR")
               [] any /\ j.cmd = "clean" -> Continue(s, [step |-> "clean", left |-> j.left])
               [] OTHER -> Answer(s, "RESP_OK")
      BY <2>7 DEF RemoveTarget
    <3>2. OwnNames(s) /\ (climbed' \/ "left" \in DOMAIN j \/ OthersSame(s))
      <4>1. CASE Exists(j.target) /\ Unlink(j.target)
        BY <2>3, <4>1 DEF Exists
      <4>2. CASE UNCHANGED <<tree, data>>
        BY <4>2, NothingChanged
      <4> QED
        BY <3>1, <4>1, <4>2
    <3>3. /\ OwnTarget(s, job'[s]) /\ OutIsOwn(s, job'[s], tree')
          /\ (job'[s].step = "remove" => FALSE)
      <4> HIDE DEF any
      <4>1. \/ Answer(s, "RESP_IO_ERROR") \/ Answer(s, "RESP_OK")
            \/ Continue(s, [step |-> "clean", left |-> j.left])
        BY <3>1
      <4>2. CASE Continue(s, [step |-> "clean", left |-> j.left])
        <5>1. job'[s] = [step |-> "clean", left |-> j.left]
          BY <4>2 DEF Continue, TypeInv, OtherTypes
        <5>2. job'[s].step = "clean" /\ DOMAIN job'[s] = {"step", "left"}
          BY <5>1
        <5> QED
          BY <5>2, IdleOwns
      <4> QED
        BY <4>1, <4>2, AnswerOwns
    <3> QED
      BY <2>1, <2>4, <3>2, <3>3 DEF OwnStep
  <2> QED
    BY <1>2, <2>5, <2>6, <2>7
<1> QED
  BY <1>1, <1>2

LEMMA CleanOwn ==
    ASSUME TypeInv, OwnInv, NEW s \in Sessions, Clean(s) \/ CleanNext(s)
    PROVE  OwnStep(s)
<1>1. UNCHANGED <<tree, data, cwd, climbed>>
  BY DEF Clean, CleanNext
<1>2. \/ \E left : job'[s] = [step |-> "clean", left |-> left]
      \/ Answer(s, "RESP_OK")
      \/ \E h \in Homes : \E left : left \subseteq Homes /\ h \in left /\ job'[s] = CleanHome(h, left \ {h})
  <2>1. CASE Clean(s)
    BY <2>1 DEF Clean, Continue, TypeInv, OtherTypes
  <2>2. CASE CleanNext(s) /\ job[s].left # {}
    <3>1. PICK h \in job[s].left : Continue(s, CleanHome(h, job[s].left \ {h}))
      BY <2>2 DEF CleanNext
    <3>2. job'[s] = CleanHome(h, job[s].left \ {h})
      BY <3>1 DEF Continue, TypeInv, OtherTypes
    <3>3. JobShape(job[s]) /\ job[s].step = "clean"
      BY <2>2 DEF CleanNext, TypeInv
    <3>4. job[s].left \subseteq Homes
      BY <3>3 DEF JobShape, Idle, Cleaning, Removing, Archiving, TarSteps, ZipSteps
    <3> QED
      BY <3>1, <3>2, <3>4
  <2>3. CASE CleanNext(s) /\ job[s].left = {}
    BY <2>3 DEF CleanNext
  <2> QED
    BY <2>1, <2>2, <2>3
<1>3. ASSUME NEW left, job'[s] = [step |-> "clean", left |-> left] PROVE OwnStep(s)
  <2>1. job'[s].step = "clean" /\ DOMAIN job'[s] = {"step", "left"}
    BY <1>3
  <2> QED
    BY <1>1, <2>1, IdleOwns, OwnQuiet
<1>4. CASE Answer(s, "RESP_OK")
  BY <1>1, <1>4, AnswerOwns, OwnQuiet
<1>5. ASSUME NEW left, left \subseteq Homes, NEW h \in left, job'[s] = CleanHome(h, left \ {h})
      PROVE  OwnStep(s)
  <2>1. Removing(job'[s])
    BY <1>5, CleanShape
  <2>2. job'[s].step = "remove" /\ job'[s].cmd = "clean"
    BY <1>5 DEF CleanHome
  <2>3. OwnTarget(s, job'[s]) /\ OutIsOwn(s, job'[s], tree)
    BY <2>1, <2>2, RemovingOwns DEF OwnTarget, TarSteps, ZipSteps
  <2> QED
    BY <1>1, <2>2, <2>3, OwnQuiet
<1> QED
  BY <1>2, <1>3, <1>4, <1>5

LEMMA WithinOwn ==
    ASSUME Longer = {}, NEW s \in Sessions, NEW p, Within(p, HomeOf[s]) PROVE Head(p) = HomeOf[s]
BY DEF Within

\* A request that is answered at once.
LEMMA AnsweredOwn ==
    ASSUME TypeInv, OwnInv, NEW s \in Sessions, NEW r, Answer(s, r), UNCHANGED <<cwd, climbed>>,
           OwnNames(s), OthersSame(s)
    PROVE  OwnStep(s)
BY AnswerOwns DEF OwnStep, OwnInv

LEMMA DirectoryOwn ==
    ASSUME TypeInv, OwnInv, NEW s \in Sessions, MakeDirectory(s) \/ ChangeDirectory(s) \/ Login(s)
    PROVE  OwnStep(s)
<1>1. DOMAIN data = 1 .. MaxFiles /\ IsTree(tree) /\ Head(cwd[s]) = HomeOf[s]
  BY DEF TypeInv, OtherTypes, OwnInv
<1>2. CASE MakeDirectory(s)
  <2>1. PICK n \in Names :
           LET p == Append(cwd[s], n) IN
           IF IsDir(cwd[s]) /\ ~Exists(p)
           THEN tree' = Naming(p, Dir) /\ Answer(s, "RESP_OK")
           ELSE Answer(s, "RESP_IO_ERROR") /\ UNCHANGED tree
    BY <1>2 DEF MakeDirectory
  <2> DEFINE p == Append(cwd[s], n)
  <2>2. Head(p) = HomeOf[s]
    BY <1>1, EntryIs
  <2>3. UNCHANGED <<data, cwd, climbed>>
    BY <1>2 DEF MakeDirectory
  <2>4. CASE tree' = Naming(p, Dir) /\ Answer(s, "RESP_OK")
    BY <1>1, <2>2, <2>3, <2>4, NameOwn, AnsweredOwn
  <2>5. CASE Answer(s, "RESP_IO_ERROR") /\ UNCHANGED tree
    BY <2>3, <2>5, NothingChanged, AnsweredOwn
  <2> QED
    BY <2>1, <2>4, <2>5
<1>3. CASE ChangeDirectory(s)
  <2>1. UNCHANGED <<tree, data, climbed>>
    BY <1>3 DEF ChangeDirectory
  <2>2. \E r : Answer(s, r)
    BY <1>3 DEF ChangeDirectory
  <2>3. Head(cwd'[s]) = HomeOf[s] /\ \A t \in Sessions \ {s} : cwd'[t] = cwd[t]
    <3>1. cwd \in [Sessions -> Paths] /\ cwd[s] \in Paths
      BY DEF TypeInv, OtherTypes
    <3>2. \/ \E n \in Names : cwd' = [cwd EXCEPT ![s] = Append(@, n)]
          \/ cwd' = cwd
          \/ Len(cwd[s]) > 1 /\ cwd' = [cwd EXCEPT ![s] = Front(@)]
      BY <1>3, <3>1 DEF ChangeDirectory
    <3>3. ASSUME NEW n \in Names, cwd' = [cwd EXCEPT ![s] = Append(@, n)]
          PROVE  Head(cwd'[s]) = HomeOf[s]
      BY <1>1, <3>1, <3>3, EntryIs
    <3>4. CASE Len(cwd[s]) > 1 /\ cwd' = [cwd EXCEPT ![s] = Front(@)]
      BY <1>1, <3>1, <3>4, FrontPath
    <3> QED
      BY <1>1, <3>1, <3>2, <3>3, <3>4
  <2> QED
    BY <2>1, <2>2, <2>3, NothingChanged, AnswerOwns DEF OwnStep
<1>4. CASE Login(s)
  <2> DEFINE home == <<HomeOf[s]>>
  <2>1. /\ cwd' = [cwd EXCEPT ![s] = home]
        /\ tree' = IF Exists(home) THEN tree ELSE Naming(home, Dir)
        /\ Answer(s, "RESP_OK")
        /\ UNCHANGED <<data, climbed>>
    BY <1>4 DEF Login
  <2>2. Head(home) = HomeOf[s]
    BY FilesAssumption, HomeIsPath
  <2> HIDE DEF home
  <2>3. OwnNames(s) /\ OthersSame(s)
    <3>1. CASE tree' = Naming(home, Dir)
      BY <1>1, <2>1, <2>2, <3>1, NameOwn
    <3>2. CASE tree' = tree
      BY <2>1, <3>2, NothingChanged
    <3> QED
      BY <2>1, <3>1, <3>2
  <2>4. Head(cwd'[s]) = HomeOf[s] /\ \A t \in Sessions \ {s} : cwd'[t] = cwd[t]
    BY <2>1, <2>2 DEF TypeInv, OtherTypes
  <2> QED
    BY <2>1, <2>3, <2>4, AnswerOwns DEF OwnStep
<1> QED
  BY <1>2, <1>3, <1>4

LEMMA MoveOwn ==
    ASSUME Longer = {}, TypeInv, OwnInv, NEW s \in Sessions, Move(s)
    PROVE  OwnStep(s)
<1>1. PICK p \in Arguments, q \in Paths :
         IF Within(p, HomeOf[s]) /\ Within(q, HomeOf[s]) /\ CanRename(p, q)
         THEN tree' = Renamed(p, q) /\ Answer(s, "RESP_OK")
         ELSE Answer(s, "RESP_IO_ERROR") /\ UNCHANGED tree
  BY DEF Move
<1>2. UNCHANGED <<data, cwd, climbed>>
  BY DEF Move
<1>3. CASE Within(p, HomeOf[s]) /\ Within(q, HomeOf[s]) /\ CanRename(p, q)
  <2>1. p \in AllPaths /\ q \in AllPaths /\ Head(p) = HomeOf[s] /\ Head(q) = HomeOf[s]
    BY <1>3, ArgumentsArePaths, PathsAmong, WithinOwn
  <2>2. tree' = Renamed(p, q) /\ Answer(s, "RESP_OK") /\ CanRename(p, q) /\ IsTree(tree) /\ data' = data
    BY <1>1, <1>2, <1>3 DEF TypeInv
  <2>3. OwnNames(s) /\ OthersSame(s)
    BY <2>1, <2>2, RenameOwn
  <2> QED
    BY <1>2, <2>2, <2>3, AnsweredOwn
<1>4. CASE Answer(s, "RESP_IO_ERROR") /\ UNCHANGED tree
  BY <1>2, <1>4, NothingChanged, AnsweredOwn
<1> QED
  BY <1>1, <1>3, <1>4

LEMMA CopyOwn ==
    ASSUME Longer = {}, TypeInv, OwnInv, NEW s \in Sessions, Copy(s)
    PROVE  OwnStep(s)
<1>1. DOMAIN data = 1 .. MaxFiles /\ IsTree(tree)
  BY DEF TypeInv, OtherTypes
<1>2. PICK p \in Arguments, q \in Paths :
         IF ~Within(p, HomeOf[s]) \/ ~Within(q, HomeOf[s])
         THEN Answer(s, "RESP_IO_ERROR") /\ UNCHANGED <<tree, data>>
         ELSE IF IsFile(p) /\ ~Exists(q) /\ IsDir(Front(q))
              THEN /\ Free # {}
                   /\ tree' = Naming(q, Fresh)
                   /\ data' = [data EXCEPT ![Fresh] = data[tree[p]]]
                   /\ Answer(s, "RESP_OK")
              ELSE Throw(s, "cp") /\ UNCHANGED <<tree, data>>
  BY DEF Copy
<1>3. UNCHANGED <<cwd, climbed>>
  BY DEF Copy
<1>4. CASE Answer(s, "RESP_IO_ERROR") /\ UNCHANGED <<tree, data>>
  BY <1>3, <1>4, NothingChanged, AnsweredOwn
<1>5. CASE Throw(s, "cp") /\ UNCHANGED <<tree, data>>
  BY <1>3, <1>5, OwnQuiet DEF Throw, OwnInv
<1>6. CASE /\ Within(q, HomeOf[s]) /\ Free # {} /\ tree' = Naming(q, Fresh)
           /\ data' = [data EXCEPT ![Fresh] = data[tree[p]]]
           /\ Answer(s, "RESP_OK")
  <2>1. /\ Fresh # Dir /\ Fresh \notin Open /\ \A r \in DOMAIN tree : tree[r] # Fresh
    BY <1>6, FreshIsFree
  <2>2. Head(q) = HomeOf[s] /\ tree' = Naming(q, Fresh) /\ \E d : data' = [data EXCEPT ![Fresh] = d]
    BY <1>6, WithinOwn
  <2>3. OwnNames(s) /\ OthersSame(s)
    BY <1>1, <2>1, <2>2, NameOwn
  <2> QED
    BY <1>3, <1>6, <2>3, AnsweredOwn
<1> QED
  BY <1>2, <1>4, <1>5, <1>6

LEMMA CompressOwn ==
    ASSUME TypeInv, OwnInv, NEW s \in Sessions, Compress(s) \/ CompressAll(s)
    PROVE  OwnStep(s)
<1>1. UNCHANGED <<tree, data, cwd, climbed>>
  BY DEF Compress, CompressAll
<1>2. \/ Answer(s, "RESP_IO_ERROR") \/ Throw(s, "cwd lost")
      \/ \E a \in Archives, f \in Formats : \E files : Continue(s, Archive(s, a, f, files))
  BY DEF Compress, CompressAll
<1>3. CASE Answer(s, "RESP_IO_ERROR")
  BY <1>1, <1>3, AnswerOwns, OwnQuiet
<1>4. CASE Throw(s, "cwd lost")
  BY <1>1, <1>4, OwnQuiet DEF Throw, OwnInv
<1>5. ASSUME NEW a \in Archives, NEW f \in Formats, NEW files, Continue(s, Archive(s, a, f, files))
      PROVE  OwnStep(s)
  <2>1. job'[s] = Archive(s, a, f, files)
    BY <1>5 DEF Continue, TypeInv, OtherTypes
  <2>2. a \o ".tar" \in Names \cup Written /\ a \o Extension[f] \in Names \cup Written
    BY DEF Written
  <2>3. Head(Append(cwd[s], a \o ".tar")) = HomeOf[s] /\ Head(Append(cwd[s], a \o Extension[f])) = HomeOf[s]
    BY <2>2, EntryIs DEF OwnInv
  <2>4. /\ job'[s].tar = Append(cwd[s], a \o ".tar") /\ job'[s].archive = Append(cwd[s], a \o Extension[f])
        /\ job'[s].out = 0 /\ job'[s].step \in TarSteps \cup ZipSteps
    <3> DEFINE r == Archive(s, a, f, files)
    <3>1. r.tar = Append(cwd[s], a \o ".tar") /\ r.archive = Append(cwd[s], a \o Extension[f])
      BY DEF Archive
    <3>2. r.step \in TarSteps \cup ZipSteps
      BY DEF Archive, TarSteps, ZipSteps
    <3>3. r.out = 0
      BY DEF Archive
    <3> HIDE DEF r
    <3>4. job'[s] = r
      BY <2>1 DEF r
    <3> QED
      BY <3>1, <3>2, <3>3, <3>4
  <2>5. OwnTarget(s, job'[s]) /\ OutIsOwn(s, job'[s], tree) /\ job'[s].step # "remove"
    BY <2>3, <2>4 DEF OwnTarget, OutIsOwn, Dir, TarSteps, ZipSteps
  <2> QED
    BY <1>1, <2>5, OwnQuiet
<1> QED
  BY <1>2, <1>3, <1>4, <1>5

\* A job that goes on with the file it has open.
LEMMA GoesOnOwn ==
    ASSUME TypeInv, OwnInv, NEW s \in Sessions, NEW j, Continue(s, j), UNCHANGED <<cwd, climbed>>,
           OwnNames(s), OthersSame(s), Archiving(job[s]), Archiving(j),
           j.tar = job[s].tar, j.archive = job[s].archive,
           j.out = job[s].out \/ \A p \in DOMAIN tree' : tree'[p] = j.out => Head(p) = HomeOf[s]
    PROVE  OwnStep(s)
<1>1. job'[s] = j
  BY DEF Continue, TypeInv, OtherTypes
<1>2. j.step # "remove" /\ job[s].step \in TarSteps \cup ZipSteps /\ j.step \in TarSteps \cup ZipSteps
  BY DEF Archiving, TarSteps, ZipSteps
<1>3. OwnTarget(s, j)
  BY <1>2 DEF OwnInv, OwnTarget
<1>4. "out" \in DOMAIN job[s] /\ "out" \in DOMAIN j
  BY DEF Archiving, ArchiveFields
<1>5. OutIsOwn(s, job[s], tree')
  BY OutStays DEF OwnInv
<1>6. OutIsOwn(s, j, tree')
  BY <1>4, <1>5 DEF OutIsOwn
<1>7. OwnTarget(s, job'[s]) /\ OutIsOwn(s, job'[s], tree') /\ job'[s].step # "remove"
  BY <1>1, <1>2, <1>3, <1>6
<1> QED
  BY <1>7 DEF OwnStep, OwnInv

LEMMA CreateOwn ==
    ASSUME TypeInv, NEW s \in Sessions, NEW p \in AllPaths, Head(p) = HomeOf[s],
           CanCreate(p), Free # {}, Create(p)
    PROVE  /\ OwnNames(s) /\ OthersSame(s)
           /\ \A q \in DOMAIN tree' : tree'[q] = NumberFor(p) => Head(q) = HomeOf[s]
<1>1. DOMAIN data = 1 .. MaxFiles /\ IsTree(tree)
  BY DEF TypeInv, OtherTypes
<1>2. /\ NumberFor(p) # Dir /\ \A q \in DOMAIN tree : tree[q] = NumberFor(p) => q = p
      /\ ~Exists(p) => NumberFor(p) = Fresh
  BY <1>1, NumberIsOwn
<1>3. NumberFor(p) \notin Open \/ (p \in DOMAIN tree /\ tree[p] = NumberFor(p))
  BY <1>2, FreshIsFree DEF NumberFor, Exists
<1>4. tree' = Naming(p, NumberFor(p)) /\ \E d : data' = [data EXCEPT ![NumberFor(p)] = d]
  BY DEF Create
<1>5. OwnNames(s) /\ OthersSame(s)
  BY <1>1, <1>2, <1>3, <1>4, NameOwn
<1>6. \A q \in DOMAIN tree' : tree'[q] = NumberFor(p) => q = p
  BY <1>2, <1>4 DEF Naming
<1> QED
  BY <1>5, <1>6

LEMMA TarOwn ==
    ASSUME TypeInv, OwnInv, NEW s \in Sessions, TarOpen(s) \/ TarAdd(s) \/ ArchiveOpen(s) \/ ArchiveCopy(s)
    PROVE  OwnStep(s)
<1> DEFINE j == job[s]
<1>1. j.step \in TarSteps \cup ZipSteps /\ UNCHANGED <<cwd, climbed>>
  BY DEF TarOpen, TarAdd, ArchiveOpen, ArchiveCopy, TarSteps
<1>2. Archiving(j)
  BY <1>1, ArchivingSteps DEF TypeInv
<1>3. /\ j.tar \in AllPaths /\ j.archive \in AllPaths /\ DOMAIN j = ArchiveFields
      /\ Head(j.tar) = HomeOf[s] /\ Head(j.archive) = HomeOf[s]
  BY <1>1, <1>2 DEF Archiving, OwnInv, OwnTarget
<1>4. DOMAIN data = 1 .. MaxFiles /\ IsTree(tree)
  BY DEF TypeInv, OtherTypes
<1>5. "add" \in TarSteps \cup ZipSteps /\ "copy" \in TarSteps \cup ZipSteps /\ "unlink" \in TarSteps \cup ZipSteps
  BY DEF TarSteps
<1>6. ASSUME NEW p \in {j.tar, j.archive}, NEW step \in TarSteps \cup ZipSteps, Free # {}, CanCreate(p),
             Create(p), Continue(s, [j EXCEPT !.step = step, !.out = NumberFor(p)])
      PROVE  OwnStep(s)
  <2>1. p \in AllPaths /\ Head(p) = HomeOf[s]
    BY <1>3, <1>6
  <2>2. /\ OwnNames(s) /\ OthersSame(s)
        /\ \A q \in DOMAIN tree' : tree'[q] = NumberFor(p) => Head(q) = HomeOf[s]
    BY <1>6, <2>1, CreateOwn
  <2> DEFINE k == [j EXCEPT !.step = step, !.out = NumberFor(p)]
  <2>3. Archiving(k)
    BY <1>2, <1>4, <1>6, <2>1, NumberIsOwn, NextStep
  <2>4. k.tar = j.tar /\ k.archive = j.archive /\ k.out = NumberFor(p)
    BY <1>3 DEF ArchiveFields
  <2> HIDE DEF k
  <2>5. Continue(s, k)
    BY <1>6 DEF k
  <2> QED
    BY <1>1, <1>2, <2>2, <2>3, <2>4, <2>5, GoesOnOwn
<1>7. CASE TarOpen(s)
  <2>1. CASE CanCreate(j.tar)
    BY <1>5, <1>6, <1>7, <2>1 DEF TarOpen
  <2>2. CASE ~CanCreate(j.tar)
    <3> DEFINE k == [j EXCEPT !.step = "add"]
    <3>1. Continue(s, k) /\ UNCHANGED <<tree, data>>
      BY <1>7, <2>2 DEF TarOpen
    <3>2. Archiving(k)
      BY <1>2, <1>5, NextStep
    <3>3. k.tar = j.tar /\ k.archive = j.archive /\ k.out = j.out
      BY <1>3 DEF ArchiveFields
    <3> HIDE DEF k
    <3>4. OwnNames(s) /\ OthersSame(s)
      BY <3>1, NothingChanged
    <3> QED
      BY <1>1, <1>2, <3>1, <3>2, <3>3, <3>4, GoesOnOwn
  <2> QED
    BY <2>1, <2>2
<1>8. ASSUME data' = data \/ \E d : data' = [data EXCEPT ![j.out] = d], UNCHANGED tree
      PROVE  OwnNames(s) /\ OthersSame(s)
  <2>1. j.out # Dir => \A p \in DOMAIN tree : tree[p] = j.out => Head(p) = HomeOf[s]
    BY <1>3 DEF OwnInv, OutIsOwn, ArchiveFields
  <2> QED
    BY <1>4, <1>8, <2>1, WriteOwn
<1>9. CASE TarAdd(s)
  <2> DEFINE f == j.files[j.next]
  <2>1. CASE IsFile(f)
    <3> DEFINE k == [j EXCEPT !.next = @ + 1]
    <3>1. Continue(s, k)
      BY <1>9, <2>1 DEF TarAdd
    <3>2. UNCHANGED tree /\ data' = IF j.out = 0 THEN data
               ELSE [data EXCEPT ![j.out] = WriteAt(@, j.next, <<f, data[tree[f]]>>)]
      BY <1>9, <2>1 DEF TarAdd
    <3>3. Archiving(k)
      BY <1>2, NextStep
    <3>4. k.tar = j.tar /\ k.archive = j.archive /\ k.out = j.out
      BY <1>3 DEF ArchiveFields
    <3> HIDE DEF k, f
    <3>5. OwnNames(s) /\ OthersSame(s)
      BY <1>8, <3>2
    <3> QED
      BY <1>1, <1>2, <3>1, <3>3, <3>4, <3>5, GoesOnOwn
  <2>2. CASE ~IsFile(f)
    <3>1. UNCHANGED <<tree, data, job>>
      BY <1>9, <2>2 DEF TarAdd, Throw
    <3> QED
      BY <1>1, <3>1, OwnQuiet DEF OwnInv
  <2> QED
    BY <2>1, <2>2
<1>10. CASE ArchiveOpen(s)
  <2>1. CASE CanCreate(j.archive)
    BY <1>5, <1>6, <1>10, <2>1 DEF ArchiveOpen
  <2>2. CASE ~CanCreate(j.archive)
    <3>1. Answer(s, "RESP_IO_ERROR") /\ UNCHANGED <<tree, data>>
      BY <1>10, <2>2 DEF ArchiveOpen
    <3> QED
      BY <1>1, <3>1, NothingChanged, AnsweredOwn
  <2> QED
    BY <2>1, <2>2
<1>11. CASE ArchiveCopy(s)
  <2> DEFINE k == [j EXCEPT !.step = "unlink"]
  <2>1. j.step = "copy" /\ UNCHANGED tree
    BY <1>11 DEF ArchiveCopy
  <2>2. \/ Answer(s, "RESP_IO_ERROR") /\ UNCHANGED data
        \/ Continue(s, k) /\ \E d : data' = [data EXCEPT ![j.out] = d]
    BY <1>11 DEF ArchiveCopy
  <2>3. Archiving(k)
    BY <1>2, <1>5, NextStep
  <2>4. k.tar = j.tar /\ k.archive = j.archive /\ k.out = j.out
    BY <1>3 DEF ArchiveFields
  <2> HIDE DEF k
  <2>5. OwnNames(s) /\ OthersSame(s)
    BY <1>8, <2>1, <2>2
  <2> QED
    BY <1>1, <1>2, <2>2, <2>3, <2>4, <2>5, GoesOnOwn, AnsweredOwn
<1> QED
  BY <1>7, <1>9, <1>10, <1>11

LEMMA ArchivedOwn ==
    ASSUME TypeInv, OwnInv, NEW s \in Sessions, TarUnlink(s) \/ ZipOpen(s) \/ ZipClose(s)
    PROVE  OwnStep(s)
<1> DEFINE j == job[s]
<1>1. j.step \in TarSteps \cup ZipSteps /\ UNCHANGED <<cwd, climbed>>
  BY DEF TarUnlink, ZipOpen, ZipClose, TarSteps, ZipSteps
<1>2. Archiving(j)
  BY <1>1, ArchivingSteps DEF TypeInv
<1>3. /\ DOMAIN j = ArchiveFields /\ Head(j.tar) = HomeOf[s] /\ Head(j.archive) = HomeOf[s]
  BY <1>1, <1>2 DEF Archiving, OwnInv, OwnTarget
<1>4. DOMAIN data = 1 .. MaxFiles /\ IsTree(tree)
  BY DEF TypeInv, OtherTypes
<1>5. CASE TarUnlink(s)
  <2>1. /\ IF Exists(j.tar) /\ Below(j.tar) = {} THEN Unlink(j.tar) ELSE UNCHANGED <<tree, data>>
        /\ Answer(s, "RESP_COMPRESS")
    BY <1>5 DEF TarUnlink
  <2>2. OwnNames(s) /\ OthersSame(s)
    <3>1. CASE Exists(j.tar) /\ Below(j.tar) = {}
      BY <1>3, <2>1, <3>1, UnlinkOwn DEF Exists
    <3>2. CASE ~(Exists(j.tar) /\ Below(j.tar) = {})
      BY <2>1, <3>2, NothingChanged
    <3> QED
      BY <3>1, <3>2
  <2> QED
    BY <1>1, <2>1, <2>2, AnsweredOwn
<1>6. CASE ZipOpen(s)
  <2> DEFINE k == [j EXCEPT !.step = "zip close"]
  <2>1. Answer(s, "RESP_IO_ERROR") \/ Continue(s, k)
    BY <1>6 DEF ZipOpen
  <2>2. UNCHANGED <<tree, data>>
    BY <1>6 DEF ZipOpen
  <2>3. Archiving(k)
    BY <1>2, NextStep DEF ZipSteps
  <2>4. k.tar = j.tar /\ k.archive = j.archive /\ k.out = j.out
    BY <1>3 DEF ArchiveFields
  <2> HIDE DEF k
  <2>5. OwnNames(s) /\ OthersSame(s)
    BY <2>2, NothingChanged
  <2> QED
    BY <1>1, <1>2, <2>1, <2>3, <2>4, <2>5, GoesOnOwn, AnsweredOwn
<1>7. CASE ZipClose(s)
  <2>1. Free # {} /\ Answer(s, "RESP_COMPRESS")
    BY <1>7 DEF ZipClose
  <2>2. \/ IsFile(j.archive) /\ Unlink(j.archive)
        \/ UNCHANGED <<tree, data>>
        \/ tree' = Naming(j.archive, Fresh) /\ \E v : data' = [data EXCEPT ![Fresh] = v]
    BY <1>7 DEF ZipClose
  <2>3. OwnNames(s) /\ OthersSame(s)
    <3>1. CASE IsFile(j.archive) /\ Unlink(j.archive)
      BY <1>3, <3>1, UnlinkOwn DEF IsFile, Exists
    <3>2. CASE UNCHANGED <<tree, data>>
      BY <3>2, NothingChanged
    <3>3. CASE tree' = Naming(j.archive, Fresh) /\ \E v : data' = [data EXCEPT ![Fresh] = v]
      <4>1. /\ Fresh # Dir /\ Fresh \notin Open /\ \A r \in DOMAIN tree : tree[r] # Fresh
        BY <2>1, FreshIsFree
      <4> QED
        BY <1>3, <1>4, <3>3, <4>1, NameOwn
    <3> QED
      BY <2>2, <3>1, <3>2, <3>3
  <2> QED
    BY <1>1, <2>1, <2>3, AnsweredOwn
<1> QED
  BY <1>5, <1>6, <1>7

LEMMA OwnInvStep ==
    ASSUME Longer = {}, TypeInv, OwnInv, NEW s \in Sessions, Step(s)
    PROVE  OwnInv' /\ OwnStep(s)
<1>1. OwnStep(s)
  <2>1. CASE Ask(s)
    BY <2>1, RemovePathOwn, RemoveOwn, CleanOwn, DirectoryOwn, MoveOwn, CopyOwn, CompressOwn DEF Ask
  <2>2. CASE Work(s)
    BY <2>2, RemoveOwn, CleanOwn, TarOwn, ArchivedOwn DEF Work
  <2> QED
    BY <2>1, <2>2 DEF Step
<1>2. \A t \in Sessions \ {s} : job'[t] = job[t]
  <2>1. Outcome(s)
    BY StepTypes
  <2> QED
    BY <2>1 DEF Outcome, Answer, Continue, Throw, TypeInv, OtherTypes
<1>3. ASSUME NEW t \in Sessions
      PROVE  /\ Head(cwd'[t]) = HomeOf[t]
             /\ OwnTarget(t, job'[t])
             /\ job'[t].step = "remove" /\ job'[t].cmd = "rm .." => climbed'
             /\ OutIsOwn(t, job'[t], tree')
  <2>1. CASE t = s
    BY <1>1, <2>1 DEF OwnStep
  <2>2. CASE t # s
    <3>1. job'[t] = job[t] /\ cwd'[t] = cwd[t] /\ (climbed => climbed') /\ OwnNames(s)
      BY <1>1, <1>2, <2>2 DEF OwnStep
    <3>2. OutIsOwn(t, job[t], tree')
      BY <3>1, OutStays DEF OwnInv
    <3> QED
      BY <3>1, <3>2 DEF OwnInv
  <2> QED
    BY <2>1, <2>2
<1> QED
  BY <1>1, <1>3 DEF OwnInv, OwnTarget, OutIsOwn

(***************************************************************************)
(* A session changes files of its own user only, if no user's id begins    *)
(* with another's (the ids are UUIDs, all of one length): all that it      *)
(* names is compared by its beginning, its current directory, tar and      *)
(* archive are in its home, and the file that it writes has its name there *)
(* whatever other sessions rename (io.hpp:54, 104-115, 146-151).           *)
(***************************************************************************)
THEOREM OwnFiles == ASSUME Longer = {} PROVE Spec => OwnFilesOnly
<1>1. Init => OwnInv
  <2> SUFFICES ASSUME Init, NEW s \in Sessions
               PROVE  /\ Head(cwd[s]) = HomeOf[s]
                      /\ OwnTarget(s, job[s])
                      /\ ~(job[s].step = "remove")
                      /\ OutIsOwn(s, job[s], tree)
    BY DEF OwnInv
  <2>1. Head(cwd[s]) = HomeOf[s]
    BY HomeIsPath, FilesAssumption DEF Init
  <2> QED
    BY <2>1, IdleOwns DEF Init
<1>2. TypeInv /\ OwnInv /\ [Next]_vars => OwnInv'
  <2> SUFFICES ASSUME TypeInv, OwnInv, [Next]_vars PROVE OwnInv'
    OBVIOUS
  <2>1. CASE \E s \in Sessions : Step(s)
    BY <2>1, OwnInvStep
  <2>2. CASE Rest \/ UNCHANGED vars
    <3>1. UNCHANGED <<tree, cwd, job, climbed>>
      BY <2>2 DEF Rest, vars
    <3>2. \A t \in Sessions : OwnTarget(t, job[t])' /\ OutIsOwn(t, job[t], tree)'
      BY <3>1 DEF OwnInv, OwnTarget, OutIsOwn
    <3> QED
      BY <3>1, <3>2 DEF OwnInv
  <2> QED
    BY <2>1, <2>2 DEF Next
<1>3. TypeInv /\ OwnInv /\ [Next]_vars
      => [\A s \in Sessions :
            last'[1] = s /\ ~climbed' /\ ~("left" \in DOMAIN job[s]) =>
               \A p \in DOMAIN tree \cup DOMAIN tree' : Head(p) # HomeOf[s] => Same(p)]_vars
  <2> SUFFICES ASSUME TypeInv, OwnInv, NEW s \in Sessions, Step(s), NEW t \in Sessions,
                      last'[1] = t, ~climbed', ~("left" \in DOMAIN job[t])
               PROVE  OthersSame(t)
    BY DEF Next, Rest, OthersSame
  <2>1. last'[1] = s
    <3>1. \E r : last' = <<s, r>>
      BY StepTypes DEF Outcome, Answer, Continue, Throw
    <3> QED
      BY <3>1
  <2> QED
    BY <2>1, OwnInvStep DEF OwnStep
<1> QED
  BY <1>1, <1>2, <1>3, TypeInvHolds, PTL DEF Spec, OwnFilesOnly
-----------------------------------------------------------------------------
(***************************************************************************)
(* What a job has checked.  As long as no other session changes files      *)
(* meanwhile, a directory that is removed holds only what the iterator has *)
(* listed, the homes that clean has listed are there, and so are the files *)
(* that go into a tar.  A removal that has changed anything knows it.      *)
(***************************************************************************)
Undisturbed(j, t) ==
    /\ j.step = "remove" => \A q \in DOMAIN t : IsStrictPrefix(j.target, q) => q \in j.seen
    /\ "left" \in DOMAIN j => \A h \in j.left : <<h>> \in DOMAIN t
    /\ "left" \in DOMAIN j /\ j.step = "remove" => j.any \/ j.target \in DOMAIN t
    /\ j.step \in {"tar open", "add"} /\ ~j.directory =>
          \A i \in DOMAIN j.files : j.files[i] \in DOMAIN t /\ t[j.files[i]] # Dir

Knows(j, c) ==
    /\ j.step = "remove" /\ "left" \notin DOMAIN j /\ c => j.any
    /\ j.step = "zip open" => ~c

JobInv ==
    /\ \A s \in Sessions :
          /\ ~overlapped[s] => Undisturbed(job[s], tree)
          /\ job[s] = Idle => ~overlapped[s] /\ ~changed[s]
          /\ Knows(job[s], changed[s])
    /\ ended = "race" => \E s \in Sessions : overlapped[s]

Refusal(s) ==
    LET j == job[s] IN
    last' = <<s, "RESP_IO_ERROR">> /\ j.step # "copy" /\ j.step # "add" =>
       IF "left" \in DOMAIN j THEN overlapped[s] ELSE ~changed[s] /\ ~Touched

\* What a step of s keeps of JobInv, and that it refuses as it should.
JobStep(s) ==
    /\ ~overlapped[s] => Undisturbed(job'[s], tree')
    /\ Knows(job'[s], changed[s] \/ Touched)
    /\ Refusal(s)
    /\ ended' = "race" => overlapped[s] /\ UNCHANGED job

LEMMA IdleShape ==
    Idle.step = "idle" /\ DOMAIN Idle = {"step"} 
    /\ (\A t : Undisturbed(Idle, t)) /\ \A c : Knows(Idle, c)
BY DEF Idle, Undisturbed, Knows

LEMMA Answered ==
    ASSUME TypeInv, NEW s \in Sessions, NEW r, Answer(s, r), ended = "no",
           r = "RESP_IO_ERROR" => Refusal(s)
    PROVE  JobStep(s)
<1>1. job'[s] = Idle /\ last' = <<s, r>> /\ ended' = "no"
  BY DEF Answer, TypeInv, OtherTypes
<1>2. Undisturbed(job'[s], tree') /\ Knows(job'[s], changed[s] \/ Touched)
  BY <1>1, IdleShape
<1>3. Refusal(s)
  BY <1>1 DEF Refusal
<1> QED
  BY <1>1, <1>2, <1>3 DEF JobStep

\* A request refused at once, while nothing is changed.
LEMMA RefusedAtOnce ==
    ASSUME JobInv, NEW s \in Sessions, job[s] = Idle, UNCHANGED <<tree, data>>
    PROVE  Refusal(s)
<1>1. "left" \notin DOMAIN job[s] /\ ~changed[s]
  BY IdleShape DEF JobInv
<1> QED
  BY <1>1 DEF Refusal, Touched

LEMMA Continued ==
    ASSUME TypeInv, NEW s \in Sessions, NEW j, Continue(s, j), ended = "no",
           ~overlapped[s] => Undisturbed(j, tree'), Knows(j, changed[s] \/ Touched)
    PROVE  JobStep(s)
<1>1. job'[s] = j /\ last' = <<s, "none">> /\ ended' = "no"
  BY DEF Continue, TypeInv, OtherTypes
<1>2. ~overlapped[s] => Undisturbed(job'[s], tree')
  BY <1>1
<1>3. Refusal(s)
  BY <1>1 DEF Refusal
<1> QED
  BY <1>1, <1>2, <1>3 DEF JobStep

\* A throw leaves the files as they are.
LEMMA Thrown ==
    ASSUME TypeInv, JobInv, NEW s \in Sessions, NEW w, Throw(s, w), UNCHANGED <<tree, data>>,
           w = "race" => overlapped[s]
    PROVE  JobStep(s)
<1>1. job' = job /\ last' = <<s, "none">> /\ ended' = w
  BY DEF Throw
<1>2. ~overlapped[s] => Undisturbed(job'[s], tree')
  BY <1>1 DEF JobInv
<1>3. Knows(job'[s], changed[s] \/ Touched) /\ Refusal(s)
  BY <1>1 DEF Refusal, JobInv, Knows, Touched
<1> QED
  BY <1>1, <1>2, <1>3 DEF JobStep

\* A request that begins a job and changes nothing itself.
LEMMA Begun ==
    ASSUME TypeInv, JobInv, NEW s \in Sessions, job[s] = Idle, ended = "no", NEW j, Continue(s, j),
           UNCHANGED <<tree, data>>, Undisturbed(j, tree)
    PROVE  JobStep(s)
<1>1. ~(changed[s] \/ Touched)
  BY DEF JobInv, Touched
<1>2. Knows(j, changed[s] \/ Touched)
  BY <1>1 DEF Knows
<1> QED
  BY <1>2, Continued

LEMMA ListsAll ==
    ASSUME NEW cmd, NEW p PROVE Undisturbed(RemoveAll(cmd, p), tree)
<1> DEFINE j == RemoveAll(cmd, p)
<1>1. j.step = "remove" /\ j.target = p /\ j.seen = Below(p) /\ DOMAIN j = RemoveFields
  BY DEF RemoveAll, RemoveFields
<1>2. "left" \notin RemoveFields
  BY DEF RemoveFields
<1> HIDE DEF j
<1>3. \A q \in DOMAIN tree : IsStrictPrefix(j.target, q) => q \in j.seen
  BY <1>1 DEF Below
<1>4. Undisturbed(j, tree)
  BY <1>1, <1>2, <1>3 DEF Undisturbed
<1> QED
  BY <1>4 DEF j

LEMMA RequestJobs ==
    ASSUME TypeInv, JobInv, NEW s \in Sessions, job[s] = Idle, ended = "no",
           RemovePath(s) \/ RemoveParent(s) \/ Clean(s) \/ MakeDirectory(s) \/ ChangeDirectory(s)
           \/ Move(s) \/ Copy(s) \/ Login(s)
    PROVE  JobStep(s)
<1>1. CASE RemovePath(s)
  <2>1. PICK p :
           \/ Answer(s, "RESP_OK")
           \/ Continue(s, RemoveAll("rm", p)) /\ UNCHANGED <<tree, data>>
           \/ Answer(s, "RESP_IO_ERROR") /\ UNCHANGED <<tree, data>>
    BY <1>1 DEF RemovePath
  <2> QED
    BY <2>1, Answered, RefusedAtOnce, Begun, ListsAll
<1>2. CASE RemoveParent(s)
  <2>1. PICK p : Continue(s, RemoveAll("rm ..", p)) \/ Answer(s, "RESP_IO_ERROR")
    BY <1>2 DEF RemoveParent
  <2>2. UNCHANGED <<tree, data>>
    BY <1>2 DEF RemoveParent
  <2> QED
    BY <2>1, <2>2, Answered, RefusedAtOnce, Begun, ListsAll
<1>3. CASE Clean(s)
  <2> DEFINE left == {h \in Homes : IsDir(<<h>>)}
             j == [step |-> "clean", left |-> left]
  <2>1. Continue(s, j) /\ UNCHANGED <<tree, data>>
    BY <1>3 DEF Clean
  <2>2. \A h \in left : <<h>> \in DOMAIN tree
    BY DEF IsDir, Exists
  <2> HIDE DEF left
  <2>3. j.step = "clean" /\ j.left = left
    OBVIOUS
  <2>4. Undisturbed(j, tree)
    BY <2>2, <2>3 DEF Undisturbed
  <2> HIDE DEF j
  <2> QED
    BY <2>1, <2>4, Begun
<1>4. CASE MakeDirectory(s) \/ ChangeDirectory(s) \/ Move(s) \/ Login(s)
  <2>1. Answer(s, "RESP_OK") \/ (Answer(s, "RESP_IO_ERROR") /\ UNCHANGED <<tree, data>>)
    BY <1>4 DEF MakeDirectory, ChangeDirectory, Move, Login
  <2> QED
    BY <2>1, Answered, RefusedAtOnce
<1>5. CASE Copy(s)
  <2>1. \/ Answer(s, "RESP_OK")
        \/ Answer(s, "RESP_IO_ERROR") /\ UNCHANGED <<tree, data>>
        \/ Throw(s, "cp") /\ UNCHANGED <<tree, data>>
    BY <1>5 DEF Copy
  <2> QED
    BY <2>1, Answered, RefusedAtOnce, Thrown
<1> QED
  BY <1>1, <1>2, <1>3, <1>4, <1>5

LEMMA CompressJobs ==
    ASSUME TypeInv, JobInv, NEW s \in Sessions, job[s] = Idle, ended = "no",
           Compress(s) \/ CompressAll(s)
    PROVE  JobStep(s)
<1>1. UNCHANGED <<tree, data>>
  BY DEF Compress, CompressAll
<1>2. ASSUME NEW a \in Archives, NEW f \in Formats, NEW files, Continue(s, Archive(s, a, f, files)),
             (\A i \in DOMAIN files : ~IsDir(files[i])) =>
                \A i \in DOMAIN files : files[i] \in DOMAIN tree /\ tree[files[i]] # Dir
      PROVE  JobStep(s)
  <2> DEFINE j == Archive(s, a, f, files)
  <2>1. j.step \in TarSteps \cup ZipSteps
    BY DEF Archive, TarSteps, ZipSteps
  <2>2. j.files = files /\ DOMAIN j = ArchiveFields
    BY DEF Archive, ArchiveFields
  <2>3. j.directory = \E i \in DOMAIN files : IsDir(files[i])
    BY Zenon DEF Archive
  <2>4. "left" \notin ArchiveFields
    BY DEF ArchiveFields
  <2> HIDE DEF j
  <2>5. ~j.directory => \A i \in DOMAIN j.files : j.files[i] \in DOMAIN tree /\ tree[j.files[i]] # Dir
    BY <1>2, <2>2, <2>3
  <2>6. Undisturbed(j, tree)
    BY <2>1, <2>2, <2>4, <2>5 DEF Undisturbed, TarSteps, ZipSteps
  <2>7. Continue(s, j)
    BY <1>2 DEF j
  <2> QED
    BY <1>1, <2>6, <2>7, Begun
<1>3. CASE Compress(s)
  <2>1. PICK a \in Archives, f \in Formats, files \in Listings(s) :
           IF \A i \in DOMAIN files : Exists(files[i])
           THEN Continue(s, Archive(s, a, f, files))
           ELSE Answer(s, "RESP_IO_ERROR")
    BY <1>3 DEF Compress
  <2>2. CASE \A i \in DOMAIN files : Exists(files[i])
    <3>1. (\A i \in DOMAIN files : ~IsDir(files[i])) =>
             \A i \in DOMAIN files : files[i] \in DOMAIN tree /\ tree[files[i]] # Dir
      BY <2>2 DEF Exists, IsDir
    <3> QED
      BY <1>2, <2>1, <2>2, <3>1
  <2>3. CASE Answer(s, "RESP_IO_ERROR")
    BY <1>1, <2>3, Answered, RefusedAtOnce
  <2> QED
    BY <2>1, <2>2, <2>3
<1>4. CASE CompressAll(s)
  <2> DEFINE S == {p \in Below(cwd[s]) : IsFile(p)}
  <2>1. PICK a \in Archives, f \in Formats :
           IF IsDir(cwd[s]) THEN Continue(s, Archive(s, a, f, SetToSeq(S))) ELSE Throw(s, "cwd lost")
    BY <1>4 DEF CompressAll
  <2>2. IsFiniteSet(S)
    <3>1. S \in SUBSET DOMAIN tree
      BY DEF Below
    <3> QED
      BY <3>1, FS_Subset DEF TypeInv, IsTree
  <2>3. \A p \in S : p \in DOMAIN tree /\ tree[p] # Dir
    BY DEF IsFile, Exists
  <2> HIDE DEF S
  <2>4. \A i \in DOMAIN SetToSeq(S) : SetToSeq(S)[i] \in S
    <3>1. DOMAIN SetToSeq(S) = 1 .. Len(SetToSeq(S))
      BY <2>2, AllFilesListed, LenProperties
    <3> QED
      BY <2>2, <3>1, AllFilesListed
  <2>5. CASE IsDir(cwd[s])
    BY <1>2, <2>1, <2>3, <2>4, <2>5
  <2>6. CASE Throw(s, "cwd lost")
    BY <1>1, <2>6, Thrown
  <2> QED
    BY <2>1, <2>5, <2>6
<1> QED
  BY <1>3, <1>4

LEMMA RemoveJobs ==
    ASSUME TypeInv, JobInv, NEW s \in Sessions, ended = "no",
           RemoveEntry(s) \/ RemoveThrows(s) \/ RemoveTarget(s)
    PROVE  JobStep(s)
<1> DEFINE j == job[s]
<1>1. j.step = "remove"
  BY DEF RemoveEntry, RemoveThrows, RemoveTarget
<1>2. Removing(j)
  <2>1. JobShape(j)
    BY DEF TypeInv
  <2> QED
    BY <1>1, <2>1 DEF JobShape, Idle, Cleaning, Archiving, TarSteps, ZipSteps
<1>3. (~overlapped[s] => Undisturbed(j, tree)) /\ Knows(j, changed[s])
  BY DEF JobInv
<1>4. ASSUME NEW q, Unlink(q), NEW h \in Homes, <<h>> \in DOMAIN tree, <<h>> # q
      PROVE  <<h>> \in DOMAIN tree'
  BY <1>4 DEF Unlink
<1>5. CASE RemoveEntry(s)
  <2>1. PICK q \in Below(j.target) : Unlink(q) /\ Continue(s, [j EXCEPT !.any = TRUE])
    BY <1>5 DEF RemoveEntry
  <2> DEFINE k == [j EXCEPT !.any = TRUE]
  <2>2. /\ DOMAIN k = DOMAIN j /\ k.step = "remove" /\ k.target = j.target /\ k.seen = j.seen
        /\ k.any = TRUE /\ ("left" \in DOMAIN j => k.left = j.left)
    BY <1>1, <1>2 DEF Removing, RemoveFields
  <2>3. Continue(s, k)
    BY <2>1
  <2> HIDE DEF k
  <2>4. DOMAIN tree' \subseteq DOMAIN tree
    BY <2>1 DEF Unlink
  <2>5. ASSUME "left" \in DOMAIN j, NEW h \in j.left, <<h>> \in DOMAIN tree
        PROVE  <<h>> \in DOMAIN tree'
    <3>1. "left" \notin RemoveFields
      BY DEF RemoveFields
    <3>2. j.left \subseteq Homes /\ \E g \in Homes : j.target = <<g>>
      BY <1>2, <2>5, <3>1, Zenon DEF Removing
    <3>3. PICK g \in Homes : j.target = <<g>>
      BY <3>2
    <3>4. h \in Homes
      BY <2>5, <3>2
    <3>5. q \in Seq(Elements) /\ IsStrictPrefix(<<g>>, q)
      BY <2>1, <3>3, InTree DEF TypeInv, Below
    <3>6. <<g>> \in Seq(Elements) /\ Len(<<g>>) = 1 /\ Len(<<h>>) = 1
      BY HomeIsPath, PathShape, <3>4
    <3>7. Len(q) > 1
      BY <3>5, <3>6, Prefixed
    <3>8. q # <<h>>
      <4>1. ~(1 > 1)
        OBVIOUS
      <4>2. q = <<h>> => Len(q) = 1
        BY <3>6
      <4> QED
        BY <3>7, <4>1, <4>2
    <3> QED
      BY <1>4, <2>1, <2>5, <3>4, <3>8
  <2>6. ~overlapped[s] => Undisturbed(k, tree')
    BY <1>1, <1>3, <2>2, <2>4, <2>5 DEF Undisturbed
  <2>7. Knows(k, changed[s] \/ Touched)
    BY <2>2 DEF Knows
  <2> QED
    BY <2>3, <2>6, <2>7, Continued
<1>6. CASE RemoveThrows(s)
  <2>1. ~(Below(j.target) \subseteq j.seen) /\ Throw(s, "race") /\ UNCHANGED <<tree, data>>
    BY <1>6 DEF RemoveThrows
  <2>2. overlapped[s]
    BY <1>1, <1>3, <2>1 DEF Undisturbed, Below
  <2> QED
    BY <2>1, <2>2, Thrown
<1>7. CASE RemoveTarget(s)
  <2> DEFINE there == Exists(j.target) /\ j.cmd # "rm .."
  <2>1. /\ IF there THEN Unlink(j.target) ELSE UNCHANGED <<tree, data>>
        /\ CASE ~(j.any \/ there) -> Answer(s, "RESP_IO_ERROR")
             [] (j.any \/ there) /\ j.cmd = "clean" -> Continue(s, [step |-> "clean", left |-> j.left])
             [] OTHER -> Answer(s, "RESP_OK")
    BY <1>7 DEF RemoveTarget
  <2>2. there => Exists(j.target)
    OBVIOUS
  <2>3. ("left" \in DOMAIN j) <=> j.cmd = "clean"
    BY <1>2 DEF Removing, RemoveFields
  <2>4. ~there => UNCHANGED <<tree, data>> /\ (j.cmd = "rm .." \/ ~Exists(j.target))
    BY <2>1
  <2> HIDE DEF there
  <2>5. CASE ~(j.any \/ there)
    <3>1. Answer(s, "RESP_IO_ERROR")
      BY <2>1, <2>5
    <3>2. ~j.any /\ ~there
      BY <2>5
    <3>3. CASE "left" \in DOMAIN j
      <4>1. ~Exists(j.target)
        BY <2>3, <2>4, <3>2, <3>3
      <4>2. overlapped[s]
        BY <1>1, <1>3, <3>2, <3>3, <4>1 DEF Undisturbed, Exists
      <4> QED
        BY <3>1, <3>3, <4>2, Answered DEF Refusal
    <3>4. CASE "left" \notin DOMAIN j
      <4>1. ~changed[s]
        BY <1>1, <1>3, <3>2, <3>4 DEF Knows
      <4>2. ~Touched
        BY <2>4, <3>2 DEF Touched
      <4> QED
        BY <3>1, <3>4, <4>1, <4>2, Answered DEF Refusal
    <3> QED
      BY <3>3, <3>4
  <2>6. CASE (j.any \/ there) /\ j.cmd = "clean"
    <3> DEFINE k == [step |-> "clean", left |-> j.left]
    <3>1. Continue(s, k)
      BY <2>1, <2>6
    <3>2. k.step = "clean" /\ DOMAIN k = {"step", "left"} /\ k.left = j.left
      OBVIOUS
    <3> HIDE DEF k
    <3>3. PICK g \in Homes : j.target = <<g>> /\ g \notin j.left /\ j.left \subseteq Homes
      BY <1>2, <2>6 DEF Removing, RemoveFields
    <3>4. ASSUME NEW h \in j.left, <<h>> \in DOMAIN tree PROVE <<h>> \in DOMAIN tree'
      <4>1. <<h>> # j.target /\ h \in Homes
        <5>1. h # g
          BY <3>3
        <5> QED
          BY <3>3, <5>1
      <4> QED
        BY <1>4, <2>1, <3>4, <4>1
    <3>5. ~overlapped[s] => Undisturbed(k, tree')
      BY <1>3, <2>3, <2>6, <3>2, <3>4 DEF Undisturbed
    <3>6. Knows(k, changed[s] \/ Touched)
      BY <3>2 DEF Knows
    <3> QED
      BY <3>1, <3>5, <3>6, Continued
  <2>7. CASE Answer(s, "RESP_OK")
    BY <2>7, Answered
  <2> QED
    BY <2>1, <2>5, <2>6, <2>7
<1> QED
  BY <1>5, <1>6, <1>7

LEMMA CleanJobs ==
    ASSUME TypeInv, JobInv, NEW s \in Sessions, ended = "no", CleanNext(s)
    PROVE  JobStep(s)
<1> DEFINE j == job[s]
<1>1. j.step = "clean" /\ UNCHANGED <<tree, data>> /\ JobShape(j)
  BY DEF CleanNext, TypeInv
<1>2. DOMAIN j = {"step", "left"} /\ j.left \subseteq Homes
  BY <1>1 DEF JobShape, Idle, Cleaning, Removing, Archiving, TarSteps, ZipSteps
<1>3. ~overlapped[s] => \A h \in j.left : <<h>> \in DOMAIN tree
  BY <1>2 DEF JobInv, Undisturbed
<1>4. CASE j.left = {}
  BY <1>4, Answered DEF CleanNext
<1>5. CASE j.left # {}
  <2>1. PICK h \in j.left : Continue(s, CleanHome(h, j.left \ {h}))
    BY <1>5 DEF CleanNext
  <2> DEFINE k == CleanHome(h, j.left \ {h})
  <2>2. /\ k.step = "remove" /\ k.target = <<h>> /\ k.seen = Below(<<h>>) /\ k.left = j.left \ {h}
        /\ "left" \in DOMAIN k
    BY DEF CleanHome
  <2>3. Continue(s, k)
    BY <2>1
  <2> HIDE DEF k
  <2>4. \A q \in DOMAIN tree : IsStrictPrefix(k.target, q) => q \in k.seen
    BY <2>2 DEF Below
  <2>5. ~overlapped[s] => Undisturbed(k, tree')
    BY <1>1, <1>3, <2>2, <2>4 DEF Undisturbed
  <2>6. Knows(k, changed[s] \/ Touched)
    BY <2>2 DEF Knows
  <2> QED
    BY <2>3, <2>5, <2>6, Continued
<1> QED
  BY <1>4, <1>5

LEMMA ArchiveJobs ==
    ASSUME TypeInv, JobInv, NEW s \in Sessions, ended = "no",
           TarOpen(s) \/ TarAdd(s) \/ ArchiveOpen(s) \/ ArchiveCopy(s) \/ TarUnlink(s)
           \/ ZipOpen(s) \/ ZipClose(s)
    PROVE  JobStep(s)
<1> DEFINE j == job[s]
<1>1. j.step \in TarSteps \cup ZipSteps
  BY DEF TarOpen, TarAdd, ArchiveOpen, ArchiveCopy, TarUnlink, ZipOpen, ZipClose, TarSteps, ZipSteps
<1>2. Archiving(j)
  BY <1>1, ArchivingSteps DEF TypeInv
<1>3. DOMAIN j = ArchiveFields /\ "left" \notin ArchiveFields
  BY <1>2 DEF Archiving, ArchiveFields
<1>4. (~overlapped[s] => Undisturbed(j, tree)) /\ Knows(j, changed[s])
  BY DEF JobInv
\* Whatever file is made, what is one already stays one.
<1>5. ASSUME NEW p, NEW v, tree' = Naming(p, v), v # Dir, NEW q \in DOMAIN tree, tree[q] # Dir
      PROVE  q \in DOMAIN tree' /\ tree'[q] # Dir
  BY <1>5 DEF Naming
<1>6. ASSUME NEW k, Continue(s, k), DOMAIN k = ArchiveFields, k.files = j.files,
             k.directory = j.directory, k.step = "add", j.step \in {"tar open", "add"},
             tree' = tree \/ \E p, v : tree' = Naming(p, v) /\ v # Dir
      PROVE  JobStep(s)
  <2>1. ASSUME ~overlapped[s], ~k.directory, NEW i \in DOMAIN k.files
        PROVE  k.files[i] \in DOMAIN tree' /\ tree'[k.files[i]] # Dir
    <3>1. k.files[i] \in DOMAIN tree /\ tree[k.files[i]] # Dir
      BY <1>4, <1>6, <2>1 DEF Undisturbed
    <3> QED
      BY <1>5, <1>6, <3>1
  <2>2. ~overlapped[s] => Undisturbed(k, tree')
    BY <1>3, <1>6, <2>1 DEF Undisturbed
  <2>3. Knows(k, changed[s] \/ Touched)
    BY <1>6 DEF Knows
  <2> QED
    BY <1>6, <2>2, <2>3, Continued
<1>7. ASSUME NEW k, Continue(s, k), DOMAIN k = ArchiveFields, k.step \in {"copy", "unlink", "zip close"}
      PROVE  JobStep(s)
  <2>1. Undisturbed(k, tree') /\ Knows(k, changed[s] \/ Touched)
    BY <1>3, <1>7 DEF Undisturbed, Knows
  <2> QED
    BY <1>7, <2>1, Continued
<1>8. CASE TarOpen(s)
  <2>1. j.step = "tar open" /\ Free # {}
    BY <1>8 DEF TarOpen
  <2>2. CASE CanCreate(j.tar)
    <3> DEFINE k == [j EXCEPT !.step = "add", !.out = NumberFor(j.tar)]
    <3>1. Continue(s, k) /\ Create(j.tar)
      BY <1>8, <2>2 DEF TarOpen
    <3>2. DOMAIN k = ArchiveFields /\ k.files = j.files /\ k.directory = j.directory /\ k.step = "add"
      BY <1>3 DEF ArchiveFields
    <3> HIDE DEF k
    <3>3. NumberFor(j.tar) # Dir
      BY <1>2, <2>1, <2>2, NumberIsOwn DEF Archiving, TypeInv
    <3>4. tree' = Naming(j.tar, NumberFor(j.tar))
      BY <3>1 DEF Create
    <3> DEFINE n == NumberFor(j.tar)
    <3>5. tree' = Naming(j.tar, n) /\ n # Dir
      BY <3>3, <3>4
    <3> HIDE DEF n
    <3>6. tree' = tree \/ \E p, v : tree' = Naming(p, v) /\ v # Dir
      BY <3>5
    <3>7. j.step \in {"tar open", "add"}
      BY <2>1
    <3> QED
      BY <1>6, <3>1, <3>2, <3>6, <3>7
  <2>3. CASE ~CanCreate(j.tar)
    <3> DEFINE k == [j EXCEPT !.step = "add"]
    <3>1. Continue(s, k) /\ UNCHANGED tree
      BY <1>8, <2>3 DEF TarOpen
    <3>2. DOMAIN k = ArchiveFields /\ k.files = j.files /\ k.directory = j.directory /\ k.step = "add"
      BY <1>3 DEF ArchiveFields
    <3> HIDE DEF k
    <3> QED
      BY <1>6, <2>1, <3>1, <3>2
  <2> QED
    BY <2>2, <2>3
<1>9. CASE TarAdd(s)
  <2> DEFINE f == j.files[j.next]
  <2>1. j.step = "add" /\ j.next <= Len(j.files) /\ UNCHANGED tree
    BY <1>9 DEF TarAdd
  <2>2. CASE IsFile(f)
    <3> DEFINE k == [j EXCEPT !.next = @ + 1]
    <3>1. Continue(s, k)
      BY <1>9, <2>2 DEF TarAdd
    <3>2. DOMAIN k = ArchiveFields /\ k.files = j.files /\ k.directory = j.directory /\ k.step = "add"
      BY <1>3, <2>1 DEF ArchiveFields
    <3> HIDE DEF k
    <3> QED
      BY <1>6, <2>1, <3>1, <3>2
  <2>3. CASE ~IsFile(f)
    <3>1. Throw(s, IF j.directory THEN "directory listed" ELSE "race") /\ UNCHANGED <<tree, data>>
      BY <1>9, <2>3 DEF TarAdd
    <3>2. j.next \in DOMAIN j.files
      <4>1. j.files \in Seq(AllPaths) /\ j.next \in Nat \ {0}
        BY <1>2 DEF Archiving
      <4>2. DOMAIN j.files = 1 .. Len(j.files) /\ Len(j.files) \in Nat
        BY <4>1, LenProperties
      <4> QED
        BY <2>1, <4>1, <4>2
    <3>3. ~j.directory => overlapped[s]
      BY <1>4, <2>1, <2>3, <3>2 DEF Undisturbed, IsFile, Exists
    <3>4. PICK w : w = (IF j.directory THEN "directory listed" ELSE "race")
      OBVIOUS
    <3>5. Throw(s, w) /\ (w = "race" => overlapped[s])
      BY <3>1, <3>3, <3>4
    <3> QED
      BY <3>1, <3>5, Thrown
  <2> QED
    BY <2>2, <2>3
<1>10. CASE ArchiveOpen(s) \/ ArchiveCopy(s)
  <2>1. j.step = "add" \/ j.step = "copy"
    BY <1>10 DEF ArchiveOpen, ArchiveCopy
  <2>2. Refusal(s)
    BY <2>1 DEF Refusal
  <2>3. \/ Answer(s, "RESP_IO_ERROR")
        \/ \E n : Continue(s, [j EXCEPT !.step = "copy", !.out = n])
        \/ Continue(s, [j EXCEPT !.step = "unlink"])
    BY <1>10 DEF ArchiveOpen, ArchiveCopy
  <2>4. ASSUME NEW n, Continue(s, [j EXCEPT !.step = "copy", !.out = n]) PROVE JobStep(s)
    <3> DEFINE k == [j EXCEPT !.step = "copy", !.out = n]
    <3>1. DOMAIN k = ArchiveFields /\ k.step = "copy"
      BY <1>3 DEF ArchiveFields
    <3>2. Continue(s, k)
      BY <2>4
    <3> HIDE DEF k
    <3> QED
      BY <1>7, <3>1, <3>2
  <2>5. CASE Continue(s, [j EXCEPT !.step = "unlink"])
    <3> DEFINE k == [j EXCEPT !.step = "unlink"]
    <3>1. DOMAIN k = ArchiveFields /\ k.step = "unlink"
      BY <1>3 DEF ArchiveFields
    <3>2. Continue(s, k)
      BY <2>5
    <3> HIDE DEF k
    <3> QED
      BY <1>7, <3>1, <3>2
  <2> QED
    BY <2>2, <2>3, <2>4, <2>5, Answered
<1>11. CASE TarUnlink(s) \/ ZipClose(s)
  <2>1. Answer(s, "RESP_COMPRESS")
    BY <1>11 DEF TarUnlink, ZipClose
  <2> QED
    BY <2>1, Answered
<1>12. CASE ZipOpen(s)
  <2>1. j.step = "zip open" /\ UNCHANGED <<tree, data>>
    BY <1>12 DEF ZipOpen
  <2>2. CASE Answer(s, "RESP_IO_ERROR")
    <3>1. Refusal(s)
      BY <1>3, <1>4, <2>1 DEF Refusal, Knows, Touched
    <3> QED
      BY <2>2, <3>1, Answered
  <2>3. CASE Continue(s, [j EXCEPT !.step = "zip close"])
    <3> DEFINE k == [j EXCEPT !.step = "zip close"]
    <3>1. DOMAIN k = ArchiveFields /\ k.step = "zip close"
      BY <1>3 DEF ArchiveFields
    <3>2. Continue(s, k)
      BY <2>3
    <3> HIDE DEF k
    <3> QED
      BY <1>7, <3>1, <3>2
  <2> QED
    BY <1>12, <2>2, <2>3 DEF ZipOpen
<1> QED
  BY <1>8, <1>9, <1>10, <1>11, <1>12

LEMMA JobInvStep ==
    ASSUME TypeInv, JobInv, NEW s \in Sessions, Step(s)
    PROVE  JobInv' /\ JobStep(s)
<1>1. ended = "no" /\ Remember(s)
  BY DEF Step
<1>2. JobStep(s)
  <2>1. CASE Ask(s)
    <3>1. job[s] = Idle
      BY <2>1 DEF Ask, Busy
    <3> QED
      BY <1>1, <2>1, <3>1, RequestJobs, CompressJobs DEF Ask
  <2>2. CASE Work(s)
    BY <1>1, <2>2, RemoveJobs, CleanJobs, ArchiveJobs DEF Work
  <2> QED
    BY <2>1, <2>2 DEF Step
<1>3. ASSUME NEW t \in Sessions, t # s
      PROVE  /\ job'[t] = job[t]
             /\ changed'[t] <=> job[t] # Idle /\ changed[t]
             /\ overlapped'[t] <=> job[t] # Idle /\ (overlapped[t] \/ Touched)
  <2>1. job'[t] = job[t]
    <3>1. Outcome(s)
      BY StepTypes
    <3> QED
      BY <1>3, <3>1 DEF Outcome, Answer, Continue, Throw, TypeInv, OtherTypes
  <2>2. overlapped'[t] <=> job'[t] # Idle /\ (overlapped[t] \/ (t # s /\ Busy(t) /\ Touched))
    BY <1>1, Zenon DEF Remember
  <2>3. changed'[t] <=> job'[t] # Idle /\ (changed[t] \/ (t = s /\ Touched))
    BY <1>1, Zenon DEF Remember
  <2> QED
    BY <1>3, <2>1, <2>2, <2>3 DEF Busy
<1>4. /\ changed'[s] <=> job'[s] # Idle /\ (changed[s] \/ Touched)
      /\ overlapped'[s] <=> job'[s] # Idle /\ overlapped[s]
  <2>1. overlapped'[s] <=> job'[s] # Idle /\ (overlapped[s] \/ (s # s /\ Busy(s) /\ Touched))
    BY <1>1, Zenon DEF Remember
  <2>2. changed'[s] <=> job'[s] # Idle /\ (changed[s] \/ (s = s /\ Touched))
    BY <1>1, Zenon DEF Remember
  <2> QED
    BY <2>1, <2>2
<1>5. ASSUME NEW t \in Sessions
      PROVE  /\ ~overlapped'[t] => Undisturbed(job'[t], tree')
             /\ job'[t] = Idle => ~overlapped'[t] /\ ~changed'[t]
             /\ Knows(job'[t], changed'[t])
  <2>1. CASE t = s
    <3>1. job'[t] = Idle => Undisturbed(job'[t], tree') /\ Knows(job'[t], changed'[t])
      BY IdleShape
    <3>2. ~overlapped[s] => Undisturbed(job'[s], tree')
      BY <1>2 DEF JobStep
    <3>3. Knows(job'[s], changed'[s])
      BY <1>2, <1>4 DEF JobStep, Knows
    <3> QED
      BY <1>4, <2>1, <3>1, <3>2, <3>3
  <2>2. CASE t # s
    <3>1. (~overlapped[t] => Undisturbed(job[t], tree)) /\ Knows(job[t], changed[t])
      BY DEF JobInv
    <3>2. Knows(job[t], changed'[t])
      BY <1>3, <2>2, <3>1 DEF Knows
    <3>3. ~overlapped'[t] => Undisturbed(job[t], tree')
      <4>1. CASE job[t] = Idle
        BY <4>1, IdleShape
      <4>2. CASE job[t] # Idle
        BY <1>3, <2>2, <3>1, <4>2 DEF Touched
      <4> QED
        BY <4>1, <4>2
    <3> QED
      BY <1>3, <2>2, <3>2, <3>3
  <2> QED
    BY <2>1, <2>2
<1>6. ended' = "race" => \E t \in Sessions : overlapped'[t]
  <2>1. ASSUME ended' = "race" PROVE overlapped'[s]
    <3>1. overlapped[s] /\ job' = job
      BY <1>2, <2>1 DEF JobStep
    <3>2. job[s] # Idle
      BY <3>1 DEF JobInv
    <3> QED
      BY <1>4, <3>1, <3>2
  <2> QED
    BY <2>1
<1>7. \A t \in Sessions :
        /\ ~overlapped'[t] => Undisturbed(job'[t], tree')
        /\ job'[t] = Idle' => ~overlapped'[t] /\ ~changed'[t]
        /\ Knows(job'[t], changed'[t])
  BY <1>5 DEF Idle
<1> QED
  BY <1>2, <1>6, <1>7 DEF JobInv, Undisturbed, Knows

LEMMA JobInvHolds == Spec => []JobInv
<1>1. Init => JobInv
  <2> SUFFICES ASSUME Init PROVE JobInv
    OBVIOUS
  <2>1. \A s \in Sessions : job[s] = Idle /\ ~overlapped[s] /\ ~changed[s]
    BY DEF Init
  <2>2. ended # "race"
    BY DEF Init
  <2> QED
    BY <2>1, <2>2, IdleShape DEF JobInv
<1>2. TypeInv /\ JobInv /\ [Next]_vars => JobInv'
  <2> SUFFICES ASSUME TypeInv, JobInv, [Next]_vars PROVE JobInv'
    OBVIOUS
  <2>1. CASE \E s \in Sessions : Step(s)
    BY <2>1, JobInvStep
  <2>2. CASE Rest \/ UNCHANGED vars
    <3>1. UNCHANGED <<tree, job, ended, overlapped, changed>>
      BY <2>2 DEF Rest, vars
    <3> QED
      BY <3>1 DEF JobInv, Undisturbed, Knows, Idle
  <2> QED
    BY <2>1, <2>2 DEF Next
<1> QED
  BY <1>1, <1>2, TypeInvHolds, PTL DEF Spec

(***************************************************************************)
(* The process ends otherwise than by a request that always ends it only   *)
(* after another session has changed files while a job was going on: what  *)
(* a handler has checked is so until then (client_controller.cpp:96-134,   *)
(* compression_controller.hpp:36-64).                                      *)
(***************************************************************************)
THEOREM EndsByOverlap == Spec => []EndsOnlyByOverlap
<1>1. JobInv => EndsOnlyByOverlap
  BY DEF JobInv, EndsOnlyByOverlap
<1> QED
  BY <1>1, JobInvHolds, PTL

(***************************************************************************)
(* A request that is refused has changed nothing, one in several steps     *)
(* neither; clean is refused only for what another session has removed     *)
(* (client_controller.cpp:94, 464-469).                                    *)
(***************************************************************************)
THEOREM RefusedNothing == Spec => RefusedChangesNothing
<1>1. TypeInv /\ JobInv /\ [Next]_vars
      => [\A s \in Sessions :
            LET j == job[s] IN
            last' = <<s, "RESP_IO_ERROR">> /\ j.step # "copy" /\ j.step # "add" =>
               IF "left" \in DOMAIN j THEN overlapped[s]
               ELSE ~changed[s] /\ ~Touched]_vars
  <2> SUFFICES ASSUME TypeInv, JobInv, NEW s \in Sessions, Step(s), NEW t \in Sessions,
                      last' = <<t, "RESP_IO_ERROR">>
               PROVE  Refusal(t)
    BY DEF Next, Rest, Refusal
  <2>1. last'[1] = s /\ last'[1] = t
    <3>1. \E r : last' = <<s, r>>
      BY StepTypes DEF Outcome, Answer, Continue, Throw
    <3> QED
      BY <3>1
  <2> QED
    BY <2>1, JobInvStep DEF JobStep
<1> QED
  BY <1>1, TypeInvHolds, JobInvHolds, PTL DEF Spec, RefusedChangesNothing
-----------------------------------------------------------------------------
(***************************************************************************)
(* What an archive holds.  As long as no other session changes files, all  *)
(* that was listed is as it was when it was listed, the tar holds the      *)
(* first of it, then all, and the archive what the tar held.               *)
(***************************************************************************)
Listing(j) ==
    /\ j.tar # j.archive
    /\ Front(j.archive) = Front(j.tar) /\ Front(j.tar) # <<>>
    /\ j.listed = [i \in DOMAIN j.files |-> j.listed[i]]
    /\ \A i \in DOMAIN j.files : IsStrictPrefix(Front(j.tar), j.files[i])

Asked(j) ==
    /\ ~j.directory /\ j.files # <<>>
    /\ j.step \in TarSteps => \A i \in DOMAIN j.files : j.files[i] # j.tar

Is(p, n, t) == p \in DOMAIN t /\ t[p] = n

AsListed(j, t, d) ==
    \A i \in DOMAIN j.files :
        /\ j.files[i] \in DOMAIN t /\ t[j.files[i]] # Dir
        /\ j.listed[i] = <<j.files[i], d[t[j.files[i]]]>>

Made(j, t, d) ==
    /\ j.step \in {"tar open", "add", "zip open", "zip close"} => AsListed(j, t, d)
    /\ j.step = "tar open" => j.out = Dir /\ j.next = 1
    /\ j.step = "add" =>
          \/ j.out = Dir /\ Is(j.tar, Dir, t)
          \/ /\ j.out # Dir /\ Is(j.tar, j.out, t) /\ j.next <= Len(j.files) + 1
             /\ d[j.out] = [i \in 1 .. j.next - 1 |-> j.listed[i]]
    /\ j.step = "copy" =>
          \/ Is(j.tar, Dir, t)
          \/ /\ j.tar \in DOMAIN t /\ t[j.tar] # Dir /\ d[t[j.tar]] = j.listed
             /\ j.out # Dir /\ Is(j.archive, j.out, t) /\ d[j.out] = <<>>
    /\ j.step = "unlink" =>
          \/ Is(j.tar, Dir, t)
          \/ j.archive \in DOMAIN t /\ t[j.archive] # Dir /\ d[t[j.archive]] = j.listed
    /\ j.step = "zip close" => ~Is(j.archive, Dir, t)

ArchiveInv ==
    \A s \in Sessions :
        job[s].step \in TarSteps \cup ZipSteps =>
            /\ Listing(job[s])
            /\ ~overlapped[s] /\ Asked(job[s]) => Made(job[s], tree, data)

Result(s) ==
    LET j == job[s] IN
    Busy(s) /\ last' = <<s, "RESP_COMPRESS">> /\ ~overlapped[s]
    /\ ~j.directory /\ j.files # <<>>
    /\ (j.step = "unlink" => ~Contains(j.files, j.tar) /\ ~IsDir(j.tar)) =>
       /\ j.archive \in DOMAIN tree' /\ tree'[j.archive] # Dir
       /\ data'[tree'[j.archive]] = j.listed
       /\ j.step = "unlink" => j.tar \notin DOMAIN tree'

\* What a step of s keeps of ArchiveInv, and that the archive is as it should be.
ArchiveStep(s) ==
    /\ job'[s].step \in TarSteps \cup ZipSteps =>
          /\ Listing(job'[s])
          /\ ~overlapped[s] /\ Asked(job'[s]) => Made(job'[s], tree', data')
    /\ Result(s)

LEMMA NoArchive ==
    ASSUME TypeInv, ArchiveInv, NEW s \in Sessions,
           \/ \E r : r # "RESP_COMPRESS" /\ Answer(s, r)
           \/ \E j : j.step \in {"remove", "clean"} /\ Continue(s, j)
           \/ \E w : Throw(s, w) /\ UNCHANGED <<tree, data>>
    PROVE  ArchiveStep(s)
<1>1. \E r : r # "RESP_COMPRESS" /\ last' = <<s, r>>
  <2>1. "none" # "RESP_COMPRESS"
    OBVIOUS
  <2> QED
    BY <2>1 DEF Answer, Continue, Throw
<1>2. Result(s)
  BY <1>1 DEF Result
<1>3. CASE \E r : Answer(s, r)
  <2>1. job'[s].step = "idle"
    BY <1>3, IdleShape DEF Answer, TypeInv, OtherTypes
  <2> QED
    BY <1>2, <2>1 DEF ArchiveStep, TarSteps, ZipSteps
<1>4. CASE \E j : j.step \in {"remove", "clean"} /\ Continue(s, j)
  <2>1. job'[s].step \in {"remove", "clean"}
    BY <1>4 DEF Continue, TypeInv, OtherTypes
  <2> QED
    BY <1>2, <2>1 DEF ArchiveStep, TarSteps, ZipSteps
<1>5. CASE UNCHANGED <<job, tree, data>>
  BY <1>2, <1>5 DEF ArchiveStep, ArchiveInv
<1> QED
  BY <1>3, <1>4, <1>5 DEF Throw

LEMMA OtherArchives ==
    ASSUME TypeInv, ArchiveInv, NEW s \in Sessions,
           RemovePath(s) \/ RemoveParent(s) \/ Clean(s) \/ MakeDirectory(s) \/ ChangeDirectory(s)
           \/ Move(s) \/ Copy(s) \/ Login(s) \/ CleanNext(s) \/ RemoveEntry(s) \/ RemoveThrows(s)
           \/ RemoveTarget(s)
    PROVE  ArchiveStep(s)
<1>1. \A cmd, p : RemoveAll(cmd, p).step \in {"remove", "clean"}
  BY DEF RemoveAll
<1>2. CASE RemovePath(s) \/ RemoveParent(s)
  <2>1. \/ \E r \in {"RESP_OK", "RESP_IO_ERROR"} : Answer(s, r)
        \/ \E cmd, p : Continue(s, RemoveAll(cmd, p))
    BY <1>2 DEF RemovePath, RemoveParent
  <2> QED
    BY <1>1, <2>1, NoArchive
<1>3. CASE Clean(s)
  <2> DEFINE j == [step |-> "clean", left |-> {h \in Homes : IsDir(<<h>>)}]
  <2>1. Continue(s, j) /\ j.step = "clean"
    BY <1>3 DEF Clean
  <2> HIDE DEF j
  <2> QED
    BY <2>1, NoArchive
<1>4. CASE MakeDirectory(s) \/ ChangeDirectory(s) \/ Move(s) \/ Login(s)
  <2>1. \E r \in {"RESP_OK", "RESP_IO_ERROR"} : Answer(s, r)
    BY <1>4 DEF MakeDirectory, ChangeDirectory, Move, Login
  <2> QED
    BY <2>1, NoArchive
<1>5. CASE Copy(s)
  <2>1. \/ \E r \in {"RESP_OK", "RESP_IO_ERROR"} : Answer(s, r)
        \/ Throw(s, "cp") /\ UNCHANGED <<tree, data>>
    BY <1>5 DEF Copy
  <2> QED
    BY <2>1, NoArchive
<1>6. CASE CleanNext(s)
  <2>1. \A h, left : CleanHome(h, left).step = "remove"
    BY DEF CleanHome
  <2>2. Answer(s, "RESP_OK") \/ \E h, left : Continue(s, CleanHome(h, left))
    BY <1>6 DEF CleanNext
  <2> QED
    BY <2>1, <2>2, NoArchive
<1>7. CASE RemoveEntry(s)
  <2> DEFINE j == [job[s] EXCEPT !.any = TRUE]
  <2>1. Continue(s, j) /\ job[s].step = "remove"
    BY <1>7 DEF RemoveEntry
  <2>2. Removing(job[s])
    <3>1. JobShape(job[s])
      BY DEF TypeInv
    <3> QED
      BY <2>1, <3>1 DEF JobShape, Idle, Cleaning, Archiving, TarSteps, ZipSteps
  <2>3. j.step = "remove"
    BY <2>1, <2>2 DEF Removing, RemoveFields
  <2> HIDE DEF j
  <2> QED
    BY <2>1, <2>3, NoArchive
<1>8. CASE RemoveThrows(s)
  BY <1>8, NoArchive DEF RemoveThrows
<1>9. CASE RemoveTarget(s)
  <2> DEFINE j == [step |-> "clean", left |-> job[s].left]
  <2>1. Continue(s, j) \/ \E r \in {"RESP_OK", "RESP_IO_ERROR"} : Answer(s, r)
    BY <1>9 DEF RemoveTarget
  <2>2. j.step = "clean"
    OBVIOUS
  <2> HIDE DEF j
  <2> QED
    BY <2>1, <2>2, NoArchive
<1> QED
  BY <1>2, <1>3, <1>4, <1>5, <1>6, <1>7, <1>8, <1>9

\* What is listed is below the directory in which the archive is made.
LEMMA CompressArchives ==
    ASSUME TypeInv, ArchiveInv, NEW s \in Sessions, Compress(s) \/ CompressAll(s)
    PROVE  ArchiveStep(s)
<1>1. UNCHANGED <<tree, data>> /\ Len(cwd[s]) <= MaxDepth
  BY DEF Compress, CompressAll
<1>2. cwd[s] \in AllPaths /\ cwd[s] # <<>> /\ cwd[s] \in Seq(Elements)
  BY PathsAmong, PathShape DEF TypeInv, OtherTypes
<1>3. ASSUME NEW a \in Archives, NEW f \in Formats, NEW files, Continue(s, Archive(s, a, f, files)),
             \A i \in DOMAIN files : IsStrictPrefix(cwd[s], files[i]),
             (\A i \in DOMAIN files : ~IsDir(files[i])) =>
                \A i \in DOMAIN files : files[i] \in DOMAIN tree /\ tree[files[i]] # Dir
      PROVE  ArchiveStep(s)
  <2> DEFINE j == Archive(s, a, f, files)
             Held(i) == <<files[i], IF IsFile(files[i]) THEN data[tree[files[i]]] ELSE <<>>>>
  <2>1. j.step = "zip open" \/ j.step = "tar open"
    BY DEF Archive
  <2>2. j.files = files /\ j.out = 0 /\ j.next = 1
    BY DEF Archive
  <2>3. j.directory = \E i \in DOMAIN files : IsDir(files[i])
    BY Zenon DEF Archive
  <2>4. j.tar = Append(cwd[s], a \o ".tar") /\ j.archive = Append(cwd[s], a \o Extension[f])
    BY DEF Archive
  <2>5. j.listed = [i \in DOMAIN files |-> Held(i)]
    BY DEF Archive
  <2> DEFINE n == a \o ".tar"
             m == a \o Extension[f]
  <2>6. n \in Names \cup Written /\ m \in Names \cup Written
    BY DEF Written
  <2>7. n # m
    BY FilesAssumption
  <2>8. n # m /\ n \in Names \cup Written /\ m \in Names \cup Written
    BY <2>6, <2>7
  <2>9. n \in Elements /\ m \in Elements
    BY <2>8 DEF Elements
  <2> HIDE DEF j, n, m
  <2>10. j.tar = Append(cwd[s], n) /\ j.archive = Append(cwd[s], m)
    BY <2>4 DEF n, m
  <2>11. j.tar # j.archive /\ Front(j.tar) = cwd[s] /\ Front(j.archive) = cwd[s]
    <3>1. Front(j.tar) = cwd[s] /\ Front(j.archive) = cwd[s]
      BY <1>1, <1>2, <2>8, <2>10, NameBelow
    <3>2. /\ Append(cwd[s], n)[Len(cwd[s]) + 1] = n /\ Append(cwd[s], m)[Len(cwd[s]) + 1] = m
      BY <1>2, <2>9, AppendProperties
    <3> QED
      BY <2>8, <2>10, <3>1, <3>2
  <2>12. \A i \in DOMAIN files : j.listed[i] = Held(i)
    BY <2>5
  <2>13. j.listed = [i \in DOMAIN j.files |-> j.listed[i]]
    BY <2>2, <2>5
  <2> HIDE DEF Held
  <2>14. Listing(j)
    BY <1>2, <1>3, <2>2, <2>11, <2>13 DEF Listing
  <2>15. ASSUME Asked(j) PROVE Made(j, tree, data)
    <3>1. \A i \in DOMAIN files : files[i] \in DOMAIN tree /\ tree[files[i]] # Dir
      BY <1>3, <2>3, <2>15 DEF Asked
    <3>2. \A i \in DOMAIN files : Held(i) = <<files[i], data[tree[files[i]]]>>
      BY <3>1 DEF Held, IsFile, Exists
    <3>3. AsListed(j, tree, data)
      BY <2>2, <2>12, <3>1, <3>2 DEF AsListed
    <3> QED
      BY <2>1, <2>2, <3>3 DEF Made, Dir
  <2>16. job'[s] = j /\ last' = <<s, "none">>
    BY <1>3 DEF Continue, TypeInv, OtherTypes, j
  <2>17. Result(s)
    BY <2>16 DEF Result
  <2> QED
    BY <1>1, <2>14, <2>15, <2>16, <2>17 DEF ArchiveStep
<1>4. CASE Compress(s)
  <2>1. PICK a \in Archives, f \in Formats, files \in Listings(s) :
           IF \A i \in DOMAIN files : Exists(files[i])
           THEN Continue(s, Archive(s, a, f, files))
           ELSE Answer(s, "RESP_IO_ERROR")
    BY <1>4 DEF Compress
  <2>2. CASE \A i \in DOMAIN files : Exists(files[i])
    <3>1. (\A i \in DOMAIN files : ~IsDir(files[i])) =>
             \A i \in DOMAIN files : files[i] \in DOMAIN tree /\ tree[files[i]] # Dir
      BY <2>2 DEF Exists, IsDir
    <3>2. ASSUME NEW i \in DOMAIN files PROVE IsStrictPrefix(cwd[s], files[i])
      <4>1. files[i] \in Paths /\ Front(files[i]) = cwd[s]
        BY <1>1, ListedFiles
      <4>2. files[i] \in Seq(Elements) /\ files[i] # <<>>
        BY <4>1, PathsAmong, PathShape
      <4> QED
        BY <4>1, <4>2, FrontOf
    <3> QED
      BY <1>3, <2>1, <2>2, <3>1, <3>2
  <2>3. CASE Answer(s, "RESP_IO_ERROR")
    BY <2>3, NoArchive
  <2> QED
    BY <2>1, <2>2, <2>3
<1>5. CASE CompressAll(s)
  <2> DEFINE S == {p \in Below(cwd[s]) : IsFile(p)}
  <2>1. PICK a \in Archives, f \in Formats :
           IF IsDir(cwd[s]) THEN Continue(s, Archive(s, a, f, SetToSeq(S))) ELSE Throw(s, "cwd lost")
    BY <1>5 DEF CompressAll
  <2>2. IsFiniteSet(S)
    <3>1. S \in SUBSET DOMAIN tree
      BY DEF Below
    <3> QED
      BY <3>1, FS_Subset DEF TypeInv, IsTree
  <2>3. \A p \in S : p \in DOMAIN tree /\ tree[p] # Dir /\ IsStrictPrefix(cwd[s], p)
    BY DEF IsFile, Exists, Below
  <2> HIDE DEF S
  <2>4. \A i \in DOMAIN SetToSeq(S) : SetToSeq(S)[i] \in S
    <3>1. DOMAIN SetToSeq(S) = 1 .. Len(SetToSeq(S))
      BY <2>2, AllFilesListed, LenProperties
    <3> QED
      BY <2>2, <3>1, AllFilesListed
  <2>5. CASE IsDir(cwd[s])
    <3>1. Continue(s, Archive(s, a, f, SetToSeq(S)))
      BY <2>1, <2>5
    <3>2. \A i \in DOMAIN SetToSeq(S) : IsStrictPrefix(cwd[s], SetToSeq(S)[i])
      BY <2>3, <2>4
    <3>3. \A i \in DOMAIN SetToSeq(S) : SetToSeq(S)[i] \in DOMAIN tree /\ tree[SetToSeq(S)[i]] # Dir
      BY <2>3, <2>4
    <3> QED
      BY <1>3, <3>1, <3>2, <3>3
  <2>6. CASE Throw(s, "cwd lost")
    BY <1>1, <2>6, NoArchive
  <2> QED
    BY <2>1, <2>5, <2>6
<1> QED
  BY <1>4, <1>5

\* Some files are listed, all are there still, so their directory is.
LEMMA DirectoryThere ==
    ASSUME TypeInv, NEW j, Archiving(j), Listing(j), Asked(j), AsListed(j, tree, data)
    PROVE  IsDir(Front(j.tar)) /\ IsDir(Front(j.archive))
<1>1. j.files \in Seq(AllPaths) /\ j.files # <<>> /\ j.tar \in AllPaths
  BY DEF Archiving, Asked
<1>2. 1 \in DOMAIN j.files
  <2>1. Len(j.files) \in Nat /\ Len(j.files) # 0 /\ DOMAIN j.files = 1 .. Len(j.files)
    BY <1>1, EmptySeq, LenProperties
  <2> QED
    BY <2>1
<1>3. j.files[1] \in DOMAIN tree /\ IsStrictPrefix(Front(j.tar), j.files[1])
  BY <1>2 DEF AsListed, Listing
<1>4. Front(j.tar) \in Seq(Elements) /\ Front(j.tar) # <<>>
  BY <1>1, PathShape, FrontOf DEF Listing
<1>5. Front(j.tar) \in DOMAIN tree /\ tree[Front(j.tar)] = Dir
  BY <1>3, <1>4 DEF TypeInv, IsTree
<1> QED
  BY <1>5 DEF IsDir, Exists, Listing

\* A job that goes on, with what is listed unchanged.
LEMMA GoesOnListing ==
    ASSUME NEW j, NEW k, Listing(j), k.tar = j.tar, k.archive = j.archive,
           k.files = j.files, k.listed = j.listed
    PROVE  Listing(k) /\ \A t, d : AsListed(k, t, d) <=> AsListed(j, t, d)
BY DEF Listing, AsListed

LEMMA ContinuedArchive ==
    ASSUME TypeInv, NEW s \in Sessions, NEW k, Continue(s, k), Listing(k),
           ~overlapped[s] /\ Asked(k) => Made(k, tree', data')
    PROVE  ArchiveStep(s)
<1>1. job'[s] = k /\ last' = <<s, "none">>
  BY DEF Continue, TypeInv, OtherTypes
<1>2. Result(s)
  BY <1>1 DEF Result
<1> QED
  BY <1>1, <1>2 DEF ArchiveStep

LEMMA TarOpenArchive ==
    ASSUME TypeInv, ArchiveInv, NEW s \in Sessions, TarOpen(s)
    PROVE  ArchiveStep(s)
<1> DEFINE j == job[s]
<1>1. j.step = "tar open" /\ Free # {}
  BY DEF TarOpen
<1>2. Archiving(j)
  BY <1>1, ArchivingSteps DEF TypeInv, TarSteps
<1>3. /\ DOMAIN j = ArchiveFields /\ Listing(j)
      /\ ~overlapped[s] /\ Asked(j) => Made(j, tree, data)
  BY <1>1, <1>2 DEF Archiving, ArchiveInv, TarSteps
<1>4. IsTree(tree) /\ j.tar \in AllPaths /\ j.tar # <<>> /\ j.next \in Nat \ {0} /\ j.files \in Seq(AllPaths)
      /\ DOMAIN data = 1 .. MaxFiles
  BY <1>2, PathShape DEF TypeInv, OtherTypes, Archiving
<1>5. CASE CanCreate(j.tar)
  <2> DEFINE n == NumberFor(j.tar)
             k == [j EXCEPT !.step = "add", !.out = n]
  <2>1. Create(j.tar) /\ Continue(s, k)
    BY <1>5 DEF TarOpen
  <2>2. n \in 1 .. MaxFiles /\ n # Dir /\ \A q \in DOMAIN tree : tree[q] = n => q = j.tar
    BY <1>1, <1>4, <1>5, NumberIsOwn
  <2>3. tree' = Naming(j.tar, n) /\ data' = [data EXCEPT ![n] = <<>>]
    BY <2>1 DEF Create
  <2> HIDE DEF n
  <2>4. /\ k.tar = j.tar /\ k.archive = j.archive /\ k.files = j.files /\ k.listed = j.listed
        /\ k.step = "add" /\ k.out = n /\ k.directory = j.directory /\ k.next = j.next
    BY <1>3 DEF ArchiveFields
  <2> HIDE DEF k
  <2>5. Listing(k)
    BY <1>3, <2>4, GoesOnListing
  <2>6. ASSUME ~overlapped[s], Asked(k) PROVE Made(k, tree', data')
    <3>1. Asked(j)
      BY <1>1, <2>4, <2>6 DEF Asked, TarSteps
    <3>2. AsListed(j, tree, data) /\ j.next = 1
      BY <1>1, <1>3, <2>6, <3>1 DEF Made
    <3>3. ASSUME NEW i \in DOMAIN j.files
          PROVE  /\ j.files[i] \in DOMAIN tree' /\ tree'[j.files[i]] = tree[j.files[i]]
                 /\ tree[j.files[i]] # Dir /\ data'[tree[j.files[i]]] = data[tree[j.files[i]]]
      <4>1. j.files[i] # j.tar
        BY <1>1, <3>1 DEF Asked, TarSteps
      <4>2. j.files[i] \in DOMAIN tree /\ tree[j.files[i]] # Dir
        BY <3>2 DEF AsListed
      <4>3. tree[j.files[i]] # n /\ tree[j.files[i]] \in 1 .. MaxFiles
        BY <1>4, <2>2, <4>1, <4>2, FilesAssumption DEF IsTree, Dir
      <4> QED
        BY <1>4, <2>3, <4>1, <4>2, <4>3 DEF Naming
    <3>4. AsListed(j, tree', data')
      BY <3>2, <3>3 DEF AsListed
    <3>5. AsListed(k, tree', data')
      BY <1>3, <2>4, <3>4, GoesOnListing
    <3>6. Is(k.tar, k.out, tree')
      BY <2>3, <2>4 DEF Naming, Is
    <3>7. data'[n] = [i \in 1 .. k.next - 1 |-> k.listed[i]]
      <4>1. data'[n] = <<>>
        BY <1>4, <2>2, <2>3
      <4>2. k.next - 1 = 0
        BY <2>4, <3>2
      <4>3. [i \in 1 .. 0 |-> k.listed[i]] = <<>>
        OBVIOUS
      <4> QED
        BY <4>1, <4>2, <4>3
    <3>8. k.next <= Len(k.files) + 1
      BY <1>4, <2>4, <3>2, LenProperties
    <3> QED
      BY <2>2, <2>4, <3>5, <3>6, <3>7, <3>8 DEF Made
  <2> QED
    BY <2>1, <2>5, <2>6, ContinuedArchive
<1>6. CASE ~CanCreate(j.tar)
  <2> DEFINE k == [j EXCEPT !.step = "add"]
  <2>1. Continue(s, k) /\ UNCHANGED <<tree, data>>
    BY <1>6 DEF TarOpen
  <2>2. /\ k.tar = j.tar /\ k.archive = j.archive /\ k.files = j.files /\ k.listed = j.listed
        /\ k.step = "add" /\ k.out = j.out /\ k.directory = j.directory
    BY <1>3 DEF ArchiveFields
  <2> HIDE DEF k
  <2>3. Listing(k)
    BY <1>3, <2>2, GoesOnListing
  <2>4. ASSUME ~overlapped[s], Asked(k) PROVE Made(k, tree', data')
    <3>1. Asked(j)
      BY <1>1, <2>2, <2>4 DEF Asked, TarSteps
    <3>2. AsListed(j, tree, data) /\ j.out = Dir
      BY <1>1, <1>3, <2>4, <3>1 DEF Made
    <3>3. IsDir(Front(j.tar))
      BY <1>2, <1>3, <3>1, <3>2, DirectoryThere
    <3>4. Is(j.tar, Dir, tree)
      BY <1>6, <3>3 DEF CanCreate, IsFile, Exists, Is
    <3>5. AsListed(k, tree', data')
      BY <1>3, <2>1, <2>2, <3>2, GoesOnListing
    <3>6. k.out = Dir /\ Is(k.tar, Dir, tree')
      BY <2>1, <2>2, <3>2, <3>4
    <3> QED
      BY <2>2, <3>5, <3>6 DEF Made
  <2> QED
    BY <2>1, <2>3, <2>4, ContinuedArchive
<1> QED
  BY <1>5, <1>6

\* One more member at the end.
LEMMA Appended ==
    ASSUME NEW n \in Nat, NEW listed, NEW d, d = [i \in 1 .. n |-> listed[i]]
    PROVE  /\ WriteAt(d, n + 1, listed[n + 1]) = [i \in 1 .. n + 1 |-> listed[i]]
           /\ Len(d) = n /\ d \in Seq({listed[i] : i \in 1 .. n})
<1> DEFINE S == {listed[i] : i \in 1 .. n}
<1>1. d \in [1 .. n -> S]
  OBVIOUS
<1> HIDE DEF S
<1>2. d \in Seq(S)
  BY <1>1
<1>3. Len(d) \in Nat /\ DOMAIN d = 1 .. Len(d)
  BY <1>2, LenProperties
<1>4. DOMAIN d = 1 .. n
  BY <1>1
<1>5. Len(d) = n
  BY <1>3, <1>4
<1>6. (IF n + 1 > Len(d) THEN n + 1 ELSE Len(d)) = n + 1
  BY <1>5
<1>7. \A k \in 1 .. n + 1 : k = n + 1 \/ (k # n + 1 /\ k <= Len(d) /\ k \in 1 .. n)
  BY <1>5
<1>8. \A k \in 1 .. n : d[k] = listed[k]
  OBVIOUS
<1>9. WriteAt(d, n + 1, listed[n + 1]) =
         [k \in 1 .. n + 1 |-> IF k = n + 1 THEN listed[n + 1] ELSE IF k <= Len(d) THEN d[k] ELSE Hole]
  BY <1>6 DEF WriteAt
<1>10. \A k \in 1 .. n + 1 :
          (IF k = n + 1 THEN listed[n + 1] ELSE IF k <= Len(d) THEN d[k] ELSE Hole) = listed[k]
  BY <1>7, <1>8
<1> HIDE DEF Hole
<1>11. WriteAt(d, n + 1, listed[n + 1]) = [i \in 1 .. n + 1 |-> listed[i]]
  BY <1>9, <1>10
<1> QED
  BY <1>2, <1>5, <1>11 DEF S

LEMMA TarAddArchive ==
    ASSUME TypeInv, ArchiveInv, NEW s \in Sessions, TarAdd(s)
    PROVE  ArchiveStep(s)
<1> DEFINE j == job[s]
           f == j.files[j.next]
<1>1. j.step = "add" /\ j.next <= Len(j.files) /\ UNCHANGED tree
  BY DEF TarAdd
<1>2. Archiving(j)
  BY <1>1, ArchivingSteps DEF TypeInv, TarSteps
<1>3. /\ DOMAIN j = ArchiveFields /\ Listing(j)
      /\ ~overlapped[s] /\ Asked(j) => Made(j, tree, data)
  BY <1>1, <1>2 DEF Archiving, ArchiveInv, TarSteps
<1>4. /\ IsTree(tree) /\ j.next \in Nat \ {0} /\ j.files \in Seq(AllPaths) /\ j.out \in 0 .. MaxFiles
      /\ DOMAIN data = 1 .. MaxFiles
  BY <1>2 DEF TypeInv, OtherTypes, Archiving
<1>5. j.next \in DOMAIN j.files /\ Len(j.files) \in Nat
  BY <1>1, <1>4, LenProperties
<1>6. CASE IsFile(f)
  <2> DEFINE k == [j EXCEPT !.next = @ + 1]
  <2>1. Continue(s, k)
    BY <1>6 DEF TarAdd
  <2>2. data' = IF j.out = 0 THEN data
               ELSE [data EXCEPT ![j.out] = WriteAt(data[j.out], j.next, <<f, data[tree[f]]>>)]
    BY <1>6 DEF TarAdd
  <2>3. /\ k.tar = j.tar /\ k.archive = j.archive /\ k.files = j.files /\ k.listed = j.listed
        /\ k.step = "add" /\ k.out = j.out /\ k.directory = j.directory /\ k.next = j.next + 1
    BY <1>1, <1>3 DEF ArchiveFields
  <2> HIDE DEF k
  <2>4. Listing(k)
    BY <1>3, <2>3, GoesOnListing
  <2>5. ASSUME ~overlapped[s], Asked(k) PROVE Made(k, tree', data')
    <3>1. Asked(j)
      BY <1>1, <2>3, <2>5 DEF Asked
    <3>2. /\ AsListed(j, tree, data)
          /\ \/ j.out = Dir /\ Is(j.tar, Dir, tree)
             \/ /\ j.out # Dir /\ Is(j.tar, j.out, tree) /\ j.next <= Len(j.files) + 1
                /\ data[j.out] = [i \in 1 .. j.next - 1 |-> j.listed[i]]
      BY <1>1, <1>3, <2>5, <3>1 DEF Made
    <3>3. CASE j.out = Dir /\ Is(j.tar, Dir, tree)
      <4>1. data' = data
        BY <2>2, <3>3 DEF Dir
      <4>2. AsListed(k, tree', data')
        BY <1>1, <1>3, <2>3, <3>2, <4>1, GoesOnListing
      <4>3. k.out = Dir /\ Is(k.tar, Dir, tree')
        BY <1>1, <2>3, <3>3
      <4> QED
        BY <2>3, <4>2, <4>3 DEF Made
    <3>4. CASE /\ j.out # Dir /\ Is(j.tar, j.out, tree) /\ j.next <= Len(j.files) + 1
               /\ data[j.out] = [i \in 1 .. j.next - 1 |-> j.listed[i]]
      <4> DEFINE n == j.next - 1
                 m == <<f, data[tree[f]]>>
      <4>1. n \in Nat /\ j.next = n + 1
        BY <1>4
      <4>2. j.listed[j.next] = m
        BY <1>5, <3>2 DEF AsListed
      <4>3. j.out \in 1 .. MaxFiles /\ j.out # 0
        BY <1>4, <3>4, FilesAssumption DEF Dir
      <4> HIDE DEF n, m
      <4>4. data[j.out] = [i \in 1 .. n |-> j.listed[i]]
        BY <3>4 DEF n
      <4>5. WriteAt(data[j.out], n + 1, j.listed[n + 1]) = [i \in 1 .. n + 1 |-> j.listed[i]]
        <5>1. PICK l : l = j.listed
          OBVIOUS
        <5>2. PICK d : d = data[j.out]
          OBVIOUS
        <5>3. d = [i \in 1 .. n |-> l[i]]
          BY <4>4, <5>1, <5>2
        <5>4. WriteAt(d, n + 1, l[n + 1]) = [i \in 1 .. n + 1 |-> l[i]]
          BY <4>1, <5>3, Appended
        <5> QED
          BY <5>1, <5>2, <5>4
      <4>6. data' = [data EXCEPT ![j.out] = WriteAt(data[j.out], j.next, m)]
        BY <2>2, <4>3 DEF m
      <4>7. data'[j.out] = [i \in 1 .. k.next - 1 |-> k.listed[i]]
        <5>1. data'[j.out] = [i \in 1 .. n + 1 |-> j.listed[i]]
          BY <1>4, <4>1, <4>2, <4>3, <4>5, <4>6
        <5>2. k.next - 1 = n + 1
          BY <2>3, <4>1
        <5> QED
          BY <2>3, <5>1, <5>2
      <4>8. ASSUME NEW i \in DOMAIN j.files
            PROVE  data'[tree[j.files[i]]] = data[tree[j.files[i]]]
        <5>1. j.files[i] # j.tar
          BY <1>1, <3>1 DEF Asked, TarSteps
        <5>2. j.files[i] \in DOMAIN tree /\ tree[j.files[i]] # Dir
          BY <3>2 DEF AsListed
        <5>3. tree[j.files[i]] # j.out /\ tree[j.files[i]] \in 1 .. MaxFiles
          BY <1>4, <3>4, <5>1, <5>2, FilesAssumption DEF IsTree, Dir, Is
        <5> QED
          BY <1>4, <4>6, <5>3
      <4>9. AsListed(j, tree', data')
        BY <1>1, <3>2, <4>8 DEF AsListed
      <4>10. AsListed(k, tree', data')
        BY <1>3, <2>3, <4>9, GoesOnListing
      <4>11. k.out # Dir /\ Is(k.tar, k.out, tree')
        BY <1>1, <2>3, <3>4
      <4>12. k.next <= Len(k.files) + 1
        BY <1>1, <1>4, <1>5, <2>3
      <4> QED
        BY <2>3, <4>7, <4>10, <4>11, <4>12 DEF Made
    <3> QED
      BY <3>2, <3>3, <3>4
  <2> QED
    BY <2>1, <2>4, <2>5, ContinuedArchive
<1>7. CASE ~IsFile(f)
  <2>1. \E w : Throw(s, w) /\ UNCHANGED <<tree, data>>
    BY <1>7 DEF TarAdd
  <2> QED
    BY <2>1, NoArchive
<1> QED
  BY <1>6, <1>7

LEMMA ArchiveOpenArchive ==
    ASSUME TypeInv, ArchiveInv, NEW s \in Sessions, ArchiveOpen(s)
    PROVE  ArchiveStep(s)
<1> DEFINE j == job[s]
<1>1. j.step = "add" /\ j.next > Len(j.files) /\ Free # {}
  BY DEF ArchiveOpen
<1>2. Archiving(j)
  BY <1>1, ArchivingSteps DEF TypeInv, TarSteps
<1>3. /\ DOMAIN j = ArchiveFields /\ Listing(j)
      /\ ~overlapped[s] /\ Asked(j) => Made(j, tree, data)
  BY <1>1, <1>2 DEF Archiving, ArchiveInv, TarSteps
<1>4. /\ IsTree(tree) /\ j.archive \in AllPaths /\ j.next \in Nat \ {0} /\ j.files \in Seq(AllPaths)
      /\ DOMAIN data = 1 .. MaxFiles
  BY <1>2 DEF TypeInv, OtherTypes, Archiving
<1>5. CASE CanCreate(j.archive)
  <2> DEFINE n == NumberFor(j.archive)
             k == [j EXCEPT !.step = "copy", !.out = n]
  <2>1. Create(j.archive) /\ Continue(s, k)
    BY <1>5 DEF ArchiveOpen
  <2>2. n \in 1 .. MaxFiles /\ n # Dir /\ \A q \in DOMAIN tree : tree[q] = n => q = j.archive
    BY <1>1, <1>4, <1>5, NumberIsOwn
  <2>3. tree' = Naming(j.archive, n) /\ data' = [data EXCEPT ![n] = <<>>]
    BY <2>1 DEF Create
  <2> HIDE DEF n
  <2>4. /\ k.tar = j.tar /\ k.archive = j.archive /\ k.files = j.files /\ k.listed = j.listed
        /\ k.step = "copy" /\ k.out = n /\ k.directory = j.directory
    BY <1>3 DEF ArchiveFields
  <2> HIDE DEF k
  <2>5. Listing(k) /\ j.tar # j.archive
    BY <1>3, <2>4, GoesOnListing DEF Listing
  <2>6. ASSUME ~overlapped[s], Asked(k) PROVE Made(k, tree', data')
    <3>1. Asked(j)
      BY <1>1, <2>4, <2>6 DEF Asked, TarSteps
    <3>2. \/ j.out = Dir /\ Is(j.tar, Dir, tree)
          \/ /\ j.out # Dir /\ Is(j.tar, j.out, tree) /\ j.next <= Len(j.files) + 1
             /\ data[j.out] = [i \in 1 .. j.next - 1 |-> j.listed[i]]
      BY <1>1, <1>3, <2>6, <3>1 DEF Made
    <3>3. CASE Is(j.tar, Dir, tree)
      <4>1. Is(k.tar, Dir, tree')
        BY <2>3, <2>4, <2>5, <3>3 DEF Is, Naming
      <4> QED
        BY <2>4, <4>1 DEF Made
    <3>4. CASE /\ j.out # Dir /\ Is(j.tar, j.out, tree) /\ j.next <= Len(j.files) + 1
               /\ data[j.out] = [i \in 1 .. j.next - 1 |-> j.listed[i]]
      <4>1. Is(j.tar, j.out, tree') /\ j.out # n
        BY <2>2, <2>3, <2>5, <3>4 DEF Is, Naming
      <4>2. j.out \in 1 .. MaxFiles
        BY <1>4, <3>4, FilesAssumption DEF IsTree, Is, Dir
      <4>3. data'[j.out] = data[j.out] /\ data'[n] = <<>>
        BY <1>4, <2>2, <2>3, <4>1, <4>2
      <4>4. data[j.out] = j.listed
        <5>1. Len(j.files) \in Nat /\ DOMAIN j.files = 1 .. Len(j.files)
          BY <1>4, LenProperties
        <5>2. j.next - 1 = Len(j.files)
          BY <1>1, <1>4, <3>4, <5>1
        <5>3. data[j.out] = [i \in DOMAIN j.files |-> j.listed[i]]
          BY <3>4, <5>1, <5>2
        <5> QED
          BY <1>3, <5>3 DEF Listing
      <4>5. Is(j.archive, n, tree')
        BY <2>3 DEF Is, Naming
      <4>6. /\ k.tar \in DOMAIN tree' /\ tree'[k.tar] # Dir /\ data'[tree'[k.tar]] = k.listed
            /\ k.out # Dir /\ Is(k.archive, k.out, tree') /\ data'[k.out] = <<>>
        BY <2>2, <2>4, <3>4, <4>1, <4>3, <4>4, <4>5 DEF Is
      <4> QED
        BY <2>4, <4>6 DEF Made
    <3> QED
      BY <3>2, <3>3, <3>4
  <2> QED
    BY <2>1, <2>5, <2>6, ContinuedArchive
<1>6. CASE ~CanCreate(j.archive)
  <2>1. Answer(s, "RESP_IO_ERROR")
    BY <1>6 DEF ArchiveOpen
  <2> QED
    BY <2>1, NoArchive
<1> QED
  BY <1>5, <1>6

\* The archive has just been made and is empty.
LEMMA CopiedToEmpty ==
    ASSUME NEW n \in Nat, NEW listed, listed = [i \in 1 .. n |-> listed[i]], NEW old, old = <<>>
    PROVE  listed \o SubSeq(old, Len(listed) + 1, Len(old)) = listed
<1> DEFINE S == {listed[i] : i \in 1 .. n}
<1>1. listed \in Seq(S) /\ Len(listed) = n
  BY Appended
<1> HIDE DEF S
<1>2. Len(<<>>) = 0 /\ Len(old) = 0
  BY EmptySeq
<1>3. SubSeq(old, Len(listed) + 1, Len(old)) = <<>>
  BY <1>1, <1>2
<1>4. listed \o <<>> = listed
  BY <1>1, ConcatEmptySeq
<1> QED
  BY <1>3, <1>4

LEMMA ArchiveCopyArchive ==
    ASSUME TypeInv, ArchiveInv, NEW s \in Sessions, ArchiveCopy(s)
    PROVE  ArchiveStep(s)
<1> DEFINE j == job[s]
           new == IF IsFile(j.tar) THEN data[tree[j.tar]] ELSE <<>>
           old == data[j.out]
           k == [j EXCEPT !.step = "unlink"]
<1>1. j.step = "copy" /\ UNCHANGED tree
  BY DEF ArchiveCopy
<1>2. Archiving(j)
  BY <1>1, ArchivingSteps DEF TypeInv, TarSteps
<1>3. /\ DOMAIN j = ArchiveFields /\ Listing(j)
      /\ ~overlapped[s] /\ Asked(j) => Made(j, tree, data)
  BY <1>1, <1>2 DEF Archiving, ArchiveInv, TarSteps
<1>4. /\ DOMAIN data = 1 .. MaxFiles /\ j.out \in 0 .. MaxFiles /\ MaxFiles \in Nat
      /\ j.files \in Seq(AllPaths) /\ IsTree(tree)
  BY <1>2, FilesAssumption DEF TypeInv, OtherTypes, Archiving
<1>5. \/ Answer(s, "RESP_IO_ERROR")
      \/ /\ Exists(j.tar) /\ Continue(s, k)
         /\ data' = [data EXCEPT ![j.out] = new \o SubSeq(old, Len(new) + 1, Len(old))]
  BY DEF ArchiveCopy
<1>6. CASE Answer(s, "RESP_IO_ERROR")
  BY <1>6, NoArchive
<1>7. CASE /\ Exists(j.tar) /\ Continue(s, k)
           /\ data' = [data EXCEPT ![j.out] = new \o SubSeq(old, Len(new) + 1, Len(old))]
  <2>1. /\ k.tar = j.tar /\ k.archive = j.archive /\ k.files = j.files /\ k.listed = j.listed
        /\ k.step = "unlink" /\ k.directory = j.directory
    BY <1>3 DEF ArchiveFields
  <2> HIDE DEF k, new, old
  <2>2. Listing(k)
    BY <1>3, <2>1, GoesOnListing
  <2>3. ASSUME ~overlapped[s], Asked(k) PROVE Made(k, tree', data')
    <3>1. Asked(j)
      BY <1>1, <2>1, <2>3 DEF Asked, TarSteps
    <3>2. \/ Is(j.tar, Dir, tree)
          \/ /\ j.tar \in DOMAIN tree /\ tree[j.tar] # Dir /\ data[tree[j.tar]] = j.listed
             /\ j.out # Dir /\ Is(j.archive, j.out, tree) /\ data[j.out] = <<>>
      BY <1>1, <1>3, <2>3, <3>1 DEF Made
    <3>3. CASE Is(j.tar, Dir, tree)
      BY <1>1, <2>1, <3>3 DEF Made
    <3>4. CASE /\ j.tar \in DOMAIN tree /\ tree[j.tar] # Dir /\ data[tree[j.tar]] = j.listed
               /\ j.out # Dir /\ Is(j.archive, j.out, tree) /\ data[j.out] = <<>>
      <4>1. new = j.listed /\ old = <<>>
        BY <3>4 DEF new, old, IsFile, Exists
      <4>2. Len(j.files) \in Nat /\ DOMAIN j.files = 1 .. Len(j.files)
        BY <1>4, LenProperties
      <4>3. new \o SubSeq(old, Len(new) + 1, Len(old)) = j.listed
        <5>1. PICK n \in Nat : n = Len(j.files)
          BY <4>2
        <5>2. PICK l : l = j.listed
          OBVIOUS
        <5>3. l = [i \in 1 .. n |-> l[i]]
          BY <1>3, <4>2, <5>1, <5>2 DEF Listing
        <5>4. l \o SubSeq(old, Len(l) + 1, Len(old)) = l
          BY <4>1, <5>3, CopiedToEmpty
        <5> QED
          BY <4>1, <5>2, <5>4
      <4>4. j.out \in 1 .. MaxFiles
        BY <1>4, <3>4 DEF Dir
      <4>5. data'[j.out] = j.listed
        BY <1>4, <1>7, <4>3, <4>4
      <4>6. k.archive \in DOMAIN tree' /\ tree'[k.archive] # Dir /\ data'[tree'[k.archive]] = k.listed
        BY <1>1, <2>1, <3>4, <4>5 DEF Is
      <4> QED
        BY <2>1, <4>6 DEF Made
    <3> QED
      BY <3>2, <3>3, <3>4
  <2> QED
    BY <1>7, <2>2, <2>3, ContinuedArchive
<1> QED
  BY <1>5, <1>6, <1>7

\* The reply: the archive is what was asked for.
LEMMA AnsweredArchive ==
    ASSUME TypeInv, NEW s \in Sessions, Answer(s, "RESP_COMPRESS"), Result(s)
    PROVE  ArchiveStep(s)
<1>1. job'[s].step = "idle"
  BY IdleShape DEF Answer, TypeInv, OtherTypes
<1> QED
  BY <1>1 DEF ArchiveStep, TarSteps, ZipSteps

LEMMA TarUnlinkArchive ==
    ASSUME TypeInv, ArchiveInv, NEW s \in Sessions, TarUnlink(s)
    PROVE  ArchiveStep(s)
<1> DEFINE j == job[s]
<1>1. j.step = "unlink" /\ Answer(s, "RESP_COMPRESS")
  BY DEF TarUnlink
<1>2. Archiving(j)
  BY <1>1, ArchivingSteps DEF TypeInv, TarSteps
<1>3. Listing(j) /\ (~overlapped[s] /\ Asked(j) => Made(j, tree, data))
  BY <1>1 DEF ArchiveInv, TarSteps
<1>4. j.tar # <<>> /\ j.tar \in Seq(Elements) /\ j.tar # j.archive /\ j.files \in Seq(AllPaths)
  BY <1>2, <1>3, PathShape DEF Archiving, Listing
<1>5. ASSUME ~overlapped[s], ~j.directory, j.files # <<>>, ~Contains(j.files, j.tar), ~IsDir(j.tar)
      PROVE  /\ j.archive \in DOMAIN tree' /\ tree'[j.archive] # Dir
             /\ data'[tree'[j.archive]] = j.listed /\ j.tar \notin DOMAIN tree'
  <2>1. Asked(j)
    <3>1. DOMAIN j.files = 1 .. Len(j.files)
      BY <1>4, LenProperties
    <3>2. \A i \in DOMAIN j.files : j.files[i] # j.tar
      BY <1>5, <3>1 DEF Contains
    <3> QED
      BY <1>5, <3>2 DEF Asked
  <2>2. ~Is(j.tar, Dir, tree)
    BY <1>5 DEF Is, IsDir, Exists
  <2>3. j.archive \in DOMAIN tree /\ tree[j.archive] # Dir /\ data[tree[j.archive]] = j.listed
    BY <1>1, <1>3, <1>5, <2>1, <2>2 DEF Made
  <2>4. Below(j.tar) = {}
    BY <1>4, <1>5, NothingBelow DEF TypeInv
  <2>5. IF Exists(j.tar) THEN Unlink(j.tar) ELSE UNCHANGED <<tree, data>>
    BY <2>4 DEF TarUnlink
  <2>6. CASE Exists(j.tar)
    BY <1>4, <2>3, <2>5, <2>6 DEF Unlink
  <2>7. CASE ~Exists(j.tar)
    BY <2>3, <2>5, <2>7 DEF Exists
  <2> QED
    BY <2>6, <2>7
<1>6. Result(s)
  BY <1>1, <1>5 DEF Result
<1> QED
  BY <1>1, <1>6, AnsweredArchive

LEMMA ZipArchive ==
    ASSUME TypeInv, ArchiveInv, NEW s \in Sessions, ZipOpen(s) \/ ZipClose(s)
    PROVE  ArchiveStep(s)
<1> DEFINE j == job[s]
<1>1. j.step \in ZipSteps
  BY DEF ZipOpen, ZipClose, ZipSteps
<1>2. Archiving(j)
  BY <1>1, ArchivingSteps DEF TypeInv
<1>3. /\ DOMAIN j = ArchiveFields /\ Listing(j)
      /\ ~overlapped[s] /\ Asked(j) => Made(j, tree, data)
  BY <1>1, <1>2 DEF Archiving, ArchiveInv
<1>4. /\ j.archive # <<>> /\ j.archive \in AllPaths /\ j.files \in Seq(AllPaths)
      /\ IsTree(tree) /\ DOMAIN data = 1 .. MaxFiles
  BY <1>2, PathShape DEF Archiving, TypeInv, OtherTypes
<1>5. CASE ZipOpen(s)
  <2>1. j.step = "zip open" /\ UNCHANGED <<tree, data>>
    BY <1>5 DEF ZipOpen
  <2>2. CASE IsDir(j.archive)
    <3>1. Answer(s, "RESP_IO_ERROR")
      BY <1>5, <2>2 DEF ZipOpen
    <3> QED
      BY <3>1, NoArchive
  <2>3. CASE ~IsDir(j.archive)
    <3> DEFINE k == [j EXCEPT !.step = "zip close"]
    <3>1. Continue(s, k)
      BY <1>5, <2>3 DEF ZipOpen
    <3>2. /\ k.tar = j.tar /\ k.archive = j.archive /\ k.files = j.files /\ k.listed = j.listed
          /\ k.step = "zip close" /\ k.directory = j.directory
      BY <1>3 DEF ArchiveFields
    <3> HIDE DEF k
    <3>3. Listing(k)
      BY <1>3, <3>2, GoesOnListing
    <3>4. ASSUME ~overlapped[s], Asked(k) PROVE Made(k, tree', data')
      <4>1. Asked(j)
        BY <2>1, <3>2, <3>4 DEF Asked, TarSteps
      <4>2. AsListed(j, tree, data)
        BY <1>3, <2>1, <3>4, <4>1 DEF Made
      <4>3. AsListed(k, tree', data')
        BY <1>3, <2>1, <3>2, <4>2, GoesOnListing
      <4>4. ~Is(k.archive, Dir, tree')
        BY <2>1, <2>3, <3>2 DEF Is, IsDir, Exists
      <4> QED
        BY <3>2, <4>3, <4>4 DEF Made
    <3> QED
      BY <3>1, <3>3, <3>4, ContinuedArchive
  <2> QED
    BY <2>2, <2>3
<1>6. CASE ZipClose(s)
  <2>1. j.step = "zip close" /\ Free # {} /\ Answer(s, "RESP_COMPRESS")
    BY <1>6 DEF ZipClose
  <2>2. ASSUME ~overlapped[s], ~j.directory, j.files # <<>>
        PROVE  /\ j.archive \in DOMAIN tree' /\ tree'[j.archive] # Dir
               /\ data'[tree'[j.archive]] = j.listed
    <3>1. Asked(j)
      BY <2>1, <2>2 DEF Asked, TarSteps
    <3>2. AsListed(j, tree, data) /\ ~Is(j.archive, Dir, tree)
      BY <1>3, <2>1, <2>2, <3>1 DEF Made
    <3>3. IsDir(Front(j.archive))
      BY <1>2, <1>3, <3>1, <3>2, DirectoryThere
    <3>4. CanCreate(j.archive)
      BY <3>2, <3>3 DEF CanCreate, IsFile, Exists, Is
    <3>5. \A i \in DOMAIN j.files : IsFile(j.files[i])
      BY <3>2 DEF AsListed, IsFile, Exists
    <3> DEFINE held == [i \in DOMAIN j.files |-> <<j.files[i], data[tree[j.files[i]]]>>]
    <3>6. tree' = Naming(j.archive, Fresh) /\ data' = [data EXCEPT ![Fresh] = held]
      BY <1>6, <2>2, <3>4, <3>5 DEF ZipClose
    <3>7. held = j.listed
      BY <1>3, <3>2 DEF Listing, AsListed
    <3> HIDE DEF held
    <3>8. Fresh \in 1 .. MaxFiles /\ Fresh # Dir
      BY <2>1, FreshIsFree
    <3>9. j.archive \in DOMAIN tree' /\ tree'[j.archive] = Fresh
      BY <3>6 DEF Naming
    <3> QED
      BY <1>4, <3>6, <3>7, <3>8, <3>9
  <2>3. Result(s)
    BY <2>1, <2>2 DEF Result
  <2> QED
    BY <2>1, <2>3, AnsweredArchive
<1> QED
  BY <1>5, <1>6

LEMMA ArchiveInvStep ==
    ASSUME TypeInv, ArchiveInv, NEW s \in Sessions, Step(s)
    PROVE  ArchiveInv' /\ ArchiveStep(s)
<1>1. Remember(s)
  BY DEF Step
<1>2. ArchiveStep(s)
  <2>1. CASE Ask(s)
    BY <2>1, OtherArchives, CompressArchives DEF Ask
  <2>2. CASE Work(s)
    BY <2>2, OtherArchives, TarOpenArchive, TarAddArchive, ArchiveOpenArchive, ArchiveCopyArchive,
       TarUnlinkArchive, ZipArchive DEF Work
  <2> QED
    BY <2>1, <2>2 DEF Step
<1>3. ASSUME NEW t \in Sessions, job'[t].step \in TarSteps \cup ZipSteps
      PROVE  /\ Listing(job'[t])
             /\ ~overlapped'[t] /\ Asked(job'[t]) => Made(job'[t], tree', data')
  <2>1. overlapped'[t] <=> job'[t] # Idle /\ (overlapped[t] \/ (t # s /\ Busy(t) /\ Touched))
    BY <1>1, Zenon DEF Remember
  <2>2. job'[t] # Idle
    BY <1>3, IdleShape DEF TarSteps, ZipSteps
  <2>3. CASE t = s
    BY <1>2, <1>3, <2>1, <2>2, <2>3 DEF ArchiveStep
  <2>4. CASE t # s
    <3>1. job'[t] = job[t]
      <4>1. Outcome(s)
        BY StepTypes
      <4> QED
        BY <2>4, <4>1 DEF Outcome, Answer, Continue, Throw, TypeInv, OtherTypes
    <3>2. ~overlapped'[t] => ~overlapped[t] /\ tree' = tree /\ data' = data
      BY <2>1, <2>2, <2>4, <3>1 DEF Busy, Touched
    <3> QED
      BY <1>3, <3>1, <3>2 DEF ArchiveInv
  <2> QED
    BY <2>3, <2>4
<1> QED
  BY <1>2, <1>3 DEF ArchiveInv

(***************************************************************************)
(* RESP_COMPRESS means that the archive holds what was asked for, as it    *)
(* was then, whatever the files are and whichever other archives are made  *)
(* meanwhile without disturbing it (client_controller.cpp:379-450,         *)
(* compression_controller.hpp).                                            *)
(***************************************************************************)
THEOREM Compressed == Spec => CompressedMeansArchived
<1>1. Init => ArchiveInv
  BY IdleShape DEF Init, ArchiveInv, TarSteps, ZipSteps
<1>2. TypeInv /\ ArchiveInv /\ [Next]_vars => ArchiveInv'
  <2> SUFFICES ASSUME TypeInv, ArchiveInv, [Next]_vars PROVE ArchiveInv'
    OBVIOUS
  <2>1. CASE \E s \in Sessions : Step(s)
    BY <2>1, ArchiveInvStep
  <2>2. CASE Rest \/ UNCHANGED vars
    <3>1. UNCHANGED <<tree, data, job, overlapped>>
      BY <2>2 DEF Rest, vars
    <3> QED
      BY <3>1 DEF ArchiveInv
  <2> QED
    BY <2>1, <2>2 DEF Next
<1>3. TypeInv /\ ArchiveInv /\ [Next]_vars
      => [\A s \in Sessions :
            LET j == job[s] IN
            Busy(s) /\ last' = <<s, "RESP_COMPRESS">> /\ ~overlapped[s]
            /\ ~j.directory /\ j.files # <<>>
            /\ (j.step = "unlink" => ~Contains(j.files, j.tar) /\ ~IsDir(j.tar)) =>
               /\ j.archive \in DOMAIN tree' /\ tree'[j.archive] # Dir
               /\ data'[tree'[j.archive]] = j.listed
               /\ j.step = "unlink" => j.tar \notin DOMAIN tree']_vars
  <2> SUFFICES ASSUME TypeInv, ArchiveInv, NEW s \in Sessions, Step(s), NEW t \in Sessions,
                      last' = <<t, "RESP_COMPRESS">>
               PROVE  Result(t)
    BY DEF Next, Rest, Result
  <2>1. last'[1] = s /\ last'[1] = t
    <3>1. \E r : last' = <<s, r>>
      BY StepTypes DEF Outcome, Answer, Continue, Throw
    <3> QED
      BY <3>1
  <2> QED
    BY <2>1, ArchiveInvStep DEF ArchiveStep
<1> QED
  BY <1>1, <1>2, <1>3, TypeInvHolds, PTL DEF Spec, CompressedMeansArchived
=============================================================================
