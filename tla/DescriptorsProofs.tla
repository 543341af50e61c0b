------------------------- MODULE DescriptorsProofs -------------------------
(***************************************************************************)
(* Descriptors for any number of connections and of descriptors.           *)
(* PositiveOwned is inductive together with the types: a number above 0    *)
(* that some wrapper records is not free, so accept() and open() cannot    *)
(* return it, and it bears the tag of one wrapper and one field, so only   *)
(* the close() of that field takes it away.                                *)
(***************************************************************************)
EXTENDS Descriptors, TLAPS

Kinds == {"socket", "up", "down"}

LEMMA TagsDiffer ==
    /\ \A k, l \in Kinds, c, d \in Conns : Tag(k, c) = Tag(l, d) => k = l /\ c = d
    /\ \A k \in Kinds, c \in Conns : Tag(k, c) # Free /\ Tag(k, c) # Leaked
<1>1. ASSUME NEW k \in Kinds, NEW l \in Kinds, NEW c \in Conns, NEW d \in Conns,
             Tag(k, c) = Tag(l, d)
      PROVE k = l /\ c = d
  <2>1. Tag(k, c).kind = k /\ Tag(l, d).kind = l /\ Tag(k, c).of = c /\ Tag(l, d).of = d
    BY DEF Tag
  <2> QED
    BY <1>1, <2>1
<1>2. ASSUME NEW k \in Kinds, NEW c \in Conns
      PROVE Tag(k, c) # Free /\ Tag(k, c) # Leaked
  <2>1. Tag(k, c).kind = k /\ Free.kind = "free" /\ Leaked.kind = "leaked"
    BY DEF Tag, Free, Leaked
  <2> QED
    BY <2>1 DEF Kinds
<1> QED
  BY <1>1, <1>2

LEMMA ThingsAre ==
    /\ Free \in Things /\ Stdin \in Things /\ Leaked \in Things
    /\ \A k \in Kinds, c \in Conns : Tag(k, c) \in Things
BY DEF Things, Kinds

LEMMA FdsAre == Fds \subseteq Nat /\ 0 \in Fds /\ NoFd \notin Fds
BY DescriptorsAssumption DEF Fds, NoFd

LEMMA LeakOldType ==
    ASSUME table \in [Fds -> Things], NEW old, NEW tag
    PROVE  LeakOld(old, tag) \in [Fds -> Things]
BY ThingsAre DEF LeakOld

(***************************************************************************)
(* The variables keep their types: a wrapper that exists has a socket.     *)
(***************************************************************************)
THEOREM TypeCorrect == Spec => []TypeOK
<1> USE DEF TypeOK
<1>1. Init => TypeOK
  BY ThingsAre, FdsAre DEF Init
<1>2. TypeOK /\ [Next]_vars => TypeOK'
  <2> SUFFICES ASSUME TypeOK, [Next]_vars PROVE TypeOK'
    OBVIOUS
  <2>1. CASE UNCHANGED vars
    BY <2>1 DEF vars
  <2>2. ASSUME NEW c \in Conns, Connect(c) \/ HangUp(c) PROVE TypeOK'
    BY <2>2 DEF Connect, HangUp
  <2>3. ASSUME NEW c \in Conns, Accept(c) PROVE TypeOK'
    BY <2>3, ThingsAre, FdsAre DEF Accept, Kinds
  <2>4. ASSUME AcceptFails PROVE TypeOK'
    BY <2>4 DEF AcceptFails
  <2>5. ASSUME NEW c \in Conns, OpenUpload(c) PROVE TypeOK'
    <3> DEFINE old == LeakOld(IF fd[c] = NoFd THEN 0 ELSE fd[c], Tag("up", c))
    <3>1. old \in [Fds -> Things]
      BY LeakOldType
    <3> HIDE DEF old
    <3>2. CASE \E n \in Fds : /\ table' = [old EXCEPT ![n] = Tag("up", c)]
                              /\ fd' = [fd EXCEPT ![c] = n]
      BY <2>5, <3>1, <3>2, ThingsAre DEF OpenUpload, Kinds
    <3>3. CASE table' = old /\ fd' = [fd EXCEPT ![c] = NoFd]
      BY <2>5, <3>1, <3>3 DEF OpenUpload
    <3> QED
      BY <2>5, <3>2, <3>3 DEF OpenUpload, old
  <2>6. ASSUME NEW c \in Conns, OpenDownload(c) PROVE TypeOK'
    <3> DEFINE old == LeakOld(download_fd[c], Tag("down", c))
    <3>1. old \in [Fds -> Things]
      BY LeakOldType
    <3> HIDE DEF old
    <3>2. PICK n \in Fds :
            \/ table' = [table EXCEPT ![n] = Leaked] /\ UNCHANGED download_fd
            \/ /\ table' = [old EXCEPT ![n] = Tag("down", c)]
               /\ download_fd' = [download_fd EXCEPT ![c] = n]
      BY <2>6 DEF OpenDownload, old
    <3> QED
      BY <2>6, <3>1, <3>2, ThingsAre DEF OpenDownload, Kinds
  <2>7. ASSUME NEW c \in Conns, CloseSocket(c) \/ CloseFd(c) \/ CloseDownload(c)
        PROVE TypeOK'
    BY <2>7, ThingsAre DEF CloseSocket, CloseFd, CloseDownload, Closing
  <2> QED
    BY <2>1, <2>2, <2>3, <2>4, <2>5, <2>6, <2>7 DEF Next
<1> QED
  BY <1>1, <1>2, PTL DEF Spec
-----------------------------------------------------------------------------
\* The number that c records for a kind of thing, and until when it counts.
Number(k, c) ==
    CASE k = "socket" -> socket_fd[c] [] k = "up" -> fd[c] [] k = "down" -> download_fd[c]
Until(k) ==
    CASE k = "socket" -> {"open"} [] k = "up" -> {"open", "closeFd"}
      [] k = "down" -> {"open", "closeFd", "closeDownload"}
Holds(k, c) == phase[c] \in Until(k) /\ Number(k, c) > 0

LEMMA OwnedByKind ==
    PositiveOwned <=>
        \A k \in Kinds, c \in Conns : Holds(k, c) => table[Number(k, c)] = Tag(k, c)
BY DEF PositiveOwned, Kinds, Holds, Number, Until

LEMMA HeldIsFd ==
    ASSUME TypeOK, NEW k \in Kinds, NEW c \in Conns, Holds(k, c)
    PROVE  Number(k, c) \in Fds
BY FdsAre DEF TypeOK, Number, Kinds, Holds, NoFd

\* A number that is held is not free, and is held for one thing only.
LEMMA HeldOnce ==
    ASSUME PositiveOwned, NEW k \in Kinds, NEW c \in Conns, Holds(k, c)
    PROVE  /\ table[Number(k, c)] # Free
           /\ \A l \in Kinds, d \in Conns :
                Holds(l, d) /\ Number(l, d) = Number(k, c) => l = k /\ d = c
BY OwnedByKind, TagsDiffer

\* Closing the number that c holds for k, or 0, disturbs no other.
LEMMA ClosingOne ==
    ASSUME PositiveOwned, TypeOK, NEW k \in Kinds, NEW c \in Conns,
           phase[c] \in Until(k), Closing(Number(k, c)),
           NEW l \in Kinds, NEW d \in Conns, Holds(l, d), l # k \/ d # c
    PROVE  table'[Number(l, d)] = Tag(l, d)
<1>1. Number(l, d) \in Fds /\ Number(l, d) > 0
  BY HeldIsFd DEF Holds
<1>2. Number(l, d) # Number(k, c)
  BY <1>1, HeldOnce DEF Holds
<1> QED
  BY <1>1, <1>2, OwnedByKind DEF Closing

LEMMA OwnedStep == PositiveOwned /\ TypeOK /\ [Next]_vars => PositiveOwned'
<1> SUFFICES ASSUME PositiveOwned, TypeOK, [Next]_vars,
                    NEW k \in Kinds, NEW d \in Conns, Holds(k, d)'
             PROVE  (table[Number(k, d)] = Tag(k, d))'
  BY DEF PositiveOwned, Kinds, Holds, Number, Until
<1> DEFINE Goal == table'[Number(k, d)'] = Tag(k, d)
<1> USE DEF TypeOK
<1>1. CASE UNCHANGED vars
  BY <1>1, OwnedByKind DEF vars, Holds, Number
<1>2. ASSUME NEW c \in Conns, Connect(c) \/ HangUp(c) PROVE Goal
  BY <1>2, OwnedByKind DEF Connect, HangUp, Holds, Number
<1>3. ASSUME NEW c \in Conns, Accept(c) PROVE Goal
  <2>1. CASE d = c
    BY <1>3, <2>1, FdsAre DEF Accept, Holds, Number, Kinds
  <2>2. CASE d # c
    <3>1. Holds(k, d) /\ Number(k, d)' = Number(k, d)
      BY <1>3, <2>2 DEF Accept, Holds, Number, Kinds
    <3>2. table[Number(k, d)] = Tag(k, d) /\ table[Number(k, d)] # Free
      BY <3>1, OwnedByKind, HeldOnce
    <3> QED
      BY <1>3, <3>1, <3>2 DEF Accept, Lowest
  <2> QED
    BY <2>1, <2>2
<1>4. ASSUME AcceptFails PROVE Goal
  BY <1>4, OwnedByKind DEF AcceptFails, Holds, Number
<1>5. ASSUME NEW c \in Conns, OpenUpload(c) PROVE Goal
  <2>1. CASE k = "up" /\ d = c
    BY <1>5, <2>1, FdsAre DEF OpenUpload, Holds, Number, LeakOld, NoFd
  <2>2. CASE ~(k = "up" /\ d = c)
    <3>1. Holds(k, d) /\ Number(k, d)' = Number(k, d)
      BY <1>5, <2>2 DEF OpenUpload, Holds, Number, Kinds
    <3>2. /\ table[Number(k, d)] = Tag(k, d) /\ table[Number(k, d)] # Free
          /\ Number(k, d) \in Fds /\ Tag(k, d) # Tag("up", c)
      BY <2>2, <3>1, OwnedByKind, HeldOnce, HeldIsFd, TagsDiffer DEF Kinds
    <3> QED
      BY <1>5, <3>1, <3>2 DEF OpenUpload, Lowest, LeakOld
  <2> QED
    BY <2>1, <2>2
<1>6. ASSUME NEW c \in Conns, OpenDownload(c) PROVE Goal
  <2>1. CASE k = "down" /\ d = c /\ download_fd' # download_fd
    BY <1>6, <2>1, FdsAre DEF OpenDownload, Holds, Number, LeakOld
  <2>2. CASE k = "down" /\ d = c /\ download_fd' = download_fd
    <3>1. Holds(k, d) /\ Number(k, d)' = Number(k, d)
      BY <1>6, <2>2 DEF OpenDownload, Holds, Number
    <3>2. table[Number(k, d)] = Tag(k, d) /\ table[Number(k, d)] # Free
      BY <3>1, OwnedByKind, HeldOnce
    <3> QED
      BY <1>6, <2>2, <3>1, <3>2 DEF OpenDownload, Lowest, LeakOld, Number
  <2>3. CASE ~(k = "down" /\ d = c)
    <3>1. Holds(k, d) /\ Number(k, d)' = Number(k, d)
      BY <1>6, <2>3 DEF OpenDownload, Holds, Number, Kinds
    <3>2. /\ table[Number(k, d)] = Tag(k, d) /\ table[Number(k, d)] # Free
          /\ Number(k, d) \in Fds /\ Tag(k, d) # Tag("down", c)
      BY <2>3, <3>1, OwnedByKind, HeldOnce, HeldIsFd, TagsDiffer DEF Kinds
    <3> QED
      BY <1>6, <3>1, <3>2 DEF OpenDownload, Lowest, LeakOld
  <2> QED
    BY <2>1, <2>2, <2>3
<1>7. ASSUME NEW c \in Conns, CloseSocket(c) PROVE Goal
  <2>1. Holds(k, d) /\ Number(k, d)' = Number(k, d) /\ (k # "socket" \/ d # c)
    BY <1>7 DEF CloseSocket, Holds, Number, Kinds, Until
  <2>2. "socket" \in Kinds /\ phase[c] \in Until("socket") /\ Closing(Number("socket", c))
    BY <1>7 DEF CloseSocket, Number, Kinds, Until
  <2> QED
    BY <2>1, <2>2, ClosingOne
<1>8. ASSUME NEW c \in Conns, CloseFd(c) PROVE Goal
  <2>1. Holds(k, d) /\ Number(k, d)' = Number(k, d) /\ (k # "up" \/ d # c)
    BY <1>8 DEF CloseFd, Holds, Number, Kinds, Until
  <2>2. "up" \in Kinds /\ phase[c] \in Until("up") /\ Closing(Number("up", c))
    BY <1>8 DEF CloseFd, Number, Kinds, Until
  <2> QED
    BY <2>1, <2>2, ClosingOne
<1>9. ASSUME NEW c \in Conns, CloseDownload(c) PROVE Goal
  <2>1. Holds(k, d) /\ Number(k, d)' = Number(k, d) /\ (k # "down" \/ d # c)
    BY <1>9 DEF CloseDownload, Holds, Number, Kinds, Until
  <2>2. "down" \in Kinds /\ phase[c] \in Until("down") /\ Closing(Number("down", c))
    BY <1>9 DEF CloseDownload, Number, Kinds, Until
  <2> QED
    BY <2>1, <2>2, ClosingOne
<1> QED
  BY <1>1, <1>2, <1>3, <1>4, <1>5, <1>6, <1>7, <1>8, <1>9 DEF Next

(***************************************************************************)
(* A descriptor above 0 stays with the wrapper that recorded it until that *)
(* wrapper closes it (main.cpp:104-105, connection.cpp:17-18); descriptor  *)
(* 0, which fd and download_fd begin as, is the one that can be lost.      *)
(***************************************************************************)
THEOREM PositiveDescriptorsAreOwned == Spec => []PositiveOwned
<1>1. Init => PositiveOwned
  BY DEF Init, PositiveOwned
<1>2. PositiveOwned /\ TypeOK /\ [Next]_vars => PositiveOwned'
  BY OwnedStep
<1> QED
  BY <1>1, <1>2, TypeCorrect, PTL DEF Spec
=============================================================================
