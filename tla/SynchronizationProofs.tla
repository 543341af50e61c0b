---------------------- MODULE SynchronizationProofs ----------------------
(***************************************************************************)
(* The two parts made of a mutex and a condition variable.                 *)
(*   ThreadPool for any finite number of workers and any closures: the     *)
(*   invariants of the runs, and that the pool implements TaskPool.        *)
(*   ReadWriteLock for any number of threads: Exclusive and                *)
(*   SleepersAreWatched are inductive together with the types.             *)
(***************************************************************************)
EXTENDS ThreadPool, ReadWriteLock, FiniteSetTheorems, SequenceTheorems, TLAPS

(***************************************************************************)
(* Sequences: what a queue and the record of what was taken from it do.    *)
(***************************************************************************)
LEMMA AppendRange ==
    ASSUME NEW S, NEW s \in Seq(S), NEW x \in S
    PROVE  Range(Append(s, x)) = Range(s) \cup {x}
<1>1. /\ DOMAIN s = 1 .. Len(s) /\ Len(s) \in Nat
      /\ DOMAIN Append(s, x) = 1 .. Len(s) + 1
      /\ \A i \in 1 .. Len(s) : Append(s, x)[i] = s[i]
      /\ Append(s, x)[Len(s) + 1] = x
  BY AppendProperties, LenProperties
<1> QED
  BY <1>1 DEF Range

LEMMA EnqueueAppends ==
    ASSUME NEW S, NEW s \in Seq(S), NEW q \in Seq(S), NEW x \in S
    PROVE  s \o Append(q, x) = Append(s \o q, x)
OBVIOUS

LEMMA DequeueMoves ==
    ASSUME NEW S, NEW s \in Seq(S), NEW q \in Seq(S), q # <<>>
    PROVE  /\ Append(s, Head(q)) \o Tail(q) = s \o q
           /\ Len(s) + 1 \in DOMAIN (s \o q)
           /\ (s \o q)[Len(s) + 1] = Head(q)
OBVIOUS

LEMMA FrontOfConcat ==
    ASSUME NEW S, NEW s \in Seq(S), NEW q \in Seq(S)
    PROVE  /\ \A i \in DOMAIN s : i \in DOMAIN (s \o q) /\ (s \o q)[i] = s[i]
           /\ Range(s) = {(s \o q)[i] : i \in 1 .. Len(s)}
<1>1. /\ DOMAIN s = 1 .. Len(s) /\ DOMAIN (s \o q) = 1 .. Len(s) + Len(q)
      /\ Len(s) \in Nat /\ Len(q) \in Nat
      /\ \A i \in 1 .. Len(s) : (s \o q)[i] = s[i]
  BY ConcatProperties, LenProperties
<1> QED
  BY <1>1 DEF Range
-----------------------------------------------------------------------------
\* A closure is held by the owner while it is dispatched, and by a worker
\* while it runs.
Holders ==
    /\ mpc = "emplace" => func \in Tasks /\ func \notin Range(Dispatched)
    /\ \A w \in Workers : wpc[w] = "run" <=> task[w] # None

LEMMA HoldersInductive == SafeSpec => [](TypeOK /\ Holders)
<1> USE PoolAssumption DEF TypeOK, WorkerPC, OwnerPC, Holders
<1>1. Init => TypeOK /\ Holders
  BY EmptySeq DEF Init
<1>2. TypeOK /\ Holders /\ [Next]_vars => TypeOK' /\ Holders'
  <2> SUFFICES ASSUME TypeOK, Holders, [Next]_vars PROVE TypeOK' /\ Holders'
    OBVIOUS
  <2>1. CASE UNCHANGED vars
    BY <2>1 DEF vars, Dispatched
  <2>2. ASSUME NEW t \in Tasks, DispatchLock(t) PROVE TypeOK' /\ Holders'
    BY <2>2 DEF DispatchLock, workerVars, Dispatched
  <2>3. ASSUME DispatchEmplace PROVE TypeOK' /\ Holders'
    BY <2>3 DEF DispatchEmplace, workerVars
  <2>4. ASSUME DispatchNotify PROVE TypeOK' /\ Holders'
    BY <2>4 DEF DispatchNotify, At
  <2>5. ASSUME StopBegin \/ StopLock \/ StopSet \/ StopJoin \/ Joined
        PROVE  TypeOK' /\ Holders'
    BY <2>5 DEF StopBegin, StopLock, StopSet, StopJoin, Joined, workerVars, vars
  <2>6. ASSUME StopNotifyAll PROVE TypeOK' /\ Holders'
    BY <2>6 DEF StopNotifyAll
  <2>7. ASSUME NEW w \in Workers, WorkerLock(w) \/ WorkerWait(w) \/ WorkerExit(w)
                                  \/ SpuriousWake(w)
        PROVE  TypeOK' /\ Holders'
    BY <2>7 DEF WorkerLock, WorkerWait, WorkerExit, SpuriousWake, ownerVars, Dispatched
  <2>8. ASSUME NEW w \in Workers, WorkerTake(w) PROVE TypeOK' /\ Holders'
    <3>1. Head(tasks) \in Tasks /\ Tail(tasks) \in Seq(Tasks)
      BY <2>8, HeadTailProperties DEF WorkerTake
    <3>2. Dispatched' = Dispatched
      BY <2>8, DequeueMoves DEF WorkerTake, Dispatched
    <3> QED
      BY <2>8, <3>1, <3>2 DEF WorkerTake, ownerVars
  <2>9. ASSUME NEW w \in Workers, WorkerRun(w) PROVE TypeOK' /\ Holders'
    BY <2>9 DEF WorkerRun, ownerVars, Dispatched
  <2> QED
    BY <2>1, <2>2, <2>3, <2>4, <2>5, <2>6, <2>7, <2>8, <2>9
    DEF Next, OwnerNext, WorkerNext
<1> QED
  BY <1>1, <1>2, PTL DEF SafeSpec

(***************************************************************************)
(* The variables keep their types: in particular no worker runs, and no    *)
(* queue holds, anything but a closure that was dispatched.                *)
(***************************************************************************)
THEOREM TypeCorrect == SafeSpec => []TypeOK
BY HoldersInductive, PTL
-----------------------------------------------------------------------------
\* The conjuncts of ExactlyOnce.
Distinct == \A i, j \in DOMAIN Dispatched : Dispatched[i] = Dispatched[j] => i = j
HeldAlone ==
    /\ \A w \in Workers : task[w] # None => task[w] \notin finished
    /\ \A v, w \in Workers : task[v] = task[w] /\ task[v] # None => v = w
Accounted == Range(started) = finished \cup {task[w] : w \in At("run")}

\* The closure a worker takes is none of those taken before.
LEMMA HeadIsNew ==
    ASSUME TypeOK, Distinct, tasks # <<>>
    PROVE  Head(tasks) \notin Range(started)
<1> DEFINE n == Len(started) + 1
<1>1. /\ n \in DOMAIN Dispatched /\ Dispatched[n] = Head(tasks)
      /\ \A i \in DOMAIN started : i \in DOMAIN Dispatched /\ Dispatched[i] = started[i]
  BY DequeueMoves, FrontOfConcat DEF Dispatched, TypeOK
<1>2. \A i \in DOMAIN started : i # n
  BY LenProperties DEF TypeOK
<1> QED
  BY <1>1, <1>2 DEF Distinct, Range

LEMMA ExactlyOnceStep ==
    ASSUME TypeOK, Holders, ExactlyOnce, [Next]_vars
    PROVE  ExactlyOnce'
<1> SUFFICES Distinct' /\ HeldAlone' /\ Accounted'
  BY DEF ExactlyOnce, Distinct, HeldAlone, Accounted
<1>0. Distinct /\ HeldAlone /\ Accounted
  BY DEF ExactlyOnce, Distinct, HeldAlone, Accounted
<1>1. ASSUME UNCHANGED <<started, tasks, task, finished>>, At("run")' = At("run")
      PROVE  Distinct' /\ HeldAlone' /\ Accounted'
  BY <1>0, <1>1 DEF Distinct, HeldAlone, Accounted, Dispatched
<1>2. CASE UNCHANGED vars
  BY <1>1, <1>2 DEF vars, At
<1>3. ASSUME NEW t \in Tasks, DispatchLock(t) PROVE Distinct' /\ HeldAlone' /\ Accounted'
  BY <1>1, <1>3 DEF DispatchLock, workerVars, At
<1>4. ASSUME DispatchEmplace PROVE Distinct' /\ HeldAlone' /\ Accounted'
  <2>1. func \in Tasks /\ func \notin Range(Dispatched)
    BY <1>4 DEF DispatchEmplace, Holders
  <2>2. Dispatched \in Seq(Tasks) /\ Dispatched' = Append(Dispatched, func)
    BY <1>4, <2>1, EnqueueAppends, ConcatProperties DEF DispatchEmplace, Dispatched, TypeOK, workerVars
  <2>3. Distinct'
    BY <1>0, <2>1, <2>2, AppendProperties, LenProperties DEF Distinct, Range
  <2> QED
    BY <1>0, <1>4, <2>3 DEF DispatchEmplace, workerVars, HeldAlone, Accounted, At
<1>5. ASSUME DispatchNotify PROVE Distinct' /\ HeldAlone' /\ Accounted'
  BY <1>1, <1>5 DEF DispatchNotify, At, TypeOK
<1>6. ASSUME StopBegin \/ StopLock \/ StopSet \/ StopJoin \/ Joined
      PROVE  Distinct' /\ HeldAlone' /\ Accounted'
  BY <1>1, <1>6 DEF StopBegin, StopLock, StopSet, StopJoin, Joined, workerVars, vars, At
<1>7. ASSUME StopNotifyAll PROVE Distinct' /\ HeldAlone' /\ Accounted'
  BY <1>1, <1>7 DEF StopNotifyAll, At
<1>8. ASSUME NEW w \in Workers, WorkerLock(w) \/ WorkerWait(w) \/ WorkerExit(w)
                                \/ SpuriousWake(w)
      PROVE  Distinct' /\ HeldAlone' /\ Accounted'
  BY <1>1, <1>8 DEF WorkerLock, WorkerWait, WorkerExit, SpuriousWake, At, TypeOK
<1>9. ASSUME NEW w \in Workers, WorkerTake(w) PROVE Distinct' /\ HeldAlone' /\ Accounted'
  <2>1. Head(tasks) \in Tasks /\ Head(tasks) \notin Range(started)
    BY <1>0, <1>9, HeadIsNew, HeadTailProperties DEF WorkerTake, TypeOK
  <2>2. Dispatched' = Dispatched
    BY <1>9, DequeueMoves DEF WorkerTake, Dispatched, TypeOK
  <2>3. Range(started') = Range(started) \cup {Head(tasks)}
    BY <1>9, <2>1, AppendRange DEF WorkerTake, TypeOK
  <2>4. At("run")' = At("run") \cup {w} /\ w \notin At("run")
    BY <1>9 DEF WorkerTake, At, TypeOK
  <2>5. /\ task' = [task EXCEPT ![w] = Head(tasks)] /\ finished' = finished
        /\ \A v \in Workers : task[v] # None => task[v] \in Range(started)
        /\ finished \subseteq Range(started)
    BY <1>0, <1>9 DEF WorkerTake, Accounted, Holders, At
  <2>6. HeldAlone'
    BY <1>0, <2>1, <2>5 DEF HeldAlone, TypeOK
  <2>7. Accounted'
    BY <1>0, <2>3, <2>4, <2>5 DEF Accounted, At, TypeOK
  <2> QED
    BY <1>0, <2>2, <2>6, <2>7 DEF Distinct
<1>10. ASSUME NEW w \in Workers, WorkerRun(w) PROVE Distinct' /\ HeldAlone' /\ Accounted'
  <2>1. task[w] # None /\ At("run")' = At("run") \ {w} /\ w \in At("run")
    BY <1>10 DEF WorkerRun, Holders, At, TypeOK
  <2>2. HeldAlone'
    BY <1>0, <1>10, <2>1 DEF WorkerRun, HeldAlone, TypeOK
  <2>3. Accounted'
    BY <1>0, <1>10, <2>1 DEF WorkerRun, Accounted, At, TypeOK
  <2> QED
    BY <1>0, <1>10, <2>2, <2>3 DEF WorkerRun, Distinct, Dispatched
<1> QED
  BY <1>2, <1>3, <1>4, <1>5, <1>6, <1>7, <1>8, <1>9, <1>10
  DEF Next, OwnerNext, WorkerNext

(***************************************************************************)
(* No closure is lost, run twice, or held by two workers                   *)
(* (thread_pool.hpp:41-65).                                                *)
(***************************************************************************)
THEOREM TasksRunExactlyOnce == SafeSpec => []ExactlyOnce
<1>1. Init => ExactlyOnce
  <2> SUFFICES ASSUME Init PROVE ExactlyOnce
    OBVIOUS
  <2>1. Dispatched = <<>> /\ Range(started) = {} /\ At("run") = {}
    BY DEF Init, Dispatched, Range, At
  <2> QED
    BY <2>1 DEF Init, ExactlyOnce
<1>2. TypeOK /\ Holders /\ ExactlyOnce /\ [Next]_vars => ExactlyOnce'
  BY ExactlyOnceStep
<1> QED
  BY <1>1, <1>2, HoldersInductive, PTL DEF SafeSpec
-----------------------------------------------------------------------------
\* Once the flag is up nothing is queued, and a worker that has left has left
\* an empty queue.
Stopping ==
    /\ stopFlag <=> mpc \in {"notifyAll", "join", "joined"}
    /\ At("exited") # {} => stopFlag /\ tasks = <<>>
    /\ mpc = "joined" => At("exited") = Workers

LEMMA StoppingInductive == SafeSpec => []Stopping
<1>1. Init => Stopping
  BY DEF Init, Stopping, At
<1>2. TypeOK /\ Stopping /\ [Next]_vars => Stopping'
  <2> SUFFICES ASSUME TypeOK, Stopping, [Next]_vars PROVE Stopping'
    OBVIOUS
  <2> USE DEF TypeOK, WorkerPC, OwnerPC, Stopping, At
  <2>1. CASE UNCHANGED vars
    BY <2>1 DEF vars
  <2>2. ASSUME NEW t \in Tasks, DispatchLock(t) PROVE Stopping'
    BY <2>2 DEF DispatchLock, workerVars
  <2>3. ASSUME DispatchEmplace \/ DispatchNotify PROVE Stopping'
    BY <2>3 DEF DispatchEmplace, DispatchNotify, workerVars
  <2>4. ASSUME StopBegin \/ StopLock \/ StopSet \/ StopJoin \/ Joined PROVE Stopping'
    BY <2>4 DEF StopBegin, StopLock, StopSet, StopJoin, Joined, workerVars, vars
  <2>5. ASSUME StopNotifyAll PROVE Stopping'
    BY <2>5 DEF StopNotifyAll
  <2>6. ASSUME NEW w \in Workers, WorkerLock(w) \/ WorkerWait(w) \/ SpuriousWake(w)
        PROVE  Stopping'
    BY <2>6 DEF WorkerLock, WorkerWait, SpuriousWake, ownerVars
  <2>7. ASSUME NEW w \in Workers, WorkerTake(w) PROVE Stopping'
    BY <2>7 DEF WorkerTake, ownerVars
  <2>8. ASSUME NEW w \in Workers, WorkerRun(w) \/ WorkerExit(w) PROVE Stopping'
    BY <2>8 DEF WorkerRun, WorkerExit, ownerVars
  <2> QED
    BY <2>1, <2>2, <2>3, <2>4, <2>5, <2>6, <2>7, <2>8 DEF Next, OwnerNext, WorkerNext
<1> QED
  BY <1>1, <1>2, TypeCorrect, PTL DEF SafeSpec

(***************************************************************************)
(* When stop() returns, every closure dispatched has returned              *)
(* (thread_pool.hpp:41-65, 69-81).                                         *)
(***************************************************************************)
THEOREM StopAlwaysDrains == SafeSpec => []StopDrains
<1>1. TypeOK /\ Stopping /\ ExactlyOnce => StopDrains
  <2> SUFFICES ASSUME TypeOK, Stopping, ExactlyOnce, mpc = "joined"
               PROVE  tasks = <<>> /\ finished = Range(started)
    BY DEF StopDrains
  <2>1. At("exited") = Workers /\ At("exited") # {}
    BY PoolAssumption DEF Stopping
  <2>2. At("run") = {}
    BY <2>1 DEF At
  <2> QED
    BY <2>1, <2>2 DEF Stopping, ExactlyOnce
<1> QED
  BY <1>1, TypeCorrect, StoppingInductive, TasksRunExactlyOnce, PTL
-----------------------------------------------------------------------------
\* The workers that are awake and hold no closure.
Ready == At("lock") \cup At("test")

LEMMA ReadyFinite ==
    /\ IsFiniteSet(Ready) /\ Cardinality(Ready) \in Nat
    /\ \A w : /\ Cardinality(Ready \cup {w}) =
                   IF w \in Ready THEN Cardinality(Ready) ELSE Cardinality(Ready) + 1
              /\ Cardinality(Ready \ {w}) =
                   IF w \in Ready THEN Cardinality(Ready) - 1 ELSE Cardinality(Ready)
<1>1. Ready \in SUBSET Workers
  BY DEF Ready, At
<1>2. IsFiniteSet(Ready)
  BY <1>1, PoolAssumption, FS_Subset
<1> QED
  BY <1>2, FS_CardinalityType, FS_AddElement, FS_RemoveElement

\* FullParallelism in terms of Ready.
LEMMA ParallelismByReady ==
    FullParallelism <=>
        (At("waiting") # {} =>
            Len(tasks) <= Cardinality(Ready) + (IF mpc = "notify" THEN 1 ELSE 0))
BY DEF FullParallelism, Ready

LEMMA ParallelismStep ==
    ASSUME TypeOK, FullParallelism, [Next]_vars
    PROVE  FullParallelism'
<1> SUFFICES ASSUME At("waiting")' # {}
             PROVE  Len(tasks') <= Cardinality(Ready')
                                   + (IF mpc' = "notify" THEN 1 ELSE 0)
  BY DEF FullParallelism, Ready
<1> DEFINE Goal == Len(tasks') <= Cardinality(Ready')
                                  + (IF mpc' = "notify" THEN 1 ELSE 0)
<1> USE DEF TypeOK, WorkerPC, OwnerPC
<1>0. Len(tasks) \in Nat
  BY LenProperties
<1>1. CASE UNCHANGED vars
  BY <1>1, ParallelismByReady DEF vars, Ready, At
<1>2. ASSUME NEW t \in Tasks, DispatchLock(t) PROVE Goal
  BY <1>2, ParallelismByReady DEF DispatchLock, workerVars, Ready, At
<1>3. ASSUME DispatchEmplace PROVE Goal
  <2>1. Len(tasks') = Len(tasks) + 1
    BY <1>0, <1>3 DEF DispatchEmplace
  <2>2. At("waiting") # {} /\ Ready' = Ready /\ mpc = "emplace" /\ mpc' = "notify"
    BY <1>3 DEF DispatchEmplace, workerVars, Ready, At
  <2> QED
    BY <1>0, <2>1, <2>2, ParallelismByReady, ReadyFinite
<1>4. ASSUME DispatchNotify PROVE Goal
  \* Somebody still sleeps, so there was somebody to wake.
  <2>1. PICK w \in At("waiting") : wpc' = [wpc EXCEPT ![w] = "lock"]
    BY <1>4 DEF DispatchNotify, At
  <2>2. Ready' = Ready \cup {w} /\ w \notin Ready
    BY <2>1 DEF Ready, At
  <2>3. Cardinality(Ready') = Cardinality(Ready) + 1
    BY <2>2, ReadyFinite
  <2> QED
    BY <1>0, <1>4, <2>1, <2>3, ParallelismByReady, ReadyFinite DEF DispatchNotify
<1>5. ASSUME StopBegin \/ StopLock \/ StopSet \/ StopJoin \/ Joined PROVE Goal
  BY <1>5, ParallelismByReady
  DEF StopBegin, StopLock, StopSet, StopJoin, Joined, workerVars, vars, Ready, At
<1>6. ASSUME StopNotifyAll PROVE Goal
  BY <1>6 DEF StopNotifyAll, At
<1>7. ASSUME NEW w \in Workers, WorkerLock(w) PROVE Goal
  <2>1. Ready' = Ready /\ At("waiting")' = At("waiting")
    BY <1>7 DEF WorkerLock, Ready, At
  <2> QED
    BY <1>7, <2>1, ParallelismByReady DEF WorkerLock, ownerVars
<1>8. ASSUME NEW w \in Workers, WorkerWait(w) \/ WorkerExit(w) PROVE Goal
  \* The queue is empty.
  <2>1. tasks' = <<>> /\ mpc' = mpc
    BY <1>8 DEF WorkerWait, WorkerExit, ownerVars
  <2>2. Cardinality(Ready') \in Nat
    <3>1. Ready' = Ready \ {w}
      BY <1>8 DEF WorkerWait, WorkerExit, Ready, At
    <3> QED
      BY <3>1, ReadyFinite, FS_RemoveElement, FS_CardinalityType
  <2> QED
    BY <2>1, <2>2
<1>9. ASSUME NEW w \in Workers, SpuriousWake(w) PROVE Goal
  <2>1. Ready' = Ready \cup {w} /\ w \notin Ready /\ At("waiting") # {}
    BY <1>9 DEF SpuriousWake, Ready, At
  <2>2. Cardinality(Ready') = Cardinality(Ready) + 1
    BY <2>1, ReadyFinite
  <2> QED
    BY <1>0, <1>9, <2>1, <2>2, ParallelismByReady, ReadyFinite DEF SpuriousWake, ownerVars
<1>10. ASSUME NEW w \in Workers, WorkerTake(w) PROVE Goal
  <2>1. Ready' = Ready \ {w} /\ w \in Ready /\ At("waiting")' = At("waiting")
    BY <1>10 DEF WorkerTake, Ready, At
  <2>2. Cardinality(Ready') = Cardinality(Ready) - 1
    BY <2>1, ReadyFinite
  <2>3. Len(tasks') = Len(tasks) - 1
    BY <1>10, HeadTailProperties DEF WorkerTake
  <2> QED
    BY <1>0, <1>10, <2>1, <2>2, <2>3, ParallelismByReady, ReadyFinite
    DEF WorkerTake, ownerVars
<1>11. ASSUME NEW w \in Workers, WorkerRun(w) PROVE Goal
  <2>1. Ready' = Ready \cup {w} /\ w \notin Ready /\ At("waiting")' = At("waiting")
    BY <1>11 DEF WorkerRun, Ready, At
  <2>2. Cardinality(Ready') = Cardinality(Ready) + 1
    BY <2>1, ReadyFinite
  <2> QED
    BY <1>0, <1>11, <2>1, <2>2, ParallelismByReady, ReadyFinite DEF WorkerRun, ownerVars
<1> QED
  BY <1>1, <1>2, <1>3, <1>4, <1>5, <1>6, <1>7, <1>8, <1>9, <1>10, <1>11
  DEF Next, OwnerNext, WorkerNext

(***************************************************************************)
(* A worker sleeps only while every queued closure has a worker that is    *)
(* awake for it, or a notification on its way (thread_pool.hpp:28-35,      *)
(* 45-57).                                                                 *)
(***************************************************************************)
THEOREM NobodySleepsOnWork == SafeSpec => []FullParallelism
<1>1. Init => FullParallelism
  BY DEF Init, FullParallelism, At
<1>2. TypeOK /\ FullParallelism /\ [Next]_vars => FullParallelism'
  BY ParallelismStep
<1> QED
  BY <1>1, <1>2, TypeCorrect, PTL DEF SafeSpec
-----------------------------------------------------------------------------
(***************************************************************************)
(* The refinement.  In the order of the code: emplace submits, the section *)
(* in which a worker moves a closure out of the queue begins it, the       *)
(* return of the closure ends it, raising stopFlag closes the pool, and    *)
(* the last join finishes it.  Every other step is a stutter.              *)
(***************************************************************************)
\* The library operators mean the same in both modules.
LEMMA SameOperators ==
    \A S : Pool!Cardinality(S) = Cardinality(S) /\ Pool!Range(S) = Range(S)
BY DEF Pool!Cardinality, Cardinality, Pool!Range, Range

\* What TaskPool sees as running are the closures that workers hold.
LEMMA RunningHeld ==
    ASSUME TypeOK, Holders, ExactlyOnce
    PROVE  Pool!Running = {task[w] : w \in At("run")}
<1>1. Pool!Begun = Range(started)
  BY FrontOfConcat DEF Pool!Begun, Dispatched, TypeOK
<1>2. \A w \in At("run") : task[w] \notin finished
  BY DEF ExactlyOnce, Holders, At
<1> QED
  BY <1>1, <1>2 DEF Pool!Running, ExactlyOnce

\* A worker that is about to take a closure is one that holds none.
LEMMA RunningBounded ==
    ASSUME TypeOK, Holders, ExactlyOnce, NEW v \in Workers, wpc[v] # "run"
    PROVE  Cardinality(Pool!Running) < Cardinality(Workers)
<1> DEFINE f == [w \in At("run") |-> task[w]]
<1>1. f \in Surjection(At("run"), Pool!Running)
  BY RunningHeld DEF Surjection
<1>2. At("run") \in SUBSET (Workers \ {v})
  BY DEF At
<1>3. /\ IsFiniteSet(Workers \ {v})
      /\ Cardinality(Workers \ {v}) = Cardinality(Workers) - 1
      /\ Cardinality(Workers) \in Nat
  BY PoolAssumption, FS_RemoveElement, FS_CardinalityType
<1>4. /\ IsFiniteSet(At("run")) /\ Cardinality(At("run")) \in Nat
      /\ Cardinality(At("run")) <= Cardinality(Workers) - 1
  BY <1>2, <1>3, FS_Subset, FS_CardinalityType
<1>5. /\ Cardinality(Pool!Running) \in Nat
      /\ Cardinality(Pool!Running) <= Cardinality(At("run"))
  BY <1>1, <1>4, FS_Surjection, FS_CardinalityType
<1> QED
  BY <1>3, <1>4, <1>5

LEMMA PoolStep ==
    ASSUME TypeOK, Holders, ExactlyOnce, Stopping, StopDrains', [Next]_vars
    PROVE  [Pool!Next]_(Pool!vars)
<1> USE DEF Pool!vars
<1>1. ASSUME UNCHANGED <<started, tasks, finished, stopFlag>>,
             (mpc = "joined") = (mpc' = "joined")
      PROVE  UNCHANGED Pool!vars
  BY <1>1 DEF Dispatched
<1>2. CASE UNCHANGED vars
  BY <1>1, <1>2 DEF vars
<1>3. ASSUME NEW t \in Tasks, DispatchLock(t) PROVE UNCHANGED Pool!vars
  BY <1>1, <1>3 DEF DispatchLock, workerVars
<1>4. ASSUME DispatchEmplace PROVE Pool!Next
  <2>1. func \in Tasks /\ func \notin Range(Dispatched) /\ ~stopFlag
    BY <1>4 DEF DispatchEmplace, Holders, Stopping
  <2>2. Dispatched' = Append(Dispatched, func)
    BY <1>4, <2>1, EnqueueAppends DEF DispatchEmplace, Dispatched, TypeOK, workerVars
  <2>3. Pool!Submit(func)
    BY <1>4, <2>1, <2>2, SameOperators DEF DispatchEmplace, workerVars, Pool!Submit, Pool!SubmitTask
  <2> QED
    BY <2>1, <2>3 DEF Pool!Next
<1>5. ASSUME DispatchNotify \/ StopBegin \/ StopLock \/ StopNotifyAll \/ Joined
      PROVE  UNCHANGED Pool!vars
  BY <1>1, <1>5
  DEF DispatchNotify, StopBegin, StopLock, StopNotifyAll, Joined, workerVars, vars
<1>6. ASSUME StopSet PROVE Pool!Next
  <2>1. Pool!Close
    BY <1>6 DEF StopSet, Stopping, workerVars, Pool!Close, Dispatched
  <2> QED
    BY <2>1 DEF Pool!Next
<1>7. ASSUME StopJoin PROVE Pool!Next
  <2>1. tasks = <<>> /\ finished = Range(started)
    BY <1>7 DEF StopJoin, StopDrains, workerVars
  <2>2. Dispatched = started
    BY <2>1, ConcatEmptySeq DEF Dispatched, TypeOK
  <2>3. Pool!Finish
    BY <1>7, <2>1, <2>2, SameOperators DEF StopJoin, Stopping, workerVars, Pool!Finish, Dispatched
  <2> QED
    BY <2>3 DEF Pool!Next
<1>8. ASSUME NEW w \in Workers, WorkerLock(w) \/ WorkerWait(w) \/ WorkerExit(w)
                                \/ SpuriousWake(w)
      PROVE  UNCHANGED Pool!vars
  BY <1>1, <1>8 DEF WorkerLock, WorkerWait, WorkerExit, SpuriousWake, ownerVars
<1>9. ASSUME NEW w \in Workers, WorkerTake(w) PROVE Pool!Next
  <2>1. Dispatched' = Dispatched /\ Len(started) < Len(Dispatched)
    BY <1>9, DequeueMoves, ConcatProperties, LenProperties
    DEF WorkerTake, Dispatched, TypeOK
  <2>2. Len(started') = Len(started) + 1
    BY <1>9 DEF WorkerTake, TypeOK
  <2>3. Cardinality(Pool!Running) < Cardinality(Workers)
    BY <1>9, RunningBounded DEF WorkerTake
  <2>4. Pool!Begin
    BY <1>9, <2>1, <2>2, <2>3, SameOperators DEF WorkerTake, ownerVars, Pool!Begin, Pool!BeginTask
  <2> QED
    BY <2>4 DEF Pool!Next
<1>10. ASSUME NEW w \in Workers, WorkerRun(w) PROVE Pool!Next
  <2>1. task[w] \in Tasks /\ task[w] \in Pool!Running
    BY <1>10, RunningHeld DEF WorkerRun, Holders, TypeOK, At
  <2>2. Pool!End(task[w])
    BY <1>10, <2>1 DEF WorkerRun, ownerVars, Pool!End, Pool!EndTask, Dispatched
  <2> QED
    BY <2>1, <2>2 DEF Pool!Next
<1> QED
  BY <1>2, <1>3, <1>4, <1>5, <1>6, <1>7, <1>8, <1>9, <1>10
  DEF Next, OwnerNext, WorkerNext

(***************************************************************************)
(* The pool implements TaskPool, progress apart: closures begin in the     *)
(* order of dispatch_async, each once, at most one for each worker, none   *)
(* after stop(), and all of them end before stop() returns                 *)
(* (thread_pool.hpp:28-81).                                                *)
(***************************************************************************)
THEOREM PoolImplementsTaskPool == SafeSpec => Pool!SafeSpec
<1>1. Init => Pool!Init
  BY DEF Init, Pool!Init, Dispatched
<1>2. /\ TypeOK /\ Holders /\ ExactlyOnce /\ Stopping /\ StopDrains'
      /\ [Next]_vars
      => [Pool!Next]_(Pool!vars)
  BY PoolStep
<1> QED
  BY <1>1, <1>2, HoldersInductive, TasksRunExactlyOnce, StoppingInductive,
     StopAlwaysDrains, PTL
  DEF SafeSpec, Pool!SafeSpec
-----------------------------------------------------------------------------
(***************************************************************************)
(* The lock's variables keep their types.                                  *)
(***************************************************************************)
THEOREM LockTypesCorrect == LockSafeSpec => []LockTypeOK
<1>1. LockInit => LockTypeOK
  BY DEF LockInit, LockTypeOK, Modes
<1>2. LockTypeOK /\ [LockNext]_lockVars => LockTypeOK'
  <2> SUFFICES ASSUME LockTypeOK, [LockNext]_lockVars PROVE LockTypeOK'
    OBVIOUS
  <2> USE DEF LockTypeOK, Modes
  <2>1. CASE UNCHANGED lockVars
    BY <2>1 DEF lockVars
  <2>2. ASSUME NEW t \in Threads, Call(t) \/ Wait(t) \/ LockSpuriousWake(t) PROVE LockTypeOK'
    BY <2>2 DEF Call, Wait, LockSpuriousWake
  <2>3. ASSUME NEW t \in Threads, Lock(t) PROVE LockTypeOK'
    BY <2>3 DEF Lock, ReadLock, WriteLock
  <2>4. ASSUME NEW t \in Threads, ReadUnlock(t) PROVE LockTypeOK'
    BY <2>4 DEF ReadUnlock, ThreadsAt
  <2>5. ASSUME NEW t \in Threads, WriteUnlock(t) PROVE LockTypeOK'
    BY <2>5 DEF WriteUnlock
  <2> QED
    BY <2>1, <2>2, <2>3, <2>4, <2>5 DEF LockNext, Unlock
<1> QED
  BY <1>1, <1>2, PTL DEF LockSafeSpec
-----------------------------------------------------------------------------
LockInv == Exclusive /\ SleepersAreWatched

LEMMA LockInductive == LockSafeSpec => []LockInv
<1>1. LockInit => LockInv
  BY DEF LockInit, LockInv, Exclusive, SleepersAreWatched, ThreadsAt, Free
<1>2. LockInv /\ LockTypeOK /\ [LockNext]_lockVars => LockInv'
  <2> SUFFICES ASSUME LockInv, LockTypeOK, [LockNext]_lockVars PROVE Exclusive' /\ SleepersAreWatched'
    BY DEF LockInv
  <2> USE DEF LockInv, LockTypeOK, Modes, Exclusive, SleepersAreWatched, ThreadsAt, Free
  <2>1. CASE UNCHANGED lockVars
    BY <2>1 DEF lockVars
  <2>2. ASSUME NEW t \in Threads, Call(t) PROVE Exclusive' /\ SleepersAreWatched'
    <3>1. Exclusive'
      BY <2>2 DEF Call
    <3>2. SleepersAreWatched'
      BY <2>2 DEF Call
    <3> QED
      BY <3>1, <3>2
  <2>3. ASSUME NEW t \in Threads, Wait(t) PROVE Exclusive' /\ SleepersAreWatched'
    BY <2>3 DEF Wait
  <2>4. ASSUME NEW t \in Threads, ReadLock(t) PROVE Exclusive' /\ SleepersAreWatched'
    BY <2>4 DEF ReadLock
  <2>5. ASSUME NEW t \in Threads, WriteLock(t) PROVE Exclusive' /\ SleepersAreWatched'
    BY <2>5 DEF WriteLock
  <2>6. ASSUME NEW t \in Threads, ReadUnlock(t) PROVE Exclusive' /\ SleepersAreWatched'
    \* The thread that is notified tests the predicate next.
    BY <2>6 DEF ReadUnlock
  <2>7. ASSUME NEW t \in Threads, WriteUnlock(t) PROVE Exclusive' /\ SleepersAreWatched'
    BY <2>7 DEF WriteUnlock
  <2>8. ASSUME NEW t \in Threads, LockSpuriousWake(t) PROVE Exclusive' /\ SleepersAreWatched'
    BY <2>8 DEF LockSpuriousWake
  <2> QED
    BY <2>1, <2>2, <2>3, <2>4, <2>5, <2>6, <2>7, <2>8 DEF LockNext, Lock, Unlock
<1> QED
  BY <1>1, <1>2, LockTypesCorrect, PTL DEF LockSafeSpec

(***************************************************************************)
(* Never are two threads inside, readers or writers (rw_lock.hpp:15-49).   *)
(***************************************************************************)
THEOREM LockIsExclusive == LockSafeSpec => []Exclusive
<1>1. LockInv => Exclusive
  BY DEF LockInv
<1> QED
  BY <1>1, LockInductive, PTL

(***************************************************************************)
(* Nobody sleeps on a free lock with nobody awake to take it: notifying    *)
(* one thread in read_unlock is enough (rw_lock.hpp:25-30).                *)
(***************************************************************************)
THEOREM LockIsWatched == LockSafeSpec => []SleepersAreWatched
<1>1. LockInv => SleepersAreWatched
  BY DEF LockInv
<1> QED
  BY <1>1, LockInductive, PTL
=============================================================================
