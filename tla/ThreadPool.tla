----------------------------- MODULE ThreadPool -----------------------------
(***************************************************************************)
(* src/src/server/thread_pool.hpp: workers that sleep on a condition       *)
(* variable, a FIFO of closures behind queueMutex, a stop flag.            *)
(*                                                                         *)
(* The owner is the one thread that calls dispatch_async and, through the  *)
(* destructor, stop: server_thread() of main.cpp.  Each action is one      *)
(* stretch of code between two points where another thread may run: taking *)
(* queueMutex, the section under it, and the notification after it.        *)
(***************************************************************************)
EXTENDS Naturals, Sequences, FiniteSets, Functions

CONSTANTS Workers,  \* the threads start() creates
          Tasks,    \* the closures the owner may dispatch, each one once
          Owner,    \* the thread that owns the pool
          None      \* no thread, or no closure

ASSUME PoolAssumption ==
    /\ Workers # {} /\ IsFiniteSet(Workers)
    /\ Owner \notin Workers /\ None \notin Workers
    /\ Owner # None /\ None \notin Tasks

VARIABLES
    tasks,       \* the queue of closures not yet taken by a worker
    stopFlag,
    queueMutex,  \* the thread that holds the mutex, or None
    wpc,         \* where each worker is
    task,        \* the closure each worker has moved out of the queue
    mpc,         \* where the owner is in dispatch_async or stop
    func,        \* the argument of the dispatch_async in progress
    started,     \* history: the closures taken, in order
    finished     \* history: the closures that have returned

workerVars == <<wpc, task, started, finished>>
ownerVars == <<mpc, func>>
vars == <<tasks, stopFlag, queueMutex, wpc, task, mpc, func, started, finished>>

WorkerPC == {"lock", "test", "waiting", "run", "exited"}
OwnerPC == {"idle", "emplace", "notify",
            "stop", "setStop", "notifyAll", "join", "joined"}

At(pc) == {w \in Workers : wpc[w] = pc}
Dispatched == started \o tasks

TypeOK ==
    /\ tasks \in Seq(Tasks)
    /\ stopFlag \in BOOLEAN
    /\ queueMutex \in Workers \cup {Owner, None}
    /\ wpc \in [Workers -> WorkerPC]
    /\ task \in [Workers -> Tasks \cup {None}]
    /\ mpc \in OwnerPC
    /\ func \in Tasks \cup {None}
    /\ started \in Seq(Tasks)
    /\ finished \in SUBSET Tasks

Init ==
    /\ tasks = <<>>
    /\ stopFlag = FALSE
    /\ queueMutex = None
    /\ wpc = [w \in Workers |-> "lock"]
    /\ task = [w \in Workers |-> None]
    /\ mpc = "idle"
    /\ func = None
    /\ started = <<>>
    /\ finished = {}
-----------------------------------------------------------------------------
(***************************************************************************)
(* The owner: dispatch_async, then stop.                                   *)
(***************************************************************************)
DispatchLock(t) ==
    /\ mpc = "idle"
    /\ t \notin Range(Dispatched)
    /\ queueMutex = None
    /\ queueMutex' = Owner
    /\ func' = t
    /\ mpc' = "emplace"
    /\ UNCHANGED <<tasks, stopFlag, workerVars>>

\* Faulty variant: the closure goes to the front of the queue.
DispatchEmplaceAtFront ==
    /\ mpc = "emplace"
    /\ tasks' = <<func>> \o tasks
    /\ func' = None
    /\ queueMutex' = None
    /\ mpc' = "notify"
    /\ UNCHANGED <<stopFlag, workerVars>>

DispatchEmplace ==
    /\ mpc = "emplace"
    /\ tasks' = Append(tasks, func)
    /\ func' = None
    /\ queueMutex' = None
    /\ mpc' = "notify"
    /\ UNCHANGED <<stopFlag, workerVars>>

\* Faulty variant: only an idle pool is notified.
DispatchNotifyIdlePool ==
    /\ mpc = "notify"
    /\ mpc' = "idle"
    /\ \/ /\ At("waiting") = Workers
          /\ \E w \in At("waiting") : wpc' = [wpc EXCEPT ![w] = "lock"]
       \/ /\ At("waiting") # Workers
          /\ UNCHANGED wpc
    /\ UNCHANGED <<tasks, stopFlag, queueMutex, task, func, started, finished>>

DispatchNotify ==
    /\ mpc = "notify"
    /\ mpc' = "idle"
    /\ \/ \E w \in At("waiting") : wpc' = [wpc EXCEPT ![w] = "lock"]
       \/ At("waiting") = {} /\ UNCHANGED wpc
    /\ UNCHANGED <<tasks, stopFlag, queueMutex, task, func, started, finished>>

StopBegin ==
    /\ mpc = "idle"
    /\ mpc' = "stop"
    /\ UNCHANGED <<tasks, stopFlag, queueMutex, func, workerVars>>

StopLock ==
    /\ mpc = "stop"
    /\ queueMutex = None
    /\ queueMutex' = Owner
    /\ mpc' = "setStop"
    /\ UNCHANGED <<tasks, stopFlag, func, workerVars>>

StopSet ==
    /\ mpc = "setStop"
    /\ stopFlag' = TRUE
    /\ queueMutex' = None
    /\ mpc' = "notifyAll"
    /\ UNCHANGED <<tasks, func, workerVars>>

\* Faulty variant: stop wakes one worker instead of all of them.
StopNotifyOne ==
    /\ mpc = "notifyAll"
    /\ mpc' = "join"
    /\ \/ \E w \in At("waiting") : wpc' = [wpc EXCEPT ![w] = "lock"]
       \/ At("waiting") = {} /\ UNCHANGED wpc
    /\ UNCHANGED <<tasks, stopFlag, queueMutex, task, func, started, finished>>

StopNotifyAll ==
    /\ mpc = "notifyAll"
    /\ mpc' = "join"
    /\ wpc' = [w \in Workers |-> IF wpc[w] = "waiting" THEN "lock" ELSE wpc[w]]
    /\ UNCHANGED <<tasks, stopFlag, queueMutex, task, func, started, finished>>

StopJoin ==
    /\ mpc = "join"
    /\ At("exited") = Workers
    /\ mpc' = "joined"
    /\ UNCHANGED <<tasks, stopFlag, queueMutex, func, workerVars>>
-----------------------------------------------------------------------------
(***************************************************************************)
(* A worker: condition.wait evaluates its predicate under queueMutex and   *)
(* releases it only by going to sleep; std::condition_variable may also    *)
(* wake a sleeper for no reason.                                           *)
(***************************************************************************)
WorkerLock(w) ==
    /\ wpc[w] = "lock"
    /\ queueMutex = None
    /\ queueMutex' = w
    /\ wpc' = [wpc EXCEPT ![w] = "test"]
    /\ UNCHANGED <<tasks, stopFlag, task, ownerVars, started, finished>>

WorkerWait(w) ==
    /\ wpc[w] = "test"
    /\ ~stopFlag /\ tasks = <<>>
    /\ queueMutex' = None
    /\ wpc' = [wpc EXCEPT ![w] = "waiting"]
    /\ UNCHANGED <<tasks, stopFlag, task, ownerVars, started, finished>>

SpuriousWake(w) ==
    /\ wpc[w] = "waiting"
    /\ wpc' = [wpc EXCEPT ![w] = "lock"]
    /\ UNCHANGED <<tasks, stopFlag, queueMutex, task, ownerVars, started, finished>>

\* Faulty variant: a worker leaves as soon as the flag is up.
WorkerExitAtOnce(w) ==
    /\ wpc[w] = "test"
    /\ stopFlag
    /\ queueMutex' = None
    /\ wpc' = [wpc EXCEPT ![w] = "exited"]
    /\ UNCHANGED <<tasks, stopFlag, task, ownerVars, started, finished>>

WorkerExit(w) ==
    /\ wpc[w] = "test"
    /\ stopFlag /\ tasks = <<>>
    /\ queueMutex' = None
    /\ wpc' = [wpc EXCEPT ![w] = "exited"]
    /\ UNCHANGED <<tasks, stopFlag, task, ownerVars, started, finished>>

\* Faulty variant: the closure is copied and pop() is forgotten.
WorkerTakeWithoutPop(w) ==
    /\ wpc[w] = "test"
    /\ tasks # <<>>
    /\ task' = [task EXCEPT ![w] = Head(tasks)]
    /\ started' = Append(started, Head(tasks))
    /\ queueMutex' = None
    /\ wpc' = [wpc EXCEPT ![w] = "run"]
    /\ UNCHANGED <<tasks, stopFlag, ownerVars, finished>>

WorkerTake(w) ==
    /\ wpc[w] = "test"
    /\ tasks # <<>>
    /\ task' = [task EXCEPT ![w] = Head(tasks)]
    /\ tasks' = Tail(tasks)
    /\ started' = Append(started, Head(tasks))
    /\ queueMutex' = None
    /\ wpc' = [wpc EXCEPT ![w] = "run"]
    /\ UNCHANGED <<stopFlag, ownerVars, finished>>

\* The call task() returns and the closure goes out of scope.
WorkerRun(w) ==
    /\ wpc[w] = "run"
    /\ finished' = finished \cup {task[w]}
    /\ task' = [task EXCEPT ![w] = None]
    /\ wpc' = [wpc EXCEPT ![w] = "lock"]
    /\ UNCHANGED <<tasks, stopFlag, queueMutex, ownerVars, started>>

\* stop() has returned: the destructor is done.
Joined == mpc = "joined" /\ UNCHANGED vars
-----------------------------------------------------------------------------
OwnerNext ==
    \/ \E t \in Tasks : DispatchLock(t)
    \/ DispatchEmplace \/ DispatchNotify
    \/ StopBegin \/ StopLock \/ StopSet \/ StopNotifyAll \/ StopJoin

WorkerNext(w) ==
    \/ WorkerLock(w) \/ WorkerWait(w) \/ WorkerTake(w) \/ WorkerRun(w)
    \/ WorkerExit(w)

Next ==
    \/ OwnerNext
    \/ \E w \in Workers : WorkerNext(w) \/ SpuriousWake(w)
    \/ Joined

SafeSpec == Init /\ [][Next]_vars

(***************************************************************************)
(* Every thread is scheduled, a closure eventually returns, and a thread   *)
(* that keeps asking for queueMutex eventually gets it.  The owner need    *)
(* never dispatch or stop, but it finishes what it has begun.              *)
(***************************************************************************)
Fairness ==
    /\ \A w \in Workers :
         /\ SF_vars(WorkerLock(w))
         /\ WF_vars(WorkerWait(w) \/ WorkerTake(w) \/ WorkerRun(w) \/ WorkerExit(w))
    /\ SF_vars(StopLock)
    /\ WF_vars(DispatchEmplace \/ DispatchNotify
               \/ StopSet \/ StopNotifyAll \/ StopJoin)

Spec == SafeSpec /\ Fairness
-----------------------------------------------------------------------------
(***************************************************************************)
(* No worker sleeps while there is work for it: as long as some worker is  *)
(* asleep, every queued closure has a worker of its own that is awake and  *)
(* holds no closure, or a notification that dispatch_async is about to     *)
(* send.  It rests on the order emplace, unlock, notify_one and on the     *)
(* predicate being tested under the mutex (lines 32-57).                   *)
(***************************************************************************)
FullParallelism ==
    At("waiting") # {} =>
        Len(tasks) <= Cardinality(At("lock") \cup At("test"))
                      + (IF mpc = "notify" THEN 1 ELSE 0)

(***************************************************************************)
(* No closure is lost, run twice or run out of order: the closures taken   *)
(* and those still queued are distinct, every one taken is held by exactly *)
(* one worker until it has returned (lines 45-63).                         *)
(***************************************************************************)
ExactlyOnce ==
    /\ \A i, j \in DOMAIN Dispatched : Dispatched[i] = Dispatched[j] => i = j
    /\ \A w \in Workers : task[w] # None => task[w] \notin finished
    /\ \A v, w \in Workers : task[v] = task[w] /\ task[v] # None => v = w
    /\ Range(started) = finished \cup {task[w] : w \in At("run")}

(***************************************************************************)
(* stop() drains: when it returns, no closure is left in the queue and     *)
(* every closure that was dispatched has returned, so that what the        *)
(* closures use may be destroyed next (lines 69-81).                       *)
(***************************************************************************)
StopDrains == mpc = "joined" => tasks = <<>> /\ finished = Range(started)

(***************************************************************************)
(* stop() returns: it never waits for a worker that nobody will wake.      *)
(***************************************************************************)
StopReturns == mpc = "stop" ~> mpc = "joined"

(***************************************************************************)
(* The pool does what TaskPool promises, steps and progress alike.         *)
(***************************************************************************)
Pool == INSTANCE TaskPool WITH
            PoolSize <- Cardinality(Workers),
            submitted <- Dispatched,
            begun <- Len(started),
            done <- finished,
            closed <- stopFlag,
            over <- mpc = "joined"

ImplementsTaskPool == Pool!Spec
=============================================================================
