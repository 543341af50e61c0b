--------------------------- MODULE ReadWriteLock ---------------------------
(***************************************************************************)
(* src/src/server/rw_lock.hpp: a lock for readers and writers made of a    *)
(* mutex, a condition variable and two flags.  The server keeps it for     *)
(* settings that are no longer primitive (state.hpp:25-26).                *)
(*                                                                         *)
(* Every function runs under mtx from its first line to its last, except   *)
(* while cv.wait sleeps, so a function is one step, or two if it sleeps.   *)
(* The names are not those of ThreadPool, with which it shares a module of *)
(* proofs.                                                                 *)
(***************************************************************************)
EXTENDS Naturals, FiniteSets

CONSTANT Threads

VARIABLES
    is_locked, is_writer_active,
    pc,    \* "out", "try": about to test the predicate, "waiting", "in"
    mode   \* what each thread takes, or has taken, the lock for

lockVars == <<is_locked, is_writer_active, pc, mode>>

Modes == {"read", "write"}
ThreadsAt(p) == {t \in Threads : pc[t] = p}

LockTypeOK ==
    /\ is_locked \in BOOLEAN /\ is_writer_active \in BOOLEAN
    /\ pc \in [Threads -> {"out", "try", "waiting", "in"}]
    /\ mode \in [Threads -> Modes]

LockInit ==
    /\ is_locked = FALSE /\ is_writer_active = FALSE
    /\ pc = [t \in Threads |-> "out"]
    /\ mode = [t \in Threads |-> "read"]

\* A guard is constructed: read_lock or write_lock is called.
Call(t) ==
    /\ pc[t] = "out"
    /\ \E m \in Modes : mode' = [mode EXCEPT ![t] = m]
    /\ pc' = [pc EXCEPT ![t] = "try"]
    /\ UNCHANGED <<is_locked, is_writer_active>>

Free == ~is_locked /\ ~is_writer_active

Wait(t) ==
    /\ pc[t] = "try" /\ ~Free
    /\ pc' = [pc EXCEPT ![t] = "waiting"]
    /\ UNCHANGED <<is_locked, is_writer_active, mode>>

\* Faulty variant: a reader looks at the writers only.
ReadLockShared(t) ==
    /\ pc[t] = "try" /\ mode[t] = "read" /\ ~is_writer_active
    /\ is_locked' = TRUE
    /\ pc' = [pc EXCEPT ![t] = "in"]
    /\ UNCHANGED <<is_writer_active, mode>>

ReadLock(t) ==
    /\ pc[t] = "try" /\ mode[t] = "read" /\ Free
    /\ is_locked' = TRUE
    /\ pc' = [pc EXCEPT ![t] = "in"]
    /\ UNCHANGED <<is_writer_active, mode>>

WriteLock(t) ==
    /\ pc[t] = "try" /\ mode[t] = "write" /\ Free
    /\ is_writer_active' = TRUE
    /\ is_locked' = TRUE
    /\ pc' = [pc EXCEPT ![t] = "in"]
    /\ UNCHANGED mode

\* Faulty variant: nobody is notified.
ReadUnlockSilent(t) ==
    /\ pc[t] = "in" /\ mode[t] = "read"
    /\ is_locked' = FALSE
    /\ pc' = [pc EXCEPT ![t] = "out"]
    /\ UNCHANGED <<is_writer_active, mode>>

ReadUnlock(t) ==
    /\ pc[t] = "in" /\ mode[t] = "read"
    /\ is_locked' = FALSE
    /\ \/ \E s \in ThreadsAt("waiting") : pc' = [pc EXCEPT ![t] = "out", ![s] = "try"]
       \/ ThreadsAt("waiting") = {} /\ pc' = [pc EXCEPT ![t] = "out"]
    /\ UNCHANGED <<is_writer_active, mode>>

\* Faulty variant: is_writer_active stays up.
WriteUnlockHalf(t) ==
    /\ pc[t] = "in" /\ mode[t] = "write"
    /\ is_locked' = FALSE
    /\ pc' = [s \in Threads |-> IF s = t THEN "out"
                                ELSE IF pc[s] = "waiting" THEN "try" ELSE pc[s]]
    /\ UNCHANGED <<is_writer_active, mode>>

WriteUnlock(t) ==
    /\ pc[t] = "in" /\ mode[t] = "write"
    /\ is_writer_active' = FALSE
    /\ is_locked' = FALSE
    /\ pc' = [s \in Threads |-> IF s = t THEN "out"
                                ELSE IF pc[s] = "waiting" THEN "try" ELSE pc[s]]
    /\ UNCHANGED mode

LockSpuriousWake(t) ==
    /\ pc[t] = "waiting"
    /\ pc' = [pc EXCEPT ![t] = "try"]
    /\ UNCHANGED <<is_locked, is_writer_active, mode>>

Lock(t) == ReadLock(t) \/ WriteLock(t)
Unlock(t) == ReadUnlock(t) \/ WriteUnlock(t)

LockNext ==
    \E t \in Threads :
        Call(t) \/ Wait(t) \/ Lock(t) \/ Unlock(t) \/ LockSpuriousWake(t)

LockSafeSpec == LockInit /\ [][LockNext]_lockVars

\* A thread that is awake runs, and one that has the lock releases it; nobody
\* need ask for the lock again.
LockSpec == LockSafeSpec /\ \A t \in Threads : WF_lockVars(Wait(t) \/ Lock(t) \/ Unlock(t))
-----------------------------------------------------------------------------
(***************************************************************************)
(* At most one thread is inside, readers included: read_lock waits for     *)
(* is_locked to fall and then raises it, so the lock is a plain mutex, and *)
(* the flags say exactly whether it is held, and by a writer               *)
(* (rw_lock.hpp:15-49).                                                    *)
(***************************************************************************)
Exclusive ==
    /\ \A s, t \in ThreadsAt("in") : s = t
    /\ is_locked <=> ThreadsAt("in") # {}
    /\ is_writer_active <=> \E t \in ThreadsAt("in") : mode[t] = "write"

(***************************************************************************)
(* Nobody sleeps on a free lock unless somebody who is awake is about to   *)
(* take it: read_unlock's single notification is enough.                   *)
(***************************************************************************)
SleepersAreWatched ==
    Free /\ ThreadsAt("waiting") # {} => ThreadsAt("try") # {}

(***************************************************************************)
(* A lock that is waited for keeps being handed on: the wait of some       *)
(* thread never outlasts every holder.                                     *)
(***************************************************************************)
HandedOn == ThreadsAt("waiting") # {} ~> ThreadsAt("in") # {}
=============================================================================
