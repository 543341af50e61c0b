------------------------------ MODULE TaskPool ------------------------------
(***************************************************************************)
(* What src/src/server/thread_pool.hpp promises to the thread that hands   *)
(* it packets to process, with no mutex, condition variable or thread in   *)
(* sight: tasks begin in the order in which they were submitted, each one  *)
(* once, at most PoolSize of them at a time; once the pool is closed it    *)
(* takes no more, and it is over only when every task it took has ended.   *)
(***************************************************************************)
EXTENDS Naturals, Sequences, FiniteSets, Functions

CONSTANTS Tasks,     \* the closures that may be submitted
          PoolSize   \* the number of tasks that may run at once

VARIABLES submitted, \* the tasks taken so far, in order of submission
          begun,     \* how many of them have begun, from the front
          done,      \* the tasks that have ended
          closed,    \* no further task is taken
          over       \* the pool is gone

vars == <<submitted, begun, done, closed, over>>

Begun == {submitted[i] : i \in 1 .. begun}
Running == Begun \ done

Init ==
    /\ submitted = <<>>
    /\ begun = 0
    /\ done = {}
    /\ closed = FALSE
    /\ over = FALSE

\* What each step does to the tasks themselves; a system whose pool is never
\* closed uses these alone.
SubmitTask(t) ==
    /\ submitted' = Append(submitted, t)
    /\ UNCHANGED <<begun, done>>

BeginTask ==
    /\ begun < Len(submitted)
    /\ Cardinality(Running) < PoolSize
    /\ begun' = begun + 1
    /\ UNCHANGED <<submitted, done>>

EndTask(t) ==
    /\ t \in Running
    /\ done' = done \cup {t}
    /\ UNCHANGED <<submitted, begun>>

Submit(t) ==
    /\ ~closed
    /\ t \notin Range(submitted)
    /\ SubmitTask(t)
    /\ UNCHANGED <<closed, over>>

Begin == BeginTask /\ UNCHANGED <<closed, over>>

End(t) == EndTask(t) /\ UNCHANGED <<closed, over>>

Close ==
    /\ ~closed
    /\ closed' = TRUE
    /\ UNCHANGED <<submitted, begun, done, over>>

Finish ==
    /\ closed /\ ~over
    /\ done = Range(submitted)
    /\ over' = TRUE
    /\ UNCHANGED <<submitted, begun, done, closed>>

Next ==
    \/ \E t \in Tasks : Submit(t) \/ End(t)
    \/ Begin \/ Close \/ Finish

(***************************************************************************)
(* Whatever may begin eventually begins, a task that runs eventually ends, *)
(* and a closed pool eventually is over.  Nothing forces Submit or Close.  *)
(***************************************************************************)
Fairness ==
    /\ WF_vars(Begin)
    /\ \A t \in Tasks : WF_vars(End(t))
    /\ WF_vars(Finish)

SafeSpec == Init /\ [][Next]_vars
Spec == SafeSpec /\ Fairness
=============================================================================
