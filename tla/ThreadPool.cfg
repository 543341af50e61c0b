\* Three workers and three closures: enough for one worker to sleep while two
\* race for the mutex.  No symmetry: liveness and refinement.
CONSTANTS
    w1 = w1  w2 = w2  w3 = w3
    t1 = t1  t2 = t2  t3 = t3
    Workers = {w1, w2, w3}
    Tasks = {t1, t2, t3}
    Owner = Owner
    None = None
SPECIFICATION Spec
INVARIANTS FullParallelism ExactlyOnce StopDrains
PROPERTIES StopReturns ImplementsTaskPool
