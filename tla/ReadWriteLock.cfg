\* Four threads: one inside, one woken, and two left asleep.
CONSTANTS
    t1 = t1  t2 = t2  t3 = t3  t4 = t4
    Threads = {t1, t2, t3, t4}
SPECIFICATION LockSpec
INVARIANTS Exclusive SleepersAreWatched
PROPERTIES HandedOn
