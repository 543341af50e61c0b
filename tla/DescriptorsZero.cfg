\* The first client leaves, the second is given descriptor 0, the third leaves.
CONSTANTS
    c1 = c1  c2 = c2  c3 = c3
    Conns = {c1, c2, c3}
    MaxFd = 4
SPECIFICATION Spec
INVARIANTS LostMeansGone
CHECK_DEADLOCK FALSE
