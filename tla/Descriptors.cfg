\* Three connections, and few enough descriptors for them to run out.
CONSTANTS
    c1 = c1  c2 = c2  c3 = c3
    Conns = {c1, c2, c3}
    MaxFd = 4
SPECIFICATION Spec
SYMMETRY Symmetry
INVARIANTS TypeOK PositiveOwned
CHECK_DEADLOCK FALSE
