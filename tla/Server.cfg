\* One client waits for each reply, as the shipped one does, the other sends
\* ahead; no symmetry: liveness, and the clients differ.
CONSTANTS
    c1 = c1  c2 = c2
    Clients = {c1, c2}
    Eager = {c2}
    MaxReq = 2
    MaxSent = 3
    PoolSize = 1
    None = None
SPECIFICATION Spec
INVARIANTS TypeOK  HandledOnce  PassPollsAll 
   
