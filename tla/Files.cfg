\* Any three requests of two sessions.
CONSTANTS
    s1 = s1  s2 = s2
    Homes = {"u", "v"}
    Longer = {}
    HomeOf <- MCHomeOf
    Admins = {s2}
    Names = {"a", "d"}
    Archives = {"a"}
    Formats = {"gz", "zip"}
    InitialFiles <- MCInitialFiles
    MaxDepth = 2
    MaxFiles = 8
    MaxRequests = 3
SPECIFICATION Spec
INVARIANTS TypeOK 
PROPERTIES   RefusedChangesNothing
