\* Files of one chunk and of two, the second one short; two clients, two
\* files each, so that uploads overlap, replace and are downloaded.
CONSTANTS
    c1 = c1  c2 = c2
    f1 = f1  f2 = f2  outside = outside
    Conns = {c1, c2}
    Names = {f1, f2, outside}
    Paths = {outside}
    Directories = {}
    Lengths = {1, 3}
    ChunkSize = 2
    MaxFiles = 2
    Unset = Unset
SPECIFICATION Spec
SYMMETRY Symmetry
INVARIANTS TypeOK  DownloadedInFront
