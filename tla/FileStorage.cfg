SPECIFICATION Spec
CONSTANTS
    p1 = p1
    p2 = p2
    p3 = p3
    ann = ann
    bob = bob
    nobody = nobody
    f1 = f1
    f2 = f2
    Procs = {p1, p2, p3}
    Users = {ann, bob}
    Ids = {f1, f2}
    Nobody = nobody
SYMMETRY Symm
INVARIANTS
    ListedFilesAreWhole
    BytesAreDiscoverable
    DownloadsAreOwnAndWhole
    ErasedBytesAreGone
