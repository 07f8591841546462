SPECIFICATION Spec
CONSTANTS
    p1 = p1
    p2 = p2
    g1 = g1
    g2 = g2
    alice = alice
    app = app
    Procs = {p1, p2}
    Grants = {g1}
    Subjects = {alice}
    Clients = {app}
    SubjectOf <- OneSubject
    ClientOf <- OneClient
    Offline = {g1}
    MaxSig = 4
SYMMETRY ProcSymmetry
INVARIANT CodeRedeemedOnce
