SPECIFICATION Spec
CONSTANTS
    n1 = n1
    n2 = n2
    c1 = c1
    c2 = c2
    c3 = c3
    posts = posts
    notes = notes
    alice = alice
    bob = bob
    e1 = e1
    e2 = e2
    Everyone = Everyone
    Users = {alice, bob}
    Events = {e1, e2}
    NodeOf <- MCNodeOf
    SubjectOf <- MCSubjectOf
    CollOf <- MCCollOf
    OwnerOf <- MCOwnerOf
    Cap = 1
CHECK_DEADLOCK FALSE

CONSTANTS
    Nodes = {n1}
    Conns = {c1, c2}
    Collections = {posts}
    HasRelay = FALSE
INVARIANT NoPublicationPanics
