SPECIFICATION Spec
CONSTANTS
    p1 = p1
    p2 = p2
    ann = ann
    bob = bob
    nobody = nobody
    k = k
    Procs = {p1, p2}
    Subjects = {ann, bob}
    Ids = {k}
    Policies <- Declared
    Nobody = nobody
SYMMETRY Symm
INVARIANT EventsFollowReads
INVARIANT AnswersAreOwn
INVARIANT NoRowOfAnErasedAccount
INVARIANT DeletionsReachReaders
INVARIANT UnownedRowsAreUnheard
INVARIANT EventsFollowCurrentRules
