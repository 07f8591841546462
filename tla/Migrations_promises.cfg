SPECIFICATION MigSpec
CONSTANTS
    p1 = p1
    Processes = {p1}
    Files = {1, 2, 3}
    NoDown = {}
    MaxClock = 1
    MaxRevert = 2
SYMMETRY Symm
INVARIANTS
    ToKeepsItsTarget
    PrefixThroughOrdinaryUse
    DownUndoesTheLast
