SPECIFICATION MigSpec
CONSTANTS
    p1 = p1
    p2 = p2
    Processes = {p1, p2}
    Files = {1, 2}
    NoDown = {}
    MaxClock = 2
    MaxRevert = 2
SYMMETRY Symm
INVARIANTS
    RecordsMatchSchema
    AppliedIsAPrefix
    DownTakesTheNewest
    RedoRestores
    ToLandsOnTarget
