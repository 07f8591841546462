SPECIFICATION MigSpec
CONSTANTS
    p1 = p1
    Processes = {p1}
    Files = {1, 2, 3}
    NoDown = {3}
    MaxClock = 1
    MaxRevert = 2
INVARIANTS
    MigTypeOK
    RecordsMatchSchema
    AppliedIsAPrefix
    DownTakesTheNewest
    RedoRestores
    ToLandsOnTarget
