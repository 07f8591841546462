\* Three requests at a time, so that two erasures meet a writer; one row, one
\* file, one token; one failing call.
CONSTANTS
    Procs = {p1, p2, p3}
    Rows = {r1}
    Files = {f1}
    Tokens = {t1}
    None = None
    MaxFault = 1

SPECIFICATION Spec
\* An erased account whose tokens are gone has nothing left to do.
CHECK_DEADLOCK FALSE

INVARIANT NothingIsLeft
