\* The documented promise the separate audit statement breaks: two requests, three accounts over time at two addresses, two sessions.
CONSTANTS
    Procs = {p1, p2}
    Emails = {boot, other}
    BootEmail = boot
    MaxOwner = 3
    MaxSession = 2
    MaxAudit = 1
    Granted = {"owner", "admin", "viewer"}

SPECIFICATION Spec
SYMMETRY Symmetry

INVARIANT DeletionsAreRecorded
