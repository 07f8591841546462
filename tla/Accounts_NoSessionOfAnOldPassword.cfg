SPECIFICATION Spec
CONSTANTS
    p1 = p1
    p2 = p2
    ann = ann
    noreply = noreply
    google = google
    Procs = {p1, p2}
    Emails = {ann}
    Idents = {}
    Reports <- NoReports
    Placeholder <- NoPlaceholder
    MaxUser = 2
    MaxSession = 2
    MaxTok = 2
SYMMETRY Symm
INVARIANT NoSessionOfAnOldPassword
