SPECIFICATION Spec
CONSTANTS
    p1 = p1
    p2 = p2
    ann = ann
    noreply = noreply
    google = google
    Procs = {p1, p2}
    Emails = {ann, noreply}
    Idents = {google}
    Reports <- GoogleReports
    Placeholder <- GooglePlaceholder
    MaxUser = 2
    MaxSession = 2
    MaxTok = 0
SYMMETRY Symm
INVARIANT LosingCallbacksSignIn
