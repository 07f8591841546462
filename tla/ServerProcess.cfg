\* Two processes on an empty database, one grant; two requests of two
\* addresses, two attempts per window of two ticks.
CONSTANTS
    Servers = {s1, s2}
    Front = s1
    Grants = {g1}
    MaxKey = 2
    NoSecret = NoSecret
    NoSession = NoSession
    Attempts = {a1, a2}
    IPs = {i1, i2}
    Limit = 2
    Window = 2
    MaxStall = 1

SPECIFICATION Spec
SYMMETRY Symmetry

INVARIANTS
    OneSecret
    TokensVerify
    TwiceTheLimit
    RetryAfterIsHonest
