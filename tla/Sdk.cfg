\* Two tabs, two calls in flight, two clients, two authorizations.
CONSTANTS
    Tabs = {t1, t2}
    Calls = {c1, c2}
    NoTab = NoTab
    MaxClient = 2
    MaxFlow = 2
    MaxGrant = 2
    MaxToken = 2

SPECIFICATION SdkSpec
SYMMETRY Symmetry

INVARIANTS
    OnlyRacesKillGrants
    StoredTokenWorks
    ExchangesMatch
