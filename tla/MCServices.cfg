SPECIFICATION ServicesSpec
CONSTANTS
    Actors = {a1, a2}
    RouteReqs = {a1, a2}
    Sessions = {s1}
    Labels = {l1}
    OwnLabels <- MCNoOwn
    DpopReqs = {a1, a2}
    Gateways = {g1, g2}
    Scopes = {s1}
    Window = 2
    MaxSkew = 1
    MaxDelay = 1
    CapacityPerKey = 1
    GuardCapacity = 2
    MaxDpopTime = 6
    Delegations = {a1, a2}
    Lifetimes = {1, 6}
    Jitters = {0, 1}
    TtlCeiling = 4
    FloorSeconds = 1
    FractionPercent = 25
    SuspendSecs = 3
    MaxWall = 7
    Members = {o1, o2}
    Jtis = {o1, o2}
    VaultCalls = {c1, c2, c3}
    SecretReaders = {a1, a2}
    Leases = {0, 3}
    MaxLogins = 3
    MaxLeaseClock = 2
    JwksDocs <- MCJwksDocs
    TokenKids = {"k1", "k2", "invented"}
    JwtReqs = {a1, a2}
    RefreshSecs = 2
    MinRefresh = 1
    MaxJwksClock = 2
    MaxJwksRotations = 2
    PolicyDocs <- MCPolicyDocs
    Dialects = {"cedar"}
    InstallReqs = {a1, a2}
    MaxLoads = 2
SYMMETRY MCSym
CHECK_DEADLOCK FALSE
INVARIANT ServicesTypeOK
INVARIANT AllowJustified
INVARIANT ReplayGuarded
INVARIANT TokensShared
INVARIANT RevokedOrOwned
INVARIANT LoginsJustified
PROPERTY RefreshSound
INVARIANT InstalledWhole
