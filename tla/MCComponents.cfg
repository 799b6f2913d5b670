SPECIFICATION ComponentsSpec
CONSTANTS
    Actors = {a1, a2}
    Calls = {c1, c2, c3}
    Principals = {p1}
    Charges = {1, 2}
    Limit = 3
    ServeOnError = TRUE
    Askers = {a1, a2}
    CacheKeys = {k1, k2, k3}
    MaxEntries = 2
    Ttl = 2
    MaxReloads = 1
    MaxTime = 4
    Lookups = {a1, a2}
    ApiKeySet = {k1, k2}
    InitialKeys = {k1}
    PositiveTtl = 2
    NegativeTtl = 1
    Capacity = 1
    RefreshSecs = 1
    MaxStaleness = 1
    MaxClock = 2
    MaxEdits = 1
    Emissions = {c1, c2, c3}
    OutputSlots = 2
    MaxRotations = 1
    SecretOrder <- MCSecretOrder
    SecretProviderOf <- MCSecretProviderOf
    Refreshes = {a1, a2}
    MaxSecretRotations = 1
    MaxSecretClock = 2
    LimitedReqs = {c1, c2, c3}
    LimitOf <- MCLimitOf
SYMMETRY MCSym
CHECK_DEADLOCK FALSE
INVARIANT ComponentsTypeOK
INVARIANT RevocationWindow
INVARIANT QuotaSound
PROPERTY SettledAtAdmission
INVARIANT RateHeld
INVARIANT CacheSound
INVARIANT AuditWhole
INVARIANT RefreshTruthful
