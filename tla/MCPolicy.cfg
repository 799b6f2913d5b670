SPECIFICATION PolicySpec
CONSTANTS
    d1 = d1
    d2 = d2
    d3 = d3
    p1 = p1
    p2 = p2
    s1 = s1
    None = None
    Docs <- MCDocs
    Plugins = {p1, p2}
    Loose = {p1}
    Routes = {r1}
    Secrets = {s1}
    Writers = {w1}
    Initializers = {i1, i2}
    Requests = {q1}
    DocPlugins <- MCDocPlugins
    DocAuth <- MCDocPlugins
    DocPolicy <- MCDocPolicy
    DocSecrets <- MCDocSecrets
    CacheMax = 1
    PolicyRoutes <- MCRoutes
    Attributes <- MCAttributes
    Conditions <- MCConditions
    ExpressionLevels <- MCExpressionLevels
    EffectLevels <- MCEffectLevels
    PolicyLabels = {"t", "plugin", "backend", "field", "scan"}
    ExactBound = 4
    CapabilitySets <- MCCapabilitySets
    TierLabels = {"pii"}
    HeaderNames = {"authorization"}
    Hops = {"narrow", "wide"}
    TokenIds = {"t"}
    MaxHops = 2
    Selectors <- MCSelectors
    Queries <- MCQueries
    Patterns <- MCPatterns
    ScopeNames = {"none", "s"}
    ExactPathScore = 1000000
    Bundles = {"b1", "b2"}
    Memberships <- MCMemberships
    StepBlocks <- MCStepBlocks
    HeaderBlocks <- MCHeaderBlocks
SYMMETRY Symmetry
CHECK_DEADLOCK FALSE
INVARIANT WalkSound
INVARIANT ConditionsSound
INVARIANT IdentityKept
PROPERTY ChangesGranted
INVARIANT RouteChosen
INVARIANT ContractAsDeclared
INVARIANT EngineConsistent
