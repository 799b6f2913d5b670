SPECIFICATION Spec
CONSTANTS
    d1 = d1
    d2 = d2
    d3 = d3
    p1 = p1
    p2 = p2
    s1 = s1
    None = None
    Docs <- MCDocs
    Plugins = {p1, p2}
    Loose = {}
    Routes = {r1}
    Secrets = {s1}
    Writers = {w1}
    Initializers = {i1}
    Requests = {q1}
    DocPlugins <- MCDocPlugins
    DocAuth <- MCDocPlugins
    DocPolicy <- MCDocPolicy
    DocSecrets <- MCDocSecrets
    CacheMax = 1
SYMMETRY Symmetry
CHECK_DEADLOCK FALSE
INVARIANT InvalidatedOnReload
