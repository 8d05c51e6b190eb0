SPECIFICATION Spec
CONSTANTS
    p1 = p1  p2 = p2  s1 = s1
    prod = prod  staging = staging
    v1 = v1  v2 = v2
    Spans = {p1, p2, s1}
    Envs = {prod, staging}
    All = All
    EnvOf <- MCEnvOf
    DDEnv = prod
    Services = {"billing"}
    Metadata = {v1, v2}
    Lookback = 1
    Lookbacks = {0, 1}
    SpansTTL = 1
    CatalogTTL = 1
    PageLimit = 1
    MaxPages = 2
    Never = Never
    MaxTime = 2
INVARIANTS TypeOK SchemaIsReady SuccessIsStaged EnvTagsAreHonest RunServesFreshSpans CatalogIsLatest
CONSTRAINT Bounded
SYMMETRY Interchangeable
CHECK_DEADLOCK FALSE
