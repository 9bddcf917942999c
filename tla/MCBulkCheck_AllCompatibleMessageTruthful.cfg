CONSTANTS
    rc = rc  ru = ru  rx = rx
    s1 = s1  s2 = s2
    c1 = c1  c2 = c2
    Confluent = Confluent  Unity = Unity  NoContent = NoContent
    Registries = {rc, ru, rx}
    Subjects = {s1, s2}
    Contents = {c1, c2}
    Kind <- MCKind
    Compat <- MCCompat
    InitHist <- MCInitHist
    Requested <- MCRequested
    ActiveIds = {rc, ru}
    Matching = {s1, s2}
    MaxVersion = 4
    PoolSize = 2
    MaxFailures = 1
    MaxExternal = 2

SPECIFICATION Spec
INVARIANT AllCompatibleMessageTruthful
