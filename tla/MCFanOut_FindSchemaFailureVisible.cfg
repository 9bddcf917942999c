CONSTANTS
    rc = rc  ru = ru  a = a  b = b  x = x  c1 = c1  s1 = s1  s2 = s2
    Registries = {rc, ru}
    Kind <- MCKind
    Confluent = Confluent  Unity = Unity
    Subjects = {s1, s2}  Contents = {c1}  Compat = {}  MaxVersion = 2
    Ids = {a, b, x}
    TypeNames = {"confluent", "unity_catalog", "apicurio", "bogus"}
    RegistryType = {"confluent", "unity_catalog", "apicurio"}
    Config <- MCConfig
    NoInst = NoInst
    MaxInstances = 4
    MaxAdmin = 2
    Modes = {"BACKWARD", "FULL"}
    NoConfig = NoConfig  GlobalKey = GlobalKey  NoFilter = NoFilter  NoEntry = NoEntry
    Prefixes = {"p"}
    PrefixOf <- MCPrefixOf
    Requests <- MCRequests
    ApiCalls <- MCApiCalls
    MaxFailures = 1
    MaxExternal = 2
SPECIFICATION Spec
INVARIANT FindSchemaFailureVisible
