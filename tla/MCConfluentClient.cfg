CONSTANTS
    s1 = s1  c1 = c1  c2 = c2
    Subjects = {s1}
    Contents = {c1, c2}
    Modes = {"BACKWARD", "FULL"}
    MaxVersion = 3
    Global = Global  NoMode = NoMode  NoCall = NoCall  NoResult = NoResult
    Calls <- MCAllCalls
    OtherModeScopes <- MCGlobalOnly
    MaxRetries = 0
    MaxFailures = 2
    MaxExternal = 2
SPECIFICATION FairSpec
CONSTRAINT MCVersionBound
INVARIANT TypeOK
PROPERTY ContractRefinement CallCompletes
