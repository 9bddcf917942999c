CONSTANTS
    s1 = s1  c1 = c1  c2 = c2
    Subjects = {s1}
    Contents = {c1, c2}
    Modes = {"BACKWARD", "FULL"}
    MaxVersion = 3
    Global = Global  NoMode = NoMode  NoCall = NoCall  NoResult = NoResult
    Calls <- MCCallsNoSubjectMode
    OtherModeScopes <- MCAllScopes
    MaxRetries = 1
    MaxFailures = 2
    MaxExternal = 2
SPECIFICATION Spec
CONSTRAINT MCVersionBound
PROPERTY ContractRefinement
