------------------------- MODULE MCConfluentClient -------------------------
(* Model-checking instance of ConfluentClient: one subject, two contents, *)
(* two modes.                                                              *)
EXTENDS ConfluentClient

CONSTANTS s1, c1, c2

\* Every call of the contract on s1 except the subject-scoped mode read.
MCCallsNoSubjectMode ==
    {c \in C!AllCalls : ~(c.op = "get_compatibility_mode" /\ c.subject # Global)}

MCAllCalls == C!AllCalls

\* Other clients set the global mode only, or any mode.
MCGlobalOnly == {Global}
MCAllScopes == C!Scopes

MCVersionBound == C!VersionBound
=============================================================================
