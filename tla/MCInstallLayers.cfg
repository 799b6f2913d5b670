SPECIFICATION InstallSpec
CONSTANTS PolicyDocs <- MCPolicyDocs
 Dialects = {"cedar"}
 InstallReqs = {a1, a2}
 MaxLoads = 2
CHECK_DEADLOCK FALSE





INVARIANT LayersOfOneLoad
