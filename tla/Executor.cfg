SPECIFICATION LiveSpec
CONSTANTS
    Requests = {r1}
    N = 2
    Configs <- AllConfigs
    Payloads <- AllPayloads
    Failures <- AllFailures
    ShortCircuit = TRUE
    MayLose = FALSE
INVARIANT FailClosed
INVARIANT FirstObjectorBlamed
INVARIANT RecordTruthful
INVARIANT UnrecognisedRefused
PROPERTY Concludes
