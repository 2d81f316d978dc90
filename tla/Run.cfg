SPECIFICATION Spec
CONSTANTS
    PlainCalls = {p1}
    GatewayCalls = {g1}
    GRPCCalls = {r1}
INVARIANTS
    TypeOK
    SendersNeverBlock
    ReleasedOnReturn
    HTTPShutsDownAfterRPCs
    CutOnlyOnFailure
PROPERTIES
    StopLeadsToRest
    ServeErrNeverMasked
    ServeGoroutineEnds
    HTTPIsEndpoint
    GRPCIsEndpoint
    RunKeepsLife
CHECK_DEADLOCK FALSE
