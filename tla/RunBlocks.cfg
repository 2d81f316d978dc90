SPECIFICATION Spec
CONSTANTS
    PlainCalls = {p1}
    GatewayCalls = {g1}
    GRPCCalls = {r1}
INVARIANT StartBlocksUntilStopped
CHECK_DEADLOCK FALSE
