SPECIFICATION TwoPorts
CONSTANTS
    PlainCalls = {}
    GatewayCalls = {g1}
    GRPCCalls = {}
INVARIANT GatewayCallsSurvive
CHECK_DEADLOCK FALSE
