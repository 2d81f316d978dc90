SPECIFICATION Spec
CONSTANTS
    OptionSets <- AnyOptions
    Interceptors = {i1}
    ClientInts = {k1}
    UserDialOptions <- UserOptions
    ServerOptions = {"interceptor"}
    Middlewares = {m1, m2}
    Patterns = {root}
    MuxEndpoint = root
    Services = {s1}
    Handlers = {h1}
INVARIANTS
    TypeOK
    ConnOpenWhileServing
PROPERTIES
    PointersStable
    GatewayConnUsable
    MiddlewareOrder
    ServiceKeepsLife
CHECK_DEADLOCK FALSE
