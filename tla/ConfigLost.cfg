SPECIFICATION Spec
CONSTANTS
    OptionSets <- Insecure
    Interceptors = {i1}
    ClientInts = {}
    UserDialOptions = {}
    ServerOptions = {"interceptor"}
    Middlewares = {}
    Patterns = {root}
    MuxEndpoint = root
    Services = {s1}
    Handlers = {h1}
INVARIANTS
    RegistrationsServed
CHECK_DEADLOCK FALSE
