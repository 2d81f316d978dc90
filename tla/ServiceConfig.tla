--------------------------- MODULE ServiceConfig ---------------------------
(***************************************************************************)
(* The life of a gomicro.Service around its run (micros.go, and init,      *)
(* initGRPC, Start and run of run.go): what the adders collect, what the   *)
(* one initialisation builds from it, what the one run serves, and what is *)
(* left of a service whose initialisation or start panicked in a caller    *)
(* that recovered.  ServiceRun.tla has the inside of the run.              *)
(*                                                                         *)
(* The unary lists stand for the stream lists as well: the code treats     *)
(* them alike.  grpc, grpc-gateway and net/http are external.              *)
(*                                                                         *)
(* An operator Name_Fault is Name with a fault that code like this could   *)
(* have; none is part of the specification.                                *)
(***************************************************************************)
EXTENDS Naturals, Sequences, SequencesExt, FiniteSetsExt

CONSTANTS
    OptionSets,     \* the Options a service may be created with
    Interceptors,   \* unary server interceptors
    ClientInts,     \* unary client interceptors
    UserDialOptions, \* lists of dial options a caller may pass, by their fields
    ServerOptions,  \* server options a caller may pass
    Middlewares,    \* HTTP middlewares
    Patterns,       \* patterns a caller may register on httpMux
    MuxEndpoint,    \* Options.RuntimeMuxEndpoint
    Services,       \* gRPC services
    Handlers        \* gateway handlers

ASSUME ConfigAssumption ==
    /\ OptionSets \subseteq [TLSEnabled : BOOLEAN, FilesGiven : BOOLEAN]
    /\ UserDialOptions \subseteq Seq({"creds", "unaryInt", "block"})
    /\ ServerOptions \subseteq {"interceptor", "other"}

VARIABLES
    options,                 \* whether TLS is on and the two files are named
    unaryInterceptors,       \* the lists of the Service, in order
    unaryClientInterceptors,
    dialOptions,
    serverOptions,
    httpMiddlewares,
    httpMux,                 \* the patterns that are taken
    gRPCServer,              \* which server the field points to
    runtimeMux,              \* which gateway mux the field points to
    chain,                   \* the interceptors of the built server
    clientConn,              \* the connection of the gateway
    initOnce, runOnce,       \* the function was called, or is being called
    early,                   \* history: unaryInterceptors when init was called
    held,                    \* servers and muxes the caller has a pointer to
    registered,              \* what is registered on which of them
    phase,                   \* where the caller of Start is
    handler,                 \* the handler that is served, outermost first
    served                   \* the latest Start served, or how it ended

lists == <<unaryInterceptors, unaryClientInterceptors, dialOptions,
           serverOptions, httpMiddlewares>>
built == <<gRPCServer, runtimeMux, chain, clientConn>>
user  == <<held, registered>>
vars  == <<options, lists, built, user, httpMux, initOnce, early, runOnce,
           phase, handler, served>>

TLSEnabled == options.TLSEnabled
FilesGiven == options.FilesGiven

\* ensureDefaults makes a "default" server, NewService the "first" mux;
\* initGRPC replaces them by the "built" server and the "second" mux.
Servers == {"none", "default", "built"}
Muxes == {"first", "second"}

Option(field, value) == [set |-> field, to |-> value]
Options == [set : {"creds", "unaryInt", "block"},
            to : Seq({"user", "tls", "insecure", "waitForReady"} \cup ClientInts)]

NoConn == [state |-> "none", ints |-> <<>>, creds |-> <<>>]

TypeOK ==
    /\ options \in OptionSets
    /\ unaryInterceptors \in Seq(Interceptors)
    /\ unaryClientInterceptors \in Seq(ClientInts)
    /\ dialOptions \in Seq(Options)
    /\ serverOptions \in Seq(ServerOptions \cup {"serverCreds", "chain"})
    /\ httpMiddlewares \in Seq(Middlewares)
    /\ httpMux \subseteq Patterns \cup {MuxEndpoint}
    /\ gRPCServer \in Servers
    /\ runtimeMux \in Muxes
    /\ chain \in Seq(Interceptors)
    /\ clientConn.state \in {"none", "open", "closed"}
    /\ early \in Seq(Interceptors)
    /\ {initOnce, runOnce} \subseteq BOOLEAN
    /\ held \subseteq (Servers \cup Muxes) \ {"none"}
    /\ registered \subseteq (Services \cup Handlers) \X held
    /\ phase \in {"idle", "initFn", "running", "hung"}
    /\ handler \in Seq(Middlewares \cup {"mux"})
    /\ served \in {"no", "yes", "nil", "panic"}

\* NewService, or the zero value, whose fields ensureDefaults fills.
Init ==
    /\ options \in OptionSets
    /\ unaryInterceptors = <<>>
    /\ unaryClientInterceptors = <<>>
    /\ dialOptions = <<>>
    /\ serverOptions = <<>>
    /\ httpMiddlewares = <<>>
    /\ httpMux = {}
    /\ gRPCServer = "none"
    /\ runtimeMux = "first"
    /\ chain = <<>>
    /\ clientConn = NoConn
    /\ initOnce = FALSE
    /\ runOnce = FALSE
    /\ early = <<>>
    /\ held = {}
    /\ registered = {}
    /\ phase = "idle"
    /\ handler = <<>>
    /\ served = "no"

-----------------------------------------------------------------------------
(* The adders and the getters.  Every one but AddEndpoint ensures defaults. *)

EnsuredServer_Unset == gRPCServer
EnsuredServer == IF gRPCServer = "none" THEN "default" ELSE gRPCServer

EnsureDefaults ==
    /\ phase # "hung"
    /\ gRPCServer' = EnsuredServer
    /\ UNCHANGED <<runtimeMux, chain, clientConn, httpMux, initOnce, early, runOnce,
                   phase, handler, served>>

\* Adding an item once is enough to tell where it ends up.
AddTo(list, item) ==
    /\ item \notin ToSet(list)
    /\ list' = Append(list, item)

AddGRPCUnaryServerInterceptors ==
    /\ \E i \in Interceptors : AddTo(unaryInterceptors, i)
    /\ EnsureDefaults
    /\ UNCHANGED <<user, unaryClientInterceptors, dialOptions, serverOptions,
                   httpMiddlewares>>

AddGRPCUnaryClientInterceptors ==
    /\ \E i \in ClientInts : AddTo(unaryClientInterceptors, i)
    /\ EnsureDefaults
    /\ UNCHANGED <<user, unaryInterceptors, dialOptions, serverOptions,
                   httpMiddlewares>>

AddGRPCDialOptions ==
    /\ \E fields \in UserDialOptions :
          LET opts == [i \in DOMAIN fields |-> Option(fields[i], <<"user">>)]
          IN  /\ ToSet(opts) \cap ToSet(dialOptions) = {}
              /\ dialOptions' = dialOptions \o opts
    /\ EnsureDefaults
    /\ UNCHANGED <<user, unaryInterceptors, unaryClientInterceptors,
                   serverOptions, httpMiddlewares>>

AddGRPCServerOptions ==
    /\ \E o \in ServerOptions : AddTo(serverOptions, o)
    /\ EnsureDefaults
    /\ UNCHANGED <<user, unaryInterceptors, unaryClientInterceptors,
                   dialOptions, httpMiddlewares>>

AddHTTPMiddlewares ==
    /\ \E m \in Middlewares : AddTo(httpMiddlewares, m)
    /\ EnsureDefaults
    /\ UNCHANGED <<user, unaryInterceptors, unaryClientInterceptors,
                   dialOptions, serverOptions>>

\* Handle panics on a pattern that is taken, and then changes nothing.
AddEndpoint ==
    /\ phase # "hung"
    /\ \E p \in Patterns \ httpMux : httpMux' = httpMux \cup {p}
    /\ UNCHANGED <<lists, built, user, initOnce, early, runOnce, phase, handler,
                   served>>

\* GRPCServer and RuntimeMux return pointers, which the caller may keep.
GRPCServer ==
    /\ EnsureDefaults
    /\ held' = held \cup {EnsuredServer}
    /\ UNCHANGED <<lists, registered>>

RuntimeMux ==
    /\ EnsureDefaults
    /\ held' = held \cup {runtimeMux}
    /\ UNCHANGED <<lists, registered>>

\* grpc refuses services once the server serves.
Register ==
    /\ phase \notin {"running", "hung"}
    /\ \/ \E s \in Services, o \in held \cap Servers :
             registered' = registered \cup {<<s, o>>}
       \/ \E h \in Handlers, o \in held \cap Muxes :
             registered' = registered \cup {<<h, o>>}
    /\ UNCHANGED <<lists, built, held, httpMux, initOnce, early, runOnce, phase,
                   handler, served>>

-----------------------------------------------------------------------------
(* init and initGRPC.                                                      *)

MustInit_Again == TRUE
MustInit == ~initOnce

\* The transport credentials and the interceptors come after the caller's
\* options; of two options that set the same field the last one counts.
InitDialOptions_UserLast ==
    <<Option("creds", IF TLSEnabled THEN <<"tls">> ELSE <<"insecure">>),
      Option("unaryInt", <<"waitForReady">> \o unaryClientInterceptors)>>
      \o dialOptions
InitDialOptions ==
    dialOptions \o
    <<Option("creds", IF TLSEnabled THEN <<"tls">> ELSE <<"insecure">>),
      Option("unaryInt", <<"waitForReady">> \o unaryClientInterceptors)>>

Effective(opts, field) ==
    opts[Max({i \in DOMAIN opts : opts[i].set = field})].to

\* conn.DialGrpcService puts its own interceptor first.
DialGrpcService(opts) ==
    LET all == <<Option("unaryInt", <<"waitForReady">>)>> \o opts
    IN  [state |-> "open",
         ints  |-> Effective(all, "unaryInt"),
         creds |-> Effective(all, "creds")]

Blocks(opts) == \E i \in DOMAIN opts : opts[i].set = "block"

\* initGRPC gives up before it dials: the files are missing or unreadable.
NoCredentials ==
    /\ TLSEnabled
    /\ UNCHANGED <<lists, clientConn, chain>>
    /\ gRPCServer' = EnsuredServer

\* conn.DialGrpcService fails, at once or when the context is done.
DialFails ==
    /\ TLSEnabled => FilesGiven
    /\ dialOptions' = InitDialOptions
    /\ clientConn' = NoConn
    /\ gRPCServer' = EnsuredServer
    /\ UNCHANGED <<unaryInterceptors, unaryClientInterceptors, serverOptions,
                   httpMiddlewares, chain>>

\* A connection that is waited for is never made: nobody serves yet.
Dialled ==
    /\ TLSEnabled => FilesGiven
    /\ ~Blocks(dialOptions)
    /\ dialOptions' = InitDialOptions
    /\ clientConn' = DialGrpcService(InitDialOptions)
    /\ UNCHANGED <<unaryInterceptors, unaryClientInterceptors, httpMiddlewares>>

\* The server's key pair is only read when the caller passed no option.
NoServerCredentials ==
    /\ Dialled
    /\ TLSEnabled /\ serverOptions = <<>>
    /\ gRPCServer' = EnsuredServer
    /\ UNCHANGED <<serverOptions, chain>>

OptionsToBuild ==
    (IF TLSEnabled /\ serverOptions = <<>> THEN <<"serverCreds">> ELSE serverOptions)
    \o <<"chain">>

\* grpc.NewServer panics when an interceptor is set twice.
NewServerPanics ==
    /\ Dialled
    /\ "interceptor" \in ToSet(serverOptions)
    /\ serverOptions' = OptionsToBuild
    /\ gRPCServer' = EnsuredServer
    /\ UNCHANGED chain

ServerBuilt ==
    /\ Dialled
    /\ "interceptor" \notin ToSet(serverOptions)
    /\ serverOptions' = OptionsToBuild
    /\ gRPCServer' = "built"
    /\ chain' = unaryInterceptors

\* The gateway mux is replaced before anything can fail, and sync.Once is
\* done even if its function panics.
InitGRPC(fails) ==
    /\ MustInit
    /\ initOnce' = TRUE
    /\ early' = unaryInterceptors
    /\ runtimeMux' = "second"
    /\ \/ /\ fails
          /\ NoCredentials \/ DialFails \/ NoServerCredentials \/ NewServerPanics
       \/ ~fails /\ ServerBuilt

AlreadyInit ==
    /\ ~MustInit
    /\ UNCHANGED <<lists, built, initOnce, early>>

Initialize ==
    /\ phase = "idle"
    /\ AlreadyInit \/ (\E fails \in BOOLEAN : InitGRPC(fails))
    /\ UNCHANGED <<user, httpMux, runOnce, phase, handler, served>>

\* DialContext with WithBlock: init does not return.
InitHangs ==
    /\ phase = "idle"
    /\ MustInit
    /\ TLSEnabled => FilesGiven
    /\ Blocks(dialOptions)
    /\ phase' = "hung"
    /\ initOnce' = TRUE
    /\ early' = unaryInterceptors
    /\ runtimeMux' = "second"
    /\ dialOptions' = InitDialOptions
    /\ gRPCServer' = EnsuredServer
    /\ UNCHANGED <<unaryInterceptors, unaryClientInterceptors, serverOptions,
                   httpMiddlewares, chain, clientConn, user, httpMux, runOnce,
                   handler, served>>

-----------------------------------------------------------------------------
(* Start and run.                                                          *)

Start ==
    /\ phase = "idle"
    /\ \/ (AlreadyInit \/ InitGRPC(FALSE)) /\ phase' = "initFn" /\ served' = "no"
       \/ InitGRPC(TRUE) /\ phase' = "idle" /\ served' = "panic"
    /\ UNCHANGED <<user, httpMux, runOnce, handler>>

InitFnFails_CleansUp ==
    /\ phase = "initFn"
    /\ phase' = "idle"
    /\ served' = "panic"
    /\ clientConn' = [clientConn EXCEPT !.state = "closed"]
    /\ UNCHANGED <<lists, gRPCServer, runtimeMux, chain, user, httpMux, initOnce,
                   early, runOnce, handler>>

InitFnFails ==
    /\ phase = "initFn"
    /\ phase' = "idle"
    /\ served' = "panic"
    /\ UNCHANGED <<lists, built, user, httpMux, initOnce, early, runOnce,
                   handler>>

MustRun == ~runOnce

CloseClientConn_Leak == UNCHANGED clientConn
CloseClientConn ==
    clientConn' = IF clientConn.state = "open"
                     THEN [clientConn EXCEPT !.state = "closed"]
                     ELSE clientConn

CertLoads == TLSEnabled => FilesGiven

\* apply wraps the handler from the last middleware to the first.
Apply_SkipsFirst(h, ms) ==
    FoldRight(LAMBDA m, w : <<m>> \o w, SubSeq(ms, 2, Len(ms)), h)
Apply(h, ms) == FoldRight(LAMBDA m, w : <<m>> \o w, ms, h)

\* AddEndpoint panics, the port is taken or the files cannot be read.
RunFails ==
    /\ phase = "initFn"
    /\ MustRun
    /\ runOnce' = TRUE
    /\ httpMux' = httpMux \cup {MuxEndpoint}
    /\ CloseClientConn
    /\ phase' = "idle"
    /\ served' = "panic"
    /\ UNCHANGED <<lists, gRPCServer, runtimeMux, chain, user, initOnce, early,
                   handler>>

RunServes ==
    /\ phase = "initFn"
    /\ MustRun
    /\ runOnce' = TRUE
    /\ MuxEndpoint \notin httpMux
    /\ httpMux' = httpMux \cup {MuxEndpoint}
    /\ CertLoads
    /\ handler' = Apply(<<"mux">>, httpMiddlewares)
    /\ phase' = "running"
    /\ served' = "yes"
    /\ UNCHANGED <<lists, built, user, initOnce, early>>

RunSkipped ==
    /\ phase = "initFn"
    /\ ~MustRun
    /\ phase' = "idle"
    /\ served' = "nil"
    /\ UNCHANGED <<lists, built, user, httpMux, initOnce, early, runOnce,
                   handler>>

RunEnds ==
    /\ phase = "running"
    /\ CloseClientConn
    /\ phase' = "idle"
    /\ UNCHANGED <<lists, gRPCServer, runtimeMux, chain, user, httpMux,
                   initOnce, early, runOnce, handler, served>>

Configure ==
    \/ AddGRPCUnaryServerInterceptors
    \/ AddGRPCUnaryClientInterceptors
    \/ AddGRPCDialOptions
    \/ AddGRPCServerOptions
    \/ AddHTTPMiddlewares
    \/ AddEndpoint
    \/ GRPCServer
    \/ RuntimeMux
    \/ Register

Lifecycle ==
    \/ Initialize
    \/ InitHangs
    \/ Start
    \/ InitFnFails
    \/ RunFails
    \/ RunServes
    \/ RunSkipped
    \/ RunEnds

\* Nobody writes the options once the service exists.
Next == (Configure \/ Lifecycle) /\ UNCHANGED options

Spec == Init /\ [][Next]_vars

-----------------------------------------------------------------------------
(* What must hold.                                                         *)

\* initGRPC replaces the server and the mux once (run.go:245, 329): a pointer
\* that a caller fetches after initialisation, even one that failed, never
\* goes stale, whatever is added, started or retried later.
PointersStable == [][initOnce => UNCHANGED <<gRPCServer, runtimeMux>>]_vars

\* No dial option of a caller, in whatever order it was added, takes from the
\* gateway's connection its waiting for a ready server, any of the client
\* interceptors added by then or the credentials that match the listener; and
\* nothing that is added later changes what was dialled (run.go:257-296).
GatewayConnUsable ==
    [][IF clientConn.state = "none" /\ clientConn'.state # "none"
          THEN /\ clientConn'.creds = (IF TLSEnabled THEN <<"tls">>
                                                    ELSE <<"insecure">>)
               /\ clientConn'.ints = <<"waitForReady">> \o unaryClientInterceptors
          ELSE UNCHANGED <<clientConn.creds, clientConn.ints>>]_vars

\* While a service is served nobody closes the connection of its gateway, and
\* a server that was built has one: a second Start, or a retry after one that
\* failed, does not reach the deferred closeClientConn (run.go:91, 217).
ConnOpenWhileServing ==
    phase = "running" =>
        /\ clientConn.state # "closed"
        /\ gRPCServer = "built" => clientConn.state = "open"

RunStage ==
    IF ~runOnce THEN "waiting" ELSE IF phase = "running" THEN "serving" ELSE "over"

Life == INSTANCE RunLife WITH stage <- RunStage, conn <- clientConn.state

\* Whatever is added, initialised, started and retried in whatever order, a
\* service runs at most once; the connection is dialled at most once, before,
\* and is closed when the run ends or fails at its first statement, so that it
\* neither outlives the run nor is closed under it (run.go:43, 83-97, 217).
ServiceKeepsLife == Life!Spec

\* What comes to be served is the mux inside of all the middlewares added by
\* then, the first one added outermost; and it stays so: one that is added while
\* the service runs is not there (run.go:66-75, 100).
MiddlewareOrder ==
    [][IF phase # "running" /\ phase' = "running"
          THEN handler' = httpMiddlewares \o <<"mux">>
          ELSE UNCHANGED handler]_vars

-----------------------------------------------------------------------------
(* What the repository says and the code does not do.                      *)

\* doc.go:13-14: services are registered on GRPCServer() and handlers on
\* RuntimeMux(), and then Initialize or Start is called: they are served.
RegistrationsServed ==
    phase = "running" =>
        \A r \in registered : r[2] \in {gRPCServer, runtimeMux}

\* README.md:100, "Add server/client interceptors [...] before calling
\* Initialize or Start": such an interceptor guards what is served.
InterceptorsInstalled == phase = "running" => chain = early
=============================================================================
