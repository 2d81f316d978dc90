----------------------------- MODULE ServiceRun -----------------------------
(***************************************************************************)
(* Service.run (run.go): the goroutine that serves HTTP, the goroutine     *)
(* that serves gRPC when TLS is off, and the goroutine that waits for a    *)
(* signal or a cancelled context and shuts both servers down.  The service *)
(* has been initialised: clientConn, the connection of the gateway to the  *)
(* service itself, exists and is connecting.                               *)
(*                                                                         *)
(* net/http.Server, grpc.Server, grpc.ClientConn and os/signal are         *)
(* external; they are modelled by what run.go relies on.                   *)
(*                                                                         *)
(* An operator Name_Fault is Name with a fault that code like this could   *)
(* have; none is part of the specification.                                *)
(***************************************************************************)
EXTENDS Naturals, Sequences

CONSTANTS
    PlainCalls,     \* requests for an endpoint of httpMux
    GatewayCalls,   \* requests for the gateway, which calls gRPC in turn
    GRPCCalls       \* RPCs that clients send to the gRPC server directly

ASSUME CallsAssumption ==
    /\ PlainCalls \cap GatewayCalls = {}
    /\ PlainCalls \cap GRPCCalls = {}
    /\ GatewayCalls \cap GRPCCalls = {}

VARIABLES
    main,         \* the goroutine that runs run()
    closer,       \* the shutdown goroutine
    gserve,       \* the goroutine of gRPCServer.Serve, without TLS only
    lis,          \* the listener on HttpPort
    glis,         \* the listener on GrpcPort
    TLSEnabled,   \* Options.TLSEnabled: one port for everything, or two
    sigPending,   \* the channel c holds a signal
    ctxDone,      \* the context of the caller is cancelled
    grpcQuit,     \* gRPCServer.GracefulStop has begun
    inShutdown,   \* httpServer.Shutdown has begun
    shutdownErr,  \* what httpServer.Shutdown returned
    serverErr,    \* the channel of that name
    clientConn,   \* the connectivity of the gateway's connection
    result,       \* what run() returns
    at            \* where each call is

pcs   == <<main, closer, gserve>>
ports == <<lis, glis>>
env   == <<TLSEnabled, sigPending, ctxDone>>
told  == <<grpcQuit, inShutdown, shutdownErr>>
links == <<serverErr, clientConn>>
vars  == <<pcs, ports, env, told, links, result, at>>

Calls == PlainCalls \cup GatewayCalls \cup GRPCCalls

MainPC == {"mount", "listen", "listenGRPC", "loadCert", "serve", "serving",
           "collect", "closeGRPCLis", "closeLis", "stopSignal", "closeConn",
           "returned"}
CloserPC == {"none", "wait", "stopGRPC", "drainGRPC", "shutdownHTTP",
             "drainHTTP", "send", "done", "panicked"}
GServePC == {"none", "start", "accepting", "awaitDone", "report", "reported",
             "done"}
ListenerState == {"none", "open", "closed"}
ConnState == {"connecting", "ready", "closed"}
ServerErrors == {"nil", "deadline", "grpc"}
Results == {"running", "nil", "startErr", "serveErr", "deadline", "grpc"}

\* "waiting": the RPC of a gateway call waits for a ready connection.
\* "cut": the RPC was in its handler when the connection it used was closed.
CallPlace == {"idle", "handling", "waiting", "rpc", "replying",
              "ok", "failed", "cut"}

\* make(chan error, 2)
ServerErrCap_One == 1
ServerErrCap == 2

TypeOK ==
    /\ main \in MainPC
    /\ closer \in CloserPC
    /\ gserve \in GServePC
    /\ lis \in ListenerState
    /\ glis \in ListenerState
    /\ TLSEnabled \in BOOLEAN
    /\ sigPending \in BOOLEAN
    /\ ctxDone \in BOOLEAN
    /\ grpcQuit \in BOOLEAN
    /\ inShutdown \in BOOLEAN
    /\ shutdownErr \in {"none", "nil", "deadline"}
    /\ serverErr \in Seq(ServerErrors)
    /\ clientConn \in ConnState
    /\ result \in Results
    /\ at \in [Calls -> CallPlace]

Init ==
    /\ main = "mount"
    /\ closer = "none"
    /\ gserve = "none"
    /\ lis = "none"
    /\ glis = "none"
    /\ TLSEnabled \in BOOLEAN
    /\ sigPending = FALSE
    /\ ctxDone \in BOOLEAN
    /\ grpcQuit = FALSE
    /\ inShutdown = FALSE
    /\ shutdownErr = "none"
    /\ serverErr = <<>>
    /\ clientConn = "connecting"
    /\ result = "running"
    /\ at = [c \in Calls |-> "idle"]

-----------------------------------------------------------------------------
(* What the servers and the connection look like from outside.             *)

\* An unrecovered panic in any goroutine ends the process.
Alive == closer # "panicked"

\* signal.Notify ... signal.Stop
SignalsOn == main \notin {"mount", "closeConn", "returned"}

\* A server whose Serve returned because Accept failed still serves the
\* connections it had accepted: only Shutdown or GracefulStop ends that.
HTTPUp_Deaf == main = "serving" \/ result = "serveErr"
HTTPUp == ~inShutdown /\ (main = "serving" \/ result = "serveErr")

GRPCUp_Deaf == IF TLSEnabled THEN HTTPUp ELSE gserve = "accepting"
GRPCUp ==
    /\ ~grpcQuit
    /\ IF TLSEnabled THEN HTTPUp
                     ELSE gserve \in {"accepting", "report", "reported"}

InRPC == {c \in Calls : at[c] = "rpc"}

\* The calls an HTTP connection is busy with.  With TLS an RPC is one, too.
InHTTP ==
    {c \in Calls :
        /\ at[c] \in {"handling", "waiting", "rpc", "replying"}
        /\ c \in GRPCCalls => TLSEnabled}

Active == {c \in Calls : at[c] \in {"handling", "waiting", "rpc", "replying"}}

\* What GracefulStop and Shutdown wait for.
RPCsOver_Hasty == TRUE
RPCsOver == InRPC = {}

HTTPIdle_Hasty == TRUE
HTTPIdle == InHTTP = {}

\* A receive from serverErr that does not wait.
Received_Lost == "nil"
Received == IF serverErr = <<>> THEN "nil" ELSE Head(serverErr)

\* A listener is closed, if it was ever opened.
Close_Leak(l) == l
Close(l) == IF l = "open" THEN "closed" ELSE l

-----------------------------------------------------------------------------
(* The goroutine of run().                                                 *)

\* One statement of run(), which leaves alone what others are told.
Main(from, to) ==
    /\ main = from
    /\ main' = to
    /\ UNCHANGED <<env, told>>

\* AddEndpoint panics when RuntimeMuxEndpoint is a pattern already taken:
\* only the first deferred function is registered by then.
MountPanics ==
    /\ Main("mount", "closeConn")
    /\ result' = "startErr"
    /\ UNCHANGED <<closer, gserve, ports, links, at>>

Spawn ==
    /\ Main("mount", "listen")
    /\ closer' = "wait"
    /\ UNCHANGED <<gserve, ports, links, result, at>>

ListenHTTP ==
    /\ \/ /\ Main("listen", IF TLSEnabled THEN "loadCert" ELSE "listenGRPC")
          /\ lis' = "open"
          /\ UNCHANGED result
       \/ /\ Main("listen", "stopSignal")
          /\ result' = "startErr"
          /\ UNCHANGED lis
    /\ UNCHANGED <<closer, gserve, glis, links, at>>

ListenGRPC ==
    /\ \/ /\ Main("listenGRPC", "serve")
          /\ glis' = "open"
          /\ gserve' = "start"
          /\ UNCHANGED result
       \/ /\ Main("listenGRPC", "closeLis")
          /\ result' = "startErr"
          /\ UNCHANGED <<glis, gserve>>
    /\ UNCHANGED <<closer, lis, links, at>>

LoadCert ==
    /\ \/ Main("loadCert", "serve") /\ UNCHANGED result
       \/ Main("loadCert", "closeLis") /\ result' = "startErr"
    /\ UNCHANGED <<closer, gserve, ports, links, at>>

\* httpServer.Serve of a server that is already shut down gives up at once.
ServeHTTP ==
    /\ \/ inShutdown /\ Main("serve", "collect") /\ lis' = Close(lis)
       \/ ~inShutdown /\ Main("serve", "serving") /\ UNCHANGED lis
    /\ UNCHANGED <<closer, gserve, glis, links, result, at>>

\* Serve returns ErrServerClosed as soon as Shutdown has begun.
ServeReturns ==
    /\ inShutdown
    /\ Main("serving", "collect")
    /\ UNCHANGED <<closer, gserve, ports, links, result, at>>

\* Accept fails for good.
ServeFails ==
    /\ ~inShutdown
    /\ Main("serving", "closeGRPCLis")
    /\ lis' = Close(lis)
    /\ result' = "serveErr"
    /\ UNCHANGED <<closer, gserve, glis, links, at>>

\* select { case err := <-serverErr: ... default: }
Collect ==
    /\ Main("collect", "closeGRPCLis")
    /\ result' = Received
    /\ serverErr' = IF serverErr = <<>> THEN serverErr ELSE Tail(serverErr)
    /\ UNCHANGED <<closer, gserve, ports, clientConn, at>>

\* The deferred calls, last registered first.
CloseGRPCLis ==
    /\ Main("closeGRPCLis", "closeLis")
    /\ glis' = Close(glis)
    /\ UNCHANGED <<closer, gserve, lis, links, result, at>>

CloseLis ==
    /\ Main("closeLis", "stopSignal")
    /\ lis' = Close(lis)
    /\ UNCHANGED <<closer, gserve, glis, links, result, at>>

StopSignal ==
    /\ Main("stopSignal", "closeConn")
    /\ UNCHANGED <<closer, gserve, ports, links, result, at>>

CloseConn_Forgotten ==
    /\ Main("closeConn", "returned")
    /\ UNCHANGED <<closer, gserve, ports, links, result, at>>

\* closeClientConn fails the RPCs of the gateway.  An RPC on a connection
\* that has had its GOAWAY may still be let finish.
CloseConn ==
    /\ Main("closeConn", "returned")
    /\ clientConn' = "closed"
    /\ \E lost \in SUBSET (GatewayCalls \cap InRPC) :
          /\ clientConn = "ready" => lost = GatewayCalls \cap InRPC
          /\ at' = [c \in Calls |-> IF c \in lost THEN "cut" ELSE at[c]]
    /\ UNCHANGED <<closer, gserve, ports, serverErr, result>>

\* Accept failing is the network's doing: no fairness makes it happen.
MainStep ==
    /\ Alive
    /\ \/ MountPanics \/ Spawn \/ ListenHTTP \/ ListenGRPC \/ LoadCert
       \/ ServeHTTP \/ ServeReturns \/ Collect
       \/ CloseGRPCLis \/ CloseLis \/ StopSignal \/ CloseConn

-----------------------------------------------------------------------------
(* The shutdown goroutine.                                                 *)

Closer(from, to) ==
    /\ closer = from
    /\ closer' = to
    /\ UNCHANGED <<main, gserve, TLSEnabled, ctxDone, result, at>>

AwaitStop_HTTPFirst ==
    /\ sigPending \/ ctxDone
    /\ Closer("wait", "shutdownHTTP")
    /\ UNCHANGED <<ports, sigPending, told, links>>

\* select { case <-ctx.Done(): case <-c: }
AwaitStop ==
    /\ \/ ctxDone /\ UNCHANGED sigPending
       \/ sigPending /\ sigPending' = FALSE
    /\ Closer("wait", "stopGRPC")
    /\ UNCHANGED <<ports, told, links>>

\* GracefulStop closes the listeners that Serve has registered and sends
\* GOAWAY on every connection.  The transports of ServeHTTP cannot: their
\* Drain method panics.
StopGRPC ==
    /\ Closer("stopGRPC", IF TLSEnabled /\ InRPC # {} THEN "panicked"
                                                       ELSE "drainGRPC")
    /\ grpcQuit' = TRUE
    /\ glis' = IF gserve = "accepting" THEN Close(glis) ELSE glis
    /\ clientConn' = IF ~TLSEnabled /\ clientConn = "ready" THEN "connecting"
                                                            ELSE clientConn
    /\ UNCHANGED <<lis, sigPending, inShutdown, shutdownErr, serverErr>>

\* GracefulStop waits for Serve to leave its loop and for every RPC.
DrainGRPC ==
    /\ gserve # "accepting"
    /\ RPCsOver
    /\ Closer("drainGRPC", "shutdownHTTP")
    /\ UNCHANGED <<ports, sigPending, told, links>>

ShutdownHTTP_NoWait ==
    /\ Closer("shutdownHTTP", "send")
    /\ inShutdown' = TRUE
    /\ UNCHANGED <<ports, sigPending, grpcQuit, shutdownErr, links>>

\* Shutdown closes the listener that Serve has registered.  With TLS the
\* gateway's connection is one of its connections.
ShutdownHTTP ==
    /\ Closer("shutdownHTTP", "drainHTTP")
    /\ inShutdown' = TRUE
    /\ lis' = IF main = "serving" THEN Close(lis) ELSE lis
    /\ clientConn' = IF TLSEnabled /\ clientConn = "ready" THEN "connecting"
                                                           ELSE clientConn
    /\ UNCHANGED <<glis, sigPending, grpcQuit, shutdownErr, serverErr>>

\* Every connection is idle, or defaultShutdownTimeout passes before.
DrainHTTP ==
    /\ HTTPIdle
    /\ Closer("drainHTTP", "send")
    /\ shutdownErr' = "nil"
    /\ UNCHANGED <<ports, sigPending, grpcQuit, inShutdown, links>>

ShutdownTimeout ==
    /\ ~HTTPIdle
    /\ Closer("drainHTTP", "send")
    /\ shutdownErr' = "deadline"
    /\ UNCHANGED <<ports, sigPending, grpcQuit, inShutdown, links>>

SendShutdownErr ==
    /\ Len(serverErr) < ServerErrCap
    /\ Closer("send", "done")
    /\ serverErr' = Append(serverErr, shutdownErr)
    /\ UNCHANGED <<ports, sigPending, told, clientConn>>

CloserStep ==
    /\ Alive
    /\ \/ AwaitStop \/ StopGRPC \/ DrainGRPC \/ ShutdownHTTP \/ DrainHTTP
       \/ ShutdownTimeout \/ SendShutdownErr

-----------------------------------------------------------------------------
(* The goroutine of gRPCServer.Serve.                                      *)

GServe(from, to) ==
    /\ gserve = from
    /\ gserve' = to
    /\ UNCHANGED <<main, closer, lis, env, told, clientConn, result, at>>

\* Serve after GracefulStop closes the listener and returns
\* ErrServerStopped, which is not reported.
ServeGRPC ==
    /\ \/ grpcQuit /\ GServe("start", "done") /\ glis' = Close(glis)
       \/ ~grpcQuit /\ GServe("start", "accepting") /\ UNCHANGED glis
    /\ UNCHANGED serverErr

LeaveAcceptLoop ==
    /\ grpcQuit
    /\ GServe("accepting", "awaitDone")
    /\ UNCHANGED <<glis, serverErr>>

\* Serve returns nil once GracefulStop has returned.
ServeGRPCReturns ==
    /\ closer \notin {"stopGRPC", "drainGRPC"}
    /\ GServe("awaitDone", "done")
    /\ UNCHANGED <<glis, serverErr>>

\* run() closed glis although nobody stopped the server.
AcceptClosed ==
    /\ ~grpcQuit
    /\ glis = "closed"
    /\ GServe("accepting", "report")
    /\ UNCHANGED <<glis, serverErr>>

\* Accept fails for good; Serve closes the listener as it returns.
AcceptFails ==
    /\ ~grpcQuit
    /\ glis = "open"
    /\ GServe("accepting", "report")
    /\ glis' = "closed"
    /\ UNCHANGED serverErr

SendServeErr ==
    /\ Len(serverErr) < ServerErrCap
    /\ GServe("report", "reported")
    /\ serverErr' = Append(serverErr, "grpc")
    /\ UNCHANGED glis

GServeStep ==
    /\ Alive
    /\ \/ ServeGRPC \/ LeaveAcceptLoop \/ ServeGRPCReturns \/ AcceptClosed
       \/ SendServeErr

-----------------------------------------------------------------------------
(* The calls and the gateway's connection.                                 *)

Move(c, from, to) ==
    /\ at[c] = from
    /\ at' = [at EXCEPT ![c] = to]
    /\ UNCHANGED <<pcs, ports, env, told, links, result>>

\* httpMux hands the request to an endpoint or to runtimeMux.
AdmitHTTP(c) ==
    /\ c \in PlainCalls \cup GatewayCalls
    /\ HTTPUp
    /\ Move(c, "idle", "handling")

AdmitRPC(c) ==
    /\ c \in GRPCCalls
    /\ GRPCUp
    /\ Move(c, "idle", "rpc")

\* grpcHandlerFunc gives the request to a server that is stopped already.
RefuseRPC(c) ==
    /\ c \in GRPCCalls
    /\ TLSEnabled
    /\ HTTPUp
    /\ grpcQuit
    /\ Move(c, "idle", "failed")

PlainDone(c) == c \in PlainCalls /\ Move(c, "handling", "ok")

\* waitForReadyUnaryInterceptor: the RPC queues until the connection is ready.
Forward(c) == c \in GatewayCalls /\ Move(c, "handling", "waiting")

ForwardedRPC(c) ==
    /\ c \in GatewayCalls
    /\ clientConn = "ready"
    /\ Move(c, "waiting", IF grpcQuit THEN "failed" ELSE "rpc")

\* "the client connection is closing"
ConnClosing(c) ==
    /\ c \in GatewayCalls
    /\ clientConn = "closed"
    /\ Move(c, "waiting", "failed")

RPCDone(c) == Move(c, "rpc", IF c \in GRPCCalls THEN "ok" ELSE "replying")

GatewayReply(c) == c \in GatewayCalls /\ Move(c, "replying", "ok")

Arrival(c) == Alive /\ (AdmitHTTP(c) \/ AdmitRPC(c) \/ RefuseRPC(c))

CallStep(c) ==
    /\ Alive
    /\ \/ PlainDone(c) \/ Forward(c) \/ ForwardedRPC(c) \/ ConnClosing(c)
       \/ RPCDone(c) \/ GatewayReply(c)

\* DialContext does not block: grpc connects, and reconnects, by itself.
Connect ==
    /\ Alive
    /\ clientConn = "connecting"
    /\ IF TLSEnabled THEN main = "serving" /\ ~inShutdown
                     ELSE gserve = "accepting" /\ ~grpcQuit
    /\ clientConn' = "ready"
    /\ UNCHANGED <<pcs, ports, env, told, serverErr, result, at>>

-----------------------------------------------------------------------------
(* The environment.                                                        *)

\* The channel has room for one signal; another one is dropped.
Signal ==
    /\ SignalsOn
    /\ ~sigPending
    /\ sigPending' = TRUE
    /\ UNCHANGED <<pcs, ports, TLSEnabled, ctxDone, told, links, result, at>>

Cancel ==
    /\ ~ctxDone
    /\ ctxDone' = TRUE
    /\ UNCHANGED <<pcs, ports, TLSEnabled, sigPending, told, links, result, at>>

Environment == Alive /\ (Signal \/ Cancel \/ ServeFails \/ AcceptFails)

Next ==
    \/ MainStep
    \/ CloserStep
    \/ GServeStep
    \/ \E c \in Calls : Arrival(c) \/ CallStep(c)
    \/ Connect
    \/ Environment

\* Go runs every goroutine that can run; grpc keeps connecting; a handler
\* that was called returns.  Requests, signals and failures need not come.
Fairness ==
    /\ WF_vars(MainStep)
    /\ WF_vars(CloserStep)
    /\ WF_vars(GServeStep)
    /\ WF_vars(Connect)
    /\ \A c \in Calls : WF_vars(CallStep(c))

Spec == Init /\ [][Next]_vars /\ Fairness
-----------------------------------------------------------------------------
(* What must hold.                                                         *)

\* The two goroutines that send to serverErr (run.go:133 and 166) outlive
\* run(), which reads at most one value: a send must never have to wait.
SendersNeverBlock ==
    closer = "send" \/ gserve = "report" => Len(serverErr) < ServerErrCap

\* However run() ends - and five of its paths are errors - both ports are
\* free again and the gateway's connection is closed (run.go:83, 140, 160).
ReleasedOnReturn ==
    main = "returned" =>
        /\ lis # "open"
        /\ glis # "open"
        /\ clientConn = "closed"

\* The shutdown goroutine stops gRPC before HTTP (run.go:130-133): once the
\* HTTP server shuts down no RPC is left in a handler, and with TLS none is
\* admitted through the port that is still open between the two.
HTTPShutsDownAfterRPCs == inShutdown => InRPC = {}

\* An RPC that reached its handler is cut only when run() returns an error:
\* a shutdown that run() reports as clean has waited for every RPC.
CutOnlyOnFailure ==
    (\E c \in Calls : at[c] = "cut") => result \notin {"running", "nil"}

\* Nothing wakes run() when gRPCServer.Serve fails, but the failure is not
\* lost: reported before the HTTP server was told to shut down, it keeps
\* run() from ever returning nil (run.go:166 and 175-182).
ServeErrNeverMasked ==
    [](gserve = "reported" /\ ~inShutdown => [](result # "nil"))

\* Once a stop is requested the service comes to rest: run() returns, the
\* shutdown goroutine ends and every admitted call is over, unless the
\* process has panicked.  A gateway call that waits for a connection to the
\* stopped gRPC server ends only because run() closes the connection.
Rested ==
    /\ main = "returned"
    /\ closer = "done"
    /\ Active = {}

StopLeadsToRest == closer = "stopGRPC" ~> Rested \/ ~Alive

\* gRPCServer.Serve never stays behind: when run() has returned, its
\* goroutine ends, whether or not anybody called GracefulStop.
ServeGoroutineEnds ==
    main = "returned" ~> gserve \in {"none", "reported", "done"} \/ ~Alive

\* Both servers are endpoints in the sense of Endpoint.tla.
HTTPPhase ==
    IF inShutdown
       THEN CASE shutdownErr = "none"     -> "draining"
              [] shutdownErr = "nil"      -> "stopped"
              [] shutdownErr = "deadline" -> "abandoned"
       ELSE IF HTTPUp THEN "open" ELSE "closed"

GRPCPhase ==
    IF grpcQuit
       THEN IF closer \in {"drainGRPC", "panicked"} THEN "draining" ELSE "stopped"
       ELSE IF GRPCUp THEN "open" ELSE "closed"

HTTPEndpoint == INSTANCE Endpoint WITH phase <- HTTPPhase, inflight <- InHTTP
GRPCEndpoint == INSTANCE Endpoint WITH phase <- GRPCPhase, inflight <- InRPC

\* The HTTP server admits no request after Shutdown has begun, and reports a
\* clean shutdown only when every request it admitted is over.
HTTPIsEndpoint == HTTPEndpoint!Spec

\* The gRPC server admits no RPC after GracefulStop has begun, neither from
\* clients nor from the gateway, and GracefulStop returns after the last one.
GRPCIsEndpoint == GRPCEndpoint!Spec

RunStage ==
    IF main = "returned" THEN "over"
    ELSE IF \/ main \in {"mount", "listen", "listenGRPC", "loadCert", "serve"}
            \/ result = "startErr"
            THEN "waiting" ELSE "serving"

Life == INSTANCE RunLife
        WITH stage <- RunStage,
             conn <- IF clientConn = "closed" THEN "closed" ELSE "open"

\* Whatever becomes of the start, of the servers and of the stop, the run ends
\* once, and the gateway's connection is closed as it ends and never before.
RunKeepsLife == Life!Spec

-----------------------------------------------------------------------------
(* What the repository says and the code does not do.                      *)

\* README.md:103, "`Start` blocks until the service stops": when run() has
\* returned without an error no request is being served any more.
StartBlocksUntilStopped == main = "returned" /\ result = "nil" => Active = {}

\* run.go:119, "Graceful shutdown of server": a gateway request that was
\* admitted does not fail because the service stops without an error.
GatewayCallsSurvive ==
    result = "nil" => \A c \in GatewayCalls : at[c] # "failed"

\* run.go:119, "Graceful shutdown of server": a shutdown ends the servers and
\* not, by a panic, the process.
ShutdownIsGraceful == Alive
=============================================================================
