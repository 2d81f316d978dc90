-------------------------- MODULE ServiceRunProofs --------------------------
(***************************************************************************)
(* Proofs about ServiceRun, for any sets of calls, with and without TLS:   *)
(* an inductive invariant, the safety properties that follow from it, and  *)
(* the refinements of Endpoint, by each server, and of RunLife.            *)
(***************************************************************************)
EXTENDS ServiceRun, TLAPS

\* The groups of variables, and what the steps of a goroutine have in common.
USE DEF pcs, ports, env, told, links, Main, Closer, GServe

\* What the servers have been told follows from how far the shutdown
\* goroutine has come.
CloserProgress ==
    /\ grpcQuit <=> closer \in {"drainGRPC", "shutdownHTTP", "drainHTTP",
                                "send", "done", "panicked"}
    /\ inShutdown <=> closer \in {"drainHTTP", "send", "done"}
    /\ shutdownErr # "none" <=> closer \in {"send", "done"}

\* GracefulStop has returned only when no RPC was left, and a stopped gRPC
\* server takes no other one.
RPCsGone ==
    closer \in {"shutdownHTTP", "drainHTTP", "send", "done"} => InRPC = {}

\* Every value in serverErr was sent by a goroutine that has ended.
QueueBound ==
    Len(serverErr) <= (IF closer = "done" THEN 1 ELSE 0)
                        + (IF gserve = "reported" THEN 1 ELSE 0)

\* Until the HTTP server is shut down only gRPCServer.Serve has sent.
QueueContent ==
    ~inShutdown => serverErr = IF gserve = "reported" THEN <<"grpc">> ELSE <<>>

\* The gateway is connected only to a server that was started.
ConnReady == clientConn = "ready" /\ ~grpcQuit => GRPCUp

\* run() starts the two goroutines, each at one place.
StartedByMain ==
    /\ main = "mount" => closer = "none"
    /\ main \in {"mount", "listen", "listenGRPC"} => gserve = "none"

\* How far run() has come tells what it holds and what it will return.
MainProgress ==
    /\ lis = "open" => main \in {"listenGRPC", "loadCert", "serve", "serving",
                                 "collect", "closeGRPCLis", "closeLis"}
    /\ glis = "open" => main \in {"serve", "serving", "collect", "closeGRPCLis"}
    /\ clientConn = "closed" <=> main = "returned"
    /\ main = "collect" \/ result = "nil" => inShutdown
    /\ main \in {"closeGRPCLis", "closeLis", "stopSignal", "closeConn",
                 "returned"} => result # "running"
    /\ result = "serveErr" => main \in {"closeGRPCLis", "closeLis", "stopSignal",
                                        "closeConn", "returned"}

\* An RPC is cut by the end of run(), which comes before the end of
\* GracefulStop only when run() fails.
CutsAreFailures ==
    \A c \in Calls : at[c] = "cut" =>
        main = "returned" /\ result \notin {"running", "nil"}

IInv ==
    /\ TypeOK
    /\ CloserProgress
    /\ RPCsGone
    /\ QueueBound
    /\ QueueContent
    /\ ConnReady
    /\ StartedByMain
    /\ MainProgress
    /\ CutsAreFailures

-----------------------------------------------------------------------------
(* The invariant is inductive: one lemma for each process.                 *)

LEMMA IInvInit == Init => IInv
  <1> SUFFICES ASSUME Init
               PROVE  IInv
    OBVIOUS
  <1>1. serverErr \in Seq(ServerErrors) /\ Len(serverErr) = 0
    BY DEF Init
  <1>2. TypeOK
    BY <1>1 DEF Init, TypeOK, MainPC, CloserPC, GServePC, ListenerState,
                ConnState, ServerErrors, Results, CallPlace
  <1>3. CloserProgress /\ RPCsGone /\ QueueBound /\ QueueContent /\ ConnReady
    BY <1>1 DEF Init, CloserProgress, RPCsGone, QueueBound, QueueContent,
                ConnReady
  <1>4. StartedByMain /\ MainProgress /\ CutsAreFailures
    BY DEF Init, StartedByMain, MainProgress, CutsAreFailures
  <1>5. QED
    BY <1>2, <1>3, <1>4 DEF IInv

\* The steps of run().
LEMMA MainKeeps == IInv /\ MainStep => IInv'
  <1> SUFFICES ASSUME IInv, MainStep
               PROVE  IInv'
    OBVIOUS
  <1> USE DEF IInv, TypeOK, CloserProgress, RPCsGone, QueueBound, QueueContent,
              ConnReady, StartedByMain, MainProgress, CutsAreFailures,
              MainPC, CloserPC, GServePC, ListenerState, ConnState,
              ServerErrors, Results, CallPlace,
              InRPC, GRPCUp, HTTPUp, Close
  <1>1. CASE MountPanics
    BY <1>1 DEF MountPanics
  <1>2. CASE Spawn
    BY <1>2 DEF Spawn
  <1>3. CASE ListenHTTP
    BY <1>3 DEF ListenHTTP
  <1>4. CASE ListenGRPC
    <2>1. TypeOK' /\ CloserProgress' /\ StartedByMain' /\ MainProgress'
      BY <1>4 DEF ListenGRPC
    <2>2. QueueBound'
      BY <1>4 DEF ListenGRPC
    <2>3. RPCsGone' /\ CutsAreFailures' /\ QueueContent' /\ ConnReady'
      BY <1>4 DEF ListenGRPC
    <2>4. QED
      BY <2>1, <2>2, <2>3
  <1>5. CASE LoadCert
    BY <1>5 DEF LoadCert
  <1>6. CASE ServeHTTP
    BY <1>6 DEF ServeHTTP
  <1>7. CASE ServeReturns
    BY <1>7 DEF ServeReturns
  <1>8. CASE Collect
    BY <1>8 DEF Collect, Received
  <1>9. CASE CloseGRPCLis
    BY <1>9 DEF CloseGRPCLis
  <1>10. CASE CloseLis
    BY <1>10 DEF CloseLis
  <1>11. CASE StopSignal
    BY <1>11 DEF StopSignal
  <1>12. CASE CloseConn
    BY <1>12 DEF CloseConn
  <1>13. QED
    BY <1>1, <1>2, <1>3, <1>4, <1>5, <1>6, <1>7, <1>8, <1>9, <1>10, <1>11,
       <1>12 DEF MainStep

\* The steps of the shutdown goroutine.
LEMMA CloserKeeps == IInv /\ CloserStep => IInv'
  <1> SUFFICES ASSUME IInv, CloserStep
               PROVE  IInv'
    OBVIOUS
  <1> USE DEF IInv, TypeOK, CloserProgress, RPCsGone, QueueBound, QueueContent,
              ConnReady, StartedByMain, MainProgress, CutsAreFailures,
              MainPC, CloserPC, GServePC, ListenerState, ConnState,
              ServerErrors, Results, CallPlace,
              InRPC, GRPCUp, HTTPUp, Close
  <1>1. CASE AwaitStop
    <2>1. sigPending' \in BOOLEAN
      BY <1>1, Zenon DEF AwaitStop
    <2>2. QED
      BY <1>1, <2>1 DEF AwaitStop
  <1>2. CASE StopGRPC
    BY <1>2 DEF StopGRPC
  <1>3. CASE DrainGRPC
    BY <1>3 DEF DrainGRPC, RPCsOver
  <1>4. CASE ShutdownHTTP
    BY <1>4 DEF ShutdownHTTP
  <1>5. CASE DrainHTTP
    BY <1>5 DEF DrainHTTP, HTTPIdle
  <1>6. CASE ShutdownTimeout
    BY <1>6 DEF ShutdownTimeout, HTTPIdle
  <1>7. CASE SendShutdownErr
    BY <1>7 DEF SendShutdownErr, ServerErrCap
  <1>8. QED
    BY <1>1, <1>2, <1>3, <1>4, <1>5, <1>6, <1>7 DEF CloserStep

\* The steps of the goroutine that serves gRPC.
LEMMA GServeKeeps == IInv /\ GServeStep => IInv'
  <1> SUFFICES ASSUME IInv, GServeStep
               PROVE  IInv'
    OBVIOUS
  <1> USE DEF IInv, TypeOK, CloserProgress, RPCsGone, QueueBound, QueueContent,
              ConnReady, StartedByMain, MainProgress, CutsAreFailures,
              MainPC, CloserPC, GServePC, ListenerState, ConnState,
              ServerErrors, Results, CallPlace,
              InRPC, GRPCUp, HTTPUp, Close
  <1>1. CASE ServeGRPC
    BY <1>1 DEF ServeGRPC
  <1>2. CASE LeaveAcceptLoop
    BY <1>2 DEF LeaveAcceptLoop
  <1>3. CASE ServeGRPCReturns
    BY <1>3 DEF ServeGRPCReturns
  <1>4. CASE AcceptClosed
    BY <1>4 DEF AcceptClosed
  <1>5. CASE SendServeErr
    <2>1. TypeOK' /\ CloserProgress' /\ RPCsGone' /\ QueueBound' /\ ConnReady'
          /\ StartedByMain' /\ MainProgress' /\ CutsAreFailures'
      BY <1>5 DEF SendServeErr, ServerErrCap
    <2>2. serverErr = <<>> => Append(serverErr, "grpc") = <<"grpc">>
      OBVIOUS
    <2>3. QueueContent'
      BY <1>5, <2>2 DEF SendServeErr
    <2>4. QED
      BY <2>1, <2>3
  <1>6. QED
    BY <1>1, <1>2, <1>3, <1>4, <1>5 DEF GServeStep

\* The steps of a call, and its arrival: a stopped gRPC server admits none.
LEMMA CallsKeep ==
  ASSUME IInv, NEW c \in Calls, Arrival(c) \/ CallStep(c)
  PROVE  IInv'
  <1> USE DEF IInv, TypeOK, CloserProgress, RPCsGone, QueueBound, QueueContent,
              ConnReady, StartedByMain, MainProgress, CutsAreFailures,
              MainPC, CloserPC, GServePC, ListenerState, ConnState,
              ServerErrors, Results, CallPlace,
              InRPC, GRPCUp, HTTPUp, Move
  <1>1. CASE Arrival(c)
    BY <1>1 DEF Arrival, AdmitHTTP, AdmitRPC, RefuseRPC
  <1>2. CASE CallStep(c)
    BY <1>2 DEF CallStep, PlainDone, Forward, ForwardedRPC, ConnClosing,
                RPCDone, GatewayReply
  <1>3. QED
    BY <1>1, <1>2

\* The gateway's connection, and what the environment does.
LEMMA EnvironmentKeeps == IInv /\ (Connect \/ Environment) => IInv'
  <1> SUFFICES ASSUME IInv, Connect \/ Environment
               PROVE  IInv'
    OBVIOUS
  <1> USE DEF IInv, TypeOK, CloserProgress, RPCsGone, QueueBound, QueueContent,
              ConnReady, StartedByMain, MainProgress, CutsAreFailures,
              MainPC, CloserPC, GServePC, ListenerState, ConnState,
              ServerErrors, Results, CallPlace,
              InRPC, GRPCUp, HTTPUp, Close
  <1>1. CASE Connect
    BY <1>1 DEF Connect
  <1>2. CASE Signal
    BY <1>2 DEF Signal
  <1>3. CASE Cancel
    BY <1>3 DEF Cancel
  <1>4. CASE ServeFails
    BY <1>4 DEF ServeFails
  <1>5. CASE AcceptFails
    BY <1>5 DEF AcceptFails
  <1>6. QED
    BY <1>1, <1>2, <1>3, <1>4, <1>5 DEF Environment

LEMMA IInvStep == IInv /\ [Next]_vars => IInv'
  <1>1. IInv /\ UNCHANGED vars => IInv'
    BY DEF vars, IInv, TypeOK, CloserProgress, RPCsGone, QueueBound,
           QueueContent, ConnReady, StartedByMain, MainProgress,
           CutsAreFailures, InRPC, GRPCUp, HTTPUp
  <1>2. QED
    BY <1>1, MainKeeps, CloserKeeps, GServeKeeps, CallsKeep, EnvironmentKeeps
       DEF Next

LEMMA Invariance == Spec => []IInv
  <1>1. QED
    BY IInvInit, IInvStep, PTL DEF Spec

-----------------------------------------------------------------------------
(* What follows from the invariant.                                        *)

\* The model is well typed: every variable of ServiceRun stays in the set of
\* values that the code gives it, in every behaviour.
THEOREM TypeCorrect == Spec => []TypeOK
  <1>1. IInv => TypeOK
    BY DEF IInv
  <1>2. QED
    BY <1>1, Invariance, PTL

\* Neither goroutine that sends to serverErr is ever left blocked, although
\* run() may return without reading the channel.
THEOREM NoSenderBlocks == Spec => []SendersNeverBlock
  <1>1. IInv => SendersNeverBlock
    BY DEF IInv, TypeOK, QueueBound, SendersNeverBlock, ServerErrCap
  <1>2. QED
    BY <1>1, Invariance, PTL

\* On every path out of run() both ports and the connection are released.
THEOREM Released == Spec => []ReleasedOnReturn
  <1>1. IInv => ReleasedOnReturn
    BY DEF IInv, MainProgress, ReleasedOnReturn
  <1>2. QED
    BY <1>1, Invariance, PTL

\* The HTTP server is shut down with no RPC left in a handler.
THEOREM RPCsBeforeHTTP == Spec => []HTTPShutsDownAfterRPCs
  <1>1. IInv => HTTPShutsDownAfterRPCs
    BY DEF IInv, CloserProgress, RPCsGone, HTTPShutsDownAfterRPCs
  <1>2. QED
    BY <1>1, Invariance, PTL

\* Only a run() that returns an error cuts an RPC of the gateway.
THEOREM CleanStopCutsNothing == Spec => []CutOnlyOnFailure
  <1>1. IInv => CutOnlyOnFailure
    BY DEF IInv, CutsAreFailures, CutOnlyOnFailure
  <1>2. QED
    BY <1>1, Invariance, PTL

\* serverErr holds the failure of gRPCServer.Serve first, until run() has read
\* it and returns it.
FailureKept ==
    /\ gserve = "reported"
    /\ result # "nil"
    /\ main \in {"mount", "listen", "listenGRPC", "loadCert", "serve",
                "serving", "collect"}
         => Len(serverErr) > 0 /\ Head(serverErr) = "grpc"

LEMMA FailureStaysKept == IInv /\ FailureKept /\ [Next]_vars => FailureKept'
  <1> SUFFICES ASSUME IInv, FailureKept, [Next]_vars
               PROVE  FailureKept'
    OBVIOUS
  <1> USE DEF FailureKept, IInv, TypeOK, MainPC, Results, ServerErrors
  <1>1. CASE MainStep
    BY <1>1 DEF MainStep, MountPanics, Spawn, ListenHTTP, ListenGRPC, LoadCert,
                ServeHTTP, ServeReturns, Collect, CloseGRPCLis, CloseLis,
                StopSignal, CloseConn, StartedByMain, Received
  <1>2. CASE CloserStep
    BY <1>2 DEF CloserStep, AwaitStop, StopGRPC, DrainGRPC, ShutdownHTTP,
                DrainHTTP, ShutdownTimeout, SendShutdownErr, CloserProgress
  <1>3. CASE GServeStep
    BY <1>3 DEF GServeStep, ServeGRPC, LeaveAcceptLoop, ServeGRPCReturns,
                AcceptClosed, SendServeErr
  <1>4. ASSUME NEW c \in Calls, Arrival(c) \/ CallStep(c)
        PROVE  FailureKept'
    BY <1>4 DEF Arrival, CallStep, AdmitHTTP, AdmitRPC, RefuseRPC, PlainDone,
                Forward, ForwardedRPC, ConnClosing, RPCDone, GatewayReply, Move
  <1>5. CASE Connect \/ Environment
    BY <1>5 DEF Connect, Environment, Signal, Cancel, ServeFails, AcceptFails
  <1>6. CASE UNCHANGED vars
    BY <1>6 DEF vars
  <1>7. QED
    BY <1>1, <1>2, <1>3, <1>4, <1>5, <1>6 DEF Next

\* A failure of gRPCServer.Serve that was reported before the HTTP server was
\* shut down is never followed by a nil result.
THEOREM ServeErrReturned == Spec => ServeErrNeverMasked
  <1>1. IInv /\ gserve = "reported" /\ ~inShutdown => FailureKept
    BY DEF IInv, QueueContent, MainProgress, FailureKept
  <1>2. FailureKept => result # "nil"
    BY DEF FailureKept
  <1>3. QED
    BY <1>1, <1>2, Invariance, FailureStaysKept, PTL
       DEF Spec, ServeErrNeverMasked

-----------------------------------------------------------------------------
(* Each server implements Endpoint.                                        *)

LEMMA HTTPEndpointStep ==
  IInv /\ IInv' /\ [Next]_vars => [HTTPEndpoint!Next]_HTTPEndpoint!vars
  <1> SUFFICES ASSUME IInv, IInv', [Next]_vars
               PROVE  HTTPEndpoint!Next \/ UNCHANGED HTTPEndpoint!vars
    OBVIOUS
  <1> USE DEF IInv, TypeOK, CloserProgress, MainProgress, StartedByMain,
              MainPC, CloserPC, GServePC, ListenerState, ConnState,
              ServerErrors, Results, CallPlace,
              InHTTP, HTTPPhase, HTTPUp, GRPCUp,
              HTTPEndpoint!Next, HTTPEndpoint!Open, HTTPEndpoint!Admit, HTTPEndpoint!Leave,
              HTTPEndpoint!Drain,
              HTTPEndpoint!Stop, HTTPEndpoint!Abandon, HTTPEndpoint!vars
  <1>1. CASE MountPanics
    BY <1>1 DEF MountPanics
  <1>2. CASE Spawn
    BY <1>2 DEF Spawn
  <1>3. CASE ListenHTTP
    BY <1>3 DEF ListenHTTP
  <1>4. CASE ListenGRPC
    BY <1>4 DEF ListenGRPC
  <1>5. CASE LoadCert
    BY <1>5 DEF LoadCert
  <1>6. CASE ServeHTTP
    BY <1>6 DEF ServeHTTP
  <1>7. CASE ServeReturns
    BY <1>7 DEF ServeReturns
  <1>8. CASE ServeFails
    BY <1>8 DEF ServeFails
  <1>9. CASE Collect
    BY <1>9 DEF Collect, Received
  <1>10. CASE CloseGRPCLis
    BY <1>10 DEF CloseGRPCLis
  <1>11. CASE CloseLis
    BY <1>11 DEF CloseLis
  <1>12. CASE StopSignal
    BY <1>12 DEF StopSignal
  <1>13. CASE CloseConn
    BY <1>13 DEF CloseConn
  <1>14. CASE AwaitStop
    BY <1>14 DEF AwaitStop
  <1>15. CASE StopGRPC
    BY <1>15 DEF StopGRPC
  <1>16. CASE DrainGRPC
    BY <1>16 DEF DrainGRPC, RPCsOver
  <1>17. CASE ShutdownHTTP
    BY <1>17 DEF ShutdownHTTP
  <1>18. CASE DrainHTTP
    BY <1>18 DEF DrainHTTP, HTTPIdle
  <1>19. CASE ShutdownTimeout
    BY <1>19 DEF ShutdownTimeout, HTTPIdle
  <1>20. CASE SendShutdownErr
    BY <1>20 DEF SendShutdownErr
  <1>21. CASE ServeGRPC
    BY <1>21 DEF ServeGRPC
  <1>22. CASE LeaveAcceptLoop
    BY <1>22 DEF LeaveAcceptLoop
  <1>23. CASE ServeGRPCReturns
    BY <1>23 DEF ServeGRPCReturns
  <1>24. CASE AcceptClosed
    BY <1>24 DEF AcceptClosed
  <1>25. CASE SendServeErr
    BY <1>25 DEF SendServeErr
  <1>26. CASE AcceptFails
    BY <1>26 DEF AcceptFails
  <1>27. CASE Connect \/ Signal \/ Cancel
    BY <1>27 DEF Connect, Signal, Cancel
  <1>28. ASSUME NEW c \in Calls, Arrival(c) \/ CallStep(c)
         PROVE  HTTPEndpoint!Next \/ UNCHANGED HTTPEndpoint!vars
    BY <1>28 DEF Arrival, CallStep, AdmitHTTP, AdmitRPC, RefuseRPC, PlainDone,
                 Forward, ForwardedRPC, ConnClosing, RPCDone, GatewayReply,
                 Move, ConnReady
  <1>29. CASE UNCHANGED vars
    BY <1>29 DEF vars
  <1>30. QED
    BY <1>1, <1>2, <1>3, <1>4, <1>5, <1>6, <1>7, <1>8, <1>9, <1>10, <1>11,
       <1>12, <1>13, <1>14, <1>15, <1>16, <1>17, <1>18, <1>19, <1>20, <1>21,
       <1>22, <1>23, <1>24, <1>25, <1>26, <1>27, <1>28, <1>29
       DEF Next, MainStep, CloserStep, GServeStep, Environment

\* The HTTP server of the service is a graceful endpoint (see HTTPIsEndpoint).
THEOREM HTTPImplementsEndpoint == Spec => HTTPIsEndpoint
  <1>1. Init => HTTPEndpoint!Init
    BY DEF Init, HTTPEndpoint!Init, HTTPPhase, InHTTP, HTTPUp, GRPCUp
  <1>2. QED
    BY <1>1, Invariance, HTTPEndpointStep, PTL
       DEF Spec, HTTPIsEndpoint, HTTPEndpoint!Spec

LEMMA GRPCEndpointStep ==
  IInv /\ IInv' /\ [Next]_vars => [GRPCEndpoint!Next]_GRPCEndpoint!vars
  <1> SUFFICES ASSUME IInv, IInv', [Next]_vars
               PROVE  GRPCEndpoint!Next \/ UNCHANGED GRPCEndpoint!vars
    OBVIOUS
  <1> USE DEF IInv, TypeOK, CloserProgress, MainProgress, StartedByMain,
              MainPC, CloserPC, GServePC, ListenerState, ConnState,
              ServerErrors, Results, CallPlace,
              InRPC, GRPCPhase, HTTPUp, GRPCUp,
              GRPCEndpoint!Next, GRPCEndpoint!Open, GRPCEndpoint!Admit, GRPCEndpoint!Leave,
              GRPCEndpoint!Drain,
              GRPCEndpoint!Stop, GRPCEndpoint!Abandon, GRPCEndpoint!vars
  <1>1. CASE MountPanics
    BY <1>1 DEF MountPanics
  <1>2. CASE Spawn
    BY <1>2 DEF Spawn
  <1>3. CASE ListenHTTP
    BY <1>3 DEF ListenHTTP
  <1>4. CASE ListenGRPC
    BY <1>4 DEF ListenGRPC
  <1>5. CASE LoadCert
    BY <1>5 DEF LoadCert
  <1>6. CASE ServeHTTP
    BY <1>6 DEF ServeHTTP
  <1>7. CASE ServeReturns
    BY <1>7 DEF ServeReturns
  <1>8. CASE ServeFails
    BY <1>8 DEF ServeFails
  <1>9. CASE Collect
    BY <1>9 DEF Collect, Received
  <1>10. CASE CloseGRPCLis
    BY <1>10 DEF CloseGRPCLis
  <1>11. CASE CloseLis
    BY <1>11 DEF CloseLis
  <1>12. CASE StopSignal
    BY <1>12 DEF StopSignal
  <1>13. CASE CloseConn
    BY <1>13 DEF CloseConn
  <1>14. CASE AwaitStop
    BY <1>14 DEF AwaitStop
  <1>15. CASE StopGRPC
    BY <1>15 DEF StopGRPC
  <1>16. CASE DrainGRPC
    BY <1>16 DEF DrainGRPC, RPCsOver
  <1>17. CASE ShutdownHTTP
    BY <1>17 DEF ShutdownHTTP
  <1>18. CASE DrainHTTP
    BY <1>18 DEF DrainHTTP, HTTPIdle
  <1>19. CASE ShutdownTimeout
    BY <1>19 DEF ShutdownTimeout, HTTPIdle
  <1>20. CASE SendShutdownErr
    BY <1>20 DEF SendShutdownErr
  <1>21. CASE ServeGRPC
    BY <1>21 DEF ServeGRPC
  <1>22. CASE LeaveAcceptLoop
    BY <1>22 DEF LeaveAcceptLoop
  <1>23. CASE ServeGRPCReturns
    BY <1>23 DEF ServeGRPCReturns
  <1>24. CASE AcceptClosed
    BY <1>24 DEF AcceptClosed
  <1>25. CASE SendServeErr
    BY <1>25 DEF SendServeErr
  <1>26. CASE AcceptFails
    BY <1>26 DEF AcceptFails
  <1>27. CASE Connect \/ Signal \/ Cancel
    BY <1>27 DEF Connect, Signal, Cancel
  <1>28. ASSUME NEW c \in Calls, Arrival(c) \/ CallStep(c)
         PROVE  GRPCEndpoint!Next \/ UNCHANGED GRPCEndpoint!vars
    BY <1>28 DEF Arrival, CallStep, AdmitHTTP, AdmitRPC, RefuseRPC, PlainDone,
                 Forward, ForwardedRPC, ConnClosing, RPCDone, GatewayReply,
                 Move, ConnReady
  <1>29. CASE UNCHANGED vars
    BY <1>29 DEF vars
  <1>30. QED
    BY <1>1, <1>2, <1>3, <1>4, <1>5, <1>6, <1>7, <1>8, <1>9, <1>10, <1>11,
       <1>12, <1>13, <1>14, <1>15, <1>16, <1>17, <1>18, <1>19, <1>20, <1>21,
       <1>22, <1>23, <1>24, <1>25, <1>26, <1>27, <1>28, <1>29
       DEF Next, MainStep, CloserStep, GServeStep, Environment

\* The gRPC server of the service is a graceful endpoint, with TLS and without
\* (see GRPCIsEndpoint).
THEOREM GRPCImplementsEndpoint == Spec => GRPCIsEndpoint
  <1>1. Init => GRPCEndpoint!Init
    BY DEF Init, GRPCEndpoint!Init, GRPCPhase, InRPC, HTTPUp, GRPCUp
  <1>2. QED
    BY <1>1, Invariance, GRPCEndpointStep, PTL
       DEF Spec, GRPCIsEndpoint, GRPCEndpoint!Spec
-----------------------------------------------------------------------------
(* The run implements RunLife.                                             *)

LEMMA LifeStep == IInv /\ [Next]_vars => [Life!Next]_Life!vars
  <1> SUFFICES ASSUME IInv, [Next]_vars
               PROVE  Life!Next \/ UNCHANGED Life!vars
    OBVIOUS
  <1> USE DEF IInv, TypeOK, MainProgress, MainPC, Results, ConnState, RunStage,
              Life!Next, Life!Dial, Life!Serve, Life!End, Life!vars
  <1>1. CASE MountPanics \/ Spawn \/ ListenHTTP
    BY <1>1 DEF MountPanics, Spawn, ListenHTTP
  <1>2. CASE ListenGRPC \/ LoadCert \/ ServeHTTP
    BY <1>2 DEF ListenGRPC, LoadCert, ServeHTTP
  <1>3. CASE ServeReturns \/ ServeFails \/ Collect
    <2>1. serverErr # <<>> => Received \in ServerErrors
      BY DEF Received
    <2>2. Received # "startErr"
      BY <2>1 DEF Received, ServerErrors
    <2>3. QED
      BY <1>3, <2>2 DEF ServeReturns, ServeFails, Collect
  <1>4. CASE CloseGRPCLis \/ CloseLis \/ StopSignal
    BY <1>4 DEF CloseGRPCLis, CloseLis, StopSignal
  <1>5. CASE CloseConn
    BY <1>5 DEF CloseConn
  <1>6. CASE CloserStep
    BY <1>6 DEF CloserStep, AwaitStop, StopGRPC, DrainGRPC, ShutdownHTTP,
                DrainHTTP, ShutdownTimeout, SendShutdownErr
  <1>7. CASE GServeStep
    BY <1>7 DEF GServeStep, ServeGRPC, LeaveAcceptLoop, ServeGRPCReturns,
                AcceptClosed, SendServeErr
  <1>8. ASSUME NEW c \in Calls, Arrival(c) \/ CallStep(c)
        PROVE  Life!Next \/ UNCHANGED Life!vars
    BY <1>8 DEF Arrival, CallStep, AdmitHTTP, AdmitRPC, RefuseRPC, PlainDone,
                Forward, ForwardedRPC, ConnClosing, RPCDone, GatewayReply, Move
  <1>9. CASE Connect \/ Signal \/ Cancel \/ AcceptFails
    BY <1>9 DEF Connect, Signal, Cancel, AcceptFails
  <1>10. CASE UNCHANGED vars
    BY <1>10 DEF vars
  <1>11. QED
    BY <1>1, <1>2, <1>3, <1>4, <1>5, <1>6, <1>7, <1>8, <1>9, <1>10
       DEF Next, MainStep, Environment

\* However the start, the servers and the stop turn out, the run ends once and
\* takes the gateway's connection with it (see RunKeepsLife): what
\* ServiceConfig assumes of a run.
THEOREM RunImplementsLife == Spec => RunKeepsLife
  <1>1. Init => Life!Init
    BY DEF Init, Life!Init, RunStage
  <1>2. QED
    BY <1>1, Invariance, LifeStep, PTL DEF Spec, RunKeepsLife, Life!Spec
=============================================================================
