---------------------------- MODULE MCServiceRun ----------------------------
(***************************************************************************)
(* Instances of ServiceRun for TLC.  Run.cfg: with TLS and without, one    *)
(* call of each kind.  The plain request keeps the HTTP server busy        *)
(* without gRPC, the direct RPC the gRPC server without HTTP, and the      *)
(* gateway call joins the two.  Calls meet only through the servers.       *)
(***************************************************************************)
EXTENDS ServiceRun

\* A service with two ports: RunGateway.cfg is about its gateway only, whose
\* requests do not compete with RPCs for one port.
TwoPorts == Init /\ ~TLSEnabled /\ [][Next]_vars
=============================================================================
