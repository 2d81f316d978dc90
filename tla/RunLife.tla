------------------------------ MODULE RunLife ------------------------------
(***************************************************************************)
(* The one run of a service as the rest of the service sees it: it starts, *)
(* it serves or fails to, it ends, and with it ends the connection of the  *)
(* gateway, which nobody closes before and nobody opens again.             *)
(* ServiceConfig.tla treats the run as these steps; ServiceRun.tla has the *)
(* goroutines behind them.  Both implement this specification, so that     *)
(* what the one assumes of the run is what the other does.                 *)
(***************************************************************************)
VARIABLES
    stage,   \* of the run: "waiting" to serve, "serving" or "over"
    conn     \* the connection of the gateway

vars == <<stage, conn>>

Stages == {"waiting", "serving", "over"}
Conns == {"none", "open", "closed"}

\* A service may already be initialised.
Init ==
    /\ stage = "waiting"
    /\ conn \in {"none", "open"}

Dial ==
    /\ stage = "waiting"
    /\ conn = "none"
    /\ conn' = "open"
    /\ UNCHANGED stage

Serve ==
    /\ stage = "waiting"
    /\ stage' = "serving"
    /\ UNCHANGED conn

\* From "waiting": the start failed.
End ==
    /\ stage # "over"
    /\ stage' = "over"
    /\ conn' = IF conn = "open" THEN "closed" ELSE conn

Next == Dial \/ Serve \/ End

Spec == Init /\ [][Next]_vars
=============================================================================
