------------------------------ MODULE Endpoint ------------------------------
(***************************************************************************)
(* What a gracefully stopped server endpoint promises, whatever carries    *)
(* it: it admits calls only while it is open; once told to drain it never  *)
(* admits another one; it reports a clean stop only when every admitted    *)
(* call has left, and a caller whose patience ran out learns that calls    *)
(* were abandoned.  ServiceRun.tla shows that the HTTP server and the gRPC *)
(* server of a running service each implement this specification.          *)
(***************************************************************************)
CONSTANT Calls

VARIABLES
    phase,     \* where the endpoint is in its life
    inflight   \* the calls it has admitted and not finished

vars == <<phase, inflight>>

Phases == {"closed", "open", "draining", "stopped", "abandoned"}

TypeOK ==
    /\ phase \in Phases
    /\ inflight \in SUBSET Calls

Init ==
    /\ phase = "closed"
    /\ inflight = {}

Open ==
    /\ phase = "closed"
    /\ phase' = "open"
    /\ UNCHANGED inflight

Admit(c) ==
    /\ phase = "open"
    /\ c \notin inflight
    /\ inflight' = inflight \cup {c}
    /\ UNCHANGED phase

\* Calls leave one by one, or together when what they depend on goes away.
Leave ==
    /\ inflight' \in SUBSET inflight
    /\ UNCHANGED phase

Drain ==
    /\ phase \in {"closed", "open"}
    /\ phase' = "draining"
    /\ UNCHANGED inflight

Stop ==
    /\ phase = "draining"
    /\ inflight = {}
    /\ phase' = "stopped"
    /\ UNCHANGED inflight

Abandon ==
    /\ phase = "draining"
    /\ inflight # {}
    /\ phase' = "abandoned"
    /\ UNCHANGED inflight

Next ==
    \/ Open
    \/ \E c \in Calls : Admit(c)
    \/ Leave
    \/ Drain
    \/ Stop
    \/ Abandon

Spec == Init /\ [][Next]_vars
=============================================================================
