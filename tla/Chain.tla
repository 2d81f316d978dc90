-------------------------------- MODULE Chain --------------------------------
(***************************************************************************)
(* The interceptors of pkg/grpc (logger.go, payload.go, recovery.go,       *)
(* auth.go) as the chain that initGRPC makes of them (run.go:323-327), in  *)
(* whatever order a caller adds them: calls go down the chain to their     *)
(* handler and come up again, refused, with an error, or as a panic.       *)
(*                                                                         *)
(* A layer is one interceptor of go-grpc-middleware, which is external and *)
(* modelled by what the package relies on: a ctxtags layer gives the call  *)
(* a new set of tags, the authenticator puts auth.sub into the tags it     *)
(* finds (auth.go:269), a zap layer writes a line when the call comes back *)
(* to it, and a panic passes through every layer but recovery.             *)
(*                                                                         *)
(* The stream interceptors are chained like the unary ones; their payloads *)
(* are logged with each message and not around the call, so LogRequest and *)
(* the payload lines of LinesOnReturn speak of unary calls.  grpc_auth     *)
(* asks a service that has AuthFuncOverride itself; here none has.         *)
(*                                                                         *)
(* An operator Name_Fault is Name with a fault that code like this could   *)
(* have; none is part of the specification.                                *)
(***************************************************************************)
EXTENDS Naturals, Sequences, Functions

CONSTANT Calls

VARIABLES
    added,    \* what the caller has added, in order
    chain,    \* unaryInterceptors: the layers, the outermost first
    serving,  \* the server was built: the chain is fixed
    alive,    \* the process has not ended by a panic
    way,      \* of each call: not begun, going down, coming up, answered
    depth,    \* the layer it comes to next; past the last is the handler
    result,   \* what comes up
    origin,   \* where it panicked
    subject,  \* the layers of the tags that hold auth.sub; 0: no tags at all
    lines     \* what was logged of it, once or more often

setup == <<added, chain, serving>>
calls == <<way, depth, result, origin, subject, lines>>
vars  == <<setup, alive, calls>>

\* "open" is AddAuth(nil).
Adders == {"logging", "payload", "recovery", "auth", "open"}
Kinds == {"ctxtags", "zap", "payload", "recovery", "auth"}
Layers == [kind : Kinds, of : Adders]
Results == {"none", "ok", "failed", "refused", "internal", "panic"}
Lines == [of : Adders, what : Results \cup {"request", "response"}, sub : BOOLEAN]

TypeOK ==
    /\ added \in Seq(Adders)
    /\ chain \in Seq(Layers)
    /\ serving \in BOOLEAN
    /\ alive \in BOOLEAN
    /\ way \in [Calls -> {"idle", "down", "up", "answered"}]
    /\ depth \in [Calls -> 0 .. Len(chain) + 1]
    /\ result \in [Calls -> Results]
    /\ origin \in [Calls -> {"none", "auth", "handler"}]
    /\ subject \in [Calls -> SUBSET (0 .. Len(chain))]
    /\ lines \in [Calls -> SUBSET Lines]

Init ==
    /\ added = <<>>
    /\ chain = <<>>
    /\ serving = FALSE
    /\ alive = TRUE
    /\ way = [c \in Calls |-> "idle"]
    /\ depth = [c \in Calls |-> 0]
    /\ result = [c \in Calls |-> "none"]
    /\ origin = [c \in Calls |-> "none"]
    /\ subject = [c \in Calls |-> {}]
    /\ lines = [c \in Calls |-> {}]

-----------------------------------------------------------------------------
(* The interceptors, and the chain they are appended to.                   *)

Layer(adder, kind) == [kind |-> kind, of |-> adder]

AddLogging == <<Layer("logging", "ctxtags"), Layer("logging", "zap")>>

AddPayloadLogging_SharedTags ==
    <<Layer("payload", "zap"), Layer("payload", "payload")>>
AddPayloadLogging ==
    <<Layer("payload", "ctxtags"), Layer("payload", "zap"),
      Layer("payload", "payload")>>

AddRecovery == <<Layer("recovery", "recovery")>>

\* Without a function there is nothing to enforce.
AddAuth_Unset(authFunc) == <<>>
AddAuth(authFunc) == IF authFunc = "auth" THEN <<Layer("auth", "auth")>> ELSE <<>>

Interceptors(adder) ==
    CASE adder = "logging"  -> AddLogging
      [] adder = "payload"  -> AddPayloadLogging
      [] adder = "recovery" -> AddRecovery
      [] OTHER              -> AddAuth(adder)

\* AddGRPCUnaryServerInterceptors.
Appended_Outermost(layers) == layers \o chain
Appended(layers) == chain \o layers

\* Each kind is added once at most.
Add(adder) ==
    /\ ~serving
    /\ adder \notin Range(added)
    /\ adder \in {"auth", "open"} => Range(added) \cap {"auth", "open"} = {}
    /\ added' = Append(added, adder)
    /\ chain' = Appended(Interceptors(adder))
    /\ UNCHANGED <<serving, alive, calls>>

Serve ==
    /\ ~serving
    /\ serving' = TRUE
    /\ UNCHANGED <<added, chain, alive, calls>>

-----------------------------------------------------------------------------
(* A call on its way down.                                                 *)

Handler == Len(chain) + 1

\* The tags a layer finds in its context are those of the innermost ctxtags
\* layer outside it.
TagsAt(i) ==
    LET outside == {j \in 1 .. i - 1 : chain[j].kind = "ctxtags"}
    IN  IF outside = {} THEN 0 ELSE CHOOSE j \in outside : \A k \in outside : k <= j

SubjectKnown(c, i) == TagsAt(i) # 0 /\ TagsAt(i) \in subject[c]

Line(c, i, what) ==
    [of |-> chain[i].of, what |-> what, sub |-> SubjectKnown(c, i)]

Begin(c) ==
    /\ serving
    /\ way[c] = "idle"
    /\ way' = [way EXCEPT ![c] = "down"]
    /\ depth' = [depth EXCEPT ![c] = 1]
    /\ UNCHANGED <<result, origin, subject, lines>>

At(c, kind) ==
    /\ way[c] = "down"
    /\ depth[c] \in DOMAIN chain
    /\ chain[depth[c]].kind = kind

Deeper(c) ==
    /\ depth' = [depth EXCEPT ![c] = @ + 1]
    /\ UNCHANGED <<way, result, origin>>

TurnBack(c, outcome, panicker) ==
    /\ way' = [way EXCEPT ![c] = "up"]
    /\ depth' = [depth EXCEPT ![c] = @ - 1]
    /\ result' = [result EXCEPT ![c] = outcome]
    /\ origin' = [origin EXCEPT ![c] = panicker]

PassDown(c) ==
    /\ \E kind \in {"ctxtags", "zap", "recovery"} : At(c, kind)
    /\ Deeper(c)
    /\ UNCHANGED <<subject, lines>>

LogRequest(c) ==
    /\ At(c, "payload")
    /\ Deeper(c)
    /\ lines' = [lines EXCEPT ![c] = @ \cup {Line(c, depth[c], "request")}]
    /\ UNCHANGED subject

\* The authenticator admits the call, refuses it, or panics in the provider.
Authenticate(c) ==
    /\ At(c, "auth")
    /\ \/ /\ Deeper(c)
          /\ subject' = [subject EXCEPT ![c] = @ \cup {TagsAt(depth[c])}]
       \/ TurnBack(c, "refused", "none") /\ UNCHANGED subject
       \/ TurnBack(c, "panic", "auth") /\ UNCHANGED subject
    /\ UNCHANGED lines

Handle(c) ==
    /\ way[c] = "down"
    /\ depth[c] = Handler
    /\ \/ \E outcome \in {"ok", "failed"} : TurnBack(c, outcome, "none")
       \/ TurnBack(c, "panic", "handler")
    /\ UNCHANGED <<subject, lines>>

-----------------------------------------------------------------------------
(* A call on its way up.                                                   *)

\* customFunc makes codes.Internal of a panic.
Recovered_NilError(r) == IF r = "panic" THEN "ok" ELSE r
Recovered_Raw(r) == IF r = "panic" THEN "boom" ELSE r
Recovered(r) == IF r = "panic" THEN "internal" ELSE r

\* A zap layer logs after its handler has returned, and a panic does not
\* return.  The payload layer logs a response that is no error, with the
\* fields that it took from the context before it called on.
LinesOnReturn(c, i) ==
    CASE chain[i].kind = "zap" /\ result[c] # "panic" ->
           {Line(c, i, result[c])}
      [] chain[i].kind = "payload" /\ result[c] = "ok" ->
           {[l EXCEPT !.what = "response"] :
               l \in {m \in lines[c] : m.of = chain[i].of /\ m.what = "request"}}
      [] OTHER -> {}

Return(c) ==
    /\ way[c] = "up"
    /\ depth[c] > 0
    /\ LET i == depth[c]
       IN  /\ lines' = [lines EXCEPT ![c] = @ \cup LinesOnReturn(c, i)]
           /\ result' = IF chain[i].kind = "recovery"
                           THEN [result EXCEPT ![c] = Recovered(@)] ELSE result
    /\ depth' = [depth EXCEPT ![c] = @ - 1]
    /\ UNCHANGED <<way, origin, subject>>

Answer(c) ==
    /\ way[c] = "up"
    /\ depth[c] = 0
    /\ result[c] # "panic"
    /\ way' = [way EXCEPT ![c] = "answered"]
    /\ UNCHANGED <<depth, result, origin, subject, lines>>

\* A panic that leaves the chain ends the process: grpc does not recover.
Crash(c) ==
    /\ way[c] = "up"
    /\ depth[c] = 0
    /\ result[c] = "panic"
    /\ alive' = FALSE
    /\ UNCHANGED calls

CallStep(c) ==
    /\ \/ Begin(c) \/ PassDown(c) \/ LogRequest(c) \/ Authenticate(c)
       \/ Handle(c) \/ Return(c) \/ Answer(c)
    /\ UNCHANGED alive

Next ==
    \/ \E adder \in Adders : Add(adder)
    \/ Serve
    \/ alive /\ UNCHANGED setup /\ \E c \in Calls : CallStep(c) \/ Crash(c)

Spec == Init /\ [][Next]_vars

-----------------------------------------------------------------------------
(* What must hold, said of what the caller has added.                      *)

Has(a) == a \in Range(added)

\* The caller added a before b.
Outside(a, b) ==
    \E i, j \in DOMAIN added : i < j /\ added[i] = a /\ added[j] = b

Loggers == {"logging", "payload"} \cap Range(added)

\* The authenticator, if any, has let the call pass.
Admitted(c) == Has("auth") => subject[c] # {}

\* A panic costs its own call and no other: it is answered with an error of
\* its own (recovery.go:12-14), and the process, with every other call, ends
\* only by a panic that no recovery was added outside of.
PanicsAreAnswered ==
    /\ \A c \in Calls : way[c] = "answered" =>
          (result[c] = "internal" <=> origin[c] # "none")
    /\ ~alive => \E c \in Calls :
          \/ origin[c] = "handler" /\ ~Has("recovery")
          \/ origin[c] = "auth" /\ ~Outside("recovery", "auth")

\* Each logger writes one line of a call that came as far as the logger, with
\* the status the client is given, unless a panic crossed it: which is why
\* recovery "should typically be last in the chain" (recovery.go:21-22).
AnswersAreLogged ==
    \A c \in Calls, a \in Loggers : way[c] = "answered" =>
        {l.what : l \in {m \in lines[c] : m.of = a}} \ {"request", "response"} =
            IF \/ Outside("auth", a) /\ ~Admitted(c)
               \/ Outside("recovery", a) /\ origin[c] # "none"
               THEN {} ELSE {result[c]}

\* The user is named in the line of one logger at most: the last one added
\* before the authenticator, whose tags the authenticator finds
\* (auth.go:269).  What is logged of a payload never names the user.
SubjectIsLogged ==
    \A c \in Calls : \A l \in lines[c] :
        l.sub <=> /\ subject[c] # {}
                  /\ l.what \notin {"request", "response"}
                  /\ Outside(l.of, "auth")
                  /\ ~\E a \in Loggers : Outside(l.of, a) /\ Outside(a, "auth")

\* What was added after the authenticator - and the handler is after all of
\* it - sees only calls it has admitted: a payload that was refused is logged
\* only if payload logging was added before.
BehindAuth ==
    \A c \in Calls : ~Admitted(c) =>
        /\ way[c] = "down" => depth[c] # Handler
        /\ origin[c] # "handler" /\ result[c] \notin {"ok", "failed"}
        /\ \A l \in lines[c] : Outside(l.of, "auth")
=============================================================================
