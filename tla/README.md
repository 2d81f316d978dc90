# A formal model of gomicro

gomicro is a Go library that bundles what a service needs: a gRPC server, an
HTTP server with a grpc-gateway that calls the gRPC server over a connection of
its own, the start and the shutdown of both, and helpers for authentication,
logging, recovery, SQL, encryption and errors. This directory holds TLA+ models
of it, the TLC runs that check them, and proofs that TLAPS checks.

## 1. Inventory

| component | state | operations | hard behaviour | what makes it correct |
|---|---|---|---|---|
| **run loop and shutdown** (`run.go`: `run`, `closeClientConn`, `grpcHandlerFunc`, `runtimeMuxHandler`) | two listeners, `serverErr`, the signal channel, the context, the gateway's `clientConn`, both servers | `Start` -> `run`; a shutdown goroutine; a goroutine of `gRPCServer.Serve` | three goroutines and every call in flight, in any order; five early returns with different deferred calls; a stop during the start; a shutdown with a timeout | nothing blocks, leaks or is cut in a clean stop; both servers admit nothing once they stop, and wait; a stop ends |
| **configuration and initialisation** (`micros.go`; `run.go`: `init`, `initGRPC`, `Start`, `Initialize`) | lists of interceptors, dial and server options, middlewares; `httpMux`, `runtimeMux`, `gRPCServer`, `clientConn`; two `sync.Once` | adders, getters, `Initialize`, `Start` | any order of calls; pointers that go stale; panics half way and retries after them | what was configured is what is served; the connection is usable, open while serving and closed after |
| **service logger** (`logger.go`) | none that changes | levels, formatting | none | - |
| **gRPC dialling** (`pkg/conn/dial.go`) | none | `DialGrpcService`, `waitForReadyUnaryInterceptor` | the order of dial options | as part of the configuration |
| **SQL connections** (`pkg/conn/conn.go`) | a pool | validation, opening | unsigned sizes become `int`, limits depend on each other | the limits are those asked for |
| **authentication, authorisation** (`pkg/grpc/auth`) | signing key, payload provider, the claims in a context | generate, renew, parse, authenticate, authorise | time, several keys, clocks and claims of a caller's own, tokens of other services, a provider that fails, answers late or knows nothing, streams that authorise again and again | a request acts for an ID that a token was issued for; a grant rests on a group that the store gave; a renewed token is good until it expires |
| **interceptors** (`pkg/grpc/{logger,payload,recovery}.go`, `auth.AddAuth`) | none; tags in the context of a call | four builders of go-grpc-middleware layers, added in any order | a panic that crosses some layers and not others; tags written for one logger and read by another | a panic costs its own call; what is answered is logged; nothing runs behind a refusal |
| **zap logger** (`pkg/grpc/zaplogger`) | `sync.Once`, a global | `Init` | none beyond the `sync.Once` | - |
| **full-text index** (`utils/dbutil/fulltext.go`) | the indexes of a table | check for an index, then create or drop it | several processes at once, a question that fails | a nil error is true, an error has a cause |
| **query and error helpers** (`utils/dbutil`) | none | strings | none | - |
| **encryption, hash ids** (`utils/encryption`) | none | `ParseKey`, `createGCM` | key lengths at the boundaries | a key is cut to one that AES takes, and no shorter than need be; the two agree |
| **error helpers** (`utils/errs`) | none | wrappers, constructors | nil errors, `codes.OK`, wrapped statuses: one branch each | - |
| **joining maps** (`utils/joinmap`) | none | `JoinMap` | keys that meet, under any order of iteration; a nil map | no entry is lost, one result |
| **metadata, templates, TLS** (`utils/*`) | none | one call of a library or of I/O | none | - |

How they interact: a caller configures a `Service` and calls `Start`. `Start`
initialises once (`initGRPC` dials the service's own address with
`conn.DialGrpcService`, then builds the gRPC server from the collected
interceptors), runs the caller's `initFn`, and runs once. `run` mounts the
gateway on `httpMux`, wraps it in the middlewares and starts the goroutines. A
request for the gateway is an HTTP request that becomes an RPC over
`clientConn`. The authentication functions run inside the interceptors, on the
goroutine of each request, and share only the `API` value and the provider's
store.

`PROJECT.json` lists every hazard at its line, with the properties that would
catch it going wrong.

## 2. Modules

| module | models | checked by |
|---|---|---|
| `Endpoint` | what a server promises: it admits work only while it is open, and once it has stopped cleanly nothing it admitted is left | `ServiceRun` implements it twice |
| `RunLife` | the one run of a service and the connection of the gateway, as seen from outside | `ServiceRun` and `ServiceConfig` implement it |
| `ServiceRun` | `Service.run` and everything concurrent with it | `Run`, `RunBlocks`, `RunGateway`, `RunGraceful` |
| `ServiceRunProofs` | theorems about `ServiceRun` | TLAPS |
| `ServiceConfig` | the life of a `Service` around its run | `Config`, `ConfigLost`, `ConfigBare` |
| `ServiceConfigProofs` | theorems about `ServiceConfig` | TLAPS |
| `Auth` | tokens and requests | `Auth` |
| `AuthProofs` | theorems about `Auth` | TLAPS |
| `Chain` | the interceptors of `pkg/grpc` around a handler | `Chain` |
| `ChainProofs` | theorems about `Chain` | TLAPS |
| `FullTextIndex` | creators and droppers of one index | `Index` |
| `FullTextIndexProofs` | theorems about `FullTextIndex` | TLAPS |
| `Encryption`, `ConnPool`, `JoinMap` | pure helpers: key lengths, pool limits, joined maps | `Helpers`, `HelpersKey` |
| `HelperProofs` | theorems about the pure helpers | TLAPS |
| `NumberInduction` | induction over natural numbers, for the proofs about folds and recursive functions | TLAPS |
| `MCServiceRun`, `MCServiceConfig`, `MCAuth`, `MCChain`, `MCFullTextIndex`, `MCHelpers` | instances for TLC | |

`RunLife` joins the two halves of a service: `ServiceConfig` treats the run as
a begin and an end, `ServiceRun` has its goroutines and begins with a service
that is configured. Both implement `RunLife`, so that what the one takes for
granted about the run and the connection is what the other does.

An operator called `Name_Fault` (`RPCsOver_Hasty`, say, which does not wait for RPCs) is
`Name` with a fault that this code could plausibly have. It is no part of any
specification. It documents which fault a property would notice: put in the
place of `Name`, it makes TLC report the property that `PROJECT.json` pairs it
with.

### ServiceRun

`main`, `closer` and `gserve` are the program counters of the three
goroutines, one value per statement that another goroutine can observe or that
can fail; the rest of the variables are those of the code.

| code | model |
|---|---|
| `run.go:97`, `AddEndpoint` | `MountPanics` or `Spawn` |
| `net.Listen`, twice; `LoadX509KeyPair` | `ListenHTTP`, `ListenGRPC`, `LoadCert`, each with its failing branch |
| `httpServer.Serve` and its two ways to return | `ServeHTTP`, `ServeReturns`, `ServeFails` |
| the non-blocking `select` at the end | `Collect` |
| the deferred calls, last first | `CloseGRPCLis`, `CloseLis`, `StopSignal`, `CloseConn` |
| the shutdown goroutine | `AwaitStop`, `StopGRPC`, `DrainGRPC`, `ShutdownHTTP`, `DrainHTTP`, `ShutdownTimeout`, `SendShutdownErr` |
| the goroutine of `gRPCServer.Serve` | `ServeGRPC`, `LeaveAcceptLoop`, `ServeGRPCReturns`, `AcceptClosed`, `AcceptFails`, `SendServeErr` |
| requests | `at[c]`: an endpoint of `httpMux`, a gateway request that waits for the connection, becomes an RPC and is answered, or an RPC of a client |

External, and modelled by what `run.go` relies on: `http.Server` (Shutdown
makes `Serve` return at once and waits for busy connections until its context
ends; a `Serve` that begins after Shutdown gives up; when `Accept` fails,
`Serve` returns and the connections it has live on), `grpc.Server`
(`GracefulStop` closes listeners, sends GOAWAY and waits for `Serve` and for
every RPC; over `ServeHTTP` its transports cannot drain: they panic),
`grpc.ClientConn` (connects by itself; a wait-for-ready RPC waits without a
deadline; `Close` fails it), `os/signal`.

With TLS there is one port: RPCs are HTTP connections too, the gateway's
connection is one of them, and there is no `gserve` and no `glis`.

### ServiceConfig

One action per adder and getter, `Initialize`, `Start` up to its `initFn`, and
the run as begin and end. `gRPCServer` and `runtimeMux` say *which* object the
field points to (`"default"` of `ensureDefaults`, `"built"` of `initGRPC`), and
`held` which ones the caller has a pointer to: that is how a stale pointer shows.
A panic is a caller that recovers: `served = "panic"` with the fields as they
were left. A dial option is the field it sets and the value it gives; the last
option for a field counts, as grpc's do. `InitHangs` is the dial that waits for
a server that this very call is meant to build.

The unary lists stand for the stream lists, which the code treats alike; an item
is added to a list at most once, which is enough to tell where it ends up; a
`Service` is created with options that never change.

### Auth

A token is a record of what its signature covers: the ID, the method, the key
and the three times; and of the groups its payload had when it was generated
(which the code does not serialise). The issuer and the audience are written
into a token and never read. Tokens come from this service and its replicas in
three ways: `GenToken`; `GenTokenUsingKey`, with claims of the caller's own, times
included; and `GenTokenFromClaims`, by which a handler renews the token of its
request. The last two go through `GenTokenV2`, which sets the expiry and leaves
the other times as they are. `Foreign` are tokens of other services: some share
a key with this one and sign by another method, some sign with keys of their
own. `issued` is a history variable, the IDs that somebody asked a token for.

A request is authenticated with a key (`Authenticator` with the key of the API,
`AuthenticatorWithKey` with one of the caller's), its payload completed by
the provider in a step of its own (`LoadPayload`: it fails, finds the user, or
returns nothing), and authorised any number of times, as a stream is. Time
passes, groups change and the provider is set between any two steps.
Signatures are ideal: a token parses only with the key and the method it was
signed with. `Authorize` is `AuthorizeGroups` or `AuthorizeIds`, on the claims the
request has then; the verdict says which of the two, if any, let it pass.

### Chain

`added` is what a caller adds, in order, and `chain` the layers that come of it:
`AddLogging` makes two, `AddPayloadLogging` three, `AddRecovery` and `AddAuth`
one each, and `AddAuth(nil)` none. A call goes down the layers and comes up
again; what a layer does then is in `LinesOnReturn` and `Recovered`. Tags are
kept as go-grpc-middleware keeps them: each ctxtags layer puts a new set into
the context, and the authenticator writes into the innermost set outside
it. `subject` names the sets that it wrote into. The lines of
a call are a set, so one that is written twice shows once; `grpc_auth` lets a
service replace the authenticator (`AuthFuncOverride`), and here none does. A panic that comes out of the
chain ends the process (`Crash`), which stops every other call where it is.

### FullTextIndex

Each process calls `CreateFullTextIndex` or `DropFullTextIndex`, again and
again. `Check` is `Migrator().HasIndex`, which answers "no" when it fails;
`Exec` is the statement, which the database carries out or refuses, and whose
answer may be lost. `was` is a history variable: the states of the index since
the call began, against which the answer is judged.

### The helpers

Operators, with no state of their own; `MCHelpers` gives one of them an input in
each behaviour, and the invariants compare the result with what it should be.
`Encryption` speaks of the length of a key only, because both functions take a
prefix of it. `ConnPool` has unsigned and signed integers of `W` bits and the
two limits of `database/sql` as they depend on each other. `JoinMap` folds the
entries of one map into the other in every order. Both
maps are allocated: putting an entry into a nil `map2` panics.

## 3. What the runs show

Every bound is a CONSTANT in a `.cfg`.

| run | instance | result |
|---|---|---|
| `Run` | both modes; one plain request, one gateway request, one RPC; 70 thousand states | all hold |
| `Config` | every kind of options, one item of each list, two of those whose order shows; 4 million states | all hold |
| `Auth` | one user, one group, the key of the API, another and the empty one, a key and two tokens of other services, two seconds, two tokens of this one, own claims without times or a second ahead, one second of skew; 1.1 million states | all hold |
| `Chain` | every order of every choice of interceptors, two calls; 65 thousand states | all hold |
| `Index` | three processes, two columns, any number of calls; 136 thousand states | all hold |
| `Helpers` | keys of at most 40 bytes, words of 5 bits, maps over 4 keys that can meet; 1322 states | all hold |
| `RunBlocks`, `RunGateway`, `RunGraceful`, `ConfigLost`, `ConfigBare`, `HelpersKey` | smaller instances | a counterexample each, section 5 |

Why these bounds are enough to be worth something. In `ServiceRun` calls never
meet each other, only the servers; one call of each kind already puts a plain
request, a gateway request at each of its four places and a direct RPC against
every moment of the stop, and the safety properties are proved for any sets of
calls (section 4). In `ServiceConfig` a second item of a list matters only
where order is observed, which is the middlewares and the options for the same
field of a connection. In `Auth` two seconds hold a token's last
second and the one after it, and an issue time or `NotBefore` that is still
ahead; two tokens hold one and what it is renewed to; requests share only the
store, the tokens and the clock.
In `Chain` calls share nothing but the process, so a second one is there to be
in flight when the first ends it; each kind of interceptor is added at most
once. In `FullTextIndex` three processes put a drop between two creators, and
processes go on calling without a bound. For the helpers, 40 bytes pass the last
boundary at 32; 5 bits hold both sides of the sign and of every comparison,
which do not depend on the width; and four keys hold chains of renamings.

`Index` is checked for deadlock. The other runs say `CHECK_DEADLOCK FALSE`
because these systems really stop: a service that has been shut down, or hangs,
or whose clock has reached its bound, calls that have all been answered, does
nothing more. That it does not stop *too early* is what
`StopLeadsToRest`, `ServeGoroutineEnds` and `SendersNeverBlock` are about.

Properties of `ServiceRun`:

- `SendersNeverBlock`: the channel of capacity 2 never makes a sender wait,
  although `run` may return without reading it.
- `ReleasedOnReturn`: on each of the ways out of `run`, both ports are free and
  the connection is closed.
- `HTTPShutsDownAfterRPCs`: when HTTP begins to shut down, no RPC is in a
  handler, not even one that came through the shared port in between.
- `CutOnlyOnFailure`: an RPC loses its connection only if `run` returns an error.
- `ServeErrNeverMasked`: a failure of `gRPCServer.Serve` reported before
  `Shutdown` is never followed by a nil result.
- `StopLeadsToRest`, `ServeGoroutineEnds`: liveness, below.
- `HTTPIsEndpoint`, `GRPCIsEndpoint`: both servers implement `Endpoint`, under
  the mappings `HTTPPhase`/`InHTTP` and `GRPCPhase`/`InRPC`.
- `RunKeepsLife`: the goroutines together implement `RunLife`.

Properties of `ServiceConfig`: `PointersStable` (a pointer fetched after the
initialisation never goes stale), `GatewayConnUsable` (whatever dial
options a caller gives, in whatever order, the connection is dialled with
wait-for-ready, all client interceptors added by then and the credentials of the
listener, and nothing changes that later), `ConnOpenWhileServing`,
`ServiceKeepsLife` (it implements `RunLife`: one run, and the connection ends with
it) and `MiddlewareOrder` (what comes to be served is the mux inside of exactly
the middlewares added by then, the first one outermost, and stays so).

Properties of `Auth`:

- `GrantsAreCurrent`: a grant rests on a group that the store gave the user since
  the request arrived, whatever the token was made from, or on the ID that the
  token carries.
- `IdentitiesWereIssued`: a request acts for an ID that somebody asked this
  service a token for, with the key the request is checked with or, if that is
  the key of the API, with another and a handler renewed the token. Tokens of
  services that share a key, the provider and renewals bring in no other.
- `RenewedTokensAreAccepted`: the process that renewed a token refuses it only
  after its expiry. The times that `genTokenV2` keeps have been reached when the
  claims were accepted, and the process has one clock.

Properties of `Chain`, each said of the order in which the caller added things:

- `PanicsAreAnswered`: a panic is answered with an error of its own, and the
  process ends only by one that no recovery was added outside of.
- `AnswersAreLogged`: each logger that a call reached writes its line with the
  status the client is given, unless a panic crossed it.
- `SubjectIsLogged`: at most one logger names the user, the last one added before
  the authenticator; the lines about payloads never do.
- `BehindAuth`: no handler, and no payload line added after the authenticator,
  sees a call that was refused.

Properties of `FullTextIndex`: `NilIsTrue` (no error: the index was there, or
gone, at some moment of the call; a drop whose question failed is the
one exception, and reports success of an index it has not touched) and
`RefusalsHaveACause` (a statement refused for the name after a question that was
answered was overtaken by another process). Of an answer that is lost nothing
is required: the statement may have taken effect or not.

Properties of the helpers:

- `KeysAreCut`: `ParseKey` returns the longest AES key the bytes are enough for;
  `createGCM` fails for the same keys, never gives AES one that it refuses, and
  uses no less than the longest AES key that is shorter than what it was given.
  That the two do not agree on keys of 25 to 31 and over 32 bytes is in section 5.
- `PoolIsAsAsked`: the limits are those asked for, but an idle limit that `int`
  does not hold keeps no connection.
- `MapsAreJoined`: no order of iteration shows or loses an entry, unless a
  renamed key meets another; then some order does lose one.

### Fairness

`ServiceRun` assumes weak fairness of each goroutine's steps (`MainStep`,
`CloserStep`, `GServeStep`: Go schedules a goroutine that can run), of `Connect`
(grpc reconnects by itself) and of each call's steps (a handler that was called
returns). Nothing makes requests, signals, cancellations or failures of a
listener happen, and between success and failure of a system call either may be
taken. The fairness of calls is an assumption about the handlers of a
user: `GracefulStop` has no deadline, so a handler that never returns keeps the
service from stopping, and the shutdown timeout does not start to run. The
two liveness properties except a process that ended by a panic. The other
modules have no fairness; their properties are safety properties.

## 4. What is proved

TLAPS proves, for any sets of calls, users, groups, keys, requests, interceptors,
options and processes, with and without TLS, from the named
assumptions on the constants:

| module | theorem | statement |
|---|---|---|
| `ServiceRunProofs` | `TypeCorrect` | `Spec => []TypeOK` |
| | `NoSenderBlocks` | `Spec => []SendersNeverBlock` |
| | `Released` | `Spec => []ReleasedOnReturn` |
| | `RPCsBeforeHTTP` | `Spec => []HTTPShutsDownAfterRPCs` |
| | `CleanStopCutsNothing` | `Spec => []CutOnlyOnFailure` |
| | `ServeErrReturned` | `Spec => ServeErrNeverMasked` |
| | `HTTPImplementsEndpoint`, `GRPCImplementsEndpoint` | `Spec => HTTPIsEndpoint`, `Spec => GRPCIsEndpoint` |
| | `RunImplementsLife` | `Spec => RunKeepsLife` |
| `ServiceConfigProofs` | `TypeCorrect` | `Spec => []TypeOK` |
| | `DialledForTheGateway` | `Spec => GatewayConnUsable` |
| | `NeverServedDisconnected` | `Spec => []ConnOpenWhileServing` |
| | `FirstMiddlewareOutermost` | `Spec => MiddlewareOrder` |
| | `PointersFinal` | `Spec => PointersStable` |
| | `ServiceImplementsLife` | `Spec => ServiceKeepsLife` |
| `AuthProofs` | `TypeCorrect` | `Spec => []TypeOK` |
| | `GrantsFollowTheStore` | `Spec => []GrantsAreCurrent` |
| | `OnlyIssuedIdentities` | `Spec => []IdentitiesWereIssued` |
| | `RenewalIsEnough` | `Spec => []RenewedTokensAreAccepted` |
| `ChainProofs` | `TypeCorrect` | `Spec => []TypeOK` |
| | `PanicCostsItsCall` | `Spec => []PanicsAreAnswered` |
| | `StatusIsLogged` | `Spec => []AnswersAreLogged` |
| | `SubjectInOneLog` | `Spec => []SubjectIsLogged` |
| | `NothingBehindAuth` | `Spec => []BehindAuth` |
| `FullTextIndexProofs` | `TypeCorrect` | `Spec => []TypeOK` |
| | `SuccessIsTrue` | `Spec => []NilIsTrue` |
| | `RefusalsAreRaces` | `Spec => []RefusalsHaveACause` |
| `HelperProofs` | `AnyKeyIsCut` | `Spec => []KeysAreCut` |
| | `AnyPoolIsAsAsked` | `Spec => []PoolIsAsAsked` |
| | `AnyMapsAreJoined` | `Spec => []MapsAreJoined` |

These are all the invariants, action properties and refinements that the passing
runs check; what remains to TLC is liveness.

The argument for `ServiceRun`. None of the properties is inductive by itself, so
`IInv` adds what the code maintains implicitly:

- `CloserProgress` ties the place of the shutdown goroutine to `grpcQuit`,
  `inShutdown` and `shutdownErr`, which it alone writes;
- `RPCsGone` says no RPC is in a handler once `GracefulStop` is over: an RPC is
  admitted only while `grpcQuit` is false, and `DrainGRPC` waits for the others;
- `QueueBound` counts the values in `serverErr` by the senders that are done:
  that is why 2 is enough; `QueueContent` says who sent which value, before the
  HTTP shutdown, so that a failure reported by then is the first to be received;
- `ConnReady` and `StartedByMain` relate the connection and the servers to the
  goroutine that made them, `MainProgress` the listeners to the place of `run`;
- `CutsAreFailures` carries `CutOnlyOnFailure` from `CloseConn` to the end.

One step per action of `Next` preserves them. The three refinements use `IInv`
to show that each action is a step of the abstract module or leaves the mapped
variables alone; the interesting cases are `DrainGRPC` and `ServeFails`, where
the phase changes without a variable of the server changing.

The argument for `Auth`: `IInv` of `AuthProofs` says that the store's
groups for the user of a request are in `since` at every moment (`SinceCovers`),
that claims hold only groups of `since` (`ClaimsKnown`, because a parsed token
brings none), and that a grant, for a group or for an ID, was read off the claims
the request still has (`GrantsFromClaims`). A request carries a token of this
service or of another one (`CarriesKnown`); past authentication it is one of
`tokens`, signed with the key of the request and with no time ahead of the clock
(`Checked`), because a token of another service has another method or a key that
no request is checked with. For each token of this service `TokensAreOwn` says
what its maker knew: its ID was issued with its key or, if it was renewed, with
some key, and then it has the key of the API (`OwnToken`), and the times of a
renewed one have been reached (`RenewedInTime`). The first gives
`IdentitiesWereIssued`. `RenewedTokensAreAccepted` is kept by the step that
refuses: of a renewed token checked with the key of the API only the expiry is
left to fail.

The argument for `ServiceConfig`. Its `IInv` says, besides the type:

- `InitComesFirst`: before `initOnce` there is no connection, no built server and
  no run; after it there is a server, be it one of `ensureDefaults`;
- `BuiltAfterDial`: a built server has a connection that was dialled, because
  `initGRPC` dials first. With the next part this is `ConnOpenWhileServing`:
  an initialisation that panicked half way is never tried again, so what a
  retry serves without a connection is not built;
- `ClosedByRun`: only the end of the one run closes the connection;
- `ConnShape`: the connection is a record, and one that was dialled has
  interceptors.

`GatewayConnUsable` and `MiddlewareOrder` speak of steps. For the first the lemma
`DialledConn` computes what grpc makes of the options that `initGRPC` lines up: of
each field the last one counts (`LastOptionCounts`), and the service's come after
the caller's. For the second the lemma `ApplyIs` shows, by induction over the
number of middlewares, that the fold of `apply` calls all of them from the first
to the last, and `HandlerServed` that this is the handler of the step that begins
to serve.

`PointersStable` holds of every step that `IInv` allows because only `initGRPC`
replaces the server and the mux. `LifeStep` shows each action to be one of
`RunLife`; that `initGRPC` dials at most once follows from `InitComesFirst`.

The argument for `Chain` has two halves. The chain: `ShapeOf` says what the
adders make of a list of calls to them (each layer is one that its adder adds, it
is there once, in the order of the adders, and none is missing), and
`ShapeAfterAdder` that one more adder keeps it so. What `Chain` computes
from a chain then follows from the order of the adders: which tags a layer
writes into (`TagsAtIs`, `TagsOfZap`, `TagsOfPayload`) and what is outside of
what (`PlaceIsOrder`). The calls: `WayOK` ties the depth of a call to the tags
that the authenticator has set, `ResultOK` the result to the place at which
the call was turned back and to the recovery layers it has met on its way up,
`PayloadLinesOK`, `ZapLinesOK` and `ZapLinesWritten` its lines to the layers that
it has passed. `ZapLinesOK` alone is not inductive: a panic that is recovered
farther out changes the result, so no zap layer inside of that recovery may have
written, and `CameBack` says exactly which have. A step of one call leaves the
others alone (`UntouchedCall`), and `CrashCaused` explains a process that ended.

The argument for `FullTextIndex`: whoever waits has the present state of the
index in its history (`NowIsKnown`), and a statement is sent only after a state
that calls for it or after a question that failed (`SentForAReason`). An answer
is then judged against the history that the step before it left.

The helpers: each theorem is a lemma about an operator, for every
argument, and `InputsAreOK`, by which `MCHelpers` gives the operators only such
arguments. `KeysOfAnyLength` and `PoolsOfAnySize` (for an `int` of any width) are
case distinctions. `Join` is recursive over an order of
iteration: `OrderDoesNotShow` shows by induction over the entries read so far that
the result is `After`, in which the order does not occur, as long as no renamed
key meets another. If one does, `BadOrder` gives an order in which it comes to its
turn when the other is there already, and `SomethingLost` counts: each entry adds
one key at most, and that one adds none.

Induction. The library's induction theorems take an operator as a parameter,
which the installed provers do not instantiate. `NumberInduction` states
induction for *sets* of numbers instead, derived from the library's theorem
that the order of the naturals is well founded: a proof collects the numbers for
which its claim holds in a set and shows that it is all of `Nat`. With
it the recursive functions behind the folds are shown to exist (`WrappedExists`,
`JoinedExists`) and to have the values claimed.

The assumptions on constants are those named in the modules: the sets of calls of
`ServiceRun` are disjoint (`CallsAssumption`); the options of `ServiceConfig` are
of the kinds that the code tells apart (`ConfigAssumption`); the key of an API is
a key, "no user" and "no token" are none, a service that shares a key with this
one signs by another method, and the bounds are numbers (`AuthAssumption`); an `int` has at least two bits (`WidthAssumption`); the bounds of `MCHelpers` are numbers
(`BoundsAssumption`).

Only model-checked: `StopLeadsToRest` and `ServeGoroutineEnds`, because the prover
handles neither fairness nor ENABLED. The properties of the runs that expect a
violation (section 5) do not hold.

## 5. Where the code and its documents differ

| run | property | what happens |
|---|---|---|
| `RunBlocks` | `StartBlocksUntilStopped` | README.md:103 says that `Start` blocks until the service stops. `Serve` returns as soon as `Shutdown` *begins*; `run` finds nothing in `serverErr` yet and returns nil while requests are still being served. |
| `RunGateway` | `GatewayCallsSurvive` | With two ports, the gateway takes a request after gRPC has stopped. No connection is ready or becomes so; `Shutdown` makes `Serve` return, `run` returns nil and closes `clientConn` while HTTP still waits for the request, and its RPC fails, in a stop reported as clean. |
| `RunGraceful` | `ShutdownIsGraceful` | With TLS, RPCs are served through `ServeHTTP`; `GracefulStop` calls `Drain` on their transports, which panics. |
| `ConfigLost` | `RegistrationsServed` | doc.go:13-14 has services registered before `Initialize`. `initGRPC` then replaces the server and the mux. (run.go:237 says the opposite of doc.go.) |
| `ConfigBare` | `InterceptorsInstalled` | After a failed `Initialize` the `sync.Once` is done; a `Start` that is tried again serves the default server without any interceptor. |
| `HelpersKey` | `ParsedKeysAgree` | encryption.go:61 and 77 name 16, 24 and 32 as the lengths of a key. `createGCM` draws its boundaries one byte higher than `ParseKey`, and cuts 24 bytes to 16 and 32 to 24: of 25 to 31 bytes, or of more than 32, a side that parses its key and one that does not use different keys. |

One more difference was read and not run: auth.go:65 has `AuthorizeGroups` look for
the group in the token, but `Group` and `Roles` are tagged `json:"-"`
(jwt.go:18-19) and never get there, so without a provider every group is denied.
`Auth` models it (`GroupsInToken`), and `GrantsAreCurrent` relies on it.

## 6. What is not modelled

- The content of requests, metadata, certificates, log lines, templates and SQL:
  data that no property here looks at.
- Of `auth`: the lists of administrator groups, which only grow and are compared
  with a group as the groups of a call are, and the accessors of metadata.
- Of `conn`: the validation of the options, which reads them and nothing else;
  the lifetimes of connections, which are passed on as they are; the opening
  itself; the resolver prefix of an address.
- `GetClaimsFromJwt` of `auth`, which parses and keeps nothing, and a service
  that replaces the authenticator (`AuthFuncOverride` of `grpc_auth`).
- `utils/errs`: wrappers and constructors around `status.Error`, one or two
  branches each and no state.
- Stream interceptors: the code chains them like the unary ones. Their payloads
  are logged message by message, not around the call, so what `Chain` says of
  the payload lines holds of unary calls.
- A second `Start` while one is serving, which would wait in `runOnceFn`.
- Nil maps given to `JoinMap`: the first entry for a nil `map2` panics.
- Configuring a service from several goroutines at once. The adders take no
  lock, so it is a data race of the caller; no document shows it.
- `logger.go`, `zaplogger`, `dbutil/{err,query}.go`, `tlsutil`, `templateutil`,
  `mdutil` and `hashid.go`: one call, or formatting, without state that
  changes once it is there.

## 7. Plan

In this order; items 1 to 4 are the state of this directory.

1. `Endpoint`, `ServiceRun` with its proofs; `ServiceConfig`; `Auth` with its
   proofs. Done.
2. `RunLife`, which joins `ServiceRun` and `ServiceConfig`, with the proof for
   `ServiceRun`; `AuthorizeIds` in `Auth` and its proofs. Done.
3. `Chain`, `FullTextIndex` and the pure helpers. Done.
4. `ServiceConfigProofs`, `ChainProofs`, `FullTextIndexProofs`, `HelperProofs` and
   the induction they need. Done.
5. The safety parts of the two liveness properties, as theorems about
   `ServiceRun`: in which states a goroutine may wait, and for whom. What is not
   modelled (section 6) comes after that.
