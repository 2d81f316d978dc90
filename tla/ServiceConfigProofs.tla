------------------------ MODULE ServiceConfigProofs ------------------------
(***************************************************************************)
(* Proofs about ServiceConfig, for any lists, options and registrations:   *)
(* what apply makes of a handler, what a dialled connection is, an         *)
(* inductive invariant, the properties that follow from it, and the        *)
(* refinement of RunLife.                                                  *)
(***************************************************************************)
EXTENDS ServiceConfig, SequenceTheorems, NumberInduction

(* What apply makes of a handler (run.go:66-75).  Wrapped is the recursive *)
(* function that the fold of Apply stands for.                             *)

Wrapped(iter, h, ms) ==
    [s \in SUBSET DOMAIN ms |->
        IF s = {} THEN h ELSE <<ms[Min(s)]>> \o iter[s \ {Min(s)}]]

LEMMA MinIsLeast ==
  ASSUME NEW s, s \subseteq Nat, s # {}
  PROVE  Min(s) \in s /\ \A y \in s : Min(s) <= y
  BY LeastNumber DEF Min

\* Leaving out the least of k .. n leaves numbers of k + 1 .. n.
LEMMA WithoutMin ==
  ASSUME NEW k \in Nat, NEW n \in Nat, NEW s \in SUBSET (k .. n), s # {}
  PROVE  s \ {Min(s)} \in SUBSET (k + 1 .. n)
  <1>1. s \subseteq Nat
    OBVIOUS
  <1>2. Min(s) \in s /\ \A y \in s : Min(s) <= y
    BY <1>1, MinIsLeast
  <1>3. ASSUME NEW y \in s \ {Min(s)}
        PROVE  y \in k + 1 .. n
    <2>1. y \in k .. n /\ Min(s) \in k .. n /\ Min(s) <= y /\ y # Min(s)
      BY <1>2
    <2>2. QED
      BY <2>1
  <1>4. QED
    BY <1>3

\* Such a function exists: it is built for the subsets of k .. n, from n down.
LEMMA WrappedExists ==
  ASSUME NEW U, NEW ms \in Seq(U), NEW h
  PROVE  \E iter : iter = Wrapped(iter, h, ms)
  <1> DEFINE n == Len(ms)
             Step(g, s) == IF s = {} THEN h ELSE <<ms[Min(s)]>> \o g[s \ {Min(s)}]
             Upto(k, g) == g = [s \in SUBSET (k .. n) |-> Step(g, s)]
             S == {k \in 1 .. n + 1 : \E g : Upto(k, g)}
  <1>1. n \in Nat
    BY LenProperties
  <1>2. DOMAIN ms = 1 .. n
    BY LenProperties
  <1> HIDE DEF n
  <1>3. n + 1 \in S
    <2>1. n + 1 \in 1 .. n + 1
      BY <1>1
    <2>2. SUBSET (n + 1 .. n) = {{}}
      <3>1. n + 1 .. n = {}
        BY <1>1
      <3>2. QED
        BY <3>1
    <2> DEFINE g == [s \in {{}} |-> h]
    <2>3. g = [s \in {{}} |-> Step(g, s)]
      BY Zenon
    <2>4. Upto(n + 1, g)
      BY <2>2, <2>3, Zenon
    <2>5. QED
      BY <2>1, <2>4, Zenon
  <1>4. ASSUME NEW k \in 1 .. n, k + 1 \in S
        PROVE  k \in S
    <2>1. PICK g : Upto(k + 1, g)
      BY <1>4, Zenon
    <2> DEFINE f == [s \in SUBSET (k .. n) |-> Step(g, s)]
    <2>2. ASSUME NEW s \in SUBSET (k .. n), s # {}
          PROVE  s \ {Min(s)} \in SUBSET (k + 1 .. n)
      <3>1. k \in Nat
        BY <1>1
      <3>2. QED
        BY <1>1, <2>2, <3>1, WithoutMin, Zenon
    <2>3. ASSUME NEW s \in SUBSET (k + 1 .. n)
          PROVE  s \in SUBSET (k .. n) /\ f[s] = g[s]
      <3>1. k + 1 .. n \subseteq k .. n
        BY <1>1
      <3>2. s \in SUBSET (k .. n)
        BY <3>1
      <3>3. g[s] = Step(g, s)
        BY <2>1, Zenon
      <3>4. QED
        BY <3>2, <3>3, Zenon
    <2>4. ASSUME NEW s \in SUBSET (k .. n)
          PROVE  Step(g, s) = Step(f, s)
      BY <2>2, <2>3, Zenon
    <2>5. Upto(k, f)
      BY <2>4, Zenon
    <2>6. k \in 1 .. n + 1
      BY <1>1
    <2>7. QED
      BY <2>5, <2>6, Zenon
  <1>5. 1 \in S
    <2> HIDE DEF S
    <2>1. 1 \in 1 .. n + 1
      BY <1>1
    <2>2. QED
      BY <1>1, <1>3, <1>4, <2>1, DownwardInduction
  <1>6. QED
    BY <1>2, <1>5, Zenon DEF Wrapped

\* The first middleware is the outermost, whatever the handler.
LEMMA ApplyIs ==
  ASSUME NEW U, NEW ms \in Seq(U), NEW h \in Seq(U)
  PROVE  Apply(h, ms) = ms \o h
  <1> DEFINE n == Len(ms)
             iter == CHOOSE f : f = Wrapped(f, h, ms)
             S == {k \in 1 .. n + 1 : iter[k .. n] = SubSeq(ms, k, n) \o h}
  <1>1. n \in Nat
    BY LenProperties
  <1>2. DOMAIN ms = 1 .. n
    BY LenProperties
  <1>3. iter = Wrapped(iter, h, ms)
    BY WrappedExists, Zenon
  <1>4. Apply(h, ms) = iter[1 .. n]
    BY <1>2 DEF Apply, FoldRight, MapThenFoldSet, Wrapped
  <1> HIDE DEF n, iter
  <1>5. ASSUME NEW s \in SUBSET (1 .. n)
        PROVE  iter[s] = IF s = {} THEN h ELSE <<ms[Min(s)]>> \o iter[s \ {Min(s)}]
    BY <1>2, <1>3, Zenon DEF Wrapped
  <1>6. n + 1 \in S
    <2>1. n + 1 .. n = {} /\ n + 1 \in 1 .. n + 1
      BY <1>1
    <2>2. SubSeq(ms, n + 1, n) = <<>>
      BY <1>1, SubSeqEmpty
    <2>3. <<>> \o h = h
      BY ConcatEmptySeq
    <2>4. QED
      BY <1>5, <2>1, <2>2, <2>3
  <1>7. ASSUME NEW k \in 1 .. n, k + 1 \in S
        PROVE  k \in S
    <2>1. k \in k .. n /\ k .. n \subseteq 1 .. n
      BY <1>1
    <2>2. k .. n # {} /\ k .. n \subseteq Nat
      <3>1. k .. n # {}
        BY <2>1
      <3>2. QED
        BY <1>1, <3>1
    <2>3. Min(k .. n) = k
      <3>1. Min(k .. n) \in k .. n /\ Min(k .. n) <= k
        BY <2>1, <2>2, MinIsLeast
      <3>2. QED
        BY <1>1, <3>1
    <2>4. (k .. n) \ {k} = k + 1 .. n
      BY <1>1
    <2>5. iter[k .. n] = <<ms[k]>> \o iter[k + 1 .. n]
      BY <1>5, <2>1, <2>2, <2>3, <2>4
    <2>6. iter[k + 1 .. n] = SubSeq(ms, k + 1, n) \o h
      BY <1>7
    <2>7. SubSeq(ms, k, n) = <<ms[k]>> \o SubSeq(ms, k + 1, n)
      BY <1>1, SubSeqRecursiveFirst DEF n
    <2>8. <<ms[k]>> \in Seq(U) /\ SubSeq(ms, k + 1, n) \in Seq(U)
      <3>1. ms[k] \in U /\ \A i \in k + 1 .. n : ms[i] \in U
        BY <1>1, ElementOfSeq DEF n
      <3>2. QED
        BY <1>1, <3>1, SubSeqProperties
    <2>9. \A t \in Seq(U) : <<ms[k]>> \o (t \o h) = (<<ms[k]>> \o t) \o h
      <3> DEFINE one == <<ms[k]>>
      <3>1. one \in Seq(U)
        BY <2>8
      <3> HIDE DEF one
      <3>2. ASSUME NEW t \in Seq(U)
            PROVE  one \o (t \o h) = (one \o t) \o h
        BY <3>1, <3>2, ConcatAssociative, SMTT(30)
      <3>3. QED
        BY <3>2, Zenon DEF one
    <2>10. k \in 1 .. n + 1
      BY <1>1
    <2>11. <<ms[k]>> \o (SubSeq(ms, k + 1, n) \o h) =
             (<<ms[k]>> \o SubSeq(ms, k + 1, n)) \o h
      BY <2>8, <2>9, Zenon
    <2>12. iter[k .. n] = SubSeq(ms, k, n) \o h
      BY <2>5, <2>6, <2>7, <2>11, Zenon
    <2>13. QED
      BY <2>10, <2>12, Zenon
  <1>8. 1 \in S
    <2> HIDE DEF S
    <2>1. 1 \in 1 .. n + 1
      BY <1>1
    <2>2. QED
      BY <1>1, <1>6, <1>7, <2>1, DownwardInduction
  <1>9. SubSeq(ms, 1, n) = ms
    BY SubSeqFull DEF n
  <1>10. QED
    BY <1>4, <1>8, <1>9

-----------------------------------------------------------------------------
(* Sequences and the connection.                                           *)

\* Of the options that set a field the last one counts.
LEMMA LastOptionCounts ==
  ASSUME NEW U, NEW opts \in Seq(U), NEW field, NEW i \in 1 .. Len(opts),
         opts[i].set = field,
         \A j \in i + 1 .. Len(opts) : opts[j].set # field
  PROVE  Effective(opts, field) = opts[i].to
  <1> DEFINE S == {j \in DOMAIN opts : opts[j].set = field}
  <1>1. S \subseteq Nat /\ i \in S /\ \A j \in S : i >= j
    BY LenProperties
  <1> HIDE DEF S
  <1>2. Max(S) = i
    <2>1. Max(S) \in S /\ \A j \in S : Max(S) >= j
      BY <1>1 DEF Max
    <2>2. Max(S) >= i /\ i >= Max(S) /\ Max(S) \in Nat /\ i \in Nat
      BY <1>1, <2>1
    <2>3. QED
      BY <2>2
  <1>3. QED
    BY <1>2 DEF Effective, S

Credentials == IF TLSEnabled THEN <<"tls">> ELSE <<"insecure">>
ClientChain == <<"waitForReady">> \o unaryClientInterceptors

ClientNames == {"user", "tls", "insecure", "waitForReady"} \cup ClientInts

LEMMA ClientChainType ==
  ASSUME unaryClientInterceptors \in Seq(ClientInts)
  PROVE  /\ ClientChain \in Seq({"waitForReady"} \cup ClientInts)
         /\ ClientChain \in Seq(ClientNames)
         /\ ClientChain # <<>> /\ Head(ClientChain) = "waitForReady"
         /\ Tail(ClientChain) = unaryClientInterceptors
  <1> DEFINE U == {"waitForReady"} \cup ClientInts
  <1>1. <<"waitForReady">> \in Seq(U) /\ unaryClientInterceptors \in Seq(U)
    BY SeqMonotonic
  <1>2. ClientChain \in Seq(U) /\ Len(ClientChain) = 1 + Len(unaryClientInterceptors)
        /\ ClientChain[1] = "waitForReady"
        /\ \A i \in 1 .. Len(unaryClientInterceptors) :
              ClientChain[i + 1] = unaryClientInterceptors[i]
    BY <1>1, ConcatProperties, LenProperties DEF ClientChain
  <1>3. ClientChain \in Seq(ClientNames)
    BY <1>2, SeqMonotonic DEF ClientNames
  <1>4. Len(unaryClientInterceptors) \in Nat
    BY LenProperties
  <1>5. ClientChain # <<>>
    BY <1>2, <1>4, EmptySeq
  <1>6. Tail(ClientChain) = unaryClientInterceptors
    <2>1. Tail(ClientChain) \in Seq(U)
          /\ Len(Tail(ClientChain)) = Len(unaryClientInterceptors)
          /\ \A i \in 1 .. Len(Tail(ClientChain)) :
                Tail(ClientChain)[i] = ClientChain[i + 1]
      BY <1>2, <1>4, <1>5, HeadTailProperties
    <2>2. QED
      BY <1>1, <1>2, <2>1, SeqEqual
  <1>7. QED
    BY <1>2, <1>3, <1>5, <1>6

LEMMA CredentialsType == Credentials \in Seq(ClientNames)
  <1>1. <<"tls">> \in Seq(ClientNames) /\ <<"insecure">> \in Seq(ClientNames)
    BY DEF ClientNames
  <1>2. QED
    BY <1>1, Zenon DEF Credentials

LEMMA InitDialOptionsType ==
  ASSUME dialOptions \in Seq(Options), unaryClientInterceptors \in Seq(ClientInts)
  PROVE  InitDialOptions \in Seq(Options)
  <1>1. Option("creds", Credentials) \in Options
        /\ Option("unaryInt", ClientChain) \in Options
    BY CredentialsType, ClientChainType DEF Option, Options, ClientNames
  <1>2. <<Option("creds", Credentials), Option("unaryInt", ClientChain)>>
           \in Seq(Options)
    BY <1>1
  <1>3. QED
    BY <1>2, ConcatProperties DEF InitDialOptions, Credentials, ClientChain

\* Whatever a caller passed, the connection has the credentials and the
\* interceptors of initGRPC.
LEMMA DialledConn ==
  ASSUME dialOptions \in Seq(Options), unaryClientInterceptors \in Seq(ClientInts)
  PROVE  DialGrpcService(InitDialOptions) =
            [state |-> "open", ints |-> ClientChain, creds |-> Credentials]
  <1> DEFINE first == <<Option("unaryInt", <<"waitForReady">>)>>
             last == <<Option("creds", Credentials), Option("unaryInt", ClientChain)>>
             n == Len(dialOptions)
             all == first \o InitDialOptions
  <1>1. n \in Nat
    BY LenProperties
  <1>2. <<"waitForReady">> \in Seq(ClientNames)
    BY DEF ClientNames
  <1>3. first \in Seq(Options) /\ last \in Seq(Options) /\ Len(first) = 1
        /\ Len(last) = 2
    BY <1>2, CredentialsType, ClientChainType DEF Option, Options, ClientNames
  <1>4. InitDialOptions = dialOptions \o last
    BY DEF InitDialOptions, Credentials, ClientChain
  <1>5. last[1] = Option("creds", Credentials)
        /\ last[2] = Option("unaryInt", ClientChain)
    OBVIOUS
  <1> HIDE DEF first, last, n
  <1>6. InitDialOptions \in Seq(Options) /\ Len(InitDialOptions) = n + 2
        /\ InitDialOptions[n + 1] = last[1] /\ InitDialOptions[n + 2] = last[2]
    <2>1. dialOptions \in Seq(Options) /\ n = Len(dialOptions)
      BY DEF n
    <2>2. InitDialOptions \in Seq(Options) /\ Len(InitDialOptions) = n + 2
          /\ \A i \in 1 .. n + 2 : InitDialOptions[i] =
                IF i <= n THEN dialOptions[i] ELSE last[i - n]
      <3>1. /\ dialOptions \o last \in Seq(Options)
            /\ Len(dialOptions \o last) = Len(dialOptions) + Len(last)
            /\ \A i \in 1 .. Len(dialOptions) + Len(last) :
                  (dialOptions \o last)[i] =
                    IF i <= Len(dialOptions) THEN dialOptions[i]
                                             ELSE last[i - Len(dialOptions)]
        BY <1>3, <2>1, ConcatProperties, Zenon
      <3>2. QED
        BY <1>3, <1>4, <2>1, <3>1
    <2>3. QED
      BY <1>1, <2>2
  <1>7. all \in Seq(Options) /\ Len(all) = n + 3
        /\ all[n + 2] = last[1] /\ all[n + 3] = last[2]
    <2>1. all \in Seq(Options) /\ Len(all) = 1 + (n + 2)
          /\ \A i \in 1 .. 1 + (n + 2) : all[i] =
                IF i <= 1 THEN first[i] ELSE InitDialOptions[i - 1]
      <3>1. /\ all \in Seq(Options)
            /\ Len(all) = Len(first) + Len(InitDialOptions)
            /\ \A i \in 1 .. Len(first) + Len(InitDialOptions) : all[i] =
                  IF i <= Len(first) THEN first[i]
                                     ELSE InitDialOptions[i - Len(first)]
        BY <1>3, <1>6, ConcatProperties, Zenon
      <3>2. QED
        BY <1>3, <1>6, <3>1
    <2> HIDE DEF all
    <2>2. all[n + 2] = InitDialOptions[(n + 2) - 1]
          /\ all[n + 3] = InitDialOptions[(n + 3) - 1]
      BY <1>1, <2>1
    <2>3. QED
      BY <1>1, <1>6, <2>1, <2>2
  <1> HIDE DEF all
  <1>8. all[n + 2] = [set |-> "creds", to |-> Credentials]
        /\ all[n + 3] = [set |-> "unaryInt", to |-> ClientChain]
    BY <1>5, <1>7 DEF Option
  <1>9. Effective(all, "unaryInt") = ClientChain
    <2>1. n + 3 \in 1 .. Len(all) /\ (n + 3) + 1 .. Len(all) = {}
      BY <1>1, <1>7
    <2>2. all[n + 3].set = "unaryInt" /\ all[n + 3].to = ClientChain
      BY <1>8
    <2>3. \A j \in (n + 3) + 1 .. Len(all) : all[j].set # "unaryInt"
      BY <2>1
    <2>4. QED
      BY <1>7, <2>1, <2>2, <2>3, LastOptionCounts
  <1>10. Effective(all, "creds") = Credentials
    <2>1. n + 2 \in 1 .. Len(all) /\ (n + 2) + 1 .. Len(all) = {n + 3}
      BY <1>1, <1>7
    <2>2. \A j \in (n + 2) + 1 .. Len(all) : all[j].set # "creds"
      BY <1>8, <2>1
    <2>3. all[n + 2].set = "creds" /\ all[n + 2].to = Credentials
      BY <1>8
    <2>4. QED
      BY <1>7, <2>1, <2>2, <2>3, LastOptionCounts
  <1>11. QED
    BY <1>9, <1>10, Zenon DEF DialGrpcService, all, first

-----------------------------------------------------------------------------
(* The inductive invariant.                                                *)

\* The connection is a record, and one that was dialled has interceptors.
ConnShape ==
    /\ clientConn \in [state : {"none", "open", "closed"},
                       ints : Seq({"waitForReady"} \cup ClientInts),
                       creds : Seq({"tls", "insecure"})]
    /\ clientConn.state # "none" => clientConn.ints # <<>>

\* Before initOnce there is nothing to run, and a server after it.
InitComesFirst ==
    /\ ~initOnce => /\ clientConn = NoConn
                    /\ gRPCServer # "built"
                    /\ phase = "idle"
                    /\ ~runOnce
    /\ initOnce => gRPCServer # "none"

\* A server is built after its service is dialled.
BuiltAfterDial == gRPCServer = "built" => clientConn.state # "none"

\* Only the end of the one run closes the connection.
ClosedByRun ==
    /\ phase = "running" => runOnce
    /\ clientConn.state = "closed" => runOnce /\ phase # "running"

IInv ==
    /\ TypeOK
    /\ ConnShape
    /\ InitComesFirst
    /\ BuiltAfterDial
    /\ ClosedByRun

LEMMA IInvInit == Init => IInv
  <1> SUFFICES ASSUME Init
               PROVE  IInv
    OBVIOUS
  <1>1. /\ <<>> \in Seq(Interceptors) /\ <<>> \in Seq(ClientInts)
        /\ <<>> \in Seq(Options) /\ <<>> \in Seq(Middlewares)
        /\ <<>> \in Seq(ServerOptions \cup {"serverCreds", "chain"})
        /\ <<>> \in Seq(Middlewares \cup {"mux"})
        /\ <<>> \in Seq({"waitForReady"} \cup ClientInts)
        /\ <<>> \in Seq({"tls", "insecure"})
    BY EmptySeq
  <1>2. TypeOK
    BY <1>1 DEF Init, TypeOK, NoConn, Servers, Muxes
  <1>3. ConnShape
    BY <1>1 DEF Init, ConnShape, NoConn
  <1>4. InitComesFirst /\ BuiltAfterDial /\ ClosedByRun
    BY DEF Init, InitComesFirst, BuiltAfterDial, ClosedByRun, NoConn
  <1>6. QED
    BY <1>2, <1>3, <1>4 DEF IInv

-----------------------------------------------------------------------------
(* The adders and the getters.                                             *)

\* What ensureDefaults leaves as it was.
LEMMA EnsureDefaultsKeeps ==
  ASSUME IInv, EnsureDefaults, UNCHANGED options
  PROVE  /\ InitComesFirst' /\ BuiltAfterDial' /\ ClosedByRun'
         /\ ConnShape'
         /\ gRPCServer' \in Servers \ {"none"}
  BY DEF IInv, EnsureDefaults, EnsuredServer, InitComesFirst, BuiltAfterDial,
         ClosedByRun, ConnShape, TypeOK, Servers

LEMMA ConfigureKeeps ==
  ASSUME IInv, Configure, UNCHANGED options
  PROVE  IInv'
  <1> USE DEF lists, built, user
  <1>1. ASSUME EnsureDefaults, UNCHANGED user,
               \/ AddGRPCUnaryServerInterceptors
               \/ AddGRPCUnaryClientInterceptors
               \/ AddGRPCDialOptions
               \/ AddGRPCServerOptions
               \/ AddHTTPMiddlewares
        PROVE  IInv'
    <2>1. /\ unaryInterceptors' \in Seq(Interceptors)
          /\ unaryClientInterceptors' \in Seq(ClientInts)
          /\ dialOptions' \in Seq(Options)
          /\ serverOptions' \in Seq(ServerOptions \cup {"serverCreds", "chain"})
          /\ httpMiddlewares' \in Seq(Middlewares)
      <3>1. CASE AddGRPCUnaryServerInterceptors
        BY <3>1, AppendProperties
           DEF AddGRPCUnaryServerInterceptors, AddTo, IInv, TypeOK
      <3>2. CASE AddGRPCUnaryClientInterceptors
        BY <3>2, AppendProperties
           DEF AddGRPCUnaryClientInterceptors, AddTo, IInv, TypeOK
      <3>3. CASE AddGRPCDialOptions
        <4>1. PICK fields \in UserDialOptions :
                 dialOptions' = dialOptions \o [i \in DOMAIN fields |->
                                                 Option(fields[i], <<"user">>)]
          BY <3>3, Zenon DEF AddGRPCDialOptions
        <4>2. fields \in Seq({"creds", "unaryInt", "block"})
          BY ConfigAssumption
        <4>3. <<"user">> \in Seq(ClientNames)
          BY DEF ClientNames
        <4>4. \A f \in {"creds", "unaryInt", "block"} :
                 Option(f, <<"user">>) \in Options
          BY <4>3 DEF Option, Options, ClientNames
        <4> DEFINE opts == [i \in DOMAIN fields |-> Option(fields[i], <<"user">>)]
        <4>5. opts \in Seq(Options)
          <5>1. DOMAIN fields = 1 .. Len(fields) /\ Len(fields) \in Nat
            BY <4>2, LenProperties
          <5>2. \A i \in 1 .. Len(fields) : opts[i] \in Options
            BY <4>2, <4>4, <5>1, ElementOfSeq
          <5>3. QED
            BY <5>1, <5>2
        <4> HIDE DEF opts
        <4>6. dialOptions' \in Seq(Options)
          BY <4>1, <4>5, ConcatProperties DEF IInv, TypeOK, opts
        <4>7. QED
          BY <3>3, <4>6 DEF AddGRPCDialOptions, IInv, TypeOK
      <3>4. CASE AddGRPCServerOptions
        BY <3>4, AppendProperties DEF AddGRPCServerOptions, AddTo, IInv, TypeOK
      <3>5. CASE AddHTTPMiddlewares
        BY <3>5, AppendProperties DEF AddHTTPMiddlewares, AddTo, IInv, TypeOK
      <3>6. QED
        BY <1>1, <3>1, <3>2, <3>3, <3>4, <3>5
    <2>2. TypeOK'
      BY <1>1, <2>1, EnsureDefaultsKeeps DEF EnsureDefaults, IInv, TypeOK
    <2>6. QED
      BY <1>1, <2>2, EnsureDefaultsKeeps DEF IInv
  <1>2. CASE GRPCServer \/ RuntimeMux
    <2>1. EnsureDefaults /\ UNCHANGED <<lists, registered>>
      BY <1>2 DEF GRPCServer, RuntimeMux
    <2>2. EnsuredServer \in Servers \ {"none"} /\ runtimeMux \in Muxes
      BY DEF EnsuredServer, IInv, TypeOK, Servers
    <2>3. held' \subseteq (Servers \cup Muxes) \ {"none"} /\ held \subseteq held'
      BY <1>2, <2>2 DEF GRPCServer, RuntimeMux, IInv, TypeOK, Muxes
    <2>4. TypeOK'
      BY <2>1, <2>3, EnsureDefaultsKeeps DEF EnsureDefaults, IInv, TypeOK
    <2>7. QED
      BY <2>1, <2>4, EnsureDefaultsKeeps DEF IInv
  <1>3. CASE AddEndpoint \/ Register
    <2>1. UNCHANGED <<lists, built, held, initOnce, early, runOnce, phase, handler,
                      served>>
      BY <1>3 DEF AddEndpoint, Register
    <2>2. httpMux' \subseteq Patterns \cup {MuxEndpoint}
          /\ registered' \subseteq (Services \cup Handlers) \X held
      BY <1>3 DEF AddEndpoint, Register, IInv, TypeOK
    <2>3. TypeOK'
      BY <2>1, <2>2 DEF IInv, TypeOK
    <2>5. QED
      BY <2>1, <2>3 DEF IInv, ConnShape, InitComesFirst, BuiltAfterDial, ClosedByRun
  <1>4. QED
    BY <1>1, <1>2, <1>3
       DEF Configure, AddGRPCUnaryServerInterceptors, AddGRPCUnaryClientInterceptors,
           AddGRPCDialOptions, AddGRPCServerOptions, AddHTTPMiddlewares

-----------------------------------------------------------------------------
(* The initialisation.                                                     *)

\* What becomes of the lists and the connection, whatever fails.
LEMMA InitGRPCResult ==
  ASSUME IInv, NEW fails \in BOOLEAN, InitGRPC(fails)
  PROVE  /\ ~initOnce /\ initOnce'
         /\ UNCHANGED <<unaryInterceptors, unaryClientInterceptors, httpMiddlewares>>
         /\ early' = unaryInterceptors
         /\ runtimeMux' = "second"
         /\ dialOptions' \in Seq(Options)
         /\ serverOptions' \in Seq(ServerOptions \cup {"serverCreds", "chain"})
         /\ chain' \in Seq(Interceptors)
         /\ gRPCServer' \in Servers \ {"none"}
         /\ \/ UNCHANGED clientConn /\ gRPCServer' # "built"
            \/ clientConn' = [state |-> "open", ints |-> ClientChain,
                              creds |-> Credentials]
  <1>1. /\ unaryInterceptors \in Seq(Interceptors)
        /\ unaryClientInterceptors \in Seq(ClientInts)
        /\ dialOptions \in Seq(Options)
        /\ serverOptions \in Seq(ServerOptions \cup {"serverCreds", "chain"})
        /\ chain \in Seq(Interceptors)
        /\ gRPCServer \in Servers
    BY DEF IInv, TypeOK
  <1>2. InitDialOptions \in Seq(Options)
    BY <1>1, InitDialOptionsType
  <1>3. OptionsToBuild \in Seq(ServerOptions \cup {"serverCreds", "chain"})
    <2> DEFINE O == ServerOptions \cup {"serverCreds", "chain"}
    <2>1. <<"serverCreds">> \in Seq(O) /\ <<"chain">> \in Seq(O)
      OBVIOUS
    <2>2. (IF TLSEnabled /\ serverOptions = <<>> THEN <<"serverCreds">>
                                                 ELSE serverOptions) \in Seq(O)
      BY <1>1, <2>1, Zenon
    <2>3. QED
      BY <2>1, <2>2, ConcatProperties DEF OptionsToBuild
  <1>4. ~initOnce /\ initOnce' /\ early' = unaryInterceptors /\ runtimeMux' = "second"
    BY DEF InitGRPC, MustInit
  <1>5. gRPCServer # "built" /\ clientConn = NoConn
    BY <1>4 DEF IInv, InitComesFirst
  <1>6. EnsuredServer \in Servers \ {"none", "built"}
    BY <1>1, <1>5 DEF EnsuredServer, Servers
  <1>7. CASE NoCredentials
    BY <1>1, <1>4, <1>6, <1>7 DEF NoCredentials, lists
  <1>8. CASE DialFails
    BY <1>1, <1>2, <1>4, <1>5, <1>6, <1>8 DEF DialFails
  <1>9. CASE Dialled /\ (NoServerCredentials \/ NewServerPanics \/ ServerBuilt)
    <2>1. dialOptions' = InitDialOptions
          /\ clientConn' = DialGrpcService(InitDialOptions)
          /\ UNCHANGED <<unaryInterceptors, unaryClientInterceptors, httpMiddlewares>>
      BY <1>9 DEF Dialled
    <2>2. clientConn' = [state |-> "open", ints |-> ClientChain,
                         creds |-> Credentials]
      BY <1>1, <2>1, DialledConn
    <2>3. /\ serverOptions' \in Seq(ServerOptions \cup {"serverCreds", "chain"})
          /\ chain' \in Seq(Interceptors)
          /\ gRPCServer' \in Servers \ {"none"}
      BY <1>1, <1>3, <1>6, <1>9
         DEF NoServerCredentials, NewServerPanics, ServerBuilt, Servers
    <2>4. QED
      BY <1>2, <1>4, <2>1, <2>2, <2>3
  <1>10. QED
    BY <1>7, <1>8, <1>9 DEF InitGRPC, NoServerCredentials, NewServerPanics, ServerBuilt

\* initGRPC keeps the invariant, whatever becomes of the caller.
LEMMA InitKeeps ==
  ASSUME IInv, NEW fails \in BOOLEAN, InitGRPC(fails),
         UNCHANGED <<options, user, httpMux, runOnce, handler>>,
         phase' \in {"idle", "initFn"}, served' \in {"no", "yes", "nil", "panic"}
  PROVE  IInv'
  <1>1. /\ ~initOnce /\ initOnce'
        /\ clientConn = NoConn /\ ~runOnce /\ ~runOnce'
        /\ unaryClientInterceptors' \in Seq(ClientInts)
        /\ UNCHANGED <<unaryClientInterceptors, httpMiddlewares, options, handler>>
    BY InitGRPCResult DEF IInv, InitComesFirst, TypeOK
  <1>2. TypeOK'
    <2>1. early' \in Seq(Interceptors) /\ runtimeMux' \in Muxes
          /\ gRPCServer' \in Servers
      BY InitGRPCResult DEF IInv, TypeOK, Muxes
    <2>2. clientConn'.state \in {"none", "open", "closed"}
      BY InitGRPCResult, <1>1 DEF NoConn
    <2>3. QED
      BY InitGRPCResult, <2>1, <2>2 DEF IInv, TypeOK, user
  <1>3. CASE UNCHANGED clientConn /\ gRPCServer' # "built"
    <2>1. clientConn'.state = "none"
      BY <1>1, <1>3 DEF NoConn
    <2>2. ConnShape' /\ InitComesFirst' /\ BuiltAfterDial' /\ ClosedByRun'
      BY InitGRPCResult, <1>1, <1>3, <2>1
         DEF IInv, ConnShape, InitComesFirst, BuiltAfterDial, ClosedByRun
    <2>3. QED
      BY <1>2, <2>2 DEF IInv
  <1>4. CASE clientConn' = [state |-> "open", ints |-> ClientChain,
                            creds |-> Credentials]
    <2>1. unaryClientInterceptors \in Seq(ClientInts)
      BY <1>1
    <2>2. Credentials \in Seq({"tls", "insecure"})
      <3>1. <<"tls">> \in Seq({"tls", "insecure"})
            /\ <<"insecure">> \in Seq({"tls", "insecure"})
        OBVIOUS
      <3>2. QED
        BY <3>1, Zenon DEF Credentials
    <2>3. ConnShape' /\ InitComesFirst' /\ BuiltAfterDial' /\ ClosedByRun'
      BY InitGRPCResult, ClientChainType, <1>1, <1>4, <2>1, <2>2
         DEF ConnShape, InitComesFirst, BuiltAfterDial, ClosedByRun
    <2>4. QED
      BY <1>2, <2>3 DEF IInv
  <1>5. QED
    BY InitGRPCResult, <1>3, <1>4

\* A dial that waits for its own server.
LEMMA InitHangsKeeps ==
  ASSUME IInv, InitHangs, UNCHANGED options
  PROVE  IInv'
  <1>1. InitDialOptions \in Seq(Options)
    BY InitDialOptionsType DEF IInv, TypeOK
  <1>2. EnsuredServer \in Servers \ {"none", "built"}
    BY DEF IInv, TypeOK, InitComesFirst, InitHangs, MustInit, EnsuredServer, Servers
  <1>3. TypeOK'
    BY <1>1, <1>2 DEF InitHangs, IInv, TypeOK, user, Muxes
  <1>4. ConnShape' /\ InitComesFirst' /\ BuiltAfterDial' /\ ClosedByRun'
    BY <1>2 DEF InitHangs, MustInit, IInv, ConnShape, InitComesFirst, BuiltAfterDial,
                ClosedByRun, NoConn
  <1>5. QED
    BY <1>3, <1>4 DEF IInv

-----------------------------------------------------------------------------
(* Start and run.                                                          *)

\* What run serves.
LEMMA HandlerServed ==
  ASSUME httpMiddlewares \in Seq(Middlewares),
         handler' = Apply(<<"mux">>, httpMiddlewares)
  PROVE  /\ handler' \in Seq(Middlewares \cup {"mux"})
         /\ handler' = httpMiddlewares \o <<"mux">>
  <1> DEFINE U == Middlewares \cup {"mux"}
  <1>1. httpMiddlewares \in Seq(U) /\ <<"mux">> \in Seq(U)
    BY SeqMonotonic
  <1>2. handler' = httpMiddlewares \o <<"mux">>
    BY <1>1, ApplyIs
  <1>3. QED
    BY <1>1, <1>2, ConcatProperties

LEMMA LifecycleKeeps ==
  ASSUME IInv, Lifecycle, UNCHANGED options
  PROVE  IInv'
  <1> USE DEF lists, built, user
  <1>1. CASE Initialize
    <2>1. CASE AlreadyInit
      <3>1. UNCHANGED vars
        BY <1>1, <2>1 DEF AlreadyInit, Initialize, vars
      <3>2. QED
        BY <2>1, <3>1 DEF vars, IInv, TypeOK, ConnShape, InitComesFirst, BuiltAfterDial,
              ClosedByRun
    <2>2. QED
      BY <1>1, <2>1, InitKeeps DEF Initialize, IInv, TypeOK
  <1>2. CASE InitHangs
    BY <1>2, InitHangsKeeps
  <1>3. CASE Start
    <2>1. CASE AlreadyInit
      <3>1. phase' = "initFn" /\ served' = "no"
            /\ UNCHANGED <<lists, built, user, httpMux, initOnce, early, runOnce,
                           handler>>
        BY <1>3, <2>1 DEF AlreadyInit, Start, InitGRPC
      <3>2. initOnce
        BY <2>1 DEF AlreadyInit, MustInit
      <3>3. TypeOK' /\ ConnShape' /\ InitComesFirst' /\ BuiltAfterDial' /\ ClosedByRun'
        BY <3>1, <3>2 DEF IInv, TypeOK, ConnShape, InitComesFirst, BuiltAfterDial,
                  ClosedByRun
      <3>4. QED
        BY <3>3 DEF IInv
    <2>2. QED
      BY <1>3, <2>1, InitKeeps DEF Start
  <1>4. CASE InitFnFails \/ RunSkipped
    <2>1. phase = "initFn" /\ phase' = "idle" /\ served' \in {"panic", "nil"}
          /\ UNCHANGED <<lists, built, user, httpMux, initOnce, early, runOnce,
                           handler>>
      BY <1>4 DEF InitFnFails, RunSkipped
    <2>2. TypeOK' /\ ConnShape' /\ InitComesFirst' /\ BuiltAfterDial' /\ ClosedByRun'
      BY <2>1 DEF IInv, TypeOK, ConnShape, InitComesFirst, BuiltAfterDial,
                  ClosedByRun
    <2>3. QED
      BY <2>2 DEF IInv
  <1>5. CASE RunFails \/ RunEnds
    <2>1. /\ phase \in {"initFn", "running"} /\ phase' = "idle" /\ runOnce'
          /\ httpMux' \subseteq Patterns \cup {MuxEndpoint}
          /\ served' \in {"no", "yes", "nil", "panic"}
          /\ CloseClientConn
          /\ UNCHANGED <<lists, gRPCServer, runtimeMux, chain, user, initOnce, early,
                         handler>>
      BY <1>5 DEF RunFails, RunEnds, IInv, TypeOK, ClosedByRun
    <2>2. initOnce
      BY <2>1 DEF IInv, InitComesFirst
    <2>3. /\ clientConn' \in [state : {"none", "open", "closed"},
                               ints : Seq({"waitForReady"} \cup ClientInts),
                               creds : Seq({"tls", "insecure"})]
          /\ clientConn'.ints = clientConn.ints /\ clientConn'.creds = clientConn.creds
          /\ clientConn'.state = "none" <=> clientConn.state = "none"
      BY <2>1 DEF CloseClientConn, IInv, ConnShape
    <2>4. TypeOK'
      BY <2>1, <2>3 DEF IInv, TypeOK
    <2>5. ConnShape' /\ InitComesFirst' /\ BuiltAfterDial' /\ ClosedByRun'
      BY <2>1, <2>2, <2>3 DEF IInv, ConnShape, InitComesFirst, BuiltAfterDial,
                              ClosedByRun
    <2>6. QED
      BY <2>4, <2>5 DEF IInv
  <1>6. CASE RunServes
    <2>1. /\ phase = "initFn" /\ phase' = "running" /\ ~runOnce /\ runOnce'
          /\ httpMux' = httpMux \cup {MuxEndpoint}
          /\ served' = "yes"
          /\ handler' = Apply(<<"mux">>, httpMiddlewares)
          /\ UNCHANGED <<lists, built, user, initOnce, early>>
      BY <1>6 DEF RunServes, MustRun
    <2>2. handler' \in Seq(Middlewares \cup {"mux"})
      BY <2>1, HandlerServed DEF IInv, TypeOK
    <2>3. TypeOK'
      BY <2>1, <2>2 DEF IInv, TypeOK
    <2>4. ConnShape' /\ InitComesFirst' /\ BuiltAfterDial' /\ ClosedByRun'
      BY <2>1 DEF IInv, ConnShape, InitComesFirst, BuiltAfterDial, ClosedByRun
    <2>5. QED
      BY <2>3, <2>4 DEF IInv
  <1>7. QED
    BY <1>1, <1>2, <1>3, <1>4, <1>5, <1>6 DEF Lifecycle

LEMMA IInvStep == IInv /\ [Next]_vars => IInv'
  <1> SUFFICES ASSUME IInv, [Next]_vars
               PROVE  IInv'
    OBVIOUS
  <1>1. CASE UNCHANGED vars
    BY <1>1 DEF vars, lists, built, user, IInv, TypeOK, ConnShape, InitComesFirst,
                BuiltAfterDial, ClosedByRun
  <1>2. QED
    BY <1>1, ConfigureKeeps, LifecycleKeeps DEF Next

LEMMA Invariance == Spec => []IInv
  <1>1. QED
    BY IInvInit, IInvStep, PTL DEF Spec

-----------------------------------------------------------------------------
(* The theorems.                                                           *)

\* Whatever is added, initialised, started and retried in whatever order, the
\* fields of a service stay what their names say.
THEOREM TypeCorrect == Spec => []TypeOK
  BY Invariance, PTL DEF IInv

\* A connection that initGRPC dials has the credentials of the listener, waits for
\* a ready server and calls all the client interceptors that are there by then, in
\* their order, whatever dial options the caller gave; and whatever is added later
\* leaves it so (run.go:257-296).
THEOREM DialledForTheGateway == Spec => GatewayConnUsable
  <1>1. ASSUME IInv, Next
        PROVE  IF clientConn.state = "none" /\ clientConn'.state # "none"
                  THEN /\ clientConn'.creds = Credentials
                       /\ clientConn'.ints = ClientChain
                  ELSE UNCHANGED <<clientConn.creds, clientConn.ints>>
    <2>1. ASSUME NEW fails \in BOOLEAN, InitGRPC(fails)
          PROVE  \/ UNCHANGED clientConn
                 \/ /\ clientConn.state = "none"
                    /\ clientConn' = [state |-> "open", ints |-> ClientChain,
                                      creds |-> Credentials]
      BY <1>1, <2>1, InitGRPCResult DEF IInv, InitComesFirst, NoConn
    <2>2. CASE UNCHANGED clientConn
      BY <2>2
    <2>3. CASE \E fails \in BOOLEAN : InitGRPC(fails)
      BY <2>1, <2>2, <2>3
    <2>4. CASE CloseClientConn
      BY <1>1, <2>4 DEF CloseClientConn, IInv, ConnShape
    <2>5. CASE Configure
      BY <2>2, <2>5
         DEF Configure, AddGRPCUnaryServerInterceptors, AddGRPCDialOptions,
             AddGRPCUnaryClientInterceptors, AddGRPCServerOptions,
             AddHTTPMiddlewares, AddEndpoint, GRPCServer, RuntimeMux, Register,
             EnsureDefaults, built
    <2>6. CASE Lifecycle
      BY <2>2, <2>3, <2>4, <2>6
         DEF Lifecycle, Initialize, InitHangs, Start, InitFnFails, RunFails,
             RunServes, RunSkipped, RunEnds, AlreadyInit, built
    <2>7. QED
      BY <1>1, <2>5, <2>6 DEF Next
  <1>2. IInv /\ [Next]_vars
          => [IF clientConn.state = "none" /\ clientConn'.state # "none"
                 THEN /\ clientConn'.creds = (IF TLSEnabled THEN <<"tls">>
                                                           ELSE <<"insecure">>)
                      /\ clientConn'.ints =
                           <<"waitForReady">> \o unaryClientInterceptors
                 ELSE UNCHANGED <<clientConn.creds, clientConn.ints>>]_vars
    BY <1>1, Zenon DEF Credentials, ClientChain
  <1>3. QED
    BY <1>2, Invariance, PTL DEF Spec, GatewayConnUsable

\* A second Start, or one after an initialisation that panicked, neither serves
\* a built server without its connection nor closes the one in use (run.go:91,
\* 217).
THEOREM NeverServedDisconnected == Spec => []ConnOpenWhileServing
  <1>1. IInv => ConnOpenWhileServing
    BY DEF IInv, BuiltAfterDial, ClosedByRun, ConnShape, ConnOpenWhileServing
  <1>2. QED
    BY <1>1, Invariance, PTL

\* The handler that comes to be served is the mux inside of all the middlewares
\* that were there when run began, any number of them, the first one outermost,
\* and it stays so while the service runs (run.go:66-75, 100).
THEOREM FirstMiddlewareOutermost == Spec => MiddlewareOrder
  <1>1. IInv /\ [Next]_vars
          => [IF phase # "running" /\ phase' = "running"
                 THEN handler' = httpMiddlewares \o <<"mux">>
                 ELSE UNCHANGED handler]_vars
    <2> SUFFICES ASSUME IInv, Next
                 PROVE  IF phase # "running" /\ phase' = "running"
                           THEN handler' = httpMiddlewares \o <<"mux">>
                           ELSE UNCHANGED handler
      OBVIOUS
    <2>1. CASE RunServes
      <3>1. httpMiddlewares \in Seq(Middlewares)
        BY DEF IInv, TypeOK
      <3>2. QED
        BY <2>1, <3>1, HandlerServed DEF RunServes
    <2>2. CASE Configure
      <3>1. UNCHANGED <<phase, handler>>
        BY <2>2
           DEF Configure, AddGRPCUnaryServerInterceptors, AddGRPCDialOptions,
               AddGRPCUnaryClientInterceptors, AddGRPCServerOptions,
               AddHTTPMiddlewares, AddEndpoint, GRPCServer, RuntimeMux, Register,
               EnsureDefaults
      <3>2. QED
        BY <3>1
    <2>3. CASE \/ Initialize \/ InitHangs \/ Start \/ InitFnFails \/ RunFails
               \/ RunSkipped \/ RunEnds
      <3>1. UNCHANGED handler /\ (phase' # "running" \/ UNCHANGED phase)
        BY <2>3 DEF Initialize, InitHangs, Start, InitFnFails, RunFails, RunSkipped,
                    RunEnds
      <3>2. QED
        BY <3>1
    <2>4. QED
      BY <2>1, <2>2, <2>3 DEF Next, Lifecycle
  <1>2. QED
    BY <1>1, Invariance, PTL DEF Spec, MiddlewareOrder

\* What GRPCServer and RuntimeMux return after the one initialisation, be it one
\* that failed, is what every later call returns (run.go:245, 329).
THEOREM PointersFinal == Spec => PointersStable
  <1>1. IInv /\ [Next]_vars
          => [initOnce => UNCHANGED <<gRPCServer, runtimeMux>>]_vars
    <2> SUFFICES ASSUME IInv, Next, initOnce
                 PROVE  UNCHANGED <<gRPCServer, runtimeMux>>
      OBVIOUS
    <2>1. EnsuredServer = gRPCServer
      BY DEF IInv, InitComesFirst, EnsuredServer
    <2>2. CASE Configure
      BY <2>1, <2>2
         DEF Configure, AddGRPCUnaryServerInterceptors, AddGRPCDialOptions,
             AddGRPCUnaryClientInterceptors, AddGRPCServerOptions,
             AddHTTPMiddlewares, AddEndpoint, GRPCServer, RuntimeMux, Register,
             EnsureDefaults, built
    <2>3. CASE Lifecycle
      BY <2>3 DEF Lifecycle, Initialize, InitHangs, Start, InitFnFails, RunFails,
                  RunServes, RunSkipped, RunEnds, AlreadyInit, InitGRPC, MustInit,
                  built
    <2>4. QED
      BY <2>2, <2>3 DEF Next
  <1>2. QED
    BY <1>1, Invariance, PTL DEF Spec, PointersStable

\* What the one initialisation does to the connection: it dials it or not.
LEMMA InitDialsOnce ==
  ASSUME IInv, NEW fails \in BOOLEAN, InitGRPC(fails),
         UNCHANGED runOnce, phase' # "running"
  PROVE  Life!Next \/ UNCHANGED Life!vars
  <1>1. clientConn = NoConn /\ ~runOnce /\ phase = "idle"
    BY InitGRPCResult DEF IInv, InitComesFirst
  <1>2. UNCHANGED clientConn \/ clientConn'.state = "open"
    BY InitGRPCResult
  <1>3. QED
    BY <1>1, <1>2 DEF NoConn, RunStage, Life!Next, Life!Dial, Life!vars

LEMMA LifeStep == IInv /\ [Next]_vars => [Life!Next]_Life!vars
  <1> SUFFICES ASSUME IInv, [Next]_vars
               PROVE  Life!Next \/ UNCHANGED Life!vars
    OBVIOUS
  <1>1. CASE Configure
    BY <1>1 DEF Configure, AddGRPCUnaryServerInterceptors, AddGRPCDialOptions,
                AddGRPCUnaryClientInterceptors, AddGRPCServerOptions,
                AddHTTPMiddlewares, AddEndpoint, GRPCServer, RuntimeMux, Register,
                EnsureDefaults, built, Life!vars, RunStage
  <1>2. CASE Initialize
    <2>1. CASE AlreadyInit
      BY <1>2, <2>1 DEF Initialize, AlreadyInit, built, Life!vars, RunStage
    <2>2. ASSUME NEW fails \in BOOLEAN, InitGRPC(fails)
          PROVE  Life!Next \/ UNCHANGED Life!vars
      BY <1>2, <2>2, InitDialsOnce DEF Initialize
    <2>3. QED
      BY <1>2, <2>1, <2>2 DEF Initialize
  <1>3. CASE Start
    <2>1. CASE AlreadyInit
      BY <1>3, <2>1
         DEF Start, AlreadyInit, InitGRPC, built, Life!vars, RunStage
    <2>2. ASSUME NEW fails \in BOOLEAN, InitGRPC(fails)
          PROVE  Life!Next \/ UNCHANGED Life!vars
      BY <1>3, <2>2, InitDialsOnce DEF Start
    <2>3. QED
      BY <1>3, <2>1, <2>2 DEF Start
  <1>4. CASE InitHangs \/ InitFnFails \/ RunSkipped
    BY <1>4 DEF InitHangs, InitFnFails, RunSkipped, MustRun, built, Life!vars,
                RunStage, IInv, InitComesFirst
  <1>5. CASE RunServes
    BY <1>5 DEF RunServes, MustRun, built, RunStage, Life!Next, Life!Serve
  <1>6. CASE RunFails \/ RunEnds
    <2>1. clientConn'.state =
            IF clientConn.state = "open" THEN "closed" ELSE clientConn.state
      <3>1. clientConn' = IF clientConn.state = "open"
                             THEN [clientConn EXCEPT !.state = "closed"]
                             ELSE clientConn
        BY <1>6 DEF RunFails, RunEnds, CloseClientConn
      <3>2. QED
        BY <3>1 DEF IInv, ConnShape
    <2>2. RunStage # "over" /\ RunStage' = "over"
      BY <1>6 DEF RunFails, RunEnds, MustRun, RunStage, IInv, ClosedByRun
    <2>3. QED
      BY <2>1, <2>2 DEF Life!Next, Life!End
  <1>7. CASE UNCHANGED vars
    BY <1>7 DEF vars, built, Life!vars, RunStage
  <1>8. QED
    BY <1>1, <1>2, <1>3, <1>4, <1>5, <1>6, <1>7 DEF Next, Lifecycle

\* A service implements RunLife, the life that ServiceRun's goroutines implement
\* too: however often it is started, it runs once and its connection ends with
\* the run (run.go:43, 83-97, 217).
THEOREM ServiceImplementsLife == Spec => ServiceKeepsLife
  <1>1. Init => Life!Init
    BY DEF Init, NoConn, Life!Init, RunStage
  <1>2. QED
    BY <1>1, Invariance, LifeStep, PTL DEF Spec, ServiceKeepsLife, Life!Spec
=============================================================================
