-------------------------------- MODULE Auth --------------------------------
(***************************************************************************)
(* grpcauth (pkg/grpc/auth): tokens are generated, requests that carry one *)
(* are authenticated, completed with what the payload provider knows of    *)
(* the user, and authorised, any number of times for a stream, while time  *)
(* passes and the groups of a user change in the provider's store.         *)
(*                                                                         *)
(* A payload's Group and Roles are one set here: AuthorizeGroups accepts a *)
(* match in either.  The issuer and the audience are written into a token  *)
(* and never read, so tokens have none here.  jwt and the store are        *)
(* external.                                                               *)
(*                                                                         *)
(* An operator Name_Fault is Name with a fault that code like this could   *)
(* have; none is part of the specification.                                *)
(***************************************************************************)
EXTENDS Naturals, FiniteSets

CONSTANTS
    Users,        \* values of Payload.ID
    Groups,       \* values of Group and of the members of Roles
    Keys,         \* the keys of this service and of its replicas
    SigningKey,   \* the key of the API
    EmptyKey,     \* a key without bytes, which NewAPI does not refuse
    OtherKeys,    \* keys of other services
    Foreign,      \* tokens of other services
    OwnTimes,     \* IssuedAt and NotBefore in claims of a caller's own
    NoUser,       \* the empty ID
    NoToken,      \* no token in the metadata
    Requests,
    MaxTime,      \* bound: the clock stops here
    MaxTokens,    \* bound: tokens generated
    MaxSkew       \* how far the clock of another replica may be ahead

VARIABLES
    now,       \* the clock of the verifying process, in seconds
    provider,  \* payloadProvider is set
    store,     \* the groups of each user in the provider's store
    tokens,    \* the tokens that were generated
    issued,    \* history: the IDs somebody asked a token for, with the key
    pc,        \* where each request is
    token,     \* the token it carries
    key,       \* the key it is authenticated with
    parsedAt,  \* when its token was parsed
    claims,    \* the ID and the groups in its context, which are authorised
    asked,     \* the groups, or the IDs, its latest authorisation asked for
    verdict,   \* the outcome of that authorisation
    since      \* history: every group its user has had since it arrived

requests == <<pc, token, key, parsedAt, claims, asked, verdict, since>>
vars == <<now, provider, store, tokens, issued, requests>>

Ids == Users \cup {NoUser}

\* NewAPI knows one method of signing.
SigningMethod == "HS256"

\* ExpiresAt, IssuedAt and NotBefore are 0 when they are not set.  "groups" is
\* what the payload had when the token was generated; it is tagged json:"-".
\* "renewed" is history: the token was made from the claims of a request.
Tokens == [id : Ids, method : {SigningMethod, "other"}, key : Keys \cup OtherKeys,
           exp : 0 .. MaxTime, iat : 0 .. MaxTime + MaxSkew, nbf : 0 .. MaxTime,
           groups : SUBSET Groups, renewed : BOOLEAN]

\* A service that shares a key with this one signs by another method.
ASSUME AuthAssumption ==
    /\ SigningKey \in Keys
    /\ NoUser \notin Users
    /\ NoToken \notin Tokens
    /\ Keys \cap OtherKeys = {}
    /\ Foreign \subseteq Tokens
    /\ \A t \in Foreign : /\ t.method # SigningMethod \/ t.key \in OtherKeys
                          /\ ~t.renewed
    /\ OwnTimes \subseteq 0 .. MaxTime
    /\ MaxTime \in Nat \ {0} /\ MaxTokens \in Nat /\ MaxSkew \in Nat

TypeOK ==
    /\ now \in 1 .. MaxTime
    /\ provider \in BOOLEAN
    /\ store \in [Users -> SUBSET Groups]
    /\ tokens \subseteq Tokens
    /\ issued \subseteq Ids \X Keys
    /\ pc \in [Requests -> {"idle", "arrived", "loading", "ready",
                            "unauthenticated", "internal"}]
    /\ token \in [Requests -> Tokens \cup {NoToken}]
    /\ key \in [Requests -> Keys]
    /\ parsedAt \in [Requests -> 0 .. MaxTime]
    /\ claims \in [Requests -> [id : Ids, groups : SUBSET Groups]]
    /\ asked \in [Requests -> SUBSET (Groups \cup Ids)]
    /\ verdict \in [Requests -> {"none", "denied", "group", "id"}]
    /\ since \in [Requests -> SUBSET Groups]

NoClaims == [id |-> NoUser, groups |-> {}]

Init ==
    /\ now = 1
    /\ provider = FALSE
    /\ store \in [Users -> SUBSET Groups]
    /\ tokens = {}
    /\ issued = {}
    /\ pc = [r \in Requests |-> "idle"]
    /\ token = [r \in Requests |-> NoToken]
    /\ key = [r \in Requests |-> SigningKey]
    /\ parsedAt = [r \in Requests |-> 0]
    /\ claims = [r \in Requests |-> NoClaims]
    /\ asked = [r \in Requests |-> {}]
    /\ verdict = [r \in Requests |-> "none"]
    /\ since = [r \in Requests |-> {}]

\* claimsFromContext finds claims with a payload.
HasClaims(r) == pc[r] = "ready"

\* What the provider knows of a user.
Held(id) == IF id = NoUser THEN {} ELSE store[id]

-----------------------------------------------------------------------------
(* Generating tokens.                                                      *)

Generate(t, for) ==
    /\ Cardinality(tokens) < MaxTokens
    /\ tokens' = tokens \cup {t}
    /\ issued' = issued \cup for
    /\ UNCHANGED <<now, provider, store, requests>>

\* The caller puts the groups of the user into the payload.  Another replica
\* generates tokens, too, and its clock may be ahead.
GenToken ==
    \E id \in Ids, e \in 0 .. MaxTime, ahead \in 0 .. MaxSkew :
        Generate([id |-> id, method |-> SigningMethod, key |-> SigningKey,
                  exp |-> e, iat |-> now + ahead, nbf |-> 0,
                  groups |-> Held(id), renewed |-> FALSE],
                 {<<id, SigningKey>>})

\* genTokenV2 sets the expiry of the claims it is given, and nothing else.  It
\* sets it in place; of claims that are in a context nobody reads it again.
GenTokenV2_NotBefore(c, e, k) ==
    [c EXCEPT !.nbf = e, !.method = SigningMethod, !.key = k]
GenTokenV2(c, e, k) ==
    [c EXCEPT !.exp = e, !.method = SigningMethod, !.key = k]

\* Claims of the caller's own, with whatever it set in them.
GenTokenUsingKey ==
    \E id \in Ids, e \in 0 .. MaxTime, k \in Keys \ {EmptyKey},
      iat, nbf \in OwnTimes :
        Generate(GenTokenV2([id |-> id, method |-> SigningMethod, key |-> k,
                             exp |-> 0, iat |-> iat, nbf |-> nbf,
                             groups |-> {}, renewed |-> FALSE], e, k),
                 {<<id, k>>})

\* A handler renews the token of its request from the claims in its context,
\* whichever key that was authenticated with.
GenTokenFromClaims ==
    /\ SigningKey # EmptyKey
    /\ \E r \in Requests, e \in 0 .. MaxTime :
          /\ HasClaims(r)
          /\ Generate(GenTokenV2([token[r] EXCEPT !.id = claims[r].id,
                                                 !.groups = claims[r].groups,
                                                 !.renewed = TRUE],
                                 e, SigningKey),
                      {})

-----------------------------------------------------------------------------
(* A request.                                                              *)

Arrive(r, t, k) ==
    /\ pc[r] = "idle"
    /\ pc' = [pc EXCEPT ![r] = "arrived"]
    /\ token' = [token EXCEPT ![r] = t]
    /\ key' = [key EXCEPT ![r] = k]
    /\ since' = [since EXCEPT ![r] = IF t = NoToken THEN {} ELSE Held(t.id)]
    /\ UNCHANGED <<now, provider, store, tokens, issued, parsedAt, claims, asked, verdict>>

\* StandardClaims.Valid: a second counts as long as the clock shows it.
Valid(t) == (t.exp = 0 \/ now <= t.exp) /\ t.iat <= now /\ t.nbf <= now

\* authenticate looks at the key and at whether there is a token; parseToken at
\* the method before jwt is given the key, and jwt at the rest.
Parses_AnyMethod(t, k) == k # EmptyKey /\ t # NoToken /\ t.key = k /\ Valid(t)
Parses(t, k) ==
    /\ k # EmptyKey
    /\ t # NoToken
    /\ t.method = SigningMethod
    /\ t.key = k
    /\ Valid(t)

\* What of the groups the parsed claims hold.
GroupsInToken_Serialised(t) == t.groups
GroupsInToken(t) == {}

\* authenticate up to the call of the provider.
Authenticate(r) ==
    /\ pc[r] = "arrived"
    /\ parsedAt' = [parsedAt EXCEPT ![r] = now]
    /\ IF Parses(token[r], key[r])
          THEN /\ claims' = [claims EXCEPT ![r] =
                              [id |-> token[r].id, groups |-> GroupsInToken(token[r])]]
               /\ pc' = [pc EXCEPT ![r] =
                           IF provider /\ token[r].id # NoUser THEN "loading"
                                                               ELSE "ready"]
          ELSE /\ pc' = [pc EXCEPT ![r] = "unauthenticated"]
               /\ UNCHANGED claims
    /\ UNCHANGED <<now, provider, store, tokens, issued, token, key, asked, verdict, since>>

\* The groups of a user the provider does not know: it returned nil.
Unknown_OwnGroup(r) == {token[r].id}
Unknown(r) == claims[r].groups

\* GetPayload fails, finds the user, or knows of none.  Of what it finds
\* everything is copied but the ID.
LoadPayload(r) ==
    /\ pc[r] = "loading"
    /\ \/ /\ pc' = [pc EXCEPT ![r] = "internal"]
          /\ UNCHANGED claims
       \/ /\ pc' = [pc EXCEPT ![r] = "ready"]
          /\ claims' = [claims EXCEPT ![r].groups = store[claims[r].id]]
       \/ /\ store[claims[r].id] = {}
          /\ pc' = [pc EXCEPT ![r] = "ready"]
          /\ claims' = [claims EXCEPT ![r].groups = Unknown(r)]
    /\ UNCHANGED <<now, provider, store, tokens, issued, token, key, parsedAt, asked,
                   verdict, since>>

\* matchGroup for the Group, matchGroups for the Roles.
Matches(theirs, allowed) == theirs \cap allowed # {}

Authorize(r, allowed, outcome) ==
    /\ HasClaims(r)
    /\ asked' = [asked EXCEPT ![r] = allowed]
    /\ verdict' = [verdict EXCEPT ![r] = outcome]
    /\ UNCHANGED <<now, provider, store, tokens, issued, pc, token, key, parsedAt,
                   claims, since>>

AuthorizeGroups(r, groups) ==
    Authorize(r, groups,
              IF Matches(claims[r].groups, groups) THEN "group" ELSE "denied")

AuthorizeIds(r, ids) ==
    Authorize(r, ids, IF claims[r].id \in ids THEN "id" ELSE "denied")

\* The next request finds a new context.
Finish(r) ==
    /\ pc[r] \in {"ready", "unauthenticated", "internal"}
    /\ pc' = [pc EXCEPT ![r] = "idle"]
    /\ token' = [token EXCEPT ![r] = NoToken]
    /\ key' = [key EXCEPT ![r] = SigningKey]
    /\ parsedAt' = [parsedAt EXCEPT ![r] = 0]
    /\ claims' = [claims EXCEPT ![r] = NoClaims]
    /\ asked' = [asked EXCEPT ![r] = {}]
    /\ verdict' = [verdict EXCEPT ![r] = "none"]
    /\ since' = [since EXCEPT ![r] = {}]
    /\ UNCHANGED <<now, provider, store, tokens, issued>>

-----------------------------------------------------------------------------
(* The environment.                                                        *)

Tick ==
    /\ now < MaxTime
    /\ now' = now + 1
    /\ UNCHANGED <<provider, store, tokens, issued, requests>>

SetPayloadProvider ==
    /\ ~provider
    /\ provider' = TRUE
    /\ UNCHANGED <<now, store, tokens, issued, requests>>

ChangeGroups(u, groups) ==
    /\ store' = [store EXCEPT ![u] = groups]
    /\ since' = [r \in Requests |->
                   IF token[r] # NoToken /\ token[r].id = u
                      THEN since[r] \cup groups ELSE since[r]]
    /\ UNCHANGED <<now, provider, tokens, issued, pc, token, key, parsedAt,
                   claims, asked, verdict>>

Next ==
    \/ GenToken
    \/ GenTokenUsingKey
    \/ GenTokenFromClaims
    \/ \E r \in Requests :
          \/ \E t \in tokens \cup Foreign \cup {NoToken}, k \in Keys : Arrive(r, t, k)
          \/ Authenticate(r)
          \/ LoadPayload(r)
          \/ \E groups \in SUBSET Groups : AuthorizeGroups(r, groups)
          \/ \E ids \in SUBSET Ids : AuthorizeIds(r, ids)
          \/ Finish(r)
    \/ Tick
    \/ SetPayloadProvider
    \/ \E u \in Users, groups \in SUBSET Groups : ChangeGroups(u, groups)

Spec == Init /\ [][Next]_vars

-----------------------------------------------------------------------------
(* What must hold.                                                         *)

\* A group that opens a handler is one that the store gave the user at some
\* moment since the request arrived: a revocation is seen by every request
\* that arrives after it, however old its token is, and whether or not the
\* provider was set or answered (auth.go:253-267, jwt.go:18-19).  An ID that
\* opens one is that of the token, whatever the provider's payload says.
GrantsAreCurrent ==
    \A r \in Requests :
        /\ verdict[r] = "group" => asked[r] \cap since[r] # {}
        /\ verdict[r] = "id" => token[r].id \in asked[r]

\* Whoever a request acts for, somebody asked this service or a replica for a
\* token of that ID with the key the request is checked with, or, if it is the
\* key of the API, perhaps with another key, in which case a handler renewed it.
\* Neither a token of another service that shares a key (auth.go:290-292), nor
\* the payload of the provider (auth.go:260-265), nor the renewal of what such
\* a request left in its context brings another ID in.
IdentitiesWereIssued ==
    \A r \in Requests : pc[r] \in {"loading", "ready"} =>
        \E k \in Keys : /\ <<claims[r].id, k>> \in issued
                        /\ k = key[r] \/ key[r] = SigningKey

\* The process that renewed a token takes it through the last second before its
\* expiry: what genTokenV2 keeps of the claims it came from (jwt.go:74), when they
\* were issued and from when on they count, can no longer make it refuse the
\* token, whichever clock or caller they came from.
RenewedTokensAreAccepted ==
    \A r \in Requests :
        (/\ pc[r] = "unauthenticated" /\ key[r] = SigningKey
         /\ token[r] # NoToken /\ token[r].renewed)
        => token[r].exp # 0 /\ parsedAt[r] > token[r].exp
=============================================================================
