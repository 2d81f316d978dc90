----------------------------- MODULE AuthProofs -----------------------------
(***************************************************************************)
(* Proofs about Auth, for any users, groups, keys and number of requests,  *)
(* and whatever the bounds are.                                            *)
(***************************************************************************)
EXTENDS Auth, TLAPS

\* A token that was generated here has the API's method; its ID was asked for with
\* its key or, if it was renewed with the key of the API, with some key.
OwnToken(t, ids) ==
    /\ t.method = SigningMethod
    /\ t.key \in Keys
    /\ \E k \in Keys : <<t.id, k>> \in ids /\ (k = t.key \/ t.key = SigningKey)

\* The claims that a token was renewed from had been admitted, and time goes on.
RenewedInTime(t) ==
    t.renewed => /\ t.key = SigningKey /\ SigningKey # EmptyKey
                 /\ t.iat <= now /\ t.nbf <= now

TokensAreOwn == \A t \in tokens : OwnToken(t, issued) /\ RenewedInTime(t)

\* A request past authentication carries a token that was generated.
Checked ==
    \A r \in Requests : pc[r] \in {"loading", "ready"} =>
        /\ token[r] \in tokens
        /\ token[r].key = key[r]
        /\ token[r].iat <= now /\ token[r].nbf <= now

\* A request carries a token of this service or of another one, or none.
CarriesKnown ==
    \A r \in Requests : token[r] \in tokens \cup Foreign \cup {NoToken}

\* The provider is asked for users only.
LoadsUsers ==
    \A r \in Requests : pc[r] = "loading" => token[r].id \in Users

\* What the store has for the user of a request now, the history has.
SinceCovers ==
    \A r \in Requests : pc[r] # "idle" /\ token[r] # NoToken =>
        Held(token[r].id) \subseteq since[r]

\* Claims hold the ID of the token, and groups only when they were loaded; those
\* are in the history.
ClaimsKnown ==
    \A r \in Requests :
        /\ claims[r].groups \subseteq since[r]
        /\ pc[r] # "ready" => claims[r].groups = {}
        /\ pc[r] \in {"loading", "ready"} => claims[r].id = token[r].id

\* A grant was read off the claims that the request still has.
GrantsFromClaims ==
    \A r \in Requests :
        /\ verdict[r] = "group" => asked[r] \cap claims[r].groups # {}
        /\ verdict[r] = "id" => claims[r].id \in asked[r]
        /\ verdict[r] \in {"group", "id"} => pc[r] = "ready"

\* A token is given back with the context.
IdleHasNoToken ==
    \A r \in Requests : pc[r] = "idle" => token[r] = NoToken

IInv ==
    /\ TypeOK
    /\ TokensAreOwn
    /\ Checked
    /\ CarriesKnown
    /\ LoadsUsers
    /\ SinceCovers
    /\ ClaimsKnown
    /\ GrantsFromClaims
    /\ IdleHasNoToken
    /\ RenewedTokensAreAccepted

-----------------------------------------------------------------------------
(* The invariant is inductive.                                             *)

LEMMA HeldType ==
  ASSUME TypeOK, NEW id \in Ids
  PROVE  Held(id) \subseteq Groups
  BY DEF TypeOK, Held, Ids

LEMMA IInvInit == Init => IInv
  <1> SUFFICES ASSUME Init
               PROVE  IInv
    OBVIOUS
  <1>1. TypeOK
    <2>1. now \in 1 .. MaxTime /\ 0 \in 0 .. MaxTime
      BY AuthAssumption DEF Init
    <2>2. store \in [Users -> SUBSET Groups] /\ provider \in BOOLEAN
      BY DEF Init
    <2>3. QED
      BY <2>1, <2>2, AuthAssumption DEF Init, TypeOK, NoClaims, Ids
  <1>2. /\ TokensAreOwn /\ Checked /\ CarriesKnown /\ LoadsUsers /\ SinceCovers
        /\ ClaimsKnown
    BY DEF Init, TokensAreOwn, Checked, CarriesKnown, LoadsUsers, SinceCovers,
           ClaimsKnown, NoClaims
  <1>3. GrantsFromClaims /\ IdleHasNoToken /\ RenewedTokensAreAccepted
    BY DEF Init, GrantsFromClaims, IdleHasNoToken, RenewedTokensAreAccepted
  <1>4. QED
    BY <1>1, <1>2, <1>3 DEF IInv

\* A new token takes nothing from the old ones.
LEMMA GenerateKeeps ==
  ASSUME IInv, NEW t \in Tokens, NEW for \in SUBSET (Ids \X Keys),
         Generate(t, for), OwnToken(t, issued'), RenewedInTime(t)
  PROVE  IInv'
  <1>1. TypeOK'
    <2>1. tokens' \subseteq Tokens /\ issued' \subseteq Ids \X Keys
      BY DEF Generate, IInv, TypeOK
    <2>2. QED
      BY <2>1 DEF Generate, IInv, TypeOK, requests
  <1>2. TokensAreOwn'
    <2>1. ASSUME NEW s \in tokens
          PROVE  OwnToken(s, issued') /\ RenewedInTime(s)'
      BY DEF Generate, IInv, TokensAreOwn, OwnToken, RenewedInTime
    <2>2. RenewedInTime(t)'
      BY DEF Generate, RenewedInTime
    <2>3. QED
      BY <2>1, <2>2 DEF Generate, TokensAreOwn
  <1>3. Checked' /\ CarriesKnown' /\ LoadsUsers' /\ SinceCovers' /\ ClaimsKnown'
    BY DEF Generate, IInv, Checked, CarriesKnown, LoadsUsers, SinceCovers,
           ClaimsKnown, Held, requests
  <1>4. GrantsFromClaims' /\ IdleHasNoToken' /\ RenewedTokensAreAccepted'
    BY DEF Generate, IInv, GrantsFromClaims, IdleHasNoToken,
           RenewedTokensAreAccepted, requests
  <1>5. QED
    BY <1>1, <1>2, <1>3, <1>4 DEF IInv

\* Each of the three ways to generate a token makes one of this service's.
LEMMA GenerationKeeps ==
  ASSUME IInv, GenToken \/ GenTokenUsingKey \/ GenTokenFromClaims
  PROVE  IInv'
  <1>1. CASE GenToken
    <2>1. PICK id \in Ids, e \in 0 .. MaxTime, ahead \in 0 .. MaxSkew :
             Generate([id |-> id, method |-> SigningMethod, key |-> SigningKey,
                       exp |-> e, iat |-> now + ahead, nbf |-> 0,
                       groups |-> Held(id), renewed |-> FALSE],
                      {<<id, SigningKey>>})
      BY <1>1 DEF GenToken
    <2> DEFINE t == [id |-> id, method |-> SigningMethod, key |-> SigningKey,
                     exp |-> e, iat |-> now + ahead, nbf |-> 0,
                     groups |-> Held(id), renewed |-> FALSE]
    <2>2. now + ahead \in 0 .. MaxTime + MaxSkew /\ 0 \in 0 .. MaxTime
      BY AuthAssumption DEF IInv, TypeOK
    <2>3. t \in Tokens
      BY <2>2, HeldType, AuthAssumption DEF IInv, Tokens
    <2>4. RenewedInTime(t)
      BY DEF RenewedInTime
    <2>5. <<id, SigningKey>> \in issued'
      BY <2>1 DEF Generate
    <2>6. OwnToken(t, issued')
      BY <2>5, AuthAssumption DEF OwnToken
    <2>7. {<<id, SigningKey>>} \in SUBSET (Ids \X Keys)
      BY AuthAssumption
    <2>8. QED
      BY <2>1, <2>3, <2>4, <2>6, <2>7, GenerateKeeps
  <1>2. CASE GenTokenUsingKey
    <2>1. PICK id \in Ids, e \in 0 .. MaxTime, k \in Keys \ {EmptyKey},
               iat \in OwnTimes, nbf \in OwnTimes :
             Generate(GenTokenV2([id |-> id, method |-> SigningMethod, key |-> k,
                                  exp |-> 0, iat |-> iat, nbf |-> nbf,
                                  groups |-> {}, renewed |-> FALSE], e, k),
                      {<<id, k>>})
      BY <1>2, Zenon DEF GenTokenUsingKey
    <2> DEFINE c == [id |-> id, method |-> SigningMethod, key |-> k,
                     exp |-> 0, iat |-> iat, nbf |-> nbf,
                     groups |-> {}, renewed |-> FALSE]
               t == GenTokenV2(c, e, k)
    <2>2. /\ nbf \in 0 .. MaxTime /\ iat \in 0 .. MaxTime + MaxSkew
          /\ 0 \in 0 .. MaxTime
      BY AuthAssumption
    <2>3. c \in Tokens
      BY <2>2 DEF Tokens
    <2>4. t \in Tokens
      BY <2>3 DEF Tokens, GenTokenV2
    <2>5. t.id = id /\ t.key = k /\ t.method = SigningMethod /\ ~t.renewed
      BY <2>3 DEF Tokens, GenTokenV2
    <2>6. <<id, k>> \in issued'
      BY <2>1 DEF Generate
    <2>7. OwnToken(t, issued') /\ RenewedInTime(t)
      BY <2>5, <2>6 DEF OwnToken, RenewedInTime
    <2>8. {<<id, k>>} \in SUBSET (Ids \X Keys)
      OBVIOUS
    <2> HIDE DEF t
    <2>9. QED
      BY <2>1, <2>4, <2>7, <2>8, GenerateKeeps DEF t
  <1>3. CASE GenTokenFromClaims
    <2>1. PICK r \in Requests, e \in 0 .. MaxTime :
             /\ pc[r] = "ready"
             /\ Generate(GenTokenV2([token[r] EXCEPT !.id = claims[r].id,
                                                    !.groups = claims[r].groups,
                                                    !.renewed = TRUE],
                                    e, SigningKey), {})
      BY <1>3 DEF GenTokenFromClaims, HasClaims
    <2> DEFINE t == GenTokenV2([token[r] EXCEPT !.id = claims[r].id,
                                                !.groups = claims[r].groups,
                                                !.renewed = TRUE],
                               e, SigningKey)
    <2>2. /\ token[r] \in tokens /\ token[r] \in Tokens
          /\ token[r].iat <= now /\ token[r].nbf <= now
      BY <2>1 DEF IInv, Checked, TypeOK
    <2>3. /\ claims[r].groups \subseteq Groups
          /\ claims[r].id \in Ids
          /\ claims[r].id = token[r].id
      BY <2>1 DEF IInv, TypeOK, ClaimsKnown
    <2>4. t \in Tokens
      BY <2>2, <2>3, AuthAssumption DEF Tokens, GenTokenV2
    <2>5. /\ t.id = token[r].id /\ t.key = SigningKey /\ t.method = SigningMethod
          /\ t.iat = token[r].iat /\ t.nbf = token[r].nbf
      BY <2>2, <2>3 DEF Tokens, GenTokenV2
    <2>6. RenewedInTime(t)
      BY <1>3, <2>2, <2>5 DEF RenewedInTime, GenTokenFromClaims
    <2>7. \E k \in Keys : <<token[r].id, k>> \in issued'
      BY <2>1, <2>2 DEF IInv, TokensAreOwn, OwnToken, Generate
    <2>8. OwnToken(t, issued')
      BY <2>5, <2>7, AuthAssumption DEF OwnToken
    <2> HIDE DEF t
    <2>9. QED
      BY <2>1, <2>4, <2>6, <2>8, GenerateKeeps DEF t
  <1>4. QED
    BY <1>1, <1>2, <1>3

\* One lemma for what a request does, ...
LEMMA RequestKeeps ==
  ASSUME IInv, NEW r \in Requests,
         \/ \E t \in tokens \cup Foreign \cup {NoToken}, k \in Keys :
                Arrive(r, t, k)
         \/ Authenticate(r)
         \/ LoadPayload(r)
         \/ \E groups \in SUBSET Groups : AuthorizeGroups(r, groups)
         \/ \E ids \in SUBSET Ids : AuthorizeIds(r, ids)
         \/ Finish(r)
  PROVE  IInv'
  <1> USE DEF IInv, TypeOK, Checked, CarriesKnown, LoadsUsers, SinceCovers,
              ClaimsKnown, requests, GrantsFromClaims, IdleHasNoToken,
              RenewedTokensAreAccepted, NoClaims
  <1>0. TokensAreOwn'
    <2>1. UNCHANGED <<now, tokens, issued>>
      BY DEF Arrive, Authenticate, LoadPayload, AuthorizeGroups, AuthorizeIds,
             Authorize, Finish
    <2>2. QED
      BY <2>1 DEF TokensAreOwn, OwnToken, RenewedInTime
  <1>1. ASSUME NEW t \in tokens \cup Foreign \cup {NoToken}, NEW k \in Keys,
               Arrive(r, t, k)
        PROVE  IInv'
    <2>1. t # NoToken => t \in Tokens /\ Held(t.id) \subseteq Groups
      BY HeldType, AuthAssumption DEF Tokens
    <2>2. TypeOK'
      BY <1>1, <2>1 DEF Arrive
    <2>3. Checked' /\ CarriesKnown' /\ LoadsUsers' /\ SinceCovers'
      BY <1>1 DEF Arrive, Held
    <2>4. ClaimsKnown'
      BY <1>1 DEF Arrive
    <2>5. GrantsFromClaims' /\ IdleHasNoToken' /\ RenewedTokensAreAccepted'
      BY <1>1 DEF Arrive
    <2>6. QED
      BY <1>0, <2>2, <2>3, <2>4, <2>5
  <1>2. CASE Authenticate(r)
    <2>1. TypeOK'
      <3>1. token[r] # NoToken => token[r].id \in Ids
        BY DEF Tokens
      <3>2. claims' \in [Requests -> [id : Ids, groups : SUBSET Groups]]
        BY <1>2, <3>1 DEF Authenticate, Parses, GroupsInToken
      <3>3. parsedAt' \in [Requests -> 0 .. MaxTime]
        <4>1. now \in 0 .. MaxTime
          BY AuthAssumption
        <4>2. QED
          BY <1>2, <4>1, Zenon DEF Authenticate
      <3>4. pc' \in [Requests -> {"idle", "arrived", "loading", "ready",
                                  "unauthenticated", "internal"}]
        <4>1. PICK x \in {"loading", "ready", "unauthenticated"} :
                 pc' = [pc EXCEPT ![r] = x]
          BY <1>2, Zenon DEF Authenticate
        <4>2. pc \in [Requests -> {"idle", "arrived", "loading", "ready",
                                   "unauthenticated", "internal"}]
          BY Zenon
        <4> HIDE DEF IInv
        <4>3. QED
          BY <4>1, <4>2
      <3>5. QED
        BY <1>2, <3>2, <3>3, <3>4 DEF Authenticate
    <2>8. Parses(token[r], key[r]) => token[r] \in tokens
      <3>1. token[r] \in tokens \cup Foreign \cup {NoToken} /\ key[r] \in Keys
        OBVIOUS
      <3> DEFINE t == token[r]
                 k == key[r]
      <3> HIDE DEF IInv, t, k
      <3>2. t \in tokens \cup Foreign \cup {NoToken} /\ k \in Keys
        BY <3>1 DEF t, k
      <3>3. t # NoToken /\ t.method = SigningMethod /\ t.key = k => t \in tokens
        BY <3>2, AuthAssumption, Zenon
      <3>4. QED
        BY <3>3 DEF Parses, t, k
    <2>2. Checked' /\ CarriesKnown' /\ LoadsUsers'
      <3>1. CarriesKnown'
        BY <1>2 DEF Authenticate
      <3>2. Checked'
        BY <1>2, <2>8 DEF Authenticate, Parses, Valid
      <3>3. Parses(token[r], key[r]) => token[r].id \in Ids
        BY <2>8 DEF Tokens
      <3>4. LoadsUsers'
        BY <1>2, <3>3 DEF Authenticate, Ids
      <3>5. QED
        BY <3>1, <3>2, <3>4
    <2>5. RenewedTokensAreAccepted'
      <3>1. ASSUME token[r] # NoToken, token[r].renewed, key[r] = SigningKey,
                   ~Parses(token[r], key[r])
            PROVE  token[r].exp # 0 /\ now > token[r].exp
        <4>1. token[r] \in tokens
          BY <3>1, AuthAssumption
        <4>2. OwnToken(token[r], issued) /\ RenewedInTime(token[r])
          BY <4>1 DEF TokensAreOwn
        <4>3. ~(token[r].exp = 0 \/ now <= token[r].exp)
          BY <3>1, <4>2 DEF OwnToken, RenewedInTime, Parses, Valid
        <4>4. token[r].exp \in 0 .. MaxTime
          BY <4>1 DEF Tokens
        <4>5. QED
          BY <4>3, <4>4
      <3>2. parsedAt'[r] = now /\ token' = token /\ key' = key
        BY <1>2 DEF Authenticate
      <3>3. pc'[r] = "unauthenticated" => ~Parses(token[r], key[r])
        BY <1>2 DEF Authenticate
      <3>4. \A q \in Requests \ {r} : pc'[q] = pc[q] /\ parsedAt'[q] = parsedAt[q]
        BY <1>2 DEF Authenticate
      <3>5. QED
        BY <3>1, <3>2, <3>3, <3>4 DEF RenewedTokensAreAccepted
    <2>3. SinceCovers' /\ IdleHasNoToken'
      BY <1>2 DEF Authenticate, Held
    <2>4. ClaimsKnown'
      BY <1>2 DEF Authenticate, GroupsInToken
    <2>6. GrantsFromClaims'
      BY <1>2 DEF Authenticate
    <2>7. QED
      BY <1>0, <2>1, <2>2, <2>3, <2>4, <2>5, <2>6
  <1>3. CASE LoadPayload(r)
    <2>1. TypeOK'
      <3>1. claims[r].id \in Users
        BY <1>3 DEF LoadPayload
      <3>2. store[claims[r].id] \in SUBSET Groups /\ Unknown(r) \in SUBSET Groups
        BY <3>1 DEF Unknown
      <3>3. claims' = claims \/ \E g \in SUBSET Groups :
                                   claims' = [claims EXCEPT ![r].groups = g]
        BY <1>3, <3>2 DEF LoadPayload
      <3>4. claims' \in [Requests -> [id : Ids, groups : SUBSET Groups]]
        BY <3>3
      <3>5. QED
        BY <1>3, <3>4 DEF LoadPayload
    <2>2. Checked' /\ CarriesKnown' /\ LoadsUsers' /\ RenewedTokensAreAccepted'
      BY <1>3 DEF LoadPayload, Unknown
    <2>3. store[token[r].id] \subseteq since[r]
      BY <1>3, AuthAssumption DEF LoadPayload, Unknown, Held, Tokens
    <2>4. SinceCovers' /\ IdleHasNoToken'
      BY <1>3 DEF LoadPayload, Unknown, Held
    <2>5. ClaimsKnown'
      <3>1. /\ claims[r].id = token[r].id
            /\ claims[r].groups = {}
        BY <1>3 DEF LoadPayload
      <3>2. /\ claims'[r].id = token[r].id
            /\ claims'[r].groups \subseteq since[r]
            /\ pc'[r] # "ready" => claims'[r].groups = {}
        BY <1>3, <2>3, <3>1 DEF LoadPayload, Unknown
      <3>3. \A q \in Requests \ {r} : claims'[q] = claims[q] /\ pc'[q] = pc[q]
        BY <1>3 DEF LoadPayload
      <3>4. UNCHANGED <<since, token>>
        BY <1>3 DEF LoadPayload
      <3>5. QED
        BY <3>2, <3>3, <3>4
    <2>6. GrantsFromClaims'
      BY <1>3 DEF LoadPayload
    <2>7. QED
      BY <1>0, <2>1, <2>2, <2>4, <2>5, <2>6
  <1>4. ASSUME NEW groups \in SUBSET Groups, AuthorizeGroups(r, groups)
        PROVE  IInv'
    BY <1>0, <1>4 DEF AuthorizeGroups, Authorize, HasClaims, Matches, Held
  <1>5. CASE Finish(r)
    <2>1. TypeOK'
      <3>1. NoClaims \in [id : Ids, groups : SUBSET Groups]
        BY DEF NoClaims, Ids
      <3>2. claims' \in [Requests -> [id : Ids, groups : SUBSET Groups]]
        BY <1>5, <3>1 DEF Finish
      <3>3. QED
        BY <1>5, <3>2, AuthAssumption DEF Finish
    <2>2. Checked' /\ CarriesKnown' /\ LoadsUsers' /\ SinceCovers'
          /\ ClaimsKnown'
      BY <1>5 DEF Finish, Held
    <2>3. GrantsFromClaims' /\ IdleHasNoToken' /\ RenewedTokensAreAccepted'
      BY <1>5 DEF Finish
    <2>4. QED
      BY <1>0, <2>1, <2>2, <2>3
  <1>6. ASSUME NEW ids \in SUBSET Ids, AuthorizeIds(r, ids)
        PROVE  IInv'
    BY <1>0, <1>6 DEF AuthorizeIds, Authorize, HasClaims, Held
  <1>7. QED
    BY <1>1, <1>2, <1>3, <1>4, <1>5, <1>6

\* ... and one for what happens around it.
LEMMA EnvironmentKeeps ==
  ASSUME IInv,
         \/ Tick
         \/ SetPayloadProvider
         \/ \E u \in Users, groups \in SUBSET Groups : ChangeGroups(u, groups)
  PROVE  IInv'
  <1> USE DEF IInv, TypeOK, Checked, CarriesKnown, LoadsUsers, SinceCovers,
              ClaimsKnown, requests, GrantsFromClaims, IdleHasNoToken,
              RenewedTokensAreAccepted
  <1>1. CASE Tick
    <2>1. TypeOK' /\ now' = now + 1 /\ UNCHANGED <<provider, store, tokens, issued,
                                                  requests>>
      BY <1>1, AuthAssumption DEF Tick
    <2>2. TokensAreOwn'
      <3>1. ASSUME NEW t \in tokens
            PROVE  OwnToken(t, issued') /\ RenewedInTime(t)'
        <4>1. t.iat \in Nat /\ t.nbf \in Nat /\ now \in Nat
          BY AuthAssumption DEF Tokens
        <4>2. OwnToken(t, issued) /\ RenewedInTime(t)
          BY DEF TokensAreOwn
        <4>3. now' = now + 1 /\ issued' = issued
          BY <2>1
        <4> HIDE DEF IInv
        <4>4. QED
          BY <4>1, <4>2, <4>3 DEF OwnToken, RenewedInTime
      <3>2. QED
        BY <2>1, <3>1 DEF TokensAreOwn
    <2>3. Checked'
      <3>1. ASSUME NEW r \in Requests, pc[r] \in {"loading", "ready"}
            PROVE  token[r].iat <= now + 1 /\ token[r].nbf <= now + 1
        <4>1. token[r].iat \in Nat /\ token[r].nbf \in Nat /\ now \in Nat
          BY <3>1, AuthAssumption DEF Tokens
        <4>2. QED
          BY <3>1, <4>1
      <3>2. QED
        BY <2>1, <3>1
    <2>4. /\ CarriesKnown' /\ LoadsUsers' /\ SinceCovers' /\ ClaimsKnown'
          /\ GrantsFromClaims' /\ IdleHasNoToken' /\ RenewedTokensAreAccepted'
      BY <2>1 DEF Held
    <2>5. QED
      BY <2>1, <2>2, <2>3, <2>4
  <1>2. CASE SetPayloadProvider
    <2>1. TokensAreOwn'
      BY <1>2 DEF SetPayloadProvider, TokensAreOwn, OwnToken, RenewedInTime
    <2>2. QED
      BY <1>2, <2>1 DEF SetPayloadProvider, Held
  <1>3. ASSUME NEW u \in Users, NEW groups \in SUBSET Groups,
               ChangeGroups(u, groups)
        PROVE  IInv'
    <2>1. TypeOK'
      BY <1>3 DEF ChangeGroups
    <2>8. TokensAreOwn'
      BY <1>3 DEF ChangeGroups, TokensAreOwn, OwnToken, RenewedInTime
    <2>2. Checked' /\ CarriesKnown' /\ LoadsUsers' /\ IdleHasNoToken'
          /\ RenewedTokensAreAccepted'
      BY <1>3 DEF ChangeGroups
    <2>3. ASSUME NEW r \in Requests
          PROVE  since[r] \subseteq since'[r]
      BY <1>3 DEF ChangeGroups
    <2>4. ASSUME NEW r \in Requests, pc[r] # "idle", token[r] # NoToken
          PROVE  Held(token[r].id)' \subseteq since'[r]
      BY <1>3, <2>4, AuthAssumption DEF ChangeGroups, Held
    <2>5. SinceCovers'
      BY <1>3, <2>4 DEF ChangeGroups
    <2>6. ClaimsKnown' /\ GrantsFromClaims'
      BY <1>3, <2>3 DEF ChangeGroups
    <2>7. QED
      BY <2>1, <2>2, <2>5, <2>6, <2>8
  <1>4. QED
    BY <1>1, <1>2, <1>3

LEMMA IInvStep == IInv /\ [Next]_vars => IInv'
  <1>1. IInv /\ UNCHANGED vars => IInv'
    BY DEF vars, requests, Held, TokensAreOwn, OwnToken, RenewedInTime,
              IInv, TypeOK, Checked, CarriesKnown, LoadsUsers, SinceCovers,
              ClaimsKnown, GrantsFromClaims, IdleHasNoToken,
              RenewedTokensAreAccepted
  <1>2. QED
    BY <1>1, GenerationKeeps, RequestKeeps, EnvironmentKeeps DEF Next

LEMMA Invariance == Spec => []IInv
  <1>1. QED
    BY IInvInit, IInvStep, PTL DEF Spec

-----------------------------------------------------------------------------
(* What follows from the invariant.                                        *)

\* Every variable of Auth stays in the set of values the code gives it.
THEOREM TypeCorrect == Spec => []TypeOK
  <1>1. IInv => TypeOK
    BY DEF IInv
  <1>2. QED
    BY <1>1, Invariance, PTL

\* No request is granted a group that its user had lost before it arrived, nor
\* an ID that is not its token's.
THEOREM GrantsFollowTheStore == Spec => []GrantsAreCurrent
  <1>1. IInv => GrantsAreCurrent
    BY DEF IInv, ClaimsKnown, GrantsFromClaims, GrantsAreCurrent
  <1>2. QED
    BY <1>1, Invariance, PTL

\* Whatever tokens of other services arrive, whatever the provider answers and
\* whatever is renewed, a request acts for an ID that somebody asked this service
\* or a replica for, with the key the request is checked with; with the key of the
\* API, also for one that was asked for with another key and renewed
\* (auth.go:235-305, jwt.go:57-80).
THEOREM OnlyIssuedIdentities == Spec => []IdentitiesWereIssued
  <1>1. IInv => IdentitiesWereIssued
    BY DEF IInv, Checked, ClaimsKnown, TokensAreOwn, OwnToken,
           IdentitiesWereIssued
  <1>2. QED
    BY <1>1, Invariance, PTL

\* A renewed token is refused after its own expiry only, whatever the claims it
\* was renewed from say of their issue and of when they begin to count
\* (jwt.go:57-80).
THEOREM RenewalIsEnough == Spec => []RenewedTokensAreAccepted
  <1>1. IInv => RenewedTokensAreAccepted
    BY DEF IInv
  <1>2. QED
    BY <1>1, Invariance, PTL
=============================================================================
