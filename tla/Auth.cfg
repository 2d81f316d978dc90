SPECIFICATION Spec
CONSTANTS
    u1 = u1
    x1 = x1
    Users = {u1}
    Groups = {g1}
    Keys = {k1, k2, none}
    SigningKey = k1
    EmptyKey = none
    OtherKeys = {x1}
    Foreign <- TokensOfOthers
    OwnTimes = {0, 2}
    NoUser = nobody
    NoToken = notoken
    Requests = {r1}
    MaxTime = 2
    MaxTokens = 2
    MaxSkew = 1
INVARIANTS
    TypeOK
    GrantsAreCurrent
    IdentitiesWereIssued
    RenewedTokensAreAccepted
CHECK_DEADLOCK FALSE
