------------------------------- MODULE MCAuth -------------------------------
(***************************************************************************)
(* An instance of Auth for TLC.  Requests share nothing but the store, the *)
(* tokens and the clock, so one that comes again and again is enough; two  *)
(* seconds hold a token's last second and the one after it, and two tokens *)
(* one and what it is renewed to.                                          *)
(***************************************************************************)
EXTENDS Auth

CONSTANTS u1, x1

\* A token of a service that shares the key of the API, and one of a service
\* that does not; neither is limited in time.
TokensOfOthers ==
    [id : {u1}, method : {"other"}, key : {SigningKey}, exp : {0}, iat : {0},
     nbf : {0}, groups : {{}}, renewed : {FALSE}]
    \cup
    [id : {u1}, method : {SigningMethod}, key : {x1}, exp : {0}, iat : {0},
     nbf : {0}, groups : {{}}, renewed : {FALSE}]
=============================================================================
