------------------------------ MODULE MCChain ------------------------------
(***************************************************************************)
(* Instances of Chain for TLC: every order of every choice of interceptors *)
(* and two calls, so that one is in flight when the panic of the other     *)
(* ends the process.                                                       *)
(***************************************************************************)
EXTENDS Chain, TLC

CallSymmetry == Permutations(Calls)
=============================================================================
