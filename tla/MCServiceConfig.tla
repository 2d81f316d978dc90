-------------------------- MODULE MCServiceConfig --------------------------
(***************************************************************************)
(* Instances of ServiceConfig for TLC.  Config.cfg: one item of each list, *)
(* two of those whose order is observed, and every kind of options that    *)
(* makes a difference.                                                     *)
(***************************************************************************)
EXTENDS ServiceConfig

Insecure == {[TLSEnabled |-> FALSE, FilesGiven |-> FALSE]}

\* Without TLS the files are not looked at.
AnyOptions == [TLSEnabled : {TRUE}, FilesGiven : BOOLEAN] \cup Insecure
\* One that matters for the order, with both fields the service sets itself, and
\* one that keeps initGRPC waiting.
UserOptions == {<<"creds", "unaryInt">>, <<"block">>}
=============================================================================
