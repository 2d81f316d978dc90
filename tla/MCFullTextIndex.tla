-------------------------- MODULE MCFullTextIndex --------------------------
(***************************************************************************)
(* Instances of FullTextIndex for TLC: three processes, so that a drop can *)
(* come between two creators, and two columns, so that two creators can    *)
(* want different indexes.                                                 *)
(***************************************************************************)
EXTENDS FullTextIndex, TLC

Symmetry == Permutations(Processes) \cup Permutations(Columns)
=============================================================================
