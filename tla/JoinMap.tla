------------------------------ MODULE JoinMap ------------------------------
(***************************************************************************)
(* JoinMap of utils/joinmap: the entries of map1 are put into map2 one by  *)
(* one, in the order in which Go iterates over map1, which is any order.   *)
(* A key that map2 has already is renamed by a leading underscore.  Both   *)
(* maps are allocated: an entry for a nil map2 panics (joinmap.go:8, 10).  *)
(*                                                                         *)
(* A key is its number of leading underscores: keys that differ otherwise  *)
(* never meet.  A value says which map and which key it comes from.        *)
(*                                                                         *)
(* Renamed_Fault is Renamed with a fault that code like this could have.   *)
(***************************************************************************)
EXTENDS Naturals, Sequences, FiniteSets, Functions

Renamed_NotAtAll(key) == key
Renamed(key) == key + 1

Map(which, keys) == [k \in keys |-> <<which, k>>]

Put(map, key, value) ==
    [k \in DOMAIN map \cup {key} |-> IF k = key THEN value ELSE map[k]]

Insert(map, key, value) ==
    Put(map, IF key \in DOMAIN map THEN Renamed(key) ELSE key, value)

\* order is a sequence of the keys of map1.
Join(map2, map1, order) ==
    LET joined[i \in 0 .. Len(order)] ==
            IF i = 0 THEN map2
                     ELSE Insert(joined[i - 1], order[i], map1[order[i]])
    IN  joined[Len(order)]

Orders(keys) ==
    {o \in [1 .. Cardinality(keys) -> keys] : Range(o) = keys}

Results(keys2, keys1) ==
    {Join(Map(2, keys2), Map(1, keys1), o) : o \in Orders(keys1)}

-----------------------------------------------------------------------------

\* Some key that both maps have is, with one more underscore, a key that one of
\* them has too.
RenameMeetsKey(keys2, keys1) ==
    \E k \in keys1 \cap keys2 : k + 1 \in keys1 \cup keys2

\* Unless a renamed key meets another, the order of iteration does not show
\* and no entry is lost: those of map2 keep their keys, and those of map1
\* theirs or the renamed one.  When one does, some order loses an entry.
JoinKeepsAll(keys2, keys1) ==
    IF RenameMeetsKey(keys2, keys1)
       THEN \E m \in Results(keys2, keys1) :
                Cardinality(DOMAIN m) < Cardinality(keys1) + Cardinality(keys2)
       ELSE /\ Cardinality(Results(keys2, keys1)) = 1
            /\ \A m \in Results(keys2, keys1) :
                  /\ \A k \in keys2 : m[k] = <<2, k>>
                  /\ \A k \in keys1 :
                        m[IF k \in keys2 THEN k + 1 ELSE k] = <<1, k>>
=============================================================================
