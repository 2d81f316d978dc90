----------------------------- MODULE MCHelpers -----------------------------
(***************************************************************************)
(* The pure helpers over bounded inputs: each action gives one of them an  *)
(* input, and the invariants compare what the helper makes of it with what *)
(* it should.                                                              *)
(***************************************************************************)
EXTENDS Encryption, ConnPool, JoinMap

CONSTANTS
    MaxKeyLength,     \* keys of 0 .. MaxKeyLength bytes
    MaxUnderscores    \* keys of maps with 0 .. MaxUnderscores underscores

ASSUME BoundsAssumption == MaxKeyLength \in Nat /\ MaxUnderscores \in Nat

VARIABLE input

Init == input = [of |-> "none"]

PickKey == \E n \in 0 .. MaxKeyLength : input' = [of |-> "key", length |-> n]

PickPool ==
    \E idle, open \in Sizes : input' = [of |-> "pool", idle |-> idle, open |-> open]

PickMaps ==
    \E keys2, keys1 \in SUBSET (0 .. MaxUnderscores) :
        input' = [of |-> "maps", keys2 |-> keys2, keys1 |-> keys1]

Next ==
    /\ input.of = "none"
    /\ PickKey \/ PickPool \/ PickMaps

Spec == Init /\ [][Next]_input

\* encryption.go: ParseKey and createGCM cut a key of any length to one that
\* AES takes, as long as the bytes allow.
KeysAreCut ==
    input.of = "key" => ParsesToNearest(input.length) /\ UsesValidKey(input.length)

\* encryption.go:61 names 16, 24 and 32 as the lengths of a key, and
\* encryption.go:77 has ParseKey cut a key to one of them: what a side that
\* parses its key first encrypts is read by a side that does not.
ParsedKeysAgree ==
    input.of = "key" /\ ParseKey(input.length) # 0 =>
        Decrypts(input.length, ParseKey(input.length))

\* conn.go:66-79 and 103-116: the limits of the pool are those asked for.
PoolIsAsAsked == input.of = "pool" => LimitsAreAsAsked(input.idle, input.open)

\* joinmap.go: no order of iteration loses an entry, unless a renamed key
\* meets another.
MapsAreJoined == input.of = "maps" => JoinKeepsAll(input.keys2, input.keys1)
=============================================================================
