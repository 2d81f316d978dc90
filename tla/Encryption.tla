----------------------------- MODULE Encryption -----------------------------
(***************************************************************************)
(* The keys of utils/encryption: what ParseKey and createGCM, which NewAPI *)
(* calls, make of a key of n bytes.  Both cut a key to its first 16, 24 or *)
(* 32 bytes, the sizes that AES takes, so that a length says which key it  *)
(* is; 0 stands for an error.  The cipher is external.                     *)
(*                                                                         *)
(* KeyLength_Fault is KeyLength with a fault that code like this could     *)
(* have.                                                                   *)
(***************************************************************************)
EXTENDS Naturals

AESLengths == {16, 24, 32}

ParseKey(n) ==
    CASE n < 16             -> 0
      [] n >= 16 /\ n < 24  -> 16
      [] n >= 24 /\ n < 32  -> 24
      [] OTHER              -> 32

\* The key that createGCM gives to aes.NewCipher: of 24 bytes it takes 16 and
\* of 32 it takes 24.
KeyLength_ShortestFirst(n) == IF n < 16 THEN 0 ELSE 16
KeyLength(n) ==
    CASE n > 32             -> 32
      [] n > 24 /\ n <= 32  -> 24
      [] n >= 16 /\ n <= 24 -> 16
      [] OTHER              -> 0

\* What is encrypted with a key of m bytes is decrypted with the first n bytes
\* of the same key.
Decrypts(m, n) == KeyLength(m) = KeyLength(n) /\ KeyLength(n) # 0

-----------------------------------------------------------------------------

\* ParseKey returns the longest AES key that the bytes are enough for, which
\* is no longer than ParseKey would leave it (encryption.go:77).
ParsesToNearest(n) ==
    /\ ParseKey(n) = 0 <=> n < 16
    /\ n >= 16 => /\ ParseKey(n) \in AESLengths
                  /\ ParseKey(n) <= n
                  /\ \A l \in AESLengths : l <= n => l <= ParseKey(n)
    /\ ParseKey(ParseKey(n)) = ParseKey(n)

\* createGCM never hands AES a key it refuses, never uses bytes that are not
\* there, fails for the same keys as ParseKey, and of a key with bytes to spare
\* uses no less than the longest AES key they are enough for
\* (encryption.go:53-62).
UsesValidKey(n) ==
    /\ KeyLength(n) \in AESLengths \cup {0}
    /\ KeyLength(n) <= n
    /\ KeyLength(n) = 0 <=> ParseKey(n) = 0
    /\ n >= 16 => \A l \in AESLengths : l < n => l <= KeyLength(n)
=============================================================================
