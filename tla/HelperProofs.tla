---------------------------- MODULE HelperProofs ----------------------------
(***************************************************************************)
(* Proofs about the pure helpers: for keys of any length, pools of any     *)
(* size and any width of int, and maps with any keys.                      *)
(***************************************************************************)
EXTENDS MCHelpers, FiniteSetTheorems, SequenceTheorems, NumberInduction

(* Keys (utils/encryption).                                                *)

LEMMA KeysOfAnyLength ==
  ASSUME NEW n \in Nat
  PROVE  ParsesToNearest(n) /\ UsesValidKey(n)
  <1>1. /\ n < 16 => ParseKey(n) = 0
        /\ n >= 16 /\ n < 24 => ParseKey(n) = 16
        /\ n >= 24 /\ n < 32 => ParseKey(n) = 24
        /\ n >= 32 => ParseKey(n) = 32
    BY DEF ParseKey
  <1>2. /\ n < 16 => KeyLength(n) = 0
        /\ n >= 16 /\ n <= 24 => KeyLength(n) = 16
        /\ n > 24 /\ n <= 32 => KeyLength(n) = 24
        /\ n > 32 => KeyLength(n) = 32
    BY DEF KeyLength
  <1>3. /\ ParseKey(0) = 0 /\ ParseKey(16) = 16
        /\ ParseKey(24) = 24 /\ ParseKey(32) = 32
    BY DEF ParseKey
  <1>4. ParsesToNearest(n)
    BY <1>1, <1>3 DEF ParsesToNearest, AESLengths
  <1>5. UsesValidKey(n)
    BY <1>1, <1>2 DEF UsesValidKey, AESLengths
  <1>6. QED
    BY <1>4, <1>5

-----------------------------------------------------------------------------
(* Pools (pkg/conn).                                                       *)

LEMMA PoolsOfAnySize ==
  ASSUME NEW idle \in Sizes, NEW open \in Sizes
  PROVE  LimitsAreAsAsked(idle, open)
  <1> DEFINE half == 2^(W - 1)
             all == 2^W
             pool == Configured(idle, open)
             openLimit == IF open < half THEN open ELSE 0
             idleLimit == IF idle = 0 THEN 2 ELSE IF idle < half THEN idle ELSE 0
  <1>1. /\ half \in Int /\ all \in Int
        /\ idle \in Nat /\ idle < all /\ open \in Nat /\ open < all
    BY WidthAssumption DEF Sizes
  <1>2. \A u \in Nat : u < all =>
           Signed(u) = (IF u < half THEN u ELSE u - all)
    BY DEF Signed
  <1> HIDE DEF half, all
  <1>3. \A u \in Nat : u < all =>
           (IF Signed(u) > 0 THEN Signed(u) ELSE 0) = (IF u < half THEN u ELSE 0)
    BY <1>1, <1>2
  <1> DEFINE withIdle == IF idle # 0 THEN SetMaxIdleConns(NewPool, Signed(idle))
                                     ELSE NewPool
  <1>4. withIdle = [idle |-> idleLimit, open |-> 0]
    <2>1. Capped(IF Signed(idle) > 0 THEN Signed(idle) ELSE 0, 0) =
            (IF idle < half THEN idle ELSE 0)
      BY <1>1, <1>3 DEF Capped
    <2>2. SetMaxIdleConns(NewPool, Signed(idle)) =
            [idle |-> IF idle < half THEN idle ELSE 0, open |-> 0]
      BY <2>1 DEF SetMaxIdleConns, NewPool
    <2>3. QED
      BY <2>2 DEF NewPool
  <1>5. pool = IF open # 0 THEN SetMaxOpenConns(withIdle, Signed(open)) ELSE withIdle
    BY DEF Configured
  <1>6. SetMaxOpenConns(withIdle, Signed(open)) =
          [idle |-> Capped(idleLimit, openLimit), open |-> openLimit]
    BY <1>1, <1>3, <1>4 DEF SetMaxOpenConns
  <1>7. openLimit \in Nat /\ idleLimit \in Nat
    BY <1>1
  <1>8. pool = [idle |-> Capped(idleLimit, openLimit), open |-> openLimit]
    <2>1. CASE open # 0
      BY <1>5, <1>6, <2>1
    <2>2. CASE open = 0
      <3>1. openLimit = 0
        BY <2>2
      <3>2. Capped(idleLimit, openLimit) = idleLimit
        BY <3>1 DEF Capped
      <3>3. QED
        BY <1>4, <1>5, <2>2, <3>1, <3>2
    <2>3. QED
      BY <2>1, <2>2
  <1>9. /\ Capped(idleLimit, openLimit) =
             IF openLimit = 0 THEN idleLimit ELSE Min2(idleLimit, openLimit)
        /\ Capped(idleLimit, openLimit) \in Nat
    BY <1>7 DEF Capped, Min2
  <1> HIDE DEF openLimit, idleLimit, pool
  <1>10. /\ pool \in Limits
         /\ pool.open = openLimit
         /\ pool.idle = IF openLimit = 0 THEN idleLimit ELSE Min2(idleLimit, openLimit)
    BY <1>7, <1>8, <1>9 DEF Limits
  <1>11. QED
    BY <1>10 DEF LimitsAreAsAsked, pool, openLimit, idleLimit, half

-----------------------------------------------------------------------------
(* Maps (utils/joinmap).                                                   *)

Joined(f, n, map2, map1, order) ==
    [i \in 0 .. n |-> IF i = 0 THEN map2
                               ELSE Insert(f[i - 1], order[i], map1[order[i]])]

\* The function that Join speaks of exists, for any number of entries, ...
LEMMA JoinedExists ==
  ASSUME NEW map2, NEW map1, NEW order
  PROVE  \A n \in Nat : \E f : f = Joined(f, n, map2, map1, order)
  <1> DEFINE next(f, i) == Insert(f[i - 1], order[i], map1[order[i]])
             upto(f, n) == f = [i \in 0 .. n |-> IF i = 0 THEN map2 ELSE next(f, i)]
             S == {n \in Nat : \E f : upto(f, n)}
  <1>1. 0 \in S
    <2> DEFINE f == [i \in 0 .. 0 |-> map2]
    <2>1. ASSUME NEW i \in 0 .. 0
          PROVE  map2 = (IF i = 0 THEN map2 ELSE next(f, i))
      BY <2>1
    <2>2. upto(f, 0)
      BY <2>1, Zenon
    <2>3. QED
      BY <2>2, Zenon
  <1>2. ASSUME NEW n \in Nat, n \in S
        PROVE  n + 1 \in S
    <2>1. PICK f : upto(f, n)
      BY <1>2
    <2> DEFINE g == [i \in 0 .. n + 1 |-> IF i = n + 1 THEN next(f, i) ELSE f[i]]
    <2>2. ASSUME NEW i \in 0 .. n
          PROVE  /\ i \in 0 .. n + 1 /\ i # n + 1
                 /\ g[i] = f[i] /\ f[i] = (IF i = 0 THEN map2 ELSE next(f, i))
      <3>1. i \in 0 .. n + 1 /\ i # n + 1
        BY <1>2
      <3>2. g[i] = f[i]
        BY <3>1, Zenon
      <3>3. f[i] = (IF i = 0 THEN map2 ELSE next(f, i))
        BY <2>1, Zenon
      <3>4. QED
        BY <3>1, <3>2, <3>3
    <2>3. ASSUME NEW i \in 0 .. n + 1
          PROVE  g[i] = (IF i = 0 THEN map2 ELSE next(g, i))
      <3>1. CASE i = 0
        <4>1. 0 \in 0 .. n
          BY <1>2
        <4>2. QED
          BY <2>2, <3>1, <4>1, Zenon
      <3>2. CASE i # 0
        <4>1. i - 1 \in 0 .. n /\ (i = n + 1 \/ i \in 0 .. n)
          BY <1>2, <3>2
        <4>2. next(g, i) = next(f, i)
          BY <2>2, <4>1, Zenon
        <4>3. g[i] = next(f, i)
          BY <2>2, <3>2, <4>1, Zenon
        <4>4. QED
          BY <3>2, <4>2, <4>3, Zenon
      <3>3. QED
        BY <3>1, <3>2
    <2>4. g = [i \in 0 .. n + 1 |-> g[i]]
      BY Zenon
    <2>5. upto(g, n + 1)
      <3> HIDE DEF g
      <3>1. QED
        BY <2>3, <2>4, Zenon
    <2>6. n + 1 \in Nat
      OBVIOUS
    <2>7. QED
      BY <2>5, <2>6, Zenon
  <1>3. Nat \subseteq S
    <2> HIDE DEF S
    <2>1. QED
      BY <1>1, <1>2, UpwardInduction
  <1>4. QED
    BY <1>3, Zenon DEF Joined

\* ... and Join is its last value.
LEMMA JoinIs ==
  ASSUME NEW map2, NEW map1, NEW order, Len(order) \in Nat
  PROVE  \E f : /\ f[0] = map2
                /\ \A i \in 1 .. Len(order) :
                      f[i] = Insert(f[i - 1], order[i], map1[order[i]])
                /\ Join(map2, map1, order) = f[Len(order)]
  <1> DEFINE n == Len(order)
             joined == CHOOSE f : f = Joined(f, n, map2, map1, order)
  <1>1. joined = Joined(joined, n, map2, map1, order)
    <2>1. \E f : f = Joined(f, n, map2, map1, order)
      BY JoinedExists
    <2>2. QED
      BY <2>1, Zenon
  <1>2. Join(map2, map1, order) = joined[n]
    BY Zenon DEF Join, Joined
  <1> HIDE DEF joined
  <1>3. joined[0] = map2
    <2>1. 0 \in 0 .. n
      OBVIOUS
    <2>2. QED
      BY <1>1, <2>1, Zenon DEF Joined
  <1>4. ASSUME NEW i \in 1 .. n
        PROVE  joined[i] = Insert(joined[i - 1], order[i], map1[order[i]])
    <2>1. i \in 0 .. n /\ i # 0
      OBVIOUS
    <2>2. QED
      BY <1>1, <2>1, Zenon DEF Joined
  <1>5. QED
    BY <1>2, <1>3, <1>4

LEMMA LastOfInterval ==
  ASSUME NEW a \in Nat, NEW b \in Nat, 1 .. a = 1 .. b
  PROVE  a <= b
  <1>1. CASE a = 0
    BY <1>1
  <1>2. CASE a # 0
    <2>1. a \in 1 .. a
      BY <1>2
    <2>2. a \in 1 .. b
      BY <2>1
    <2>3. QED
      BY <2>2
  <1>3. QED
    BY <1>1, <1>2

\* An order of iteration has every key once.
LEMMA OrderIs ==
  ASSUME NEW keys, IsFiniteSet(keys), NEW order \in Orders(keys)
  PROVE  /\ Cardinality(keys) \in Nat
         /\ Len(order) = Cardinality(keys)
         /\ order \in [1 .. Cardinality(keys) -> keys]
         /\ \A k \in keys : \E i \in 1 .. Cardinality(keys) : order[i] = k
         /\ \A i, j \in 1 .. Cardinality(keys) : order[i] = order[j] => i = j
  <1> DEFINE n == Cardinality(keys)
  <1>1. n \in Nat
    BY FS_CardinalityType
  <1>2. order \in [1 .. n -> keys] /\ Range(order) = keys
    BY DEF Orders
  <1> HIDE DEF n
  <1>3. \A k \in keys : \E i \in 1 .. n : order[i] = k
    BY <1>2 DEF Range
  <1>4. Len(order) = n
    <2>1. order \in Seq(keys)
      BY <1>1, <1>2, SeqDef
    <2>2. DOMAIN order = 1 .. Len(order) /\ Len(order) \in Nat
      BY <2>1, LenProperties
    <2>3. 1 .. Len(order) = 1 .. n
      BY <1>2, <2>2
    <2>4. n <= Len(order)
      BY <1>1, <2>2, <2>3, LastOfInterval
    <2>5. Len(order) <= n
      BY <1>1, <2>2, <2>3, LastOfInterval
    <2>6. Len(order) \in Nat /\ n \in Nat
      BY <1>1, <2>2
    <2>7. QED
      BY <2>4, <2>5, <2>6
  <1>5. order \in Injection(1 .. n, keys)
    <2>1. order \in Surjection(1 .. n, keys)
      BY <1>2, <1>3 DEF Surjection
    <2>2. IsFiniteSet(1 .. n) /\ Cardinality(1 .. n) = n
      BY <1>1, FS_Interval
    <2>3. QED
      BY <2>1, <2>2, FS_Surjection DEF n
  <1>6. \A i, j \in 1 .. n : order[i] = order[j] => i = j
    BY <1>2, <1>5 DEF Injection, IsInjective
  <1>7. QED
    BY <1>1, <1>2, <1>3, <1>4, <1>6 DEF n

\* There is such an order.
LEMMA OrderExists ==
  ASSUME NEW keys, IsFiniteSet(keys)
  PROVE  Orders(keys) # {}
  <1> DEFINE n == Cardinality(keys)
  <1>1. PICK order \in Bijection(1 .. n, keys) : TRUE
    BY FS_CardinalityType DEF ExistsBijection
  <1>2. order \in [1 .. n -> keys] /\ \A k \in keys : \E i \in 1 .. n : order[i] = k
    BY <1>1 DEF Bijection, Injection, Surjection
  <1>3. Range(order) = keys
    BY <1>2 DEF Range
  <1>4. QED
    BY <1>2, <1>3 DEF Orders

\* Where the entry of a key of map1 ends up.
Target(keys2, k) == IF k \in keys2 THEN k + 1 ELSE k

\* map2 after the keys in seen, in whatever order.
After(keys2, keys1, seen) ==
    [k \in keys2 \cup {Target(keys2, j) : j \in seen} |->
        IF k \in keys2 THEN <<2, k>>
        ELSE IF k \in keys1 THEN <<1, k>> ELSE <<1, k - 1>>]

\* The entry of one key more.
LEMMA InsertOneMore ==
  ASSUME NEW keys2 \in SUBSET Nat, NEW keys1 \in SUBSET Nat,
         ~RenameMeetsKey(keys2, keys1),
         NEW seen \in SUBSET keys1, NEW k \in keys1 \ seen
  PROVE  Insert(After(keys2, keys1, seen), k, <<1, k>>) =
            After(keys2, keys1, seen \cup {k})
  <1> DEFINE old == After(keys2, keys1, seen)
             new == After(keys2, keys1, seen \cup {k})
             t == Target(keys2, k)
             D == keys2 \cup {Target(keys2, j) : j \in seen}
             value(x) == IF x \in keys2 THEN <<2, x>>
                         ELSE IF x \in keys1 THEN <<1, x>> ELSE <<1, x - 1>>
  <1>1. \A j \in keys1 \cap keys2 : j + 1 \notin keys1 /\ j + 1 \notin keys2
    BY DEF RenameMeetsKey
  <1>2. k \in D <=> k \in keys2
    BY <1>1 DEF Target
  <1>3. t \notin keys2 /\ value(t) = <<1, k>>
    <2>1. CASE k \in keys2
      <3>1. t = k + 1 /\ t \notin keys2 /\ t \notin keys1 /\ t - 1 = k
        BY <1>1, <2>1 DEF Target
      <3>2. QED
        BY <3>1
    <2>2. CASE k \notin keys2
      BY <2>2 DEF Target
    <2>3. QED
      BY <2>1, <2>2
  <1>4. old = [x \in D |-> value(x)] /\ new = [x \in D \cup {t} |-> value(x)]
    BY DEF After
  <1>5. Insert(old, k, <<1, k>>) = Put(old, t, <<1, k>>)
    BY <1>2, <1>4 DEF Insert, Target, Renamed
  <1> HIDE DEF old, new, value, D, t
  <1>6. Put(old, t, <<1, k>>) = [x \in D \cup {t} |-> value(x)]
    BY <1>3, <1>4 DEF Put
  <1>7. QED
    BY <1>4, <1>5, <1>6 DEF old, new

\* When no renamed key meets another, every order ends with the same map.
LEMMA OrderDoesNotShow ==
  ASSUME NEW keys2 \in SUBSET Nat, NEW keys1 \in SUBSET Nat, IsFiniteSet(keys1),
         ~RenameMeetsKey(keys2, keys1), NEW order \in Orders(keys1)
  PROVE  Join(Map(2, keys2), Map(1, keys1), order) = After(keys2, keys1, keys1)
  <1> DEFINE n == Cardinality(keys1)
             first(i) == {order[j] : j \in 1 .. i}
  <1>1. /\ n \in Nat /\ Len(order) = n /\ order \in [1 .. n -> keys1]
        /\ \A k \in keys1 : \E i \in 1 .. n : order[i] = k
        /\ \A i, j \in 1 .. n : order[i] = order[j] => i = j
    BY OrderIs
  <1> HIDE DEF n
  <1>2. PICK f : /\ f[0] = Map(2, keys2)
                 /\ \A i \in 1 .. n :
                       f[i] = Insert(f[i - 1], order[i], Map(1, keys1)[order[i]])
                 /\ Join(Map(2, keys2), Map(1, keys1), order) = f[n]
    <2>1. Len(order) \in Nat
      BY <1>1
    <2>2. \E f : /\ f[0] = Map(2, keys2)
                 /\ \A i \in 1 .. Len(order) :
                       f[i] = Insert(f[i - 1], order[i], Map(1, keys1)[order[i]])
                 /\ Join(Map(2, keys2), Map(1, keys1), order) = f[Len(order)]
      <3> DEFINE m2 == Map(2, keys2)
                 m1 == Map(1, keys1)
      <3> HIDE DEF m2, m1
      <3>1. \E f : /\ f[0] = m2
                   /\ \A i \in 1 .. Len(order) :
                         f[i] = Insert(f[i - 1], order[i], m1[order[i]])
                   /\ Join(m2, m1, order) = f[Len(order)]
        BY <2>1, JoinIs
      <3>2. QED
        BY <3>1 DEF m2, m1
    <2>3. QED
      BY <1>1, <2>2
  <1> DEFINE S == {i \in Nat : i <= n => f[i] = After(keys2, keys1, first(i))}
  <1>3. 0 \in S
    <2>1. first(0) = {}
      OBVIOUS
    <2>2. After(keys2, keys1, {}) = Map(2, keys2)
      BY DEF After, Map
    <2>3. QED
      BY <1>2, <2>1, <2>2
  <1>4. ASSUME NEW i \in Nat, i \in S
        PROVE  i + 1 \in S
    <2> SUFFICES ASSUME i + 1 <= n
                 PROVE  f[i + 1] = After(keys2, keys1, first(i + 1))
      OBVIOUS
    <2>1. i + 1 \in 1 .. n /\ (i + 1) - 1 = i /\ i <= n
      BY <1>1
    <2>2. order[i + 1] \in keys1 \ first(i) /\ first(i) \in SUBSET keys1
      BY <1>1, <2>1
    <2>3. first(i + 1) = first(i) \cup {order[i + 1]}
      <3>1. 1 .. i + 1 = (1 .. i) \cup {i + 1}
        OBVIOUS
      <3>2. QED
        BY <3>1
    <2>4. f[i] = After(keys2, keys1, first(i))
      BY <1>4, <2>1
    <2>5. Map(1, keys1)[order[i + 1]] = <<1, order[i + 1]>>
      BY <2>2 DEF Map
    <2>6. f[i + 1] = Insert(f[i], order[i + 1], <<1, order[i + 1]>>)
      BY <1>2, <2>1, <2>5
    <2> HIDE DEF first
    <2>7. QED
      <3> DEFINE seen == first(i)
                 k == order[i + 1]
      <3>1. seen \in SUBSET keys1 /\ k \in keys1 \ seen
        BY <2>2
      <3>2. f[i + 1] = Insert(After(keys2, keys1, seen), k, <<1, k>>)
            /\ first(i + 1) = seen \cup {k}
        BY <2>3, <2>4, <2>6
      <3> HIDE DEF seen, k
      <3>3. Insert(After(keys2, keys1, seen), k, <<1, k>>) =
              After(keys2, keys1, seen \cup {k})
        BY <3>1, InsertOneMore
      <3>4. QED
        BY <3>2, <3>3
  <1>5. n \in S
    <2> HIDE DEF S
    <2>1. QED
      BY <1>1, <1>3, <1>4, UpwardInduction
  <1>6. first(n) = keys1
    <2>1. ASSUME NEW k \in keys1
          PROVE  k \in first(n)
      BY <1>1
    <2>2. ASSUME NEW j \in 1 .. n
          PROVE  order[j] \in keys1
      BY <1>1
    <2>3. QED
      BY <2>1, <2>2
  <1>7. f[n] = After(keys2, keys1, first(n))
    <2> HIDE DEF first
    <2>1. n \in Nat /\ n <= n
      BY <1>1
    <2>2. QED
      BY <1>5, <2>1
  <1>8. Join(Map(2, keys2), Map(1, keys1), order) = f[n]
    BY <1>2, Zenon
  <1> HIDE DEF first
  <1>9. QED
    BY <1>6, <1>7, <1>8, Zenon

LEMMA NothingLost ==
  ASSUME NEW keys2 \in SUBSET Nat, NEW keys1 \in SUBSET Nat, IsFiniteSet(keys1),
         ~RenameMeetsKey(keys2, keys1)
  PROVE  JoinKeepsAll(keys2, keys1)
  <1> DEFINE joined == After(keys2, keys1, keys1)
  <1>1. Results(keys2, keys1) = {joined}
    BY OrderDoesNotShow, OrderExists DEF Results
  <1>2. Cardinality({joined}) = 1
    BY FS_Singleton
  <1>3. \A k \in keys2 : joined[k] = <<2, k>>
    BY DEF After
  <1>4. ASSUME NEW k \in keys1
        PROVE  joined[IF k \in keys2 THEN k + 1 ELSE k] = <<1, k>>
    <2>1. CASE k \in keys2
      <3>1. k + 1 \notin keys1 /\ k + 1 \notin keys2 /\ (k + 1) - 1 = k
        BY <2>1 DEF RenameMeetsKey
      <3>2. k + 1 \in {Target(keys2, j) : j \in keys1}
        BY <2>1 DEF Target
      <3>3. joined[k + 1] = <<1, k>>
        BY <3>1, <3>2 DEF After
      <3>4. QED
        BY <2>1, <3>3
    <2>2. CASE k \notin keys2
      <3>1. k \in {Target(keys2, j) : j \in keys1}
        BY <2>2 DEF Target
      <3>2. joined[k] = <<1, k>>
        BY <2>2, <3>1 DEF After
      <3>3. QED
        BY <2>2, <3>2
    <2>3. QED
      BY <2>1, <2>2
  <1> HIDE DEF joined
  <1>5. /\ Cardinality(Results(keys2, keys1)) = 1
        /\ \A m \in Results(keys2, keys1) :
              /\ \A k \in keys2 : m[k] = <<2, k>>
              /\ \A k \in keys1 : m[IF k \in keys2 THEN k + 1 ELSE k] = <<1, k>>
    BY <1>1, <1>2, <1>3, <1>4
  <1>6. QED
    BY <1>5, Zenon DEF JoinKeepsAll

\* When a renamed key meets another, its entry takes that one's place in an
\* order that comes to it when the other is there.
LEMMA BadOrder ==
  ASSUME NEW keys1, IsFiniteSet(keys1), NEW k \in keys1, NEW l \in keys1, k # l
  PROVE  \E order \in Orders(keys1) : \E i, j \in 1 .. Cardinality(keys1) :
            order[i] = k /\ order[j] = l /\ j < i
  <1> DEFINE n == Cardinality(keys1)
  <1>1. PICK order \in Orders(keys1) : TRUE
    BY OrderExists
  <1>2. /\ n \in Nat /\ order \in [1 .. n -> keys1]
        /\ \A x \in keys1 : \E i \in 1 .. n : order[i] = x
    BY <1>1, OrderIs
  <1>3. PICK i \in 1 .. n : order[i] = k
    BY <1>2
  <1>4. PICK j \in 1 .. n : order[j] = l
    BY <1>2
  <1>5. CASE j < i
    BY <1>1, <1>3, <1>4, <1>5
  <1>6. CASE i < j
    <2> DEFINE swapped == [order EXCEPT ![i] = l, ![j] = k]
    <2>1. /\ swapped \in [1 .. n -> keys1] /\ swapped[i] = l /\ swapped[j] = k
          /\ \A x \in (1 .. n) \ {i, j} : swapped[x] = order[x]
      <3>1. i # j
        BY <1>2, <1>6
      <3>2. QED
        BY <1>2, <3>1
    <2> HIDE DEF swapped
    <2>2. ASSUME NEW x \in keys1
          PROVE  \E y \in 1 .. n : swapped[y] = x
      <3>1. PICK y \in 1 .. n : order[y] = x
        BY <1>2
      <3>2. CASE y \in {i, j}
        BY <1>3, <1>4, <2>1, <3>1, <3>2
      <3>3. CASE y \notin {i, j}
        BY <2>1, <3>1, <3>3
      <3>4. QED
        BY <3>2, <3>3
    <2>3. Range(swapped) = keys1
      BY <2>1, <2>2 DEF Range
    <2>4. swapped \in Orders(keys1)
      BY <2>1, <2>3 DEF Orders
    <2>5. QED
      BY <1>6, <2>1, <2>4
  <1>7. QED
    BY <1>2, <1>3, <1>4, <1>5, <1>6

LEMMA InsertGrows ==
  ASSUME NEW map, NEW key, NEW value, IsFiniteSet(DOMAIN map)
  PROVE  LET after == DOMAIN Insert(map, key, value)
         IN  /\ IsFiniteSet(after)
             /\ Cardinality(after) \in Nat /\ Cardinality(DOMAIN map) \in Nat
             /\ Cardinality(after) <= Cardinality(DOMAIN map) + 1
             /\ DOMAIN map \subseteq after
             /\ key \in after
             /\ key \in DOMAIN map /\ key + 1 \in DOMAIN map => after = DOMAIN map
  <1> DEFINE put == IF key \in DOMAIN map THEN key + 1 ELSE key
  <1>1. DOMAIN Insert(map, key, value) = DOMAIN map \cup {put}
    BY DEF Insert, Put, Renamed
  <1>2. key \in DOMAIN map \cup {put}
    OBVIOUS
  <1>3. key \in DOMAIN map /\ key + 1 \in DOMAIN map => put \in DOMAIN map
    OBVIOUS
  <1> HIDE DEF put
  <1>4. /\ IsFiniteSet(DOMAIN map \cup {put})
        /\ Cardinality(DOMAIN map \cup {put}) =
             IF put \in DOMAIN map THEN Cardinality(DOMAIN map)
                                   ELSE Cardinality(DOMAIN map) + 1
    BY FS_AddElement
  <1>5. Cardinality(DOMAIN map) \in Nat
    BY FS_CardinalityType
  <1>6. QED
    BY <1>1, <1>2, <1>3, <1>4, <1>5

LEMMA SomethingLost ==
  ASSUME NEW keys2 \in SUBSET Nat, NEW keys1 \in SUBSET Nat,
         IsFiniteSet(keys1), IsFiniteSet(keys2), RenameMeetsKey(keys2, keys1)
  PROVE  JoinKeepsAll(keys2, keys1)
  <1> DEFINE n1 == Cardinality(keys1)
             n2 == Cardinality(keys2)
             m2 == Map(2, keys2)
             m1 == Map(1, keys1)
  <1>1. n1 \in Nat /\ n2 \in Nat
    BY FS_CardinalityType
  <1>2. PICK k \in keys1 \cap keys2 : k + 1 \in keys1 \cup keys2
    BY DEF RenameMeetsKey
  <1>3. \E order \in Orders(keys1) : \E q \in 1 .. n1 :
           /\ order[q] = k
           /\ k + 1 \in keys2 \/ \E j \in 1 .. n1 : j < q /\ order[j] = k + 1
    <2>1. CASE k + 1 \in keys2
      <3>1. PICK order \in Orders(keys1) : TRUE
        BY OrderExists
      <3>2. \E q \in 1 .. n1 : order[q] = k
        BY <1>2, <3>1, OrderIs
      <3>3. QED
        BY <2>1, <3>1, <3>2
    <2>2. CASE k + 1 \in keys1
      <3>1. k # k + 1
        BY <1>2
      <3>2. QED
        BY <1>2, <2>2, <3>1, BadOrder
    <2>3. QED
      BY <1>2, <2>1, <2>2
  <1>4. PICK order \in Orders(keys1), q \in 1 .. n1 :
           /\ order[q] = k
           /\ k + 1 \in keys2 \/ \E j \in 1 .. n1 : j < q /\ order[j] = k + 1
    BY <1>3
  <1>5. Len(order) = n1
    BY OrderIs
  <1> HIDE DEF n1, n2, m2, m1
  <1>6. PICK f : /\ f[0] = m2
                 /\ \A i \in 1 .. n1 :
                       f[i] = Insert(f[i - 1], order[i], m1[order[i]])
                 /\ Join(m2, m1, order) = f[n1]
    <2>1. Len(order) \in Nat
      BY <1>1, <1>5
    <2>2. \E f : /\ f[0] = m2
                 /\ \A i \in 1 .. Len(order) :
                       f[i] = Insert(f[i - 1], order[i], m1[order[i]])
                 /\ Join(m2, m1, order) = f[Len(order)]
      BY <2>1, JoinIs
    <2>3. QED
      BY <1>5, <2>2
  \* What is in the map after i entries, and one less than there might be from
  \* the renamed key on.
  <1> DEFINE Known(i) ==
               /\ IsFiniteSet(DOMAIN f[i]) /\ Cardinality(DOMAIN f[i]) \in Nat
               /\ keys2 \subseteq DOMAIN f[i]
               /\ \A j \in 1 .. i : order[j] \in DOMAIN f[i]
               /\ Cardinality(DOMAIN f[i]) <= n2 + i
               /\ q <= i => Cardinality(DOMAIN f[i]) < n2 + i
             S == {i \in Nat : i <= n1 => Known(i)}
  <1>7. 0 \in S
    <2>1. DOMAIN f[0] = keys2
      BY <1>6 DEF m2, Map
    <2>2. IsFiniteSet(keys2) /\ Cardinality(keys2) = n2
      BY DEF n2
    <2>3. Known(0)
      BY <1>1, <1>4, <2>1, <2>2
    <2>4. QED
      BY <2>3
  <1>8. ASSUME NEW i \in Nat, i \in S
        PROVE  i + 1 \in S
    <2> SUFFICES ASSUME i + 1 <= n1
                 PROVE  Known(i + 1)
      OBVIOUS
    <2>1. i + 1 \in 1 .. n1 /\ (i + 1) - 1 = i /\ i <= n1
      BY <1>1
    <2>2. Known(i)
      BY <1>8, <2>1
    <2> DEFINE key == order[i + 1]
               old == DOMAIN f[i]
               new == DOMAIN f[i + 1]
    <2>3. f[i + 1] = Insert(f[i], key, m1[key])
      BY <1>6, <2>1
    <2>4. /\ IsFiniteSet(new) /\ Cardinality(new) \in Nat
          /\ Cardinality(new) <= Cardinality(old) + 1
          /\ old \subseteq new /\ key \in new
          /\ key \in old /\ key + 1 \in old => new = old
      BY <2>2, <2>3, InsertGrows
    <2>5. ASSUME q = i + 1
          PROVE  new = old
      <3>1. key = k /\ k \in old
        BY <1>2, <1>4, <2>2, <2>5
      <3>2. k + 1 \in old
        <4>1. CASE k + 1 \in keys2
          BY <2>2, <4>1
        <4>2. ASSUME NEW j \in 1 .. n1, j < q, order[j] = k + 1
              PROVE  k + 1 \in old
          <5>1. j \in 1 .. i
            BY <2>5, <4>2
          <5>2. QED
            BY <2>2, <4>2, <5>1
        <4>3. QED
          BY <1>4, <4>1, <4>2
      <3>3. QED
        BY <2>4, <3>1, <3>2
    <2>6. \A j \in 1 .. i + 1 : order[j] \in new
      <3>1. \A j \in 1 .. i + 1 : j \in 1 .. i \/ j = i + 1
        OBVIOUS
      <3>2. QED
        BY <2>2, <2>4, <3>1
    <2>7. Cardinality(new) <= n2 + (i + 1)
      BY <1>1, <2>2, <2>4
    <2>8. q <= i + 1 => Cardinality(new) < n2 + (i + 1)
      <3>1. CASE q = i + 1
        BY <1>1, <2>2, <2>5, <3>1
      <3>2. CASE q <= i
        BY <1>1, <2>2, <2>4, <3>2
      <3>3. q \in Nat
        BY <1>4
      <3>4. QED
        BY <3>1, <3>2, <3>3
    <2>9. keys2 \subseteq new
      BY <2>2, <2>4
    <2>10. QED
      BY <2>4, <2>6, <2>7, <2>8, <2>9
  <1>9. n1 \in S
    <2> HIDE DEF S
    <2>1. QED
      BY <1>1, <1>7, <1>8, UpwardInduction
  <1>10. Cardinality(DOMAIN f[n1]) < n2 + n1
    <2>1. q <= n1 /\ n1 <= n1
      BY <1>1, <1>4
    <2>2. QED
      BY <1>9, <2>1
  <1>11. f[n1] \in Results(keys2, keys1)
    BY <1>4, <1>6 DEF Results, m2, m1
  <1>12. n2 + n1 = n1 + n2
    BY <1>1
  <1>13. \E m \in Results(keys2, keys1) :
            Cardinality(DOMAIN m) < Cardinality(keys1) + Cardinality(keys2)
    BY <1>10, <1>11, <1>12 DEF n1, n2
  <1>14. QED
    BY <1>13, Zenon DEF JoinKeepsAll

LEMMA MapsOfAnyKeys ==
  ASSUME NEW keys2 \in SUBSET Nat, NEW keys1 \in SUBSET Nat,
         IsFiniteSet(keys2), IsFiniteSet(keys1)
  PROVE  JoinKeepsAll(keys2, keys1)
  <1>1. CASE RenameMeetsKey(keys2, keys1)
    BY <1>1, SomethingLost, Zenon
  <1>2. CASE ~RenameMeetsKey(keys2, keys1)
    BY <1>2, NothingLost, Zenon
  <1>3. QED
    BY <1>1, <1>2, Zenon

-----------------------------------------------------------------------------
(* The theorems.  MCHelpers gives each helper an input; what is proved of  *)
(* every input holds of those.                                             *)

InputOK ==
    /\ input.of = "key" => input.length \in Nat
    /\ input.of = "pool" => input.idle \in Sizes /\ input.open \in Sizes
    /\ input.of = "maps" =>
          /\ input.keys2 \in SUBSET (0 .. MaxUnderscores)
          /\ input.keys1 \in SUBSET (0 .. MaxUnderscores)

LEMMA InputsAreOK == Spec => []InputOK
  <1>1. Init => InputOK
    BY DEF Init, InputOK
  <1>2. InputOK /\ [Next]_input => InputOK'
    <2> SUFFICES ASSUME InputOK, [Next]_input
                 PROVE  InputOK'
      OBVIOUS
    <2>1. CASE PickKey
      BY <2>1, BoundsAssumption DEF InputOK, PickKey
    <2>2. CASE PickPool
      BY <2>2 DEF InputOK, PickPool
    <2>3. CASE PickMaps
      <3>1. PICK keys2, keys1 \in SUBSET (0 .. MaxUnderscores) :
               input' = [of |-> "maps", keys2 |-> keys2, keys1 |-> keys1]
        BY <2>3 DEF PickMaps
      <3>2. input'.of = "maps" /\ input'.keys2 = keys2 /\ input'.keys1 = keys1
        BY <3>1
      <3>3. QED
        BY <3>2 DEF InputOK
    <2>4. CASE UNCHANGED input
      BY <2>4 DEF InputOK
    <2>5. QED
      BY <2>1, <2>2, <2>3, <2>4 DEF Next
  <1>3. QED
    BY <1>1, <1>2, PTL DEF Spec

\* ParseKey and createGCM cut a key of any length to one that AES takes, and
\* use no less of it than the longest AES key shorter than it
\* (encryption.go:53-62, 80-89).
THEOREM AnyKeyIsCut == Spec => []KeysAreCut
  <1>1. InputOK => KeysAreCut
    BY KeysOfAnyLength DEF InputOK, KeysAreCut
  <1>2. QED
    BY <1>1, InputsAreOK, PTL

\* For any width of int, a pool has the limits that were asked for, but for an
\* idle limit that int cannot hold (conn.go:66-79, 103-116).
THEOREM AnyPoolIsAsAsked == Spec => []PoolIsAsAsked
  <1>1. InputOK => PoolIsAsAsked
    BY PoolsOfAnySize DEF InputOK, PoolIsAsAsked
  <1>2. QED
    BY <1>1, InputsAreOK, PTL

\* For maps of any size: the order in which Go iterates over a map does not show
\* in the joined map, and no entry is lost, unless a renamed key meets another;
\* if one does, an entry is lost in some order (joinmap.go).
THEOREM AnyMapsAreJoined == Spec => []MapsAreJoined
  <1>1. ASSUME NEW keys \in SUBSET (0 .. MaxUnderscores)
        PROVE  keys \in SUBSET Nat /\ IsFiniteSet(keys)
    <2>1. IsFiniteSet(0 .. MaxUnderscores)
      BY BoundsAssumption, FS_Interval
    <2>2. keys \in SUBSET Nat
      BY BoundsAssumption
    <2>3. keys \subseteq 0 .. MaxUnderscores
      OBVIOUS
    <2>4. IsFiniteSet(keys)
      BY <2>1, <2>3, FS_Subset, Zenon
    <2>5. QED
      BY <2>2, <2>4
  <1>2. InputOK => MapsAreJoined
    BY <1>1, MapsOfAnyKeys DEF InputOK, MapsAreJoined
  <1>3. QED
    BY <1>2, InputsAreOK, PTL
=============================================================================
