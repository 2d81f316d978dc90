----------------------------- MODULE ChainProofs -----------------------------
(***************************************************************************)
(* Proofs about Chain, for any number of calls and every order of the      *)
(* interceptors: what the adders make of the chain, how far each call has  *)
(* come through it, what has been written of the call by then, and the     *)
(* properties that follow from the three.                                  *)
(***************************************************************************)
EXTENDS Chain, SequenceTheorems, NumberInduction

(* The chain ch that the adders have built when they were called as s says. *)

IsLayer(ch, i, adder, kind) ==
    i \in DOMAIN ch /\ ch[i].of = adder /\ ch[i].kind = kind

Before(s, a, b) == \E i, j \in DOMAIN s : i < j /\ s[i] = a /\ s[j] = b

AddedOnce(s) == \A i, j \in DOMAIN s : s[i] = s[j] => i = j

Offered ==
    {<<"logging", "ctxtags">>, <<"logging", "zap">>, <<"payload", "ctxtags">>,
     <<"payload", "zap">>, <<"payload", "payload">>, <<"recovery", "recovery">>,
     <<"auth", "auth">>}

\* Every layer is one that its adder adds, ...
LayersOffered(s, ch) ==
    \A i \in DOMAIN ch :
        ch[i].of \in Range(s) /\ <<ch[i].of, ch[i].kind>> \in Offered

\* ... is there once, ...
NoLayerTwice(ch) ==
    \A i, j \in DOMAIN ch : ch[i].of = ch[j].of /\ ch[i].kind = ch[j].kind => i = j

\* ... outside those of later adders, ...
InOrderAdded(s, ch) ==
    \A i, j \in DOMAIN ch :
        i < j => ch[i].of = ch[j].of \/ Before(s, ch[i].of, ch[j].of)

\* ... and none is missing; the layers of one adder are next to each other.
LayersPresent(s, ch) ==
    /\ "logging" \in Range(s) =>
          \E i \in DOMAIN ch : /\ IsLayer(ch, i, "logging", "ctxtags")
                               /\ IsLayer(ch, i + 1, "logging", "zap")
    /\ "payload" \in Range(s) =>
          \E i \in DOMAIN ch : /\ IsLayer(ch, i, "payload", "ctxtags")
                               /\ IsLayer(ch, i + 1, "payload", "zap")
                               /\ IsLayer(ch, i + 2, "payload", "payload")
    /\ \A a \in {"recovery", "auth"} \cap Range(s) :
          \E i \in DOMAIN ch : IsLayer(ch, i, a, a)

ShapeOf(s, ch) ==
    /\ s \in Seq(Adders)
    /\ ch \in Seq(Layers)
    /\ AddedOnce(s)
    /\ LayersOffered(s, ch)
    /\ NoLayerTwice(ch)
    /\ InOrderAdded(s, ch)
    /\ LayersPresent(s, ch)

ChainShape == ShapeOf(added, chain)

LEMMA ShapeOfNothing == ShapeOf(<<>>, <<>>)
  <1>1. <<>> \in Seq(Adders) /\ <<>> \in Seq(Layers)
    BY EmptySeq
  <1>2. Range(<<>>) = {}
    BY DEF Range
  <1>3. QED
    BY <1>1, <1>2 DEF ShapeOf, AddedOnce, LayersOffered, NoLayerTwice,
                      InOrderAdded, LayersPresent

\* The lists that the package's functions return.
LEMMA InterceptorsAre ==
  ASSUME NEW adder \in Adders
  PROVE  LET layers == Interceptors(adder)
         IN  /\ layers \in Seq(Layers)
             /\ \A i \in DOMAIN layers :
                   layers[i].of = adder /\ <<adder, layers[i].kind>> \in Offered
             /\ \A i, j \in DOMAIN layers : layers[i].kind = layers[j].kind => i = j
  <1> DEFINE layers == Interceptors(adder)
  <1> SUFFICES /\ layers \in Seq(Layers)
               /\ \A i \in DOMAIN layers :
                     layers[i].of = adder /\ <<adder, layers[i].kind>> \in Offered
               /\ \A i, j \in DOMAIN layers : layers[i].kind = layers[j].kind => i = j
    OBVIOUS
  <1>1. CASE adder = "logging"
    <2>1. layers = <<[kind |-> "ctxtags", of |-> "logging"],
                     [kind |-> "zap", of |-> "logging"]>>
      BY <1>1 DEF Interceptors, AddLogging, Layer
    <2>2. /\ DOMAIN layers = 1 .. 2
          /\ layers[1].of = "logging" /\ layers[1].kind = "ctxtags"
          /\ layers[2].of = "logging" /\ layers[2].kind = "zap"
      BY <2>1
    <2>3. layers \in Seq(Layers)
      BY <2>1 DEF Layers, Kinds, Adders
    <2>4. QED
      BY <1>1, <2>2, <2>3 DEF Offered
  <1>2. CASE adder = "payload"
    <2>1. layers = <<[kind |-> "ctxtags", of |-> "payload"],
                     [kind |-> "zap", of |-> "payload"],
                     [kind |-> "payload", of |-> "payload"]>>
      BY <1>2 DEF Interceptors, AddPayloadLogging, Layer
    <2>2. /\ DOMAIN layers = 1 .. 3
          /\ layers[1].of = "payload" /\ layers[1].kind = "ctxtags"
          /\ layers[2].of = "payload" /\ layers[2].kind = "zap"
          /\ layers[3].of = "payload" /\ layers[3].kind = "payload"
      BY <2>1
    <2>3. layers \in Seq(Layers)
      BY <2>1 DEF Layers, Kinds, Adders
    <2>4. QED
      BY <1>2, <2>2, <2>3 DEF Offered
  <1>3. CASE adder = "recovery"
    <2>1. layers = <<[kind |-> "recovery", of |-> "recovery"]>>
      BY <1>3 DEF Interceptors, AddRecovery, Layer
    <2>2. /\ DOMAIN layers = 1 .. 1
          /\ layers[1].of = "recovery" /\ layers[1].kind = "recovery"
      BY <2>1
    <2>3. layers \in Seq(Layers)
      BY <2>1 DEF Layers, Kinds, Adders
    <2>4. QED
      BY <1>3, <2>2, <2>3 DEF Offered
  <1>4. CASE adder = "auth"
    <2>1. layers = <<[kind |-> "auth", of |-> "auth"]>>
      BY <1>4 DEF Interceptors, AddAuth, Layer
    <2>2. /\ DOMAIN layers = 1 .. 1
          /\ layers[1].of = "auth" /\ layers[1].kind = "auth"
      BY <2>1
    <2>3. layers \in Seq(Layers)
      BY <2>1 DEF Layers, Kinds, Adders
    <2>4. QED
      BY <1>4, <2>2, <2>3 DEF Offered
  <1>5. CASE adder = "open"
    <2>1. layers = <<>>
      BY <1>5 DEF Interceptors, AddAuth
    <2>2. QED
      BY <2>1, EmptySeq
  <1>6. QED
    BY <1>1, <1>2, <1>3, <1>4, <1>5 DEF Adders

\* Who has been added before whom, after one more.
LEMMA OneMoreAdder ==
  ASSUME NEW s \in Seq(Adders), AddedOnce(s), NEW adder \in Adders \ Range(s)
  PROVE  LET t == Append(s, adder)
         IN  /\ t \in Seq(Adders) /\ AddedOnce(t)
             /\ Range(t) = Range(s) \cup {adder}
             /\ \A a, b : Before(s, a, b) => Before(t, a, b)
             /\ \A a \in Range(s) : Before(t, a, adder)
  <1> DEFINE t == Append(s, adder)
  <1>1. /\ t \in Seq(Adders) /\ Len(t) = Len(s) + 1
        /\ Len(s) \in Nat
        /\ DOMAIN s = 1 .. Len(s) /\ DOMAIN t = 1 .. Len(s) + 1
        /\ \A i \in 1 .. Len(s) : t[i] = s[i]
        /\ t[Len(s) + 1] = adder
    BY AppendProperties, LenProperties
  <1> HIDE DEF t
  <1>2. \A i \in DOMAIN s : s[i] # adder
    BY DEF Range
  <1>3. AddedOnce(t)
    BY <1>1, <1>2 DEF AddedOnce
  <1>4. Range(t) = Range(s) \cup {adder}
    BY <1>1 DEF Range
  <1>5. \A a, b : Before(s, a, b) => Before(t, a, b)
    BY <1>1 DEF Before
  <1>6. \A a \in Range(s) : Before(t, a, adder)
    BY <1>1 DEF Before, Range
  <1>7. QED
    BY <1>1, <1>3, <1>4, <1>5, <1>6 DEF t

\* One adder more keeps the shape of the chain.
LEMMA ShapeAfterAdder ==
  ASSUME NEW s, NEW ch, ShapeOf(s, ch), NEW adder \in Adders \ Range(s)
  PROVE  ShapeOf(Append(s, adder), ch \o Interceptors(adder))
  <1> DEFINE layers == Interceptors(adder)
             t == Append(s, adder)
             more == ch \o layers
  <1>1. /\ ch \in Seq(Layers) /\ s \in Seq(Adders)
        /\ layers \in Seq(Layers)
    BY InterceptorsAre DEF ShapeOf
  <1>2. /\ t \in Seq(Adders) /\ AddedOnce(t)
        /\ Range(t) = Range(s) \cup {adder}
        /\ \A a, b : Before(s, a, b) => Before(t, a, b)
        /\ \A a \in Range(s) : Before(t, a, adder)
    BY <1>1, OneMoreAdder DEF ShapeOf
  <1>3. /\ \A i \in DOMAIN layers : layers[i].of = adder
        /\ \A i \in DOMAIN layers : <<adder, layers[i].kind>> \in Offered
        /\ \A i, j \in DOMAIN layers : layers[i].kind = layers[j].kind => i = j
    BY InterceptorsAre
  <1>4. /\ adder = "logging" =>
              /\ DOMAIN layers = 1 .. 2
              /\ layers[1].kind = "ctxtags" /\ layers[2].kind = "zap"
        /\ adder = "payload" =>
              /\ DOMAIN layers = 1 .. 3
              /\ layers[1].kind = "ctxtags" /\ layers[2].kind = "zap"
              /\ layers[3].kind = "payload"
        /\ adder \in {"recovery", "auth"} =>
              DOMAIN layers = {1} /\ layers[1].kind = adder
    BY DEF Interceptors, AddLogging, AddPayloadLogging, AddRecovery, AddAuth, Layer
  <1> HIDE DEF layers, t
  <1>5. /\ more \in Seq(Layers)
        /\ Len(more) = Len(ch) + Len(layers)
        /\ \A i \in 1 .. Len(ch) + Len(layers) :
              more[i] = IF i <= Len(ch) THEN ch[i] ELSE layers[i - Len(ch)]
    BY <1>1, ConcatProperties
  <1>6. /\ Len(ch) \in Nat /\ DOMAIN ch = 1 .. Len(ch)
        /\ Len(layers) \in Nat /\ DOMAIN layers = 1 .. Len(layers)
    BY <1>1, LenProperties
  <1>7. DOMAIN more = 1 .. Len(ch) + Len(layers)
    BY <1>5, LenProperties
  <1> HIDE DEF more
  <1>8. \A i \in DOMAIN ch : i \in DOMAIN more /\ more[i] = ch[i]
    BY <1>5, <1>6, <1>7
  <1>9. ASSUME NEW i \in DOMAIN more, i \notin DOMAIN ch
        PROVE  /\ i > Len(ch) /\ i - Len(ch) \in DOMAIN layers
               /\ more[i] = layers[i - Len(ch)]
               /\ more[i].of = adder
               /\ <<adder, more[i].kind>> \in Offered
    <2>1. /\ i > Len(ch) /\ i - Len(ch) \in DOMAIN layers
          /\ more[i] = layers[i - Len(ch)]
      BY <1>5, <1>6, <1>7, <1>9
    <2>2. QED
      BY <2>1, <1>3
  <1>10. LayersOffered(t, more)
    BY <1>2, <1>8, <1>9 DEF ShapeOf, LayersOffered
  <1>11. \A i \in DOMAIN ch : ch[i].of # adder
    BY DEF ShapeOf, LayersOffered
  <1>12. NoLayerTwice(more)
    <2> SUFFICES ASSUME NEW i \in DOMAIN more, NEW j \in DOMAIN more,
                        more[i].of = more[j].of, more[i].kind = more[j].kind
                 PROVE  i = j
      BY DEF NoLayerTwice
    <2>1. CASE i \in DOMAIN ch /\ j \in DOMAIN ch
      BY <2>1, <1>8 DEF ShapeOf, NoLayerTwice
    <2>2. CASE i \in DOMAIN ch /\ j \notin DOMAIN ch
      BY <2>2, <1>8, <1>9, <1>11
    <2>3. CASE i \notin DOMAIN ch /\ j \in DOMAIN ch
      BY <2>3, <1>8, <1>9, <1>11
    <2>4. CASE i \notin DOMAIN ch /\ j \notin DOMAIN ch
      <3>1. /\ i - Len(ch) \in DOMAIN layers /\ more[i] = layers[i - Len(ch)]
            /\ j - Len(ch) \in DOMAIN layers /\ more[j] = layers[j - Len(ch)]
        BY <2>4, <1>9
      <3>2. layers[i - Len(ch)].kind = layers[j - Len(ch)].kind
        BY <3>1
      <3>3. i - Len(ch) = j - Len(ch)
        BY <3>1, <3>2, <1>3
      <3>4. QED
        BY <3>3, <1>6, <1>7
    <2>5. QED
      BY <2>1, <2>2, <2>3, <2>4
  <1>13. InOrderAdded(t, more)
    <2> SUFFICES ASSUME NEW i \in DOMAIN more, NEW j \in DOMAIN more, i < j,
                        more[i].of # more[j].of
                 PROVE  Before(t, more[i].of, more[j].of)
      BY DEF InOrderAdded
    <2>1. CASE i \in DOMAIN ch /\ j \in DOMAIN ch
      BY <2>1, <1>2, <1>8 DEF ShapeOf, InOrderAdded
    <2>2. CASE i \in DOMAIN ch /\ j \notin DOMAIN ch
      BY <2>2, <1>2, <1>8, <1>9 DEF ShapeOf, LayersOffered
    <2>3. CASE i \notin DOMAIN ch
      <3>1. j \notin DOMAIN ch
        BY <2>3, <1>6, <1>7
      <3>2. QED
        BY <2>3, <3>1, <1>9
    <2>4. QED
      BY <2>1, <2>2, <2>3
  <1>14. ASSUME NEW i, NEW a, NEW k, IsLayer(ch, i, a, k)
         PROVE  i \in DOMAIN more /\ IsLayer(more, i, a, k)
    BY <1>14, <1>8 DEF IsLayer
  <1>15. ASSUME NEW i \in DOMAIN layers
         PROVE  /\ Len(ch) + i \in DOMAIN more
                /\ IsLayer(more, Len(ch) + i, adder, layers[i].kind)
    BY <1>3, <1>5, <1>6, <1>7 DEF IsLayer
  <1>16. LayersPresent(t, more)
    <2>1. ASSUME "logging" \in Range(t)
          PROVE  \E i \in DOMAIN more : /\ IsLayer(more, i, "logging", "ctxtags")
                                        /\ IsLayer(more, i + 1, "logging", "zap")
      <3>1. CASE adder = "logging"
        <4>1. /\ IsLayer(more, Len(ch) + 1, "logging", "ctxtags")
              /\ IsLayer(more, Len(ch) + 2, "logging", "zap")
              /\ Len(ch) + 1 \in DOMAIN more
          BY <3>1, <1>4, <1>15
        <4>2. QED
          BY <4>1, <1>6
      <3>2. CASE "logging" \in Range(s)
        BY <3>2, <1>14 DEF ShapeOf, LayersPresent
      <3>3. QED
        BY <2>1, <3>1, <3>2, <1>2
    <2>2. ASSUME "payload" \in Range(t)
          PROVE  \E i \in DOMAIN more : /\ IsLayer(more, i, "payload", "ctxtags")
                                        /\ IsLayer(more, i + 1, "payload", "zap")
                                        /\ IsLayer(more, i + 2, "payload", "payload")
      <3>1. CASE adder = "payload"
        <4>1. /\ IsLayer(more, Len(ch) + 1, "payload", "ctxtags")
              /\ IsLayer(more, Len(ch) + 2, "payload", "zap")
              /\ IsLayer(more, Len(ch) + 3, "payload", "payload")
              /\ Len(ch) + 1 \in DOMAIN more
          BY <3>1, <1>4, <1>15
        <4>2. QED
          BY <4>1, <1>6
      <3>2. CASE "payload" \in Range(s)
        BY <3>2, <1>14 DEF ShapeOf, LayersPresent
      <3>3. QED
        BY <2>2, <3>1, <3>2, <1>2
    <2>3. ASSUME NEW a \in {"recovery", "auth"} \cap Range(t)
          PROVE  \E i \in DOMAIN more : IsLayer(more, i, a, a)
      <3>1. CASE adder = a
        BY <3>1, <1>4, <1>15
      <3>2. CASE a \in Range(s)
        BY <3>2, <1>14 DEF ShapeOf, LayersPresent
      <3>3. QED
        BY <3>1, <3>2, <1>2
    <2>4. QED
      BY <2>1, <2>2, <2>3 DEF LayersPresent
  <1>17. ShapeOf(t, more)
    BY <1>2, <1>5, <1>10, <1>12, <1>13, <1>16 DEF ShapeOf
  <1>18. QED
    BY <1>17 DEF t, more, layers

-----------------------------------------------------------------------------
(* What a call finds in such a chain.                                      *)

LEMMA ChainType ==
  ASSUME ChainShape
  PROVE  /\ Len(chain) \in Nat /\ DOMAIN chain = 1 .. Len(chain)
         /\ \A i \in DOMAIN chain : chain[i].kind \in Kinds /\ chain[i].of \in Adders
  <1>1. chain \in Seq(Layers)
    BY DEF ChainShape, ShapeOf
  <1>2. Len(chain) \in Nat /\ DOMAIN chain = 1 .. Len(chain)
    BY <1>1, LenProperties
  <1>3. \A i \in DOMAIN chain : chain[i] \in Layers
    BY <1>1, <1>2
  <1>4. QED
    BY <1>2, <1>3 DEF Layers

\* A layer's adder follows from its kind, but for those that both loggers add.
LEMMA LayerKinds ==
  ASSUME ChainShape, NEW i \in DOMAIN chain
  PROVE  /\ Has(chain[i].of)
         /\ chain[i].kind = "auth" <=> chain[i].of = "auth"
         /\ chain[i].kind = "recovery" <=> chain[i].of = "recovery"
         /\ chain[i].kind \in {"zap", "ctxtags"} =>
               chain[i].of \in {"logging", "payload"}
         /\ chain[i].kind = "payload" => chain[i].of = "payload"
  BY DEF ChainShape, ShapeOf, LayersOffered, Offered, Has

\* There is one auth layer at most, and one if there is an authenticator.
LEMMA OneAuth ==
  ASSUME ChainShape
  PROVE  /\ \A i, j \in DOMAIN chain :
               chain[i].kind = "auth" /\ chain[j].kind = "auth" => i = j
         /\ Has("auth") <=> \E i \in DOMAIN chain : chain[i].kind = "auth"
  <1>1. \A i, j \in DOMAIN chain :
               chain[i].kind = "auth" /\ chain[j].kind = "auth" => i = j
    BY LayerKinds DEF ChainShape, ShapeOf, NoLayerTwice
  <1>2. Has("auth") => \E i \in DOMAIN chain : chain[i].kind = "auth"
    BY DEF ChainShape, ShapeOf, LayersPresent, IsLayer, Has
  <1>3. QED
    BY <1>1, <1>2, LayerKinds

LEMMA OneRecovery ==
  ASSUME ChainShape
  PROVE  /\ \A i, j \in DOMAIN chain :
               chain[i].kind = "recovery" /\ chain[j].kind = "recovery" => i = j
         /\ Has("recovery") <=> \E i \in DOMAIN chain : chain[i].kind = "recovery"
  <1>1. \A i, j \in DOMAIN chain :
               chain[i].kind = "recovery" /\ chain[j].kind = "recovery" => i = j
    BY LayerKinds DEF ChainShape, ShapeOf, NoLayerTwice
  <1>2. Has("recovery") => \E i \in DOMAIN chain : chain[i].kind = "recovery"
    BY DEF ChainShape, ShapeOf, LayersPresent, IsLayer, Has
  <1>3. QED
    BY <1>1, <1>2, LayerKinds

\* The layers stand in the order in which their adders were called.
LEMMA PlaceIsOrder ==
  ASSUME ChainShape, NEW i \in DOMAIN chain, NEW j \in DOMAIN chain,
         chain[i].of # chain[j].of
  PROVE  i < j <=> Outside(chain[i].of, chain[j].of)
  <1>1. \A a, b : Outside(a, b) <=> Before(added, a, b)
    BY DEF Outside, Before
  <1>2. \A a, b : Before(added, a, b) => ~Before(added, b, a)
    <2>1. added \in Seq(Adders) /\ AddedOnce(added)
      BY DEF ChainShape, ShapeOf
    <2>2. DOMAIN added = 1 .. Len(added) /\ Len(added) \in Nat
      BY <2>1, LenProperties
    <2>3. QED
      BY <2>1, <2>2 DEF AddedOnce, Before
  <1>3. /\ i < j => Before(added, chain[i].of, chain[j].of)
        /\ j < i => Before(added, chain[j].of, chain[i].of)
    BY DEF ChainShape, ShapeOf, InOrderAdded
  <1>4. i < j \/ j < i
    BY ChainType
  <1>5. QED
    BY <1>1, <1>2, <1>3, <1>4, ChainType

LEMMA GreatestNumber ==
  ASSUME NEW n \in Nat, NEW s \in SUBSET (1 .. n), s # {}
  PROVE  \E m \in s : \A k \in s : k <= m
  <1> DEFINE bounds == {u \in Nat : \A k \in s : k <= u}
  <1>1. n \in bounds
    OBVIOUS
  <1>2. PICK m \in bounds : \A u \in bounds : m <= u
    BY <1>1, LeastNumber
  <1>3. CASE m \in s
    BY <1>2, <1>3
  <1>4. CASE m \notin s
    <2>1. PICK k \in s : TRUE
      OBVIOUS
    <2>2. m \in Nat /\ k \in 1 .. n /\ k <= m
      BY <1>2, <2>1
    <2>3. m - 1 \in Nat
      BY <2>2
    <2>4. \A j \in s : j <= m - 1
      BY <1>2, <1>4
    <2>5. m - 1 \in bounds
      BY <2>3, <2>4
    <2>6. QED
      BY <1>2, <2>2, <2>5
  <1>5. QED
    BY <1>3, <1>4

\* TagsAt finds the innermost ctxtags layer outside of i.
LEMMA TagsAtIs ==
  ASSUME NEW i \in Nat
  PROVE  /\ TagsAt(i) \in 0 .. i
         /\ TagsAt(i) = 0 =>
               \A j \in 1 .. i - 1 : chain[j].kind # "ctxtags"
         /\ TagsAt(i) # 0 =>
               /\ TagsAt(i) \in 1 .. i - 1
               /\ chain[TagsAt(i)].kind = "ctxtags"
               /\ \A j \in 1 .. i - 1 : chain[j].kind = "ctxtags" => j <= TagsAt(i)
  <1> DEFINE outside == {j \in 1 .. i - 1 : chain[j].kind = "ctxtags"}
             last == CHOOSE j \in outside : \A k \in outside : k <= j
  <1>1. TagsAt(i) = IF outside = {} THEN 0 ELSE last
    BY DEF TagsAt
  <1>2. CASE outside = {}
    BY <1>1, <1>2
  <1>3. CASE outside # {}
    <2>1. \E j \in outside : \A k \in outside : k <= j
      <3>1. outside \in SUBSET (1 .. i)
        OBVIOUS
      <3>2. QED
        BY <1>3, <3>1, GreatestNumber
    <2>2. last \in outside /\ \A k \in outside : k <= last
      BY <2>1
    <2>3. TagsAt(i) = last
      BY <1>1, <1>3
    <2>4. QED
      BY <2>2, <2>3
  <1>4. QED
    BY <1>2, <1>3

\* A zap layer writes with the tags of the layer next to it, ...
LEMMA TagsOfZap ==
  ASSUME ChainShape, NEW z \in DOMAIN chain, chain[z].kind = "zap"
  PROVE  /\ z - 1 \in DOMAIN chain
         /\ chain[z - 1].of = chain[z].of /\ chain[z - 1].kind = "ctxtags"
         /\ TagsAt(z) = z - 1
  <1>1. /\ Has(chain[z].of)
        /\ chain[z].of \in {"logging", "payload"}
    BY LayerKinds
  <1>2. PICK i \in DOMAIN chain : /\ IsLayer(chain, i, chain[z].of, "ctxtags")
                                  /\ IsLayer(chain, i + 1, chain[z].of, "zap")
    BY <1>1 DEF ChainShape, ShapeOf, LayersPresent, Has
  <1>3. z = i + 1
    BY <1>2 DEF IsLayer, ChainShape, ShapeOf, NoLayerTwice
  <1>4. i = z - 1 /\ i \in 1 .. z - 1 /\ z \in Nat
    BY <1>3, ChainType
  <1>5. TagsAt(z) = i
    BY <1>2, <1>4, TagsAtIs DEF IsLayer
  <1>6. QED
    BY <1>2, <1>4, <1>5 DEF IsLayer

\* ... and so does a payload layer, next but one.
LEMMA TagsOfPayload ==
  ASSUME ChainShape, NEW p \in DOMAIN chain, chain[p].kind = "payload"
  PROVE  /\ p - 2 \in DOMAIN chain /\ chain[p - 2].kind = "ctxtags"
         /\ p - 1 \in DOMAIN chain /\ chain[p - 1].kind = "zap"
         /\ TagsAt(p) = p - 2
  <1>1. Has("payload") /\ chain[p].of = "payload"
    BY LayerKinds
  <1>2. PICK i \in DOMAIN chain : /\ IsLayer(chain, i, "payload", "ctxtags")
                                  /\ IsLayer(chain, i + 1, "payload", "zap")
                                  /\ IsLayer(chain, i + 2, "payload", "payload")
    BY <1>1 DEF ChainShape, ShapeOf, LayersPresent, Has
  <1>3. p = i + 2
    BY <1>1, <1>2 DEF IsLayer, ChainShape, ShapeOf, NoLayerTwice
  <1>4. i = p - 2 /\ i \in 1 .. p - 1 /\ p \in Nat /\ p - 1 = i + 1
    BY <1>3, ChainType
  <1>5. p - 1 \in DOMAIN chain /\ chain[p - 1].kind = "zap" /\ chain[i].kind = "ctxtags"
    BY <1>2, <1>3, <1>4, ChainType DEF IsLayer
  <1>6. TagsAt(p) = i
    <2>1. \A j \in 1 .. p - 1 : chain[j].kind = "ctxtags" => j # i + 1
      BY <1>4, <1>5
    <2>2. TagsAt(p) # 0
      BY <1>4, <1>5, TagsAtIs, Zenon
    <2>3. /\ TagsAt(p) \in 1 .. p - 1
          /\ chain[TagsAt(p)].kind = "ctxtags"
          /\ i <= TagsAt(p)
      BY <1>4, <1>5, <2>2, TagsAtIs, Zenon
    <2>4. QED
      BY <1>4, <2>1, <2>3
  <1>7. p - 2 = i
    BY <1>4
  <1>8. TagsAt(p) = p - 2
    BY <1>6, <1>7, Zenon
  <1>9. p - 2 \in DOMAIN chain /\ chain[p - 2].kind = "ctxtags"
    BY <1>2, <1>5, <1>7, Zenon
  <1>10. QED
    BY <1>5, <1>8, <1>9, Zenon

-----------------------------------------------------------------------------
(* The inductive invariant.                                                *)

\* On its way down the call came to layer i, and further: an authenticator
\* that did not admit it is not outside of i, nor i itself.
Reached(c, i) ==
    Admitted(c) \/ \E k \in DOMAIN chain : chain[k].kind = "auth" /\ i < k

\* On its way up from there it met a recovery layer before it came to i.
Recovers(c, i) ==
    \E r \in DOMAIN chain : chain[r].kind = "recovery" /\ i < r /\ Reached(c, r)

Coming(c) == way[c] \in {"up", "answered"}

\* The depth of a call and the tags it has set agree with each other.
WayOK(c) ==
    /\ way[c] = "idle" => depth[c] = 0 /\ subject[c] = {} /\ lines[c] = {}
    /\ way[c] = "down" =>
          /\ depth[c] >= 1
          /\ \A k \in DOMAIN chain :
                chain[k].kind = "auth" => (subject[c] # {} <=> k < depth[c])
    /\ Coming(c) => depth[c] <= Len(chain) /\ Reached(c, depth[c])
    /\ way[c] = "answered" => depth[c] = 0
    /\ subject[c] # {} =>
          \E k \in DOMAIN chain : chain[k].kind = "auth" /\ subject[c] = {TagsAt(k)}

\* What comes up follows from where the call was turned back.
ResultOK(c) ==
    /\ ~Coming(c) => result[c] = "none" /\ origin[c] = "none"
    /\ Coming(c) /\ origin[c] = "none" =>
          /\ Admitted(c) => result[c] \in {"ok", "failed"}
          /\ ~Admitted(c) => result[c] = "refused"
    /\ Coming(c) /\ origin[c] # "none" =>
          /\ origin[c] = "handler" <=> Admitted(c)
          /\ Recovers(c, depth[c]) => result[c] = "internal"
          /\ ~Recovers(c, depth[c]) => result[c] = "panic"
    /\ way[c] = "answered" => result[c] # "panic"

\* What the payload layer has written.
PayloadLinesOK(c) ==
    \A l \in lines[c] : l.what \in {"request", "response"} =>
        /\ ~l.sub
        /\ \E p \in DOMAIN chain :
              chain[p].kind = "payload" /\ chain[p].of = l.of /\ Reached(c, p)

\* The call came back to layer z as something that a zap layer writes.
CameBack(c, z) ==
    /\ Coming(c)
    /\ depth[c] < z
    /\ Reached(c, z)
    /\ origin[c] = "none" \/ Recovers(c, z)

\* What the zap layers have written, ...
ZapLinesOK(c) ==
    \A l \in lines[c] : l.what \notin {"request", "response"} =>
        /\ l.what = result[c]
        /\ \E z \in DOMAIN chain :
              /\ chain[z].kind = "zap" /\ chain[z].of = l.of
              /\ CameBack(c, z)
              /\ l.sub <=> TagsAt(z) # 0 /\ TagsAt(z) \in subject[c]

\* ... and that they have all written.
ZapLinesWritten(c) ==
    \A z \in DOMAIN chain : chain[z].kind = "zap" /\ CameBack(c, z) =>
        \E l \in lines[c] : l.of = chain[z].of /\ l.what = result[c]

CallOK(c) ==
    /\ WayOK(c)
    /\ ResultOK(c)
    /\ PayloadLinesOK(c)
    /\ ZapLinesOK(c)
    /\ ZapLinesWritten(c)

\* The process has only ended by a panic that no recovery was outside of.
CrashCaused ==
    ~alive => \E c \in Calls :
        \/ origin[c] = "handler" /\ ~Has("recovery")
        \/ origin[c] = "auth" /\ ~Outside("recovery", "auth")

IInv ==
    /\ TypeOK
    /\ ChainShape
    /\ ~serving => \A c \in Calls : way[c] = "idle"
    /\ ~serving => alive
    /\ \A c \in Calls : CallOK(c)
    /\ CrashCaused

LEMMA IInvInit == Init => IInv
  <1> SUFFICES ASSUME Init
               PROVE  IInv
    OBVIOUS
  <1>1. ChainShape
    BY ShapeOfNothing DEF Init, ChainShape
  <1>2. TypeOK
    <2>1. added \in Seq(Adders) /\ chain \in Seq(Layers) /\ Len(chain) = 0
      BY <1>1, EmptySeq DEF ChainShape, ShapeOf, Init
    <2>2. depth \in [Calls -> 0 .. Len(chain) + 1]
      <3>1. 0 \in 0 .. Len(chain) + 1
        BY <2>1
      <3>2. QED
        BY <3>1 DEF Init
    <2>3. /\ subject \in [Calls -> SUBSET (0 .. Len(chain))]
          /\ lines \in [Calls -> SUBSET Lines]
      BY DEF Init
    <2>4. QED
      BY <2>1, <2>2, <2>3 DEF Init, TypeOK, Results
  <1>3. ASSUME NEW c \in Calls
        PROVE  CallOK(c)
    BY <1>3 DEF Init, CallOK, WayOK, ResultOK, PayloadLinesOK, ZapLinesOK,
                ZapLinesWritten, CameBack, Coming
  <1>4. QED
    BY <1>1, <1>2, <1>3 DEF Init, IInv, CrashCaused

-----------------------------------------------------------------------------
(* The caller adds interceptors and the server is built, before any call.  *)

LEMMA IdleIsOK ==
  ASSUME NEW c \in Calls, way[c] = "idle", depth[c] = 0, result[c] = "none",
         origin[c] = "none", subject[c] = {}, lines[c] = {}
  PROVE  CallOK(c)
  BY DEF CallOK, WayOK, ResultOK, PayloadLinesOK, ZapLinesOK, ZapLinesWritten,
         CameBack, Coming

LEMMA AddKeeps ==
  ASSUME IInv, NEW adder \in Adders, Add(adder)
  PROVE  IInv'
  <1>1. /\ ~serving /\ adder \notin Range(added)
        /\ added' = Append(added, adder)
        /\ chain' = chain \o Interceptors(adder)
        /\ UNCHANGED <<serving, alive, way, depth, result, origin, subject, lines>>
    BY DEF Add, Appended, calls
  <1>2. ChainShape'
    BY <1>1, ShapeAfterAdder DEF IInv, ChainShape
  <1>3. \A c \in Calls : /\ way[c] = "idle" /\ depth[c] = 0 /\ result[c] = "none"
                         /\ origin[c] = "none" /\ subject[c] = {} /\ lines[c] = {}
    BY <1>1 DEF IInv, CallOK, WayOK, ResultOK, Coming
  <1>4. TypeOK'
    <2>1. added' \in Seq(Adders) /\ chain' \in Seq(Layers)
      BY <1>2 DEF ChainShape, ShapeOf
    <2>2. Len(chain') \in Nat
      BY <2>1, LenProperties
    <2>3. depth' \in [Calls -> 0 .. Len(chain') + 1]
      BY <1>1, <1>3, <2>2 DEF IInv, TypeOK
    <2>4. subject' \in [Calls -> SUBSET (0 .. Len(chain'))]
      BY <1>1, <1>3 DEF IInv, TypeOK
    <2>5. QED
      BY <1>1, <2>1, <2>3, <2>4 DEF IInv, TypeOK
  <1>5. ASSUME NEW c \in Calls
        PROVE  CallOK(c)'
    BY <1>1, <1>3 DEF CallOK, WayOK, ResultOK, PayloadLinesOK, ZapLinesOK,
                      ZapLinesWritten, CameBack, Coming
  <1>6. QED
    BY <1>1, <1>2, <1>4, <1>5 DEF IInv, CrashCaused

\* A call of which nothing changes stays as it is.
LEMMA UntouchedCall ==
  ASSUME IInv, NEW c \in Calls, UNCHANGED <<added, chain>>,
         UNCHANGED <<way[c], depth[c], result[c], origin[c], subject[c], lines[c]>>
  PROVE  CallOK(c)'
  <1>1. CallOK(c)
    BY DEF IInv
  <1>2. \A i \in Nat : TagsAt(i)' = TagsAt(i)
    BY DEF TagsAt
  <1>3. \A i \in DOMAIN chain : i \in Nat
    BY ChainType DEF IInv
  <1>4. Admitted(c)' <=> Admitted(c)
    BY DEF Admitted, Has
  <1>5. WayOK(c)'
    BY <1>1, <1>2, <1>3, <1>4 DEF CallOK, WayOK, Coming, Reached
  <1>6. ResultOK(c)'
    BY <1>1, <1>4 DEF CallOK, ResultOK, Coming, Reached, Recovers
  <1>7. PayloadLinesOK(c)'
    BY <1>1, <1>4 DEF CallOK, PayloadLinesOK, Reached
  <1>8. ZapLinesOK(c)'
    BY <1>1, <1>2, <1>3, <1>4
       DEF CallOK, ZapLinesOK, CameBack, Coming, Reached, Recovers
  <1>9. ZapLinesWritten(c)'
    BY <1>1, <1>4 DEF CallOK, ZapLinesWritten, CameBack, Coming, Reached, Recovers
  <1>10. QED
    BY <1>5, <1>6, <1>7, <1>8, <1>9 DEF CallOK

-----------------------------------------------------------------------------
(* The steps of a call.                                                    *)

\* While the tags of a call stay, it has reached what it had, and the layers
\* see the tags they saw.
LEMMA SameReach ==
  ASSUME NEW c \in Calls, UNCHANGED <<added, chain, subject[c]>>
  PROVE  /\ Admitted(c)' <=> Admitted(c)
         /\ \A i : Reached(c, i)' <=> Reached(c, i)
         /\ \A i : Recovers(c, i)' <=> Recovers(c, i)
         /\ \A i \in Nat : TagsAt(i)' = TagsAt(i)
  <1>1. Admitted(c)' <=> Admitted(c)
    BY DEF Admitted, Has
  <1>2. \A i : Reached(c, i)' <=> Reached(c, i)
    BY <1>1 DEF Reached
  <1>3. \A i : Recovers(c, i)' <=> Recovers(c, i)
    BY <1>1 DEF Reached, Recovers
  <1>4. \A i \in Nat : TagsAt(i)' = TagsAt(i)
    BY DEF TagsAt
  <1>5. QED
    BY <1>1, <1>2, <1>3, <1>4

\* A call on its way down has reached what it comes to next, unless that is
\* the handler and it was not admitted, which cannot be.
LEMMA DownReached ==
  ASSUME IInv, NEW c \in Calls, way[c] = "down"
  PROVE  /\ depth[c] \in DOMAIN chain /\ chain[depth[c]].kind # "auth" =>
               Reached(c, depth[c])
         /\ depth[c] = Handler => Admitted(c)
         /\ depth[c] \in DOMAIN chain /\ chain[depth[c]].kind = "auth" =>
               subject[c] = {} /\ ~Admitted(c)
  <1>1. /\ \A k \in DOMAIN chain :
               chain[k].kind = "auth" => (subject[c] # {} <=> k < depth[c])
        /\ depth[c] \in 1 .. Handler
        /\ DOMAIN chain = 1 .. Len(chain) /\ Len(chain) \in Nat
    BY ChainType DEF IInv, CallOK, WayOK, TypeOK, Handler
  <1>2. Admitted(c) <=>
           \A k \in DOMAIN chain : chain[k].kind = "auth" => subject[c] # {}
    BY OneAuth DEF Admitted, IInv
  <1>3. QED
    BY <1>1, <1>2 DEF Reached, Handler

\* Down by one layer that is not the authenticator's, with or without a line.
LEMMA DeeperKeeps ==
  ASSUME IInv, NEW c \in Calls, UNCHANGED <<added, chain, subject[c]>>,
         way[c] = "down", depth[c] \in DOMAIN chain, chain[depth[c]].kind # "auth",
         way'[c] = "down", depth'[c] = depth[c] + 1,
         UNCHANGED <<result[c], origin[c]>>
  PROVE  WayOK(c)' /\ ResultOK(c)' /\ ZapLinesWritten(c)'
  <1>1. WayOK(c) /\ ResultOK(c) /\ ChainShape
    BY DEF IInv, CallOK
  <1>2. \A i \in Nat : TagsAt(i)' = TagsAt(i)
    BY SameReach
  <1>3. DOMAIN chain = 1 .. Len(chain) /\ Len(chain) \in Nat
    BY <1>1, ChainType
  <1>4. WayOK(c)'
    BY <1>1, <1>2, <1>3 DEF WayOK, Coming
  <1>5. ResultOK(c)' /\ ZapLinesWritten(c)'
    BY <1>1 DEF ResultOK, ZapLinesWritten, CameBack, Coming
  <1>6. QED
    BY <1>4, <1>5

\* What was written on the way down came from the payload layer.
LEMMA LinesGoingDown ==
  ASSUME IInv, NEW c \in Calls, way[c] = "down"
  PROVE  \A l \in lines[c] : l.what \in {"request", "response"}
  BY DEF IInv, CallOK, ZapLinesOK, CameBack, Coming

LEMMA BeginKeeps ==
  ASSUME IInv, NEW c \in Calls, Begin(c), UNCHANGED setup
  PROVE  CallOK(c)'
  <1>1. /\ way[c] = "idle" /\ way'[c] = "down" /\ depth'[c] = 1
        /\ UNCHANGED <<added, chain, result, origin, subject, lines>>
    BY DEF Begin, setup, IInv, TypeOK
  <1>2. subject[c] = {} /\ lines[c] = {} /\ result[c] = "none" /\ origin[c] = "none"
    BY <1>1 DEF IInv, CallOK, WayOK, ResultOK, Coming
  <1>3. DOMAIN chain = 1 .. Len(chain) /\ Len(chain) \in Nat
    BY ChainType DEF IInv
  <1>4. WayOK(c)'
    BY <1>1, <1>2, <1>3 DEF WayOK, Coming
  <1>5. QED
    BY <1>1, <1>2, <1>4 DEF CallOK, ResultOK, PayloadLinesOK, ZapLinesOK,
                            ZapLinesWritten, CameBack, Coming

LEMMA PassDownKeeps ==
  ASSUME IInv, NEW c \in Calls, PassDown(c), UNCHANGED setup
  PROVE  CallOK(c)'
  <1>1. /\ way[c] = "down" /\ depth[c] \in DOMAIN chain
        /\ chain[depth[c]].kind # "auth"
        /\ way'[c] = "down" /\ depth'[c] = depth[c] + 1
        /\ UNCHANGED <<added, chain, result, origin, subject, lines>>
    BY DEF PassDown, At, Deeper, setup, IInv, TypeOK
  <1>2. WayOK(c)' /\ ResultOK(c)' /\ ZapLinesWritten(c)'
    BY <1>1, DeeperKeeps
  <1>3. PayloadLinesOK(c)'
    BY <1>1, SameReach DEF IInv, CallOK, PayloadLinesOK
  <1>4. ZapLinesOK(c)'
    BY <1>1, LinesGoingDown DEF ZapLinesOK
  <1>5. QED
    BY <1>2, <1>3, <1>4 DEF CallOK

\* A request is written before its caller is known to that layer.
LEMMA LogRequestKeeps ==
  ASSUME IInv, NEW c \in Calls, LogRequest(c), UNCHANGED setup
  PROVE  CallOK(c)'
  <1> DEFINE p == depth[c]
             line == Line(c, p, "request")
  <1>1. /\ way[c] = "down" /\ p \in DOMAIN chain /\ chain[p].kind = "payload"
        /\ way'[c] = "down" /\ depth'[c] = p + 1
        /\ lines'[c] = lines[c] \cup {line}
        /\ UNCHANGED <<added, chain, result, origin, subject>>
    BY DEF LogRequest, At, Deeper, setup, IInv, TypeOK
  <1>2. WayOK(c)' /\ ResultOK(c)' /\ ZapLinesWritten(c)'
    BY <1>1, DeeperKeeps
  <1>3. ~SubjectKnown(c, p)
    <2>1. ChainShape /\ WayOK(c) /\ DOMAIN chain = 1 .. Len(chain) /\ Len(chain) \in Nat
      BY ChainType DEF IInv, CallOK
    <2>2. ASSUME NEW k \in DOMAIN chain, chain[k].kind = "auth",
                 subject[c] = {TagsAt(k)}
          PROVE  TagsAt(k) # p - 2
      <3>1. k < p
        BY <1>1, <2>1, <2>2 DEF WayOK
      <3>2. k # p - 1 /\ k # p - 2
        BY <1>1, <2>1, <2>2, TagsOfPayload
      <3>3. TagsAt(k) \in 0 .. k
        BY <2>1, TagsAtIs
      <3>4. QED
        BY <2>1, <3>1, <3>2, <3>3, <1>1
    <2>3. TagsAt(p) = p - 2
      BY <1>1, <2>1, TagsOfPayload
    <2>4. QED
      BY <2>1, <2>2, <2>3 DEF SubjectKnown, WayOK
  <1>4. line.of = chain[p].of /\ line.what = "request" /\ ~line.sub
    BY <1>3 DEF Line
  <1> HIDE DEF line
  <1>5. Reached(c, p)
    BY <1>1, DownReached
  <1>6. PayloadLinesOK(c)'
    BY <1>1, <1>4, <1>5, SameReach DEF IInv, CallOK, PayloadLinesOK
  <1>7. ZapLinesOK(c)'
    BY <1>1, <1>4, LinesGoingDown DEF ZapLinesOK
  <1>8. QED
    BY <1>2, <1>6, <1>7 DEF CallOK

\* The call is turned back where it was last on its way down: by the
\* authenticator, or by the handler.
LEMMA TurnBackKeeps ==
  ASSUME IInv, NEW c \in Calls, NEW outcome, NEW panicker,
         UNCHANGED setup, UNCHANGED <<subject, lines>>,
         way[c] = "down", TurnBack(c, outcome, panicker),
         \/ /\ depth[c] = Handler
            /\ \/ outcome \in {"ok", "failed"} /\ panicker = "none"
               \/ outcome = "panic" /\ panicker = "handler"
         \/ /\ depth[c] \in DOMAIN chain /\ chain[depth[c]].kind = "auth"
            /\ \/ outcome = "refused" /\ panicker = "none"
               \/ outcome = "panic" /\ panicker = "auth"
  PROVE  CallOK(c)'
  <1>1. /\ way'[c] = "up" /\ depth'[c] = depth[c] - 1
        /\ result'[c] = outcome /\ origin'[c] = panicker
        /\ UNCHANGED <<added, chain, subject, lines>>
    BY DEF TurnBack, setup, IInv, TypeOK
  <1>2. /\ CallOK(c) /\ ChainShape
        /\ DOMAIN chain = 1 .. Len(chain) /\ Len(chain) \in Nat
        /\ depth[c] \in 1 .. Handler
    BY ChainType DEF IInv, CallOK, WayOK, TypeOK, Handler
  \* No layer inside of the new depth was reached.
  <1>3. \A z \in DOMAIN chain : depth'[c] < z /\ Reached(c, z) =>
           chain[z].kind = "auth" /\ ~Admitted(c)
    <2>1. CASE depth[c] = Handler
      BY <1>1, <1>2, <2>1 DEF Handler
    <2>2. CASE depth[c] \in DOMAIN chain /\ chain[depth[c]].kind = "auth"
      <3>1. ~Admitted(c)
        BY <2>2, DownReached
      <3>2. \A z \in DOMAIN chain : Reached(c, z) => z < depth[c]
        BY <1>2, <2>2, <3>1, OneAuth DEF Reached
      <3>3. QED
        BY <1>1, <1>2, <2>2, <3>2
    <2>3. QED
      BY <2>1, <2>2
  <1>4. ~Recovers(c, depth'[c])
    BY <1>3 DEF Recovers
  <1>5. Reached(c, depth'[c]) /\ depth'[c] \in 0 .. Len(chain)
    <2>1. CASE depth[c] = Handler
      BY <1>1, <1>2, <2>1, DownReached DEF Handler, Reached
    <2>2. CASE depth[c] \in DOMAIN chain /\ chain[depth[c]].kind = "auth"
      BY <1>1, <1>2, <2>2 DEF Reached
    <2>3. QED
      BY <2>1, <2>2
  <1>6. Admitted(c) <=> depth[c] = Handler
    BY <1>2, DownReached DEF Handler
  <1>7. WayOK(c)'
    BY <1>1, <1>2, <1>5, SameReach DEF CallOK, WayOK, Coming
  <1>8. ResultOK(c)'
    BY <1>1, <1>2, <1>4, <1>6, SameReach DEF ResultOK, Coming, Handler
  <1>9. PayloadLinesOK(c)'
    BY <1>1, <1>2, SameReach DEF CallOK, PayloadLinesOK
  <1>10. ZapLinesOK(c)'
    BY <1>1, LinesGoingDown DEF ZapLinesOK
  <1>11. ZapLinesWritten(c)'
    BY <1>1, <1>3, SameReach DEF ZapLinesWritten, CameBack
  <1>12. QED
    BY <1>7, <1>8, <1>9, <1>10, <1>11 DEF CallOK

\* Admitted, the call has reached every layer.
LEMMA AuthenticateKeeps ==
  ASSUME IInv, NEW c \in Calls, Authenticate(c), UNCHANGED setup
  PROVE  CallOK(c)'
  <1> DEFINE k == depth[c]
  <1>1. /\ way[c] = "down" /\ k \in DOMAIN chain /\ chain[k].kind = "auth"
        /\ UNCHANGED <<added, chain, lines>>
    BY DEF Authenticate, At, setup
  <1>2. CASE \/ TurnBack(c, "refused", "none") /\ UNCHANGED subject
             \/ TurnBack(c, "panic", "auth") /\ UNCHANGED subject
    BY <1>1, <1>2, TurnBackKeeps
  <1>3. CASE /\ Deeper(c)
             /\ subject' = [subject EXCEPT ![c] = @ \cup {TagsAt(depth[c])}]
    <2>1. /\ CallOK(c) /\ ChainShape
          /\ DOMAIN chain = 1 .. Len(chain) /\ Len(chain) \in Nat
      BY ChainType DEF IInv
    <2>2. subject[c] = {}
      BY <1>1, DownReached
    <2>3. /\ way'[c] = "down" /\ depth'[c] = k + 1 /\ subject'[c] = {TagsAt(k)}
          /\ result'[c] = result[c] /\ origin'[c] = origin[c]
      BY <1>1, <1>3, <2>2 DEF Deeper, IInv, TypeOK
    <2>4. \A i \in Nat : TagsAt(i)' = TagsAt(i)
      BY <1>1 DEF TagsAt
    <2>5. \A j \in DOMAIN chain : chain[j].kind = "auth" => j = k
      BY <1>1, <2>1, OneAuth
    <2>6. WayOK(c)'
      BY <1>1, <2>1, <2>3, <2>4, <2>5 DEF WayOK, Coming
    <2>7. ResultOK(c)' /\ ZapLinesWritten(c)'
      BY <1>1, <2>1, <2>3 DEF CallOK, ResultOK, ZapLinesWritten, CameBack, Coming
    <2>8. \A i : Reached(c, i)'
      BY <2>3 DEF Reached, Admitted
    <2>9. PayloadLinesOK(c)'
      BY <1>1, <2>1, <2>8 DEF CallOK, PayloadLinesOK
    <2>10. ZapLinesOK(c)'
      BY <1>1, LinesGoingDown DEF ZapLinesOK
    <2>11. QED
      BY <2>6, <2>7, <2>9, <2>10 DEF CallOK
  <1>4. QED
    BY <1>2, <1>3 DEF Authenticate

LEMMA HandleKeeps ==
  ASSUME IInv, NEW c \in Calls, Handle(c), UNCHANGED setup
  PROVE  CallOK(c)'
  BY TurnBackKeeps DEF Handle

\* A layer that was reached lets the call come back: it turns a panic into an
\* error or not, and writes a line or not.
LEMMA ReturnKeeps ==
  ASSUME IInv, NEW c \in Calls, Return(c), UNCHANGED setup
  PROVE  CallOK(c)'
  <1> DEFINE i == depth[c]
             news == LinesOnReturn(c, i)
  <1>1. /\ way[c] = "up" /\ way'[c] = "up" /\ i > 0 /\ depth'[c] = i - 1
        /\ lines'[c] = lines[c] \cup news
        /\ result'[c] = IF chain[i].kind = "recovery" THEN Recovered(result[c])
                        ELSE result[c]
        /\ UNCHANGED <<added, chain, origin, subject>>
    BY DEF Return, setup, IInv, TypeOK
  <1>2. /\ CallOK(c) /\ ChainShape
        /\ DOMAIN chain = 1 .. Len(chain) /\ Len(chain) \in Nat
        /\ i \in DOMAIN chain /\ Coming(c) /\ Coming(c)'
        /\ Reached(c, i)
    BY <1>1, ChainType DEF IInv, CallOK, WayOK, TypeOK, Coming
  <1>3. /\ Admitted(c)' <=> Admitted(c)
        /\ \A j : Reached(c, j)' <=> Reached(c, j)
        /\ \A j : Recovers(c, j)' <=> Recovers(c, j)
        /\ \A j \in Nat : TagsAt(j)' = TagsAt(j)
    BY <1>1, SameReach
  <1>4. Recovers(c, i - 1) <=> chain[i].kind = "recovery" \/ Recovers(c, i)
    BY <1>2 DEF Recovers
  <1>5. Reached(c, i - 1)
    BY <1>2 DEF Reached
  \* A status that is not a panic is final.
  <1>6. /\ result[c] # "panic" => result'[c] = result[c]
        /\ result[c] = "panic" /\ chain[i].kind = "recovery" => result'[c] = "internal"
        /\ chain[i].kind # "recovery" => result'[c] = result[c]
    BY <1>1 DEF Recovered
  <1>7. result[c] = "panic" <=> origin[c] # "none" /\ ~Recovers(c, i)
    BY <1>2 DEF CallOK, ResultOK
  <1>8. WayOK(c)'
    BY <1>1, <1>2, <1>3, <1>5 DEF CallOK, WayOK
  <1>9. ResultOK(c)'
    <2>1. origin[c] = "none" =>
            /\ Admitted(c) => result'[c] \in {"ok", "failed"}
            /\ ~Admitted(c) => result'[c] = "refused"
      BY <1>2, <1>6, <1>7 DEF CallOK, ResultOK
    <2>2. origin[c] # "none" =>
            /\ Recovers(c, i - 1) => result'[c] = "internal"
            /\ ~Recovers(c, i - 1) => result'[c] = "panic"
      BY <1>2, <1>4, <1>6, <1>7 DEF CallOK, ResultOK
    <2>3. origin[c] # "none" => (origin[c] = "handler" <=> Admitted(c))
      BY <1>2 DEF CallOK, ResultOK
    <2>4. QED
      BY <1>1, <1>2, <1>3, <2>1, <2>2, <2>3 DEF ResultOK
  \* What the layer writes.
  <1>10. ASSUME NEW l \in news
         PROVE  \/ /\ chain[i].kind = "zap" /\ result[c] # "panic"
                   /\ l.of = chain[i].of /\ l.what = result[c]
                   /\ l.sub <=> TagsAt(i) # 0 /\ TagsAt(i) \in subject[c]
                \/ \E m \in lines[c] :
                      /\ m.what = "request" /\ l.what = "response"
                      /\ l.of = m.of /\ l.sub = m.sub
    <2>1. CASE chain[i].kind = "zap" /\ result[c] # "panic"
      <3>1. l = Line(c, i, result[c])
        BY <2>1 DEF LinesOnReturn
      <3>2. QED
        BY <2>1, <3>1 DEF Line, SubjectKnown
    <2>2. CASE chain[i].kind = "payload" /\ result[c] = "ok"
      <3>1. PICK m \in lines[c] :
               m.what = "request" /\ l = [m EXCEPT !.what = "response"]
        BY <2>2 DEF LinesOnReturn
      <3>2. m \in Lines
        BY DEF IInv, TypeOK
      <3>3. QED
        BY <3>1, <3>2 DEF Lines
    <2>3. QED
      BY <2>1, <2>2 DEF LinesOnReturn
  <1>11. chain[i].kind = "zap" /\ result[c] # "panic" =>
            \E l \in news : l.of = chain[i].of /\ l.what = result[c]
    <2>1. SUFFICES ASSUME chain[i].kind = "zap", result[c] # "panic"
                   PROVE  \E l \in news : l.of = chain[i].of /\ l.what = result[c]
      OBVIOUS
    <2>2. Line(c, i, result[c]) \in news
      BY <2>1 DEF LinesOnReturn
    <2>3. QED
      BY <2>2 DEF Line
  <1> HIDE DEF news
  <1>12. PayloadLinesOK(c)'
    <2>1. ASSUME NEW l \in lines'[c], l.what \in {"request", "response"}
          PROVE  \E m \in lines[c] : /\ m.what \in {"request", "response"}
                                     /\ l.of = m.of /\ l.sub = m.sub
      <3>1. result[c] \notin {"request", "response"}
        BY DEF IInv, TypeOK, Results
      <3>2. QED
        BY <1>1, <1>10, <2>1, <3>1
    <2>2. QED
      BY <1>1, <1>2, <1>3, <2>1 DEF CallOK, PayloadLinesOK
  <1>13. ASSUME NEW z \in DOMAIN chain
         PROVE  CameBack(c, z)' <=> \/ CameBack(c, z)
                                    \/ z = i /\ (origin[c] = "none" \/ Recovers(c, i))
    BY <1>1, <1>2, <1>3 DEF CameBack
  <1>14. \A z \in DOMAIN chain : CameBack(c, z) => result[c] # "panic"
    <2>1. \A z \in DOMAIN chain : i < z /\ Recovers(c, z) => Recovers(c, i)
      BY <1>2 DEF Recovers
    <2>2. QED
      BY <1>7, <2>1 DEF CameBack
  <1>15. ZapLinesOK(c)'
    <2> SUFFICES ASSUME NEW l \in lines'[c], l.what \notin {"request", "response"}
                 PROVE  /\ l.what = result'[c]
                        /\ \E z \in DOMAIN chain :
                              /\ chain[z].kind = "zap" /\ chain[z].of = l.of
                              /\ CameBack(c, z)'
                              /\ l.sub <=> TagsAt(z) # 0 /\ TagsAt(z) \in subject[c]
      <3>1. \A z \in DOMAIN chain : TagsAt(z)' = TagsAt(z)
        BY <1>2, <1>3
      <3>2. QED
        BY <1>1, <3>1 DEF ZapLinesOK
    <2>1. CASE l \in lines[c]
      BY <1>2, <1>6, <1>13, <1>14, <2>1 DEF CallOK, ZapLinesOK
    <2>2. CASE l \in news
      BY <1>2, <1>6, <1>7, <1>10, <1>13, <2>2
    <2>3. QED
      BY <1>1, <2>1, <2>2
  <1>16. ZapLinesWritten(c)'
    <2> SUFFICES ASSUME NEW z \in DOMAIN chain, chain[z].kind = "zap", CameBack(c, z)'
                 PROVE  \E l \in lines'[c] : l.of = chain[z].of /\ l.what = result'[c]
      BY <1>1 DEF ZapLinesWritten
    <2>1. CASE CameBack(c, z)
      BY <1>1, <1>2, <1>6, <1>14, <2>1 DEF CallOK, ZapLinesWritten
    <2>2. CASE z = i /\ (origin[c] = "none" \/ Recovers(c, i))
      BY <1>1, <1>6, <1>7, <1>11, <2>2
    <2>3. QED
      BY <1>13, <2>1, <2>2
  <1>17. QED
    BY <1>8, <1>9, <1>12, <1>15, <1>16 DEF CallOK

LEMMA AnswerKeeps ==
  ASSUME IInv, NEW c \in Calls, Answer(c), UNCHANGED setup
  PROVE  CallOK(c)'
  <1>1. /\ way[c] = "up" /\ way'[c] = "answered" /\ depth[c] = 0
        /\ result[c] # "panic"
        /\ UNCHANGED <<added, chain, depth, result, origin, subject, lines>>
    BY DEF Answer, setup, IInv, TypeOK
  <1>2. Coming(c) /\ Coming(c)' /\ CallOK(c)
    BY <1>1 DEF Coming, IInv
  <1>3. /\ Admitted(c)' <=> Admitted(c)
        /\ \A j : Reached(c, j)' <=> Reached(c, j)
        /\ \A j : Recovers(c, j)' <=> Recovers(c, j)
        /\ \A j \in DOMAIN chain : TagsAt(j)' = TagsAt(j)
    BY <1>1, SameReach, ChainType DEF IInv
  <1>4. WayOK(c)' /\ ResultOK(c)'
    BY <1>1, <1>2, <1>3 DEF CallOK, WayOK, ResultOK
  <1>5. PayloadLinesOK(c)'
    BY <1>1, <1>2, <1>3 DEF CallOK, PayloadLinesOK
  <1>6. \A z : CameBack(c, z)' <=> CameBack(c, z)
    BY <1>1, <1>2, <1>3 DEF CameBack
  <1>7. ZapLinesOK(c)' /\ ZapLinesWritten(c)'
    BY <1>1, <1>2, <1>3, <1>6 DEF CallOK, ZapLinesOK, ZapLinesWritten
  <1>8. QED
    BY <1>4, <1>5, <1>7 DEF CallOK

-----------------------------------------------------------------------------
(* The steps together.                                                     *)

LEMMA LineType ==
  ASSUME ChainShape, NEW c, NEW i \in DOMAIN chain,
         NEW what \in Results \cup {"request", "response"}
  PROVE  Line(c, i, what) \in Lines
  BY ChainType DEF Line, Lines, SubjectKnown

LEMMA TypeStep ==
  ASSUME IInv, NEW c \in Calls, CallStep(c), UNCHANGED setup
  PROVE  TypeOK'
  <1> USE DEF TypeOK
  <1>1. /\ ChainShape /\ TypeOK
        /\ DOMAIN chain = 1 .. Len(chain) /\ Len(chain) \in Nat
        /\ depth[c] \in 0 .. Len(chain) + 1
    BY ChainType DEF IInv
  <1>2. UNCHANGED <<added, chain, serving, alive>>
    BY DEF CallStep, setup
  <1>3. CASE Begin(c)
    BY <1>1, <1>2, <1>3 DEF Begin
  <1>4. CASE PassDown(c)
    BY <1>1, <1>2, <1>4 DEF PassDown, At, Deeper
  <1>5. CASE LogRequest(c)
    <2>1. Line(c, depth[c], "request") \in Lines
      BY <1>1, <1>5, LineType DEF LogRequest, At
    <2>2. lines' \in [Calls -> SUBSET Lines]
      BY <1>1, <1>5, <2>1 DEF LogRequest
    <2>3. QED
      BY <1>1, <1>2, <1>5, <2>2 DEF LogRequest, At, Deeper
  <1>6. ASSUME NEW outcome \in Results, NEW panicker \in {"none", "auth", "handler"},
               TurnBack(c, outcome, panicker), way[c] = "down",
               UNCHANGED <<subject, lines>>
        PROVE  TypeOK'
    <2>1. depth[c] >= 1
      BY <1>6 DEF IInv, CallOK, WayOK
    <2>2. QED
      BY <1>1, <1>2, <1>6, <2>1 DEF TurnBack
  <1>7. CASE Authenticate(c)
    <2>1. CASE /\ Deeper(c)
               /\ subject' = [subject EXCEPT ![c] = @ \cup {TagsAt(depth[c])}]
      <3>1. TagsAt(depth[c]) \in 0 .. Len(chain)
        BY <1>1, <1>7, TagsAtIs DEF Authenticate, At
      <3>2. subject' \in [Calls -> SUBSET (0 .. Len(chain))]
        BY <1>1, <2>1, <3>1
      <3>3. QED
        BY <1>1, <1>2, <1>7, <2>1, <3>2 DEF Authenticate, At, Deeper
    <2>2. QED
      BY <1>6, <1>7, <2>1 DEF Authenticate, At, Results
  <1>8. CASE Handle(c)
    BY <1>6, <1>8 DEF Handle, Results
  <1>9. CASE Return(c)
    <2>1. depth[c] \in DOMAIN chain
      BY <1>1, <1>9 DEF Return, IInv, CallOK, WayOK, Coming
    <2>2. LinesOnReturn(c, depth[c]) \subseteq Lines
      <3>1. Line(c, depth[c], result[c]) \in Lines
        BY <1>1, <2>1, LineType
      <3>2. ASSUME NEW m \in lines[c]
            PROVE  [m EXCEPT !.what = "response"] \in Lines
        <4>1. m \in Lines
          BY <1>1
        <4>2. QED
          BY <4>1 DEF Lines
      <3>3. QED
        BY <3>1, <3>2 DEF LinesOnReturn
    <2>3. lines' \in [Calls -> SUBSET Lines]
      BY <1>1, <1>9, <2>2 DEF Return
    <2>4. Recovered(result[c]) \in Results
      BY <1>1 DEF Recovered, Results
    <2>5. result' \in [Calls -> Results]
      BY <1>1, <1>9, <2>4 DEF Return
    <2>6. depth' \in [Calls -> 0 .. Len(chain) + 1]
      BY <1>1, <1>9, <2>1 DEF Return
    <2>7. QED
      BY <1>1, <1>2, <1>9, <2>3, <2>5, <2>6 DEF Return
  <1>10. CASE Answer(c)
    BY <1>1, <1>2, <1>10 DEF Answer
  <1>11. QED
    BY <1>3, <1>4, <1>5, <1>7, <1>8, <1>9, <1>10 DEF CallStep

\* A step of one call leaves the others as they are.
LEMMA OneCallAtATime ==
  ASSUME IInv, NEW c \in Calls, CallStep(c), NEW o \in Calls \ {c}
  PROVE  UNCHANGED <<way[o], depth[o], result[o], origin[o], subject[o], lines[o]>>
  BY DEF CallStep, Begin, PassDown, LogRequest, Authenticate, Handle, Return, Answer,
         Deeper, TurnBack, IInv, TypeOK

LEMMA CallStepKeeps ==
  ASSUME IInv, NEW c \in Calls, CallStep(c), alive, UNCHANGED setup
  PROVE  IInv'
  <1>1. UNCHANGED <<added, chain, serving, alive>>
    BY DEF CallStep, setup
  <1>2. CallOK(c)'
    BY BeginKeeps, PassDownKeeps, LogRequestKeeps, AuthenticateKeeps, HandleKeeps,
       ReturnKeeps, AnswerKeeps DEF CallStep
  <1>3. ASSUME NEW o \in Calls \ {c}
        PROVE  CallOK(o)'
    BY <1>1, OneCallAtATime, UntouchedCall
  <1>4. ChainShape'
    BY <1>1 DEF IInv, ChainShape
  <1>5. serving
    BY DEF IInv, CallStep, Begin, PassDown, At, LogRequest, Authenticate, Handle,
           Return, Answer
  <1>6. QED
    BY <1>1, <1>2, <1>3, <1>4, <1>5, TypeStep DEF IInv, CrashCaused

\* A panic that comes out of the chain has met no recovery on its way.
LEMMA CrashKeeps ==
  ASSUME IInv, NEW c \in Calls, Crash(c), UNCHANGED setup
  PROVE  IInv'
  <1>1. /\ way[c] = "up" /\ depth[c] = 0 /\ result[c] = "panic"
        /\ UNCHANGED <<added, chain, serving, way, depth, result, origin,
                       subject, lines>>
        /\ ~alive'
    BY DEF Crash, setup, calls
  <1>2. CallOK(c) /\ ChainShape /\ TypeOK /\ Coming(c) /\ serving
    BY <1>1 DEF IInv, Coming
  <1>3. origin[c] # "none" /\ ~Recovers(c, 0)
    BY <1>1, <1>2 DEF CallOK, ResultOK
  <1>4. \A r \in DOMAIN chain : chain[r].kind = "recovery" => ~Reached(c, r)
    BY <1>2, <1>3, ChainType DEF Recovers
  <1>5. ASSUME origin[c] = "handler"
        PROVE  ~Has("recovery")
    <2>1. Admitted(c)
      BY <1>2, <1>5 DEF CallOK, ResultOK
    <2>2. QED
      BY <1>2, <1>4, <2>1, OneRecovery DEF Reached
  <1>6. ASSUME origin[c] = "auth", Outside("recovery", "auth")
        PROVE  FALSE
    <2>1. ~Admitted(c)
      BY <1>2, <1>6 DEF CallOK, ResultOK
    <2>2. PICK k \in DOMAIN chain : chain[k].kind = "auth"
      BY <1>2, <2>1, OneAuth DEF Admitted
    <2>3. PICK r \in DOMAIN chain : chain[r].kind = "recovery"
      BY <1>2, <1>6, OneRecovery DEF Outside, Has, Range
    <2>4. r < k
      BY <1>2, <1>6, <2>2, <2>3, LayerKinds, PlaceIsOrder
    <2>5. QED
      BY <1>4, <2>2, <2>3, <2>4 DEF Reached
  <1>7. CrashCaused'
    <2>1. origin[c] \in {"auth", "handler"}
      BY <1>2, <1>3 DEF TypeOK
    <2>2. QED
      BY <1>1, <1>5, <1>6, <2>1 DEF CrashCaused, Has, Outside
  <1>8. ASSUME NEW o \in Calls
        PROVE  CallOK(o)'
    BY <1>1, UntouchedCall
  <1>9. TypeOK' /\ ChainShape'
    <2>1. alive' \in BOOLEAN
      BY DEF Crash
    <2>2. QED
      BY <1>1, <1>2, <2>1 DEF TypeOK, ChainShape
  <1>10. QED
    BY <1>1, <1>2, <1>7, <1>8, <1>9 DEF IInv

LEMMA IInvStep == IInv /\ [Next]_vars => IInv'
  <1> SUFFICES ASSUME IInv, [Next]_vars
               PROVE  IInv'
    OBVIOUS
  <1>1. ASSUME UNCHANGED <<added, chain, calls>>, TypeOK', UNCHANGED alive,
               serving => serving'
        PROVE  IInv'
    <2>1. UNCHANGED <<way, depth, result, origin, subject, lines>>
      BY <1>1 DEF calls
    <2>2. \A c \in Calls : CallOK(c)'
      BY <1>1, <2>1, UntouchedCall
    <2>3. QED
      BY <1>1, <2>1, <2>2 DEF IInv, ChainShape, CrashCaused, Has, Outside
  <1>2. CASE Serve
    BY <1>1, <1>2 DEF Serve, calls, IInv, TypeOK
  <1>3. CASE UNCHANGED vars
    BY <1>1, <1>3 DEF vars, setup, calls, IInv, TypeOK
  <1>4. QED
    BY <1>2, <1>3, AddKeeps, CallStepKeeps, CrashKeeps DEF Next

LEMMA Invariance == Spec => []IInv
  <1>1. QED
    BY IInvInit, IInvStep, PTL DEF Spec

-----------------------------------------------------------------------------
(* The theorems.                                                           *)

\* Whatever the caller adds and however the calls turn out, the chain and the
\* calls stay what their types say.
THEOREM TypeCorrect == Spec => []TypeOK
  BY Invariance, PTL DEF IInv

\* A panic is answered as an error of its own call, and only one that had no
\* recovery outside of it ends the process (recovery.go:12-23).
THEOREM PanicCostsItsCall == Spec => []PanicsAreAnswered
  <1>1. ASSUME IInv, NEW c \in Calls, way[c] = "answered"
        PROVE  result[c] = "internal" <=> origin[c] # "none"
    BY <1>1 DEF IInv, CallOK, ResultOK, Coming
  <1>2. IInv => PanicsAreAnswered
    BY <1>1 DEF IInv, CrashCaused, PanicsAreAnswered
  <1>3. QED
    BY <1>2, Invariance, PTL

\* The zap layer of a logger that was added.
LEMMA LoggerHasZap ==
  ASSUME ChainShape, NEW a \in Loggers
  PROVE  \E z \in DOMAIN chain : chain[z].kind = "zap" /\ chain[z].of = a
  BY DEF ChainShape, ShapeOf, LayersPresent, IsLayer, Loggers

LEMMA ZapIsUnique ==
  ASSUME ChainShape, NEW z \in DOMAIN chain, NEW y \in DOMAIN chain,
         chain[z].kind = "zap", chain[y].kind = "zap", chain[z].of = chain[y].of
  PROVE  z = y
  BY DEF ChainShape, ShapeOf, NoLayerTwice

\* Which loggers' lines an answered call has: not those that a refusal did not
\* reach, nor those that a panic crossed.
LEMMA WhoLogs ==
  ASSUME IInv, NEW c \in Calls, way[c] = "answered",
         NEW z \in DOMAIN chain, chain[z].kind = "zap"
  PROVE  CameBack(c, z) <=>
            ~ \/ Outside("auth", chain[z].of) /\ ~Admitted(c)
              \/ Outside("recovery", chain[z].of) /\ origin[c] # "none"
  <1>1. /\ ChainShape /\ Coming(c) /\ depth[c] = 0 /\ CallOK(c)
        /\ DOMAIN chain = 1 .. Len(chain) /\ Len(chain) \in Nat
    BY ChainType DEF IInv, CallOK, WayOK, Coming
  <1>2. chain[z].of \notin {"auth", "recovery"}
    BY <1>1, LayerKinds
  <1>3. Reached(c, z) <=> ~(Outside("auth", chain[z].of) /\ ~Admitted(c))
    <2>1. CASE Admitted(c)
      BY <2>1 DEF Reached
    <2>2. CASE ~Admitted(c)
      <3>1. PICK k \in DOMAIN chain : chain[k].kind = "auth"
        BY <1>1, <2>2, OneAuth DEF Admitted
      <3>2. Reached(c, z) <=> z < k
        BY <1>1, <2>2, <3>1, OneAuth DEF Reached
      <3>3. chain[k].of = "auth" /\ k # z
        BY <1>1, <1>2, <3>1, LayerKinds
      <3>4. k < z <=> Outside("auth", chain[z].of)
        BY <1>1, <1>2, <3>3, PlaceIsOrder
      <3>5. z < k <=> ~(k < z)
        BY <1>1, <3>3
      <3>6. QED
        BY <2>2, <3>2, <3>4, <3>5
    <2>3. QED
      BY <2>1, <2>2
  <1>4. ASSUME origin[c] # "none"
        PROVE  Recovers(c, z) <=> ~Outside("recovery", chain[z].of)
    <2>1. Recovers(c, 0)
      BY <1>1, <1>4 DEF CallOK, ResultOK
    <2>2. PICK r \in DOMAIN chain : chain[r].kind = "recovery" /\ Reached(c, r)
      BY <2>1 DEF Recovers
    <2>3. Recovers(c, z) <=> z < r
      BY <1>1, <2>2, OneRecovery DEF Recovers
    <2>4. chain[r].of = "recovery" /\ r # z
      BY <1>1, <1>2, <2>2, LayerKinds
    <2>5. r < z <=> Outside("recovery", chain[z].of)
      BY <1>1, <1>2, <2>4, PlaceIsOrder
    <2>6. z < r <=> ~(r < z)
      BY <1>1, <2>4
    <2>7. QED
      BY <2>3, <2>5, <2>6
  <1>5. depth[c] < z
    BY <1>1
  <1>6. QED
    BY <1>1, <1>3, <1>4, <1>5 DEF CameBack

\* The status that the client is given is the one each logger has written, but
\* for loggers that the call did not reach or that a panic passed through
\* (logger.go, recovery.go:21-22).
THEOREM StatusIsLogged == Spec => []AnswersAreLogged
  <1> DEFINE written(c, a) ==
               {l.what : l \in {m \in lines[c] : m.of = a}} \ {"request", "response"}
             unseen(c, a) ==
               \/ Outside("auth", a) /\ ~Admitted(c)
               \/ Outside("recovery", a) /\ origin[c] # "none"
  <1>1. ASSUME IInv, NEW c \in Calls, NEW a \in Loggers, way[c] = "answered"
        PROVE  written(c, a) = IF unseen(c, a) THEN {} ELSE {result[c]}
    <2>1. /\ ChainShape /\ CallOK(c)
          /\ result[c] \notin {"request", "response"}
      BY <1>1 DEF IInv, TypeOK, Results
    <2>2. PICK z \in DOMAIN chain : chain[z].kind = "zap" /\ chain[z].of = a
      BY <2>1, LoggerHasZap
    <2>3. CameBack(c, z) <=> ~unseen(c, a)
      BY <1>1, <2>2, WhoLogs
    <2>4. ASSUME NEW l \in lines[c], l.of = a, l.what \notin {"request", "response"}
          PROVE  l.what = result[c] /\ CameBack(c, z)
      BY <2>1, <2>2, <2>4, ZapIsUnique DEF CallOK, ZapLinesOK
    <2>5. CASE unseen(c, a)
      BY <2>3, <2>4, <2>5
    <2>6. CASE ~unseen(c, a)
      <3>1. \E l \in lines[c] : l.of = a /\ l.what = result[c]
        BY <2>1, <2>2, <2>3, <2>6 DEF CallOK, ZapLinesWritten
      <3>2. written(c, a) = {result[c]}
        BY <2>1, <2>4, <3>1
      <3>3. QED
        BY <2>6, <3>2
    <2>7. QED
      BY <2>5, <2>6
  <1>2. IInv => AnswersAreLogged
    BY <1>1 DEF AnswersAreLogged
  <1>3. QED
    BY <1>2, Invariance, PTL

\* Whose tags the authenticator finds: those of the last logger before it.
LEMMA WhoKnowsSubject ==
  ASSUME ChainShape, NEW z \in DOMAIN chain, chain[z].kind = "zap",
         NEW k \in DOMAIN chain, chain[k].kind = "auth"
  PROVE  TagsAt(k) = TagsAt(z) <=>
            /\ Outside(chain[z].of, "auth")
            /\ ~\E a \in Loggers : Outside(chain[z].of, a) /\ Outside(a, "auth")
  <1> DEFINE t == z - 1
  <1>1. /\ DOMAIN chain = 1 .. Len(chain) /\ Len(chain) \in Nat
        /\ t \in DOMAIN chain /\ chain[t].of = chain[z].of
        /\ chain[t].kind = "ctxtags" /\ TagsAt(z) = t
        /\ chain[k].of = "auth" /\ chain[z].of \in {"logging", "payload"}
    BY ChainType, TagsOfZap, LayerKinds
  <1>2. t < k <=> Outside(chain[z].of, "auth")
    BY <1>1, PlaceIsOrder
  <1>3. ASSUME NEW j \in DOMAIN chain, chain[j].kind = "ctxtags", t < j, j < k
        PROVE  \E a \in Loggers : Outside(chain[z].of, a) /\ Outside(a, "auth")
    <2>1. chain[j].of \in Loggers
      BY <1>3, LayerKinds DEF Loggers, Has
    <2>2. chain[j].of # chain[z].of
      BY <1>1, <1>3 DEF ChainShape, ShapeOf, NoLayerTwice
    <2>3. Outside(chain[z].of, chain[j].of)
      BY <1>1, <1>3, <2>2, PlaceIsOrder
    <2>4. Outside(chain[j].of, "auth")
      BY <1>1, <1>3, <2>1, PlaceIsOrder DEF Loggers
    <2>5. QED
      BY <2>1, <2>3, <2>4
  <1>4. ASSUME NEW a \in Loggers, Outside(chain[z].of, a), Outside(a, "auth")
        PROVE  \E j \in DOMAIN chain : chain[j].kind = "ctxtags" /\ t < j /\ j < k
    <2>1. PICK y \in DOMAIN chain : chain[y].kind = "zap" /\ chain[y].of = a
      BY LoggerHasZap
    <2>2. y - 1 \in DOMAIN chain /\ chain[y - 1].of = a /\ chain[y - 1].kind = "ctxtags"
      BY <2>1, TagsOfZap
    <2>3. y - 1 < k
      BY <1>1, <1>4, <2>2, PlaceIsOrder DEF Loggers
    <2>4. a # chain[z].of
      <3>1. Before(added, chain[z].of, a)
        BY <1>4 DEF Outside, Before
      <3>2. added \in Seq(Adders) /\ AddedOnce(added)
        BY DEF ChainShape, ShapeOf
      <3>3. DOMAIN added = 1 .. Len(added) /\ Len(added) \in Nat
        BY <3>2, LenProperties
      <3>4. QED
        BY <3>1, <3>2, <3>3 DEF AddedOnce, Before
    <2>5. t < y - 1
      BY <1>1, <1>4, <2>2, <2>4, PlaceIsOrder
    <2>6. QED
      BY <2>2, <2>3, <2>5
  <1>5. TagsAt(k) = t <=> /\ t < k
                          /\ ~\E j \in DOMAIN chain : /\ chain[j].kind = "ctxtags"
                                                      /\ t < j /\ j < k
    <2>1. k \in Nat /\ t \in Nat /\ t # 0
      BY <1>1
    <2>2. /\ TagsAt(k) = 0 => \A j \in 1 .. k - 1 : chain[j].kind # "ctxtags"
          /\ TagsAt(k) # 0 =>
               /\ TagsAt(k) \in 1 .. k - 1
               /\ chain[TagsAt(k)].kind = "ctxtags"
               /\ \A j \in 1 .. k - 1 : chain[j].kind = "ctxtags" => j <= TagsAt(k)
          /\ TagsAt(k) \in 0 .. k
      BY <2>1, TagsAtIs
    <2>3. 1 .. k - 1 \subseteq DOMAIN chain
      BY <1>1
    <2>4. ASSUME TagsAt(k) = t
          PROVE  t < k /\ \A j \in DOMAIN chain :
                             ~(chain[j].kind = "ctxtags" /\ t < j /\ j < k)
      BY <1>1, <2>1, <2>2, <2>4
    <2>5. ASSUME t < k, \A j \in DOMAIN chain :
                           ~(chain[j].kind = "ctxtags" /\ t < j /\ j < k)
          PROVE  TagsAt(k) = t
      <3>1. t \in 1 .. k - 1
        BY <1>1, <2>1, <2>5
      <3>2. TagsAt(k) # 0
        BY <1>1, <2>2, <3>1
      <3>3. t <= TagsAt(k) /\ TagsAt(k) \in DOMAIN chain /\ TagsAt(k) < k
            /\ ~(t < TagsAt(k))
        BY <1>1, <2>1, <2>2, <2>3, <2>5, <3>1, <3>2
      <3>4. QED
        BY <2>1, <2>2, <3>3
    <2>6. QED
      BY <2>4, <2>5
  <1>6. QED
    BY <1>1, <1>2, <1>3, <1>4, <1>5

\* The user is named by one logger at most, the last one added before the
\* authenticator, and never with a payload (auth.go:269).
THEOREM SubjectInOneLog == Spec => []SubjectIsLogged
  <1>1. ASSUME IInv, NEW c \in Calls, NEW l \in lines[c]
        PROVE  l.sub <=> /\ subject[c] # {}
                         /\ l.what \notin {"request", "response"}
                         /\ Outside(l.of, "auth")
                         /\ ~\E a \in Loggers : Outside(l.of, a) /\ Outside(a, "auth")
    <2>1. ChainShape /\ CallOK(c)
      BY <1>1 DEF IInv
    <2>2. CASE l.what \in {"request", "response"}
      BY <2>1, <2>2 DEF CallOK, PayloadLinesOK
    <2>3. CASE l.what \notin {"request", "response"}
      <3>1. PICK z \in DOMAIN chain :
               /\ chain[z].kind = "zap" /\ chain[z].of = l.of
               /\ l.sub <=> TagsAt(z) # 0 /\ TagsAt(z) \in subject[c]
        BY <2>1, <2>3 DEF CallOK, ZapLinesOK
      <3>2. CASE subject[c] = {}
        BY <3>1, <3>2
      <3>3. CASE subject[c] # {}
        <4>1. PICK k \in DOMAIN chain : /\ chain[k].kind = "auth"
                                        /\ subject[c] = {TagsAt(k)}
          BY <2>1, <3>3 DEF CallOK, WayOK
        <4>2. TagsAt(z) = z - 1 /\ z - 1 \in DOMAIN chain
          BY <2>1, <3>1, TagsOfZap
        <4>3. TagsAt(z) # 0
          BY <2>1, <4>2, ChainType
        <4>4. l.sub <=> TagsAt(k) = TagsAt(z)
          BY <3>1, <4>1, <4>3
        <4>5. QED
          BY <2>1, <2>3, <3>1, <3>3, <4>1, <4>4, WhoKnowsSubject
      <3>4. QED
        BY <3>2, <3>3
    <2>4. QED
      BY <2>2, <2>3
  <1>2. IInv => SubjectIsLogged
    BY <1>1 DEF SubjectIsLogged
  <1>3. QED
    BY <1>2, Invariance, PTL

\* A call that the authenticator did not admit leaves no trace in what was
\* added after it, nor in the handler (run.go:323-327).
THEOREM NothingBehindAuth == Spec => []BehindAuth
  <1>1. ASSUME IInv, NEW c \in Calls, ~Admitted(c)
        PROVE  /\ way[c] = "down" => depth[c] # Handler
               /\ origin[c] # "handler" /\ result[c] \notin {"ok", "failed"}
               /\ \A l \in lines[c] : Outside(l.of, "auth")
    <2>1. ChainShape /\ CallOK(c)
      BY <1>1 DEF IInv
    <2>2. way[c] = "down" => depth[c] # Handler
      BY <1>1, DownReached
    <2>3. origin[c] # "handler" /\ result[c] \notin {"ok", "failed"}
      BY <1>1, <2>1 DEF CallOK, ResultOK
    <2>4. ASSUME NEW l \in lines[c]
          PROVE  Outside(l.of, "auth")
      <3>1. PICK i \in DOMAIN chain : /\ chain[i].of = l.of /\ Reached(c, i)
                                      /\ chain[i].kind \in {"payload", "zap"}
        BY <2>1 DEF CallOK, PayloadLinesOK, ZapLinesOK, CameBack
      <3>2. PICK k \in DOMAIN chain : chain[k].kind = "auth" /\ i < k
        BY <1>1, <3>1 DEF Reached
      <3>3. chain[k].of = "auth" /\ chain[i].of # "auth"
        BY <2>1, <3>1, <3>2, LayerKinds
      <3>4. QED
        BY <2>1, <3>1, <3>2, <3>3, PlaceIsOrder
    <2>5. QED
      BY <2>2, <2>3, <2>4
  <1>2. IInv => BehindAuth
    BY <1>1 DEF BehindAuth
  <1>3. QED
    BY <1>2, Invariance, PTL
=============================================================================
