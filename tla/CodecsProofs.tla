---------------------------- MODULE CodecsProofs ----------------------------
(***************************************************************************)
(* Proofs about Codecs, for all messages, users, sizes and bundles the     *)
(* constants name: CodecsInv is an invariant of Spec, with the properties  *)
(* of the three codecs that follow from it (ConvertedWhole, FramesReadBack *)
(* and OscUnambiguous).                                                    *)
(*                                                                         *)
(* BundleBytes and Rest are functions that recur along a sequence.  That   *)
(* such a function exists and obeys its equations is RecursionExists; what *)
(* it computes is proved by induction over the length.                     *)
(***************************************************************************)
EXTENDS Codecs, ListenerProofs

(* Recursion along a sequence. *)

\* The functions on 0..n with a value at 0 and a step from k - 1 to k; there is one.
Recursion(V, base, n, g) ==
    {f \in [0..n -> V] : f[0] = base /\ \A k \in 1..n : f[k] = g[k][f[k - 1]]}

LEMMA RecursionExists ==
    ASSUME NEW V, NEW base \in V, NEW n \in Nat, NEW g \in [1..n -> [V -> V]]
    PROVE  Recursion(V, base, n, g) # {}
<1> DEFINE Upto(f, m) == f[0] = base /\ \A k \in 1..m : f[k] = g[k][f[k - 1]]
           S == {m \in Nat : m <= n => \E f \in [0..m -> V] : Upto(f, m)}
<1>1. 0 \in S
  <2>1. [k \in 0..0 |-> base] \in [0..0 -> V] /\ Upto([k \in 0..0 |-> base], 0)
    OBVIOUS
  <2> QED BY <2>1
<1>2. ASSUME NEW m \in Nat, m \in S PROVE m + 1 \in S
  <2> SUFFICES ASSUME m + 1 <= n PROVE \E f \in [0..(m + 1) -> V] : Upto(f, m + 1)
    OBVIOUS
  <2>1. PICK f \in [0..m -> V] : Upto(f, m)
    BY <1>2
  <2> DEFINE h == [k \in 0..(m + 1) |-> IF k <= m THEN f[k] ELSE g[m + 1][f[m]]]
  <2>2. h \in [0..(m + 1) -> V]
    <3>1. g[m + 1][f[m]] \in V
      BY <2>1
    <3>2. \A k \in 0..(m + 1) : k <= m => f[k] \in V
      BY <2>1
    <3> QED BY <3>1, <3>2
  <2>3. \A k \in 0..m : h[k] = f[k]
    OBVIOUS
  <2>4. h[m + 1] = g[m + 1][f[m]]
    OBVIOUS
  <2> HIDE DEF h
  <2>5. \A k \in 1..(m + 1) : h[k] = g[k][h[k - 1]]
    <3> TAKE k \in 1..(m + 1)
    <3>1. CASE k = m + 1
      BY <2>3, <2>4, <3>1
    <3>2. CASE k # m + 1
      <4>1. k \in 1..m /\ k \in 0..m /\ k - 1 \in 0..m
        BY <3>2
      <4> QED BY <2>1, <2>3, <4>1
    <3> QED BY <3>1, <3>2
  <2>6. Upto(h, m + 1)
    BY <2>1, <2>3, <2>5
  <2> QED BY <2>2, <2>6
<1>3. Nat \subseteq S
  <2> HIDE DEF S
  <2> QED BY <1>1, <1>2, SetInduction
<1> QED BY <1>3 DEF Recursion

\* The sizes of the messages of a bundle add up.
LEMMA SumIs ==
    ASSUME NEW S, NEW s \in Seq(S), \A m \in S : m.bytes \in Nat, NEW fixed \in Nat
    PROVE  \E sum \in [0..Len(s) -> Nat] :
              /\ sum[0] = fixed
              /\ \A k \in 1..Len(s) : sum[k] = sum[k - 1] + 4 + s[k].bytes
              /\ Vrl!BundleBytes(s, fixed) = sum[Len(s)]
<1> DEFINE n == Len(s)
           Step(f) == [k \in 0..n |-> IF k = 0 THEN fixed ELSE f[k - 1] + 4 + s[k].bytes]
           g == [k \in 1..n |-> [v \in Nat |-> v + 4 + s[k].bytes]]
           sum == CHOOSE f : f = Step(f)
<1>1. n \in Nat /\ \A k \in 1..n : s[k].bytes \in Nat
  OBVIOUS
<1>2. g \in [1..n -> [Nat -> Nat]]
  BY <1>1
<1>3. PICK f \in [0..n -> Nat] : f[0] = fixed /\ \A k \in 1..n : f[k] = g[k][f[k - 1]]
  <2> HIDE DEF g, n
  <2>1. Recursion(Nat, fixed, n, g) # {}
    BY ONLY <1>1, <1>2, fixed \in Nat, RecursionExists
  <2> QED BY <2>1 DEF Recursion
<1>4. f = Step(f)
  <2>1. \A k \in 0..n : f[k] = IF k = 0 THEN fixed ELSE f[k - 1] + 4 + s[k].bytes
    <3> TAKE k \in 0..n
    <3>1. CASE k = 0
      BY <1>3, <3>1
    <3>2. CASE k # 0
      <4>1. k \in 1..n /\ f[k - 1] \in Nat
        <5> HIDE DEF n
        <5>1. k \in 1..n /\ k - 1 \in 0..n
          BY ONLY <1>1, <3>2, k \in 0..n
        <5> QED BY ONLY <5>1, f \in [0..n -> Nat]
      <4>2. g[k][f[k - 1]] = f[k - 1] + 4 + s[k].bytes
        BY ONLY <4>1
      <4>3. f[k] = g[k][f[k - 1]]
        <5> HIDE DEF g, n
        <5> QED BY ONLY <1>3, <4>1
      <4> QED BY ONLY <3>2, <4>2, <4>3
    <3> QED BY <3>1, <3>2
  <2> QED BY <1>3, <2>1
<1>5. sum = Step(sum)
  <2>1. \E h : h = Step(h)
    BY <1>4
  <2> HIDE DEF Step
  <2> QED BY <2>1
<1>6. Vrl!BundleBytes(s, fixed) = sum[n]
  BY DEF Vrl!BundleBytes
<1> HIDE DEF sum
<1>7. \A k \in 0..n : sum[k] = IF k = 0 THEN fixed ELSE sum[k - 1] + 4 + s[k].bytes
  BY <1>5
<1>8. \A k \in 0..n : sum[k] \in Nat
  <2> DEFINE T == {k \in Nat : k <= n => sum[k] \in Nat}
  <2>1. 0 \in T
    BY <1>1, <1>7
  <2>2. ASSUME NEW k \in Nat, k \in T PROVE k + 1 \in T
    <3> SUFFICES ASSUME k + 1 <= n PROVE sum[k + 1] \in Nat
      OBVIOUS
    <3>1. k + 1 \in 0..n /\ k + 1 # 0 /\ k + 1 \in 1..n /\ (k + 1) - 1 = k /\ sum[k] \in Nat
      BY <1>1, <2>2
    <3>2. sum[k + 1] = sum[k] + 4 + s[k + 1].bytes
      BY <1>7, <3>1
    <3> QED BY SMTT(20), <1>1, <3>1, <3>2
  <2>3. Nat \subseteq T
    <3> HIDE DEF T
    <3> QED BY <2>1, <2>2, SetInduction
  <2> QED BY <1>1, <2>3
<1>9. sum \in [0..n -> Nat]
  <2>1. sum = [k \in 0..n |-> sum[k]]
    BY <1>5
  <2> QED BY <1>8, <2>1
<1>10. sum[0] = fixed /\ \A k \in 1..n : sum[k] = sum[k - 1] + 4 + s[k].bytes
  BY <1>1, <1>7
<1> QED BY <1>6, <1>9, <1>10

LEMMA OneMoreMessage ==
    ASSUME NEW S, NEW s \in Seq(S), NEW m \in S, \A x \in S : x.bytes \in Nat, NEW fixed \in Nat
    PROVE  Vrl!BundleBytes(Append(s, m), fixed) = Vrl!BundleBytes(s, fixed) + 4 + m.bytes
<1> DEFINE t == Append(s, m)
<1>1. /\ t \in Seq(S) /\ Len(s) \in Nat /\ Len(t) = Len(s) + 1 /\ t[Len(s) + 1] = m
      /\ \A k \in 1..Len(s) : t[k] = s[k]
  OBVIOUS
<1>2. PICK a \in [0..Len(s) -> Nat] :
         /\ a[0] = fixed
         /\ \A k \in 1..Len(s) : a[k] = a[k - 1] + 4 + s[k].bytes
         /\ Vrl!BundleBytes(s, fixed) = a[Len(s)]
  BY ONLY s \in Seq(S), fixed \in Nat, \A x \in S : x.bytes \in Nat, SumIs
<1> HIDE DEF t
<1>3. PICK b \in [0..Len(t) -> Nat] :
         /\ b[0] = fixed
         /\ \A k \in 1..Len(t) : b[k] = b[k - 1] + 4 + t[k].bytes
         /\ Vrl!BundleBytes(t, fixed) = b[Len(t)]
  BY ONLY <1>1, fixed \in Nat, \A x \in S : x.bytes \in Nat, SumIs
<1> DEFINE T == {k \in Nat : k <= Len(s) => b[k] = a[k]}
<1>4. 0 \in T
  BY <1>2, <1>3
<1>5. ASSUME NEW k \in Nat, k \in T PROVE k + 1 \in T
  <2> SUFFICES ASSUME k + 1 <= Len(s) PROVE b[k + 1] = a[k + 1]
    OBVIOUS
  <2>1. /\ k + 1 \in 1..Len(s) /\ k + 1 \in 1..Len(t) /\ (k + 1) - 1 = k /\ b[k] = a[k]
    BY <1>1, <1>5
  <2>2. b[k + 1] = b[k] + 4 + t[k + 1].bytes /\ a[k + 1] = a[k] + 4 + s[k + 1].bytes
    BY <1>2, <1>3, <2>1
  <2> QED BY <1>1, <2>1, <2>2
<1>6. Nat \subseteq T
  <2> HIDE DEF T
  <2> QED BY <1>4, <1>5, SetInduction
<1>7. b[Len(s)] = a[Len(s)]
  BY <1>1, <1>6
<1>8. b[Len(s) + 1] = b[Len(s)] + 4 + m.bytes
  <2>1. Len(s) + 1 \in 1..Len(t) /\ (Len(s) + 1) - 1 = Len(s)
    BY <1>1
  <2> QED BY <1>1, <1>3, <2>1
<1> QED BY <1>1, <1>2, <1>3, <1>7, <1>8 DEF t

\* The filter decides about the messages one by one.
LEMMA RestIs ==
    ASSUME NEW S, NEW s \in Seq(S)
    PROVE  \E kept \in [0..Len(s) -> Seq(S)] :
              /\ kept[0] = <<>>
              /\ \A k \in 1..Len(s) :
                    kept[k] = IF Vrl!Kept(s[k]) THEN Append(kept[k - 1], s[k]) ELSE kept[k - 1]
              /\ Vrl!Rest(s) = kept[Len(s)]
<1> DEFINE n == Len(s)
           Step(f) == [k \in 0..n |->
                        IF k = 0 THEN <<>>
                        ELSE IF Vrl!Kept(s[k]) THEN Append(f[k - 1], s[k])
                        ELSE f[k - 1]]
           g == [k \in 1..n |-> [v \in Seq(S) |-> IF Vrl!Kept(s[k]) THEN Append(v, s[k]) ELSE v]]
           kept == CHOOSE f : f = Step(f)
<1>1. n \in Nat /\ \A k \in 1..n : s[k] \in S
  OBVIOUS
<1>2. g \in [1..n -> [Seq(S) -> Seq(S)]] /\ <<>> \in Seq(S)
  BY <1>1
<1>3. PICK f \in [0..n -> Seq(S)] : f[0] = <<>> /\ \A k \in 1..n : f[k] = g[k][f[k - 1]]
  <2> HIDE DEF g, n
  <2>1. Recursion(Seq(S), <<>>, n, g) # {}
    BY ONLY <1>1, <1>2, RecursionExists
  <2> QED BY <2>1 DEF Recursion
<1>4. f = Step(f)
  <2>1. \A k \in 0..n : f[k] = IF k = 0 THEN <<>>
                               ELSE IF Vrl!Kept(s[k]) THEN Append(f[k - 1], s[k])
                               ELSE f[k - 1]
    <3> TAKE k \in 0..n
    <3>1. CASE k = 0
      BY <1>3, <3>1
    <3>2. CASE k # 0
      <4>1. k \in 1..n /\ f[k - 1] \in Seq(S)
        BY <1>1, <1>3, <3>2
      <4> QED BY <1>3, <3>2, <4>1
    <3> QED BY <3>1, <3>2
  <2> QED BY <1>3, <2>1
<1>5. kept = Step(kept)
  <2>1. \E h : h = Step(h)
    BY <1>4
  <2> HIDE DEF Step
  <2> QED BY <2>1
<1>6. Vrl!Rest(s) = kept[n]
  BY DEF Vrl!Rest
<1> HIDE DEF kept
<1>7. \A k \in 0..n : kept[k] = IF k = 0 THEN <<>>
                                ELSE IF Vrl!Kept(s[k]) THEN Append(kept[k - 1], s[k])
                                ELSE kept[k - 1]
  BY <1>5
<1>8. \A k \in 0..n : kept[k] \in Seq(S)
  <2> DEFINE T == {k \in Nat : k <= n => kept[k] \in Seq(S)}
  <2>1. 0 \in T
    <3>1. 0 \in 0..n
      BY <1>1
    <3>2. kept[0] = <<>>
      BY <1>7, <3>1
    <3> QED BY <1>2, <3>2
  <2>2. ASSUME NEW k \in Nat, k \in T PROVE k + 1 \in T
    <3> SUFFICES ASSUME k + 1 <= n PROVE kept[k + 1] \in Seq(S)
      OBVIOUS
    <3>1. k + 1 \in 0..n /\ k + 1 # 0 /\ k + 1 \in 1..n /\ (k + 1) - 1 = k /\ kept[k] \in Seq(S)
      BY <1>1, <2>2
    <3>2. kept[k + 1] = IF Vrl!Kept(s[k + 1]) THEN Append(kept[k], s[k + 1]) ELSE kept[k]
      BY <1>7, <3>1
    <3> QED BY <1>1, <3>1, <3>2
  <2>3. Nat \subseteq T
    <3> HIDE DEF T
    <3> QED BY <2>1, <2>2, SetInduction
  <2> QED BY <1>1, <2>3
<1>9. kept \in [0..n -> Seq(S)]
  <2>1. kept = [k \in 0..n |-> kept[k]]
    BY <1>5
  <2> QED BY <1>8, <2>1
<1>10. /\ kept[0] = <<>>
       /\ \A k \in 1..n :
             kept[k] = IF Vrl!Kept(s[k]) THEN Append(kept[k - 1], s[k]) ELSE kept[k - 1]
  BY <1>1, <1>7
<1> QED BY <1>6, <1>9, <1>10

\* The filter takes bytes away, if any.
LEMMA RestIsSmaller ==
    ASSUME NEW S, NEW s \in Seq(S), \A m \in S : m.bytes \in Nat, NEW low \in Nat, NEW high \in Nat
    PROVE  /\ Vrl!BundleBytes(Vrl!Rest(s), high) \in Nat
           /\ Vrl!BundleBytes(Vrl!Rest(s), high) + low <= Vrl!BundleBytes(s, low) + high
<1>1. PICK kept \in [0..Len(s) -> Seq(S)] :
         /\ kept[0] = <<>>
         /\ \A k \in 1..Len(s) :
               kept[k] = IF Vrl!Kept(s[k]) THEN Append(kept[k - 1], s[k]) ELSE kept[k - 1]
         /\ Vrl!Rest(s) = kept[Len(s)]
  BY ONLY s \in Seq(S), RestIs
<1>2. PICK sum \in [0..Len(s) -> Nat] :
         /\ sum[0] = low
         /\ \A k \in 1..Len(s) : sum[k] = sum[k - 1] + 4 + s[k].bytes
         /\ Vrl!BundleBytes(s, low) = sum[Len(s)]
  BY ONLY s \in Seq(S), low \in Nat, \A m \in S : m.bytes \in Nat, SumIs
<1>3. Len(s) \in Nat /\ \A k \in 1..Len(s) : s[k] \in S
  OBVIOUS
<1> DEFINE bytes(k) == Vrl!BundleBytes(kept[k], high)
           T == {k \in Nat : k <= Len(s) => bytes(k) \in Nat /\ bytes(k) + low <= sum[k] + high}
<1>4. 0 \in T
  <2>1. Len(<<>>) = 0 /\ <<>> \in Seq(S)
    OBVIOUS
  <2>2. \E none \in [0..Len(<<>>) -> Nat] :
           /\ none[0] = high
           /\ \A k \in 1..Len(<<>>) : none[k] = none[k - 1] + 4 + (<<>>)[k].bytes
           /\ Vrl!BundleBytes(<<>>, high) = none[Len(<<>>)]
    BY ONLY <2>1, high \in Nat, \A m \in S : m.bytes \in Nat, SumIs
  <2>3. Vrl!BundleBytes(<<>>, high) = high
    BY <2>1, <2>2
  <2> QED BY <1>1, <1>2, <2>3
<1>5. ASSUME NEW k \in Nat, k \in T PROVE k + 1 \in T
  <2> SUFFICES ASSUME k + 1 <= Len(s)
               PROVE  bytes(k + 1) \in Nat /\ bytes(k + 1) + low <= sum[k + 1] + high
    OBVIOUS
  <2>1. /\ k + 1 \in 1..Len(s) /\ k \in 0..Len(s) /\ (k + 1) - 1 = k
        /\ bytes(k) \in Nat /\ bytes(k) + low <= sum[k] + high
    BY <1>3, <1>5
  <2>2. s[k + 1] \in S /\ s[k + 1].bytes \in Nat /\ kept[k] \in Seq(S) /\ sum[k] \in Nat
    BY <1>1, <1>2, <1>3, <2>1
  <2>3. sum[k + 1] = sum[k] + 4 + s[k + 1].bytes
    BY <1>2, <2>1
  <2>4. CASE Vrl!Kept(s[k + 1])
    <3>1. kept[k + 1] = Append(kept[k], s[k + 1])
      BY <1>1, <2>1, <2>4
    <3>2. bytes(k + 1) = bytes(k) + 4 + s[k + 1].bytes
      <4>1. Vrl!BundleBytes(Append(kept[k], s[k + 1]), high)
              = Vrl!BundleBytes(kept[k], high) + 4 + s[k + 1].bytes
        BY ONLY <2>2, high \in Nat, \A m \in S : m.bytes \in Nat, OneMoreMessage
      <4> QED BY ONLY <3>1, <4>1
    <3> HIDE DEF bytes
    <3> DEFINE a == bytes(k)
               b == sum[k]
               c == s[k + 1].bytes
    <3>3. a \in Nat /\ b \in Nat /\ c \in Nat /\ a + low <= b + high
      BY <2>1, <2>2
    <3> HIDE DEF a, b, c
    <3>4. a + 4 + c \in Nat /\ (a + 4 + c) + low <= (b + 4 + c) + high
      BY ONLY <3>3, low \in Nat, high \in Nat
    <3> QED BY ONLY <2>3, <3>2, <3>4 DEF a, b, c
  <2>5. CASE ~Vrl!Kept(s[k + 1])
    <3>1. bytes(k + 1) = bytes(k)
      BY <1>1, <2>1, <2>5
    <3> HIDE DEF bytes
    <3> QED BY ONLY SMTT(20), <2>1, <2>2, <2>3, <3>1, low \in Nat, high \in Nat
  <2> QED BY <2>4, <2>5
<1>6. Nat \subseteq T
  <2> HIDE DEF T
  <2> QED BY <1>4, <1>5, SetInduction
<1>7. Len(s) \in T
  BY <1>3, <1>6
<1> QED BY <1>1, <1>2, <1>3, <1>7

\* A bundle that has nothing to filter stays what it is.
LEMMA RestKeepsAll ==
    ASSUME NEW S, NEW s \in Seq(S), \A k \in DOMAIN s : Vrl!Kept(s[k])
    PROVE  Vrl!Rest(s) = s
<1>1. PICK kept \in [0..Len(s) -> Seq(S)] :
         /\ kept[0] = <<>>
         /\ \A k \in 1..Len(s) :
               kept[k] = IF Vrl!Kept(s[k]) THEN Append(kept[k - 1], s[k]) ELSE kept[k - 1]
         /\ Vrl!Rest(s) = kept[Len(s)]
  BY ONLY s \in Seq(S), RestIs
<1>2. Len(s) \in Nat /\ DOMAIN s = 1..Len(s) /\ \A k \in 1..Len(s) : s[k] \in S
  OBVIOUS
<1> DEFINE First(k, t) == Len(t) = k /\ \A i \in 1..k : t[i] = s[i]
           T == {k \in Nat : k <= Len(s) => First(k, kept[k])}
<1>3. 0 \in T
  BY <1>1
<1>4. ASSUME NEW k \in Nat, k \in T PROVE k + 1 \in T
  <2> SUFFICES ASSUME k + 1 <= Len(s) PROVE First(k + 1, kept[k + 1])
    OBVIOUS
  <2>1. k + 1 \in 1..Len(s) /\ k \in 0..Len(s) /\ (k + 1) - 1 = k /\ First(k, kept[k])
    BY <1>2, <1>4
  <2>2. kept[k + 1] = Append(kept[k], s[k + 1]) /\ kept[k] \in Seq(S) /\ s[k + 1] \in S
    BY <1>1, <1>2, <2>1
  <2> QED BY <2>1, <2>2
<1>5. Nat \subseteq T
  <2> HIDE DEF T
  <2> QED BY <1>3, <1>4, SetInduction
<1>6. First(Len(s), kept[Len(s)]) /\ kept[Len(s)] \in Seq(S)
  <2>1. Len(s) \in T /\ Len(s) \in 0..Len(s)
    BY ONLY <1>2, <1>5
  <2>2. First(Len(s), kept[Len(s)])
    BY ONLY <1>2, <2>1
  <2>3. kept[Len(s)] \in Seq(S)
    BY ONLY <1>1, <2>1
  <2> QED BY ONLY <2>2, <2>3
<1>7. kept[Len(s)] = s
  BY <1>2, <1>6
<1> QED BY <1>1, <1>7

\* The filter leaves the messages that are kept, in their order.
Picked(s, rest, k) ==
    \E from \in [1..Len(rest) -> 1..k] :
        /\ \A i, j \in 1..Len(rest) : i < j => from[i] < from[j]
        /\ \A i \in 1..Len(rest) : rest[i] = s[from[i]]
        /\ \A j \in 1..k : Vrl!Kept(s[j]) <=> \E i \in 1..Len(rest) : from[i] = j

LEMMA PickedAlso ==
    ASSUME NEW S, NEW s \in Seq(S), NEW rest \in Seq(S), NEW k \in Nat, k + 1 <= Len(s),
           Picked(s, rest, k)
    PROVE  /\ Vrl!Kept(s[k + 1]) => Picked(s, Append(rest, s[k + 1]), k + 1)
           /\ ~Vrl!Kept(s[k + 1]) => Picked(s, rest, k + 1)
<1> DEFINE n == Len(rest)
<1>1. PICK from \in [1..n -> 1..k] :
         /\ \A i, j \in 1..n : i < j => from[i] < from[j]
         /\ \A i \in 1..n : rest[i] = s[from[i]]
         /\ \A j \in 1..k : Vrl!Kept(s[j]) <=> \E i \in 1..n : from[i] = j
  BY DEF Picked
<1>2. n \in Nat /\ s[k + 1] \in S /\ \A i \in 1..n : from[i] \in Nat /\ from[i] <= k
  <2>1. n \in Nat /\ k + 1 \in DOMAIN s
    OBVIOUS
  <2>2. \A i \in 1..n : from[i] \in 1..k
    BY <1>1
  <2> QED BY <2>1, <2>2
<1>3. ASSUME Vrl!Kept(s[k + 1]) PROVE Picked(s, Append(rest, s[k + 1]), k + 1)
  <2> DEFINE more == [i \in 1..(n + 1) |-> IF i = n + 1 THEN k + 1 ELSE from[i]]
             longer == Append(rest, s[k + 1])
  <2>1. /\ Len(longer) = n + 1 /\ longer[n + 1] = s[k + 1]
        /\ \A i \in 1..n : longer[i] = rest[i]
    BY <1>2
  <2>2. more \in [1..(n + 1) -> 1..(k + 1)]
    BY <1>1, <1>2
  <2>3. more[n + 1] = k + 1 /\ \A i \in 1..n : more[i] = from[i]
    BY <1>2
  <2>4. \A i \in 1..(n + 1) : i \in 1..n \/ i = n + 1
    BY <1>2
  <2> HIDE DEF more, longer
  <2>5. \A i, j \in 1..(n + 1) : i < j => more[i] < more[j]
    <3> SUFFICES ASSUME NEW i \in 1..(n + 1), NEW j \in 1..(n + 1), i < j PROVE more[i] < more[j]
      OBVIOUS
    <3>1. i \in 1..n
      BY <1>2
    <3>2. more[i] = from[i] /\ from[i] \in Nat /\ from[i] < k + 1
      BY <1>2, <2>3, <3>1
    <3>3. CASE j = n + 1
      BY <2>3, <3>2, <3>3
    <3>4. CASE j # n + 1
      <4>1. j \in 1..n /\ more[j] = from[j]
        BY <2>3, <2>4, <3>4
      <4> QED BY <1>1, <3>1, <3>2, <4>1
    <3> QED BY <3>3, <3>4
  <2>6. \A i \in 1..(n + 1) : longer[i] = s[more[i]]
    BY <1>1, <2>1, <2>3, <2>4
  <2>7. ASSUME NEW j \in 1..(k + 1)
        PROVE  Vrl!Kept(s[j]) <=> \E i \in 1..(n + 1) : more[i] = j
    <3>1. CASE j = k + 1
      BY <1>2, <1>3, <2>3, <3>1
    <3>2. CASE j # k + 1
      <4>1. j \in 1..k /\ \A i \in 1..n : i \in 1..(n + 1)
        BY <1>2, <3>2
      <4> QED BY <1>1, <2>3, <2>4, <3>2, <4>1
    <3> QED BY <3>1, <3>2
  <2>8. Len(longer) = n + 1
    BY <2>1
  <2>9. Picked(s, longer, k + 1)
    <3>1. more \in [1..Len(longer) -> 1..(k + 1)]
      BY ONLY <2>2, <2>8
    <3>2. \A i, j \in 1..Len(longer) : i < j => more[i] < more[j]
      BY ONLY <2>5, <2>8
    <3>3. \A i \in 1..Len(longer) : longer[i] = s[more[i]]
      BY ONLY <2>6, <2>8
    <3>4. \A j \in 1..(k + 1) : Vrl!Kept(s[j]) <=> \E i \in 1..Len(longer) : more[i] = j
      BY ONLY <2>7, <2>8
    <3> QED BY ONLY <3>1, <3>2, <3>3, <3>4 DEF Picked
  <2> QED BY <2>9 DEF longer
<1>4. ASSUME ~Vrl!Kept(s[k + 1]) PROVE Picked(s, rest, k + 1)
  <2>1. from \in [1..n -> 1..(k + 1)]
    BY <1>1, <1>2
  <2>2. ASSUME NEW j \in 1..(k + 1) PROVE Vrl!Kept(s[j]) <=> \E i \in 1..n : from[i] = j
    <3>1. CASE j = k + 1
      BY <1>2, <1>4, <3>1
    <3>2. CASE j # k + 1
      <4>1. j \in 1..k
        BY <3>2
      <4> QED BY <1>1, <4>1
    <3> QED BY <3>1, <3>2
  <2> QED BY <1>1, <2>1, <2>2 DEF Picked
<1> QED BY <1>3, <1>4

LEMMA RestPicks ==
    ASSUME NEW S, NEW s \in Seq(S)
    PROVE  Vrl!Rest(s) \in Seq(S) /\ Vrl!WithoutFiltered(s, Vrl!Rest(s))
<1>1. PICK kept \in [0..Len(s) -> Seq(S)] :
         /\ kept[0] = <<>>
         /\ \A k \in 1..Len(s) :
               kept[k] = IF Vrl!Kept(s[k]) THEN Append(kept[k - 1], s[k]) ELSE kept[k - 1]
         /\ Vrl!Rest(s) = kept[Len(s)]
  BY ONLY s \in Seq(S), RestIs
<1>2. Len(s) \in Nat
  OBVIOUS
<1> DEFINE T == {k \in Nat : k <= Len(s) => Picked(s, kept[k], k)}
<1>3. 0 \in T
  <2>1. Len(<<>>) = 0
    OBVIOUS
  <2> DEFINE none == [i \in 1..0 |-> 1]
  <2>2. none \in [1..0 -> 1..0] /\ \A i \in 1..0 : FALSE
    OBVIOUS
  <2>3. Picked(s, <<>>, 0)
    BY <2>1, <2>2 DEF Picked
  <2> QED BY <1>1, <2>3
<1>4. ASSUME NEW k \in Nat, k \in T PROVE k + 1 \in T
  <2> SUFFICES ASSUME k + 1 <= Len(s) PROVE Picked(s, kept[k + 1], k + 1)
    OBVIOUS
  <2>1. k + 1 \in 1..Len(s) /\ k \in 0..Len(s) /\ (k + 1) - 1 = k /\ Picked(s, kept[k], k)
    BY <1>2, <1>4
  <2>2. kept[k + 1] = (IF Vrl!Kept(s[k + 1]) THEN Append(kept[k], s[k + 1]) ELSE kept[k])
        /\ kept[k] \in Seq(S)
    BY <1>1, <2>1
  <2>3. /\ Vrl!Kept(s[k + 1]) => Picked(s, Append(kept[k], s[k + 1]), k + 1)
        /\ ~Vrl!Kept(s[k + 1]) => Picked(s, kept[k], k + 1)
    BY ONLY <2>1, <2>2, s \in Seq(S), k \in Nat, k + 1 <= Len(s), PickedAlso
  <2> QED BY <2>2, <2>3
<1>5. Nat \subseteq T
  <2> HIDE DEF T
  <2> QED BY <1>3, <1>4, SetInduction
<1>6. Picked(s, Vrl!Rest(s), Len(s)) /\ Vrl!Rest(s) \in Seq(S)
  BY <1>1, <1>2, <1>5
<1>7. PICK from \in [1..Len(Vrl!Rest(s)) -> 1..Len(s)] :
         /\ \A i, j \in 1..Len(Vrl!Rest(s)) : i < j => from[i] < from[j]
         /\ \A i \in 1..Len(Vrl!Rest(s)) : Vrl!Rest(s)[i] = s[from[i]]
         /\ \A j \in 1..Len(s) :
               Vrl!Kept(s[j]) <=> \E i \in 1..Len(Vrl!Rest(s)) : from[i] = j
  BY <1>6 DEF Picked
<1>8. DOMAIN Vrl!Rest(s) = 1..Len(Vrl!Rest(s)) /\ DOMAIN s = 1..Len(s)
  BY <1>6
<1>9. {from[i] : i \in DOMAIN Vrl!Rest(s)} = {k \in DOMAIN s : Vrl!Kept(s[k])}
  <2>1. \A i \in 1..Len(Vrl!Rest(s)) : from[i] \in 1..Len(s)
    BY <1>7
  <2>2. {from[i] : i \in 1..Len(Vrl!Rest(s))} = {k \in 1..Len(s) : Vrl!Kept(s[k])}
    <3>1. ASSUME NEW i \in 1..Len(Vrl!Rest(s)) PROVE Vrl!Kept(s[from[i]])
      BY <1>7, <2>1
    <3>2. ASSUME NEW k \in 1..Len(s), Vrl!Kept(s[k])
          PROVE  \E i \in 1..Len(Vrl!Rest(s)) : from[i] = k
      BY <1>7, <3>2
    <3> QED BY ONLY <2>1, <3>1, <3>2
  <2> QED BY ONLY <1>8, <2>2
<1> DEFINE rest == Vrl!Rest(s)
<1>10. /\ from \in [DOMAIN rest -> DOMAIN s]
       /\ \A i, j \in DOMAIN rest : i < j => from[i] < from[j]
       /\ \A i \in DOMAIN rest : rest[i] = s[from[i]]
       /\ {from[i] : i \in DOMAIN rest} = {k \in DOMAIN s : Vrl!Kept(s[k])}
  BY <1>7, <1>8, <1>9
<1> HIDE DEF rest
<1>11. Vrl!WithoutFiltered(s, rest)
  BY ONLY <1>10 DEF Vrl!WithoutFiltered
<1> QED BY <1>6, <1>11 DEF rest

-----------------------------------------------------------------------------
(* The inductive invariant. *)

\* Of a message on its way nothing but itself is read.
OscInv ==
    /\ \/ said = None
       \/ said \in [side : {"server"}, prefix : {<<>>, <<Osc!Empty>>}, message : Osc!ServerMessages]
       \/ said \in [side : {"client"}, prefix : {<<>>, <<Osc!Empty>>}, message : Osc!ClientMessages]
    /\ OscUnambiguous

\* The parts of a TCP packet are as short as their lengths' fields allow.
TcpInv ==
    /\ parts # None =>
          \/ parts \in {Tcp!Parts(6, 0, bytes) : bytes \in Events}
          \/ parts \in {Tcp!Parts(8, 2 + name, bytes) : name \in FileNames, bytes \in Files}
    /\ Tcp!TcpReadsBack

\* A packet carries one thing, and motion capture is converted before it is sent.
PacketOK ==
    /\ stage \in {"idle", "convert", "filter", "frame", "sent", "panicked"}
    /\ stage = "idle" => bundle = None
    /\ stage # "idle" => user \in Users
    /\ stage # "idle" /\ bundle = None =>
          /\ stage \in {"frame", "sent", "panicked"}
          /\ audio \in [payload : Payloads, extension : Vrl!Extensions]

BundleOK ==
    /\ bundle \in Seq(Vrl!Messages)
    /\ Vrl!BundleBytes(bundle, 16) <= Vrl!BufSize
    /\ audio = None
    /\ at \in 1..(Len(bundle) + 1)
    /\ Vrl!Ok(at - 1)

\* What the first n messages say last of a part of a bone, 0 if they say nothing.
Says(k, bone, part) == Vrl!BoneOf[bundle[k].name] = bone /\ bundle[k].part = part

SaidLast(n, bone, part, value) ==
    \/ value = 0 /\ \A k \in 1..n : ~Says(k, bone, part)
    \/ \E k \in 1..n :
          /\ Says(k, bone, part) /\ bundle[k].value = value
          /\ \A j \in 1..n : Says(j, bone, part) => j <= k

\* The map has the bones of the messages before at, and what they say last.
MapOK ==
    /\ DOMAIN hm = {Vrl!BoneOf[bundle[k].name] : k \in 1..(at - 1)}
    /\ \A b \in DOMAIN hm :
          /\ hm[b] = [position |-> hm[b].position, rotation |-> hm[b].rotation]
          /\ SaidLast(at - 1, b, "position", hm[b].position)
          /\ SaidLast(at - 1, b, "rotation", hm[b].rotation)

OnePerBone ==
    /\ content \in Seq({Vrl!Converted(b) : b \in DOMAIN hm})
    /\ Len(content) = Cardinality(DOMAIN hm)
    /\ {content[k] : k \in DOMAIN content} = {Vrl!Converted(b) : b \in DOMAIN hm}

\* All is converted, or nothing.
ContentOK ==
    stage \in {"filter", "frame", "sent"} =>
        IF at > Len(bundle) THEN OnePerBone
        ELSE /\ Vrl!Reading(bundle[at]) = "error"
             /\ content = IF stage = "filter" THEN bundle ELSE Vrl!Rest(bundle)

PanicOK ==
    stage = "panicked" =>
        \E k \in DOMAIN bundle :
            \/ Vrl!Ok(k - 1) /\ Vrl!Reading(bundle[k]) = "panic"
            \/ ~Vrl!Ok(Len(bundle)) /\ bundle[k].kind = "bone" /\ bundle[k].name = "none"

VrlInv ==
    /\ PacketOK
    /\ bundle # None => BundleOK /\ MapOK /\ ContentOK /\ PanicOK
    /\ Vrl!DatagramReadsBack

CodecsInv == OscInv /\ TcpInv /\ VrlInv

-----------------------------------------------------------------------------
(* Sizes. *)

\* A bundle of messages of one size.
LEMMA UniformBytes ==
    ASSUME NEW S, NEW s \in Seq(S), NEW size \in Nat, \A m \in S : m.bytes = size, NEW fixed \in Nat
    PROVE  Vrl!BundleBytes(s, fixed) = fixed + (size + 4) * Len(s)
<1>1. PICK sum \in [0..Len(s) -> Nat] :
         /\ sum[0] = fixed
         /\ \A k \in 1..Len(s) : sum[k] = sum[k - 1] + 4 + s[k].bytes
         /\ Vrl!BundleBytes(s, fixed) = sum[Len(s)]
  <2>1. \A m \in S : m.bytes \in Nat
    OBVIOUS
  <2> QED BY ONLY <2>1, s \in Seq(S), fixed \in Nat, SumIs
<1>2. Len(s) \in Nat /\ \A k \in 1..Len(s) : s[k] \in S
  OBVIOUS
<1> DEFINE T == {k \in Nat : k <= Len(s) => sum[k] = fixed + (size + 4) * k}
<1>3. 0 \in T
  BY <1>1
<1>4. ASSUME NEW k \in Nat, k \in T PROVE k + 1 \in T
  <2> SUFFICES ASSUME k + 1 <= Len(s) PROVE sum[k + 1] = fixed + (size + 4) * (k + 1)
    OBVIOUS
  <2>1. k + 1 \in 1..Len(s) /\ (k + 1) - 1 = k /\ sum[k] = fixed + (size + 4) * k
    BY <1>2, <1>4
  <2>2. s[k + 1].bytes = size
    BY <1>2, <2>1
  <2>3. sum[k + 1] = (fixed + (size + 4) * k) + 4 + size
    BY <1>1, <2>1, <2>2
  <2>4. (fixed + (size + 4) * k) + 4 + size = fixed + (size + 4) * (k + 1)
    BY ONLY fixed \in Nat, size \in Nat, k \in Nat
  <2> QED BY <2>3, <2>4
<1>5. Nat \subseteq T
  <2> HIDE DEF T
  <2> QED BY <1>3, <1>4, SetInduction
<1>6. sum[Len(s)] = fixed + (size + 4) * Len(s)
  <2>1. Len(s) \in T
    BY ONLY <1>2, <1>5
  <2> QED BY ONLY <1>2, <2>1
<1> QED BY ONLY <1>1, <1>6

\* A tracker is one of nine bones, and none that is filtered.
NineBones ==
    {"Head", "Spine", "LeftFoot", "RightFoot", "LeftUpperLeg", "RightUpperLeg", "UpperChest",
     "LeftUpperArm", "RightUpperArm"}

LEMMA BoneNames ==
    /\ \A name \in DOMAIN Vrl!BoneOf : Vrl!BoneOf[name] \in NineBones
    /\ \A bone \in NineBones : bone \notin Vrl!FILTERED /\ bone # "none"
<1>1. \A name \in DOMAIN Vrl!BoneOf : Vrl!BoneOf[name] \in NineBones
  BY DEF Vrl!BoneOf, NineBones
<1>2. \A bone \in NineBones : bone \notin Vrl!FILTERED /\ bone # "none"
  BY DEF Vrl!FILTERED, NineBones
<1> QED BY <1>1, <1>2

\* VrlPacket counts with the operator of FiniteSets.
LEMMA SameCardinality ==
    ASSUME NEW S PROVE Vrl!Cardinality(S) = Cardinality(S)
BY Zenon DEF Vrl!Cardinality, Cardinality

Few(S, n) == IsFiniteSet(S) /\ Cardinality(S) \in Nat /\ Cardinality(S) <= n

LEMMA OneMore ==
    ASSUME NEW S, NEW x, NEW n \in Nat, NEW m \in Nat, Few(S, n), m = n + 1
    PROVE  Few(S \union {x}, m)
<1>1. IsFiniteSet(S) /\ Cardinality(S) \in Nat /\ Cardinality(S) <= n
  BY DEF Few
<1>2. /\ IsFiniteSet(S \union {x})
      /\ Cardinality(S \union {x}) \in {Cardinality(S), Cardinality(S) + 1}
  BY <1>1, FS_AddElement
<1> QED BY <1>1, <1>2 DEF Few

LEMMA AtMostNine ==
    ASSUME NEW S, S \subseteq NineBones
    PROVE  Few(S, 9)
<1>0. Few({}, 0)
  BY FS_EmptySet DEF Few
<1> DEFINE A == {} \union {"Head"}
           B == A \union {"Spine"}
           C == B \union {"LeftFoot"}
           D == C \union {"RightFoot"}
           E == D \union {"LeftUpperLeg"}
           F == E \union {"RightUpperLeg"}
           G == F \union {"UpperChest"}
           H == G \union {"LeftUpperArm"}
           I == H \union {"RightUpperArm"}
<1>1. Few(A, 1)
  <2>1. 0 \in Nat /\ 1 \in Nat /\ 1 = 0 + 1
    OBVIOUS
  <2> QED BY ONLY <1>0, <2>1, OneMore
<1>2. Few(B, 2)
  <2>1. 1 \in Nat /\ 2 \in Nat /\ 2 = 1 + 1
    OBVIOUS
  <2> HIDE DEF A
  <2> QED BY ONLY <1>1, <2>1, OneMore
<1>3. Few(C, 3)
  <2>1. 2 \in Nat /\ 3 \in Nat /\ 3 = 2 + 1
    OBVIOUS
  <2> HIDE DEF B
  <2> QED BY ONLY <1>2, <2>1, OneMore
<1>4. Few(D, 4)
  <2>1. 3 \in Nat /\ 4 \in Nat /\ 4 = 3 + 1
    OBVIOUS
  <2> HIDE DEF C
  <2> QED BY ONLY <1>3, <2>1, OneMore
<1>5. Few(E, 5)
  <2>1. 4 \in Nat /\ 5 \in Nat /\ 5 = 4 + 1
    OBVIOUS
  <2> HIDE DEF D
  <2> QED BY ONLY <1>4, <2>1, OneMore
<1>6. Few(F, 6)
  <2>1. 5 \in Nat /\ 6 \in Nat /\ 6 = 5 + 1
    OBVIOUS
  <2> HIDE DEF E
  <2> QED BY ONLY <1>5, <2>1, OneMore
<1>7. Few(G, 7)
  <2>1. 6 \in Nat /\ 7 \in Nat /\ 7 = 6 + 1
    OBVIOUS
  <2> HIDE DEF F
  <2> QED BY ONLY <1>6, <2>1, OneMore
<1>8. Few(H, 8)
  <2>1. 7 \in Nat /\ 8 \in Nat /\ 8 = 7 + 1
    OBVIOUS
  <2> HIDE DEF G
  <2> QED BY ONLY <1>7, <2>1, OneMore
<1>9. Few(I, 9)
  <2>1. 8 \in Nat /\ 9 \in Nat /\ 9 = 8 + 1
    OBVIOUS
  <2> HIDE DEF H
  <2> QED BY ONLY <1>8, <2>1, OneMore
<1>10. S \in SUBSET I
  BY DEF NineBones
<1> HIDE DEF I
<1>11. IsFiniteSet(I) /\ Cardinality(I) \in Nat /\ Cardinality(I) <= 9
  BY <1>9 DEF Few
<1>12. IsFiniteSet(S) /\ Cardinality(S) <= Cardinality(I)
  BY <1>10, <1>11, FS_Subset
<1>13. Cardinality(S) \in Nat
  BY <1>12, FS_CardinalityType
<1> QED BY <1>11, <1>12, <1>13 DEF Few

-----------------------------------------------------------------------------
(* The conversion. *)

LEMMA MessagesAre ==
    /\ \A m \in Vrl!Messages : m.bytes \in Nat /\ m.part \in Vrl!Parts \union {"none"}
    /\ \A m \in Vrl!Messages : Vrl!Reading(m) = "ok" =>
          m.name \in DOMAIN Vrl!BoneOf /\ m.part \in {"position", "rotation"}
<1>1. \A m \in Vrl!Messages :
        m.bytes \in Nat /\ m.part \in Vrl!Parts \union {"none"}
          /\ (m.kind = "tracker" => m.part \in Vrl!Parts)
  <2> SUFFICES ASSUME NEW m \in Vrl!Messages
               PROVE  /\ m.bytes \in Nat /\ m.part \in Vrl!Parts \union {"none"}
                      /\ m.kind = "tracker" => m.part \in Vrl!Parts
    OBVIOUS
  <2>1. CASE \E name \in Trackers, part \in Vrl!Parts, v \in Values, n \in Sizes :
                m = Vrl!Msg("tracker", name, part, v, n)
    <3>1. PICK name \in Trackers, part \in Vrl!Parts, v \in Values, n \in Sizes :
             m = Vrl!Msg("tracker", name, part, v, n)
      BY <2>1
    <3>2. m.part = part /\ m.bytes = n
      BY <3>1 DEF Vrl!Msg
    <3>3. Sizes \subseteq Nat
      BY SizeAssumption
    <3> QED BY <3>2, <3>3
  <2>2. CASE \E kind \in {"bone", "other"}, name \in Bones \union {"none"}, n \in Sizes :
                m = Vrl!Msg(kind, name, "none", 0, n)
    <3>1. PICK kind \in {"bone", "other"}, name \in Bones \union {"none"}, n \in Sizes :
             m = Vrl!Msg(kind, name, "none", 0, n)
      BY <2>2
    <3>2. m.kind = kind /\ m.part = "none" /\ m.bytes = n
      BY <3>1 DEF Vrl!Msg
    <3>3. Sizes \subseteq Nat
      BY SizeAssumption
    <3> QED BY <3>2, <3>3
  <2>3. CASE m \in {Vrl!Msg("tracker", name, part, v, n) :
                name \in Trackers, part \in Vrl!Parts, v \in Values, n \in Sizes}
    BY <2>1, <2>3
  <2>4. CASE m \in {Vrl!Msg("bone", name, "none", 0, n) : name \in Bones \union {"none"}, n \in Sizes}
    BY <2>2, <2>4
  <2>5. CASE m \in {Vrl!Msg("other", "none", "none", 0, n) : n \in Sizes}
    BY <2>2, <2>5
  <2> QED BY <2>3, <2>4, <2>5 DEF Vrl!Messages
<1> QED BY <1>1 DEF Vrl!Reading, Vrl!Parts

LEMMA NobodySays ==
    ASSUME NEW n \in Nat, NEW bone, NEW part,
           bone \notin {Vrl!BoneOf[bundle[k].name] : k \in 1..n}
    PROVE  SaidLast(n, bone, part, 0)
BY DEF SaidLast, Says

LEMMA SaysNow ==
    ASSUME NEW n \in Nat, NEW bone, NEW part, Says(n + 1, bone, part)
    PROVE  SaidLast(n + 1, bone, part, bundle[n + 1].value)
<1>1. n + 1 \in 1..(n + 1) /\ \A j \in 1..(n + 1) : j <= n + 1
  OBVIOUS
<1> QED BY <1>1 DEF SaidLast, Says

LEMMA SaysElse ==
    ASSUME NEW n \in Nat, NEW bone, NEW part, NEW value, ~Says(n + 1, bone, part),
           SaidLast(n, bone, part, value)
    PROVE  SaidLast(n + 1, bone, part, value)
<1>1. \A j \in 1..(n + 1) : Says(j, bone, part) => j \in 1..n
  OBVIOUS
<1>2. CASE value = 0 /\ \A k \in 1..n : ~Says(k, bone, part)
  BY <1>1, <1>2 DEF SaidLast
<1>3. CASE \E k \in 1..n :
              /\ Says(k, bone, part) /\ bundle[k].value = value
              /\ \A j \in 1..n : Says(j, bone, part) => j <= k
  <2>1. PICK k \in 1..n : /\ Says(k, bone, part) /\ bundle[k].value = value
                          /\ \A j \in 1..n : Says(j, bone, part) => j <= k
    BY <1>3
  <2>2. k \in 1..(n + 1) /\ \A j \in 1..(n + 1) : Says(j, bone, part) => j <= k
    BY <1>1, <2>1
  <2> QED BY <2>1, <2>2 DEF SaidLast
<1> QED BY <1>2, <1>3 DEF SaidLast

\* What is said last is what LastOf chooses.
LEMMA LastIs ==
    ASSUME bundle \in Seq(Vrl!Messages), NEW bone, NEW part, NEW value,
           SaidLast(Len(bundle), bone, part, value)
    PROVE  Vrl!LastOf(bone, part) = value
<1> DEFINE of == {k \in DOMAIN bundle :
                    Vrl!BoneOf[bundle[k].name] = bone /\ bundle[k].part = part}
           last == CHOOSE k \in of : \A j \in of : j <= k
<1>1. DOMAIN bundle = 1..Len(bundle) /\ Len(bundle) \in Nat
  OBVIOUS
<1>2. \A k : k \in of <=> k \in 1..Len(bundle) /\ Says(k, bone, part)
  BY <1>1 DEF Says
<1>3. Vrl!LastOf(bone, part) = IF of = {} THEN 0 ELSE bundle[last].value
  BY DEF Vrl!LastOf
<1> HIDE DEF of
<1>4. CASE of = {}
  BY <1>2, <1>3, <1>4 DEF SaidLast
<1>5. CASE of # {}
  <2>1. PICK k \in 1..Len(bundle) :
          /\ Says(k, bone, part) /\ bundle[k].value = value
          /\ \A j \in 1..Len(bundle) : Says(j, bone, part) => j <= k
    BY <1>2, <1>5 DEF SaidLast
  <2>2. k \in of /\ \A j \in of : j <= k
    BY <1>2, <2>1
  <2>3. last \in of /\ \A j \in of : j <= last
    BY <2>2
  <2> HIDE DEF last
  <2>4. last = k
    <3>1. last <= k /\ k <= last /\ last \in Nat /\ k \in Nat
      BY <1>2, <2>2, <2>3
    <3> QED BY <3>1
  <2> QED BY <1>3, <1>5, <2>1, <2>4
<1> QED BY <1>4, <1>5

\* One more message is read.
LEMMA EntryFor ==
    ASSUME NEW bone, bone \in DOMAIN hm => hm[bone] = [position |-> hm[bone].position,
                                                       rotation |-> hm[bone].rotation]
    PROVE  /\ Vrl!Entry(bone) = [position |-> Vrl!Entry(bone).position,
                                 rotation |-> Vrl!Entry(bone).rotation]
           /\ bone \in DOMAIN hm => Vrl!Entry(bone) = hm[bone]
           /\ bone \notin DOMAIN hm =>
                 Vrl!Entry(bone).position = 0 /\ Vrl!Entry(bone).rotation = 0
BY DEF Vrl!Entry, Vrl!Default

LEMMA NextMap ==
    ASSUME BundleOK, MapOK, Vrl!ConvertNext
    PROVE  BundleOK' /\ MapOK'
<1> DEFINE m == bundle[at]
           bone == Vrl!BoneOf[m.name]
           n == at - 1
<1>1. /\ bundle \in Seq(Vrl!Messages) /\ at \in 1..Len(bundle) /\ at \in Nat /\ n \in Nat
      /\ n + 1 = at /\ at' = at + 1 /\ at' - 1 = n + 1 /\ Len(bundle) \in Nat
      /\ bundle' = bundle /\ audio' = audio /\ Vrl!Reading(m) = "ok" /\ hm' = Vrl!Updated(m)
  BY DEF BundleOK, Vrl!ConvertNext
<1>2. m \in Vrl!Messages /\ m.name \in DOMAIN Vrl!BoneOf /\ m.part \in {"position", "rotation"}
  <2>1. m \in Vrl!Messages
    BY <1>1
  <2> HIDE DEF m
  <2> QED BY <1>1, <2>1, MessagesAre
<1>3. BundleOK'
  <2>1. \A k \in 1..at : k \in 1..n \/ k = at
    BY <1>1
  <2>2. \A k \in 1..n : Vrl!Reading(bundle[k]) = "ok"
    BY <1>1 DEF BundleOK, Vrl!Ok
  <2>3. \A k \in 1..at : Vrl!Reading(bundle[k]) = "ok"
    BY <1>1, <2>1, <2>2
  <2>4. at' \in 1..(Len(bundle) + 1) /\ at' - 1 = at
    BY <1>1
  <2> QED BY <1>1, <2>3, <2>4 DEF BundleOK, Vrl!Ok
<1> DEFINE new == [Vrl!Entry(bone) EXCEPT ![m.part] = m.value]
<1>4. /\ DOMAIN hm' = DOMAIN hm \union {bone}
      /\ hm'[bone] = new
      /\ \A b \in DOMAIN hm : b # bone => hm'[b] = hm[b]
  <2>1. hm' = [b \in DOMAIN hm \union {bone} |->
                 IF b = bone THEN [Vrl!Entry(b) EXCEPT ![m.part] = m.value] ELSE hm[b]]
    BY <1>1 DEF Vrl!Updated
  <2> HIDE DEF bone, m
  <2> QED BY <2>1
<1>5. DOMAIN hm' = {Vrl!BoneOf[bundle[k].name] : k \in 1..(n + 1)}
  <2>1. DOMAIN hm = {Vrl!BoneOf[bundle[k].name] : k \in 1..n}
    BY DEF MapOK
  <2>2. \A k : k \in 1..(n + 1) <=> k \in 1..n \/ k = n + 1
    BY <1>1
  <2>3. bone = Vrl!BoneOf[bundle[n + 1].name]
    BY <1>1
  <2> HIDE DEF bone, n
  <2> QED BY <1>4, <2>1, <2>2, <2>3
<1>6. \A b : \A part : Says(n + 1, b, part) <=> b = bone /\ part = m.part
  BY <1>1 DEF Says
<1>7. \A b \in DOMAIN hm :
        /\ hm[b] = [position |-> hm[b].position, rotation |-> hm[b].rotation]
        /\ SaidLast(n, b, "position", hm[b].position) /\ SaidLast(n, b, "rotation", hm[b].rotation)
  BY DEF MapOK
<1>8. /\ Vrl!Entry(bone) = [position |-> Vrl!Entry(bone).position,
                            rotation |-> Vrl!Entry(bone).rotation]
      /\ SaidLast(n, bone, "position", Vrl!Entry(bone).position)
      /\ SaidLast(n, bone, "rotation", Vrl!Entry(bone).rotation)
  <2> HIDE DEF bone, n
  <2>1. CASE bone \in DOMAIN hm
    BY <1>7, <2>1, EntryFor
  <2>2. CASE bone \notin DOMAIN hm
    <3>1. bone \notin {Vrl!BoneOf[bundle[k].name] : k \in 1..n}
      BY <2>2 DEF MapOK, n
    <3>2. SaidLast(n, bone, "position", 0) /\ SaidLast(n, bone, "rotation", 0)
      BY ONLY <1>1, <3>1, NobodySays
    <3> QED BY <2>2, <3>2, EntryFor
  <2> QED BY <2>1, <2>2
<1>9. /\ new = [position |-> new.position, rotation |-> new.rotation]
      /\ \A part \in {"position", "rotation"} :
            new[part] = IF part = m.part THEN m.value ELSE Vrl!Entry(bone)[part]
  <2> DEFINE e == Vrl!Entry(bone)
  <2>1. e = [position |-> e.position, rotation |-> e.rotation]
    BY <1>8
  <2> HIDE DEF e, m
  <2> QED BY <1>2, <2>1 DEF e
<1> HIDE DEF new
<1>10. SaidLast(n + 1, bone, "position", new.position)
       /\ SaidLast(n + 1, bone, "rotation", new.rotation)
  <2>1. m.value = bundle[n + 1].value /\ n \in Nat
    BY <1>1
  <2> HIDE DEF bone, n, m
  <2>2. ASSUME NEW part \in {"position", "rotation"} PROVE SaidLast(n + 1, bone, part, new[part])
    <3>1. CASE part = m.part
      BY <1>6, <1>9, <2>1, <3>1, SaysNow
    <3>2. CASE part # m.part
      <4>1. SaidLast(n, bone, part, new[part])
        BY <1>8, <1>9, <3>2
      <4>2. ~Says(n + 1, bone, part)
        BY <1>6, <3>2
      <4> QED BY ONLY <2>1, <4>1, <4>2, SaysElse
    <3> QED BY <3>1, <3>2
  <2> QED BY <2>2
<1>11. \A b \in DOMAIN hm' :
         /\ hm'[b] = [position |-> hm'[b].position, rotation |-> hm'[b].rotation]
         /\ SaidLast(n + 1, b, "position", hm'[b].position)
         /\ SaidLast(n + 1, b, "rotation", hm'[b].rotation)
  <2> SUFFICES ASSUME NEW b \in DOMAIN hm'
               PROVE  /\ hm'[b] = [position |-> hm'[b].position, rotation |-> hm'[b].rotation]
                      /\ SaidLast(n + 1, b, "position", hm'[b].position)
                      /\ SaidLast(n + 1, b, "rotation", hm'[b].rotation)
    OBVIOUS
  <2> HIDE DEF bone, n, m
  <2>1. CASE b = bone
    BY <1>4, <1>9, <1>10, <2>1
  <2>2. CASE b # bone
    <3>1. b \in DOMAIN hm /\ hm'[b] = hm[b]
      BY <1>4, <2>2
    <3>2. ~Says(n + 1, b, "position") /\ ~Says(n + 1, b, "rotation")
      BY <1>6, <2>2
    <3>3. SaidLast(n + 1, b, "position", hm[b].position)
      BY <1>1, <1>7, <3>1, <3>2, SaysElse
    <3>4. SaidLast(n + 1, b, "rotation", hm[b].rotation)
      BY <1>1, <1>7, <3>1, <3>2, SaysElse
    <3> QED BY <1>7, <3>1, <3>3, <3>4
  <2> QED BY <2>1, <2>2
<1>12. MapOK'
  <2> HIDE DEF n
  <2>1. bundle' = bundle /\ at' - 1 = n + 1
    BY <1>1
  <2> QED BY SMTT(20), <1>5, <1>11, <2>1 DEF MapOK, SaidLast, Says
<1> QED BY <1>3, <1>12

\* Nothing but the conversion changes the map and the place it has come to.
LEMMA MapStays ==
    ASSUME BundleOK, MapOK, bundle' = bundle, audio' = audio, at' = at, hm' = hm
    PROVE  BundleOK' /\ MapOK'
<1>1. BundleOK'
  BY DEF BundleOK, Vrl!Ok
<1>2. \A n, bone, part, value : SaidLast(n, bone, part, value)' = SaidLast(n, bone, part, value)
  BY DEF SaidLast, Says
<1>3. MapOK'
  BY <1>2 DEF MapOK
<1> QED BY <1>1, <1>3

LEMMA BonesKnown ==
    ASSUME BundleOK, MapOK
    PROVE  DOMAIN hm \subseteq NineBones
<1>1. ASSUME NEW k \in 1..(at - 1)
      PROVE  Vrl!BoneOf[bundle[k].name] \in NineBones
  <2>1. bundle[k] \in Vrl!Messages
    BY DEF BundleOK
  <2>2. Vrl!Reading(bundle[k]) = "ok"
    BY DEF BundleOK, Vrl!Ok
  <2>3. bundle[k].name \in DOMAIN Vrl!BoneOf
    BY <2>1, <2>2, MessagesAre
  <2> QED BY <2>3, BoneNames
<1> QED BY <1>1 DEF MapOK

\* The messages the conversion makes are not the ones that are filtered.
LEMMA ConvertedKept ==
    ASSUME NEW bone \in NineBones
    PROVE  /\ Vrl!Kept(Vrl!Converted(bone)) /\ Vrl!Converted(bone).name # "none"
           /\ Vrl!Converted(bone).bytes = 76
<1>1. Vrl!Converted(bone).name = bone /\ Vrl!Converted(bone).bytes = 76
  BY DEF Vrl!Converted, Vrl!Msg
<1>2. bone \notin Vrl!FILTERED /\ bone # "none"
  BY BoneNames
<1> QED BY <1>1, <1>2 DEF Vrl!Kept

LEMMA AllOk ==
    ASSUME BundleOK
    PROVE  /\ at > Len(bundle) => Vrl!Ok(Len(bundle))
           /\ at <= Len(bundle) /\ Vrl!Reading(bundle[at]) = "error" => ~Vrl!Ok(Len(bundle))
<1>1. at \in 1..(Len(bundle) + 1) /\ Len(bundle) \in Nat /\ Vrl!Ok(at - 1)
  BY DEF BundleOK
<1>2. ASSUME at > Len(bundle) PROVE Vrl!Ok(Len(bundle))
  <2>1. at - 1 = Len(bundle)
    BY <1>1, <1>2
  <2> QED BY <1>1, <2>1
<1>3. ASSUME at <= Len(bundle), Vrl!Reading(bundle[at]) = "error" PROVE ~Vrl!Ok(Len(bundle))
  <2>1. at \in 1..Len(bundle)
    BY <1>1, <1>3
  <2> QED BY <1>3, <2>1 DEF Vrl!Ok
<1> QED BY <1>2, <1>3

LEMMA ConvertedBytes ==
    ASSUME NEW S, NEW s \in Seq(S), \A m \in S : m.bytes = 76
    PROVE  Vrl!BundleBytes(s, 16) = 16 + 80 * Len(s)
<1>1. PICK size \in Nat : size = 76
  OBVIOUS
<1>2. PICK fixed \in Nat : fixed = 16
  OBVIOUS
<1>3. \A m \in S : m.bytes = size
  BY <1>1
<1>4. Vrl!BundleBytes(s, fixed) = fixed + (size + 4) * Len(s)
  BY ONLY s \in Seq(S), size \in Nat, fixed \in Nat, <1>3, UniformBytes
<1> QED BY <1>1, <1>2, <1>4

\* What is sent is not longer than what came in but for the bundle around it.
LEMMA OscFits ==
    ASSUME bundle # None => BundleOK /\ MapOK /\ ContentOK, stage = "frame"
    PROVE  Vrl!OscBytes \in Nat /\ Vrl!OscBytes <= Vrl!BufSize + 20
<1>1. CASE bundle = None
  BY <1>1 DEF Vrl!OscBytes, Vrl!BufSize
<1>2. CASE bundle # None /\ at > Len(bundle)
  <2>1. OnePerBone /\ BundleOK /\ MapOK
    BY <1>2 DEF ContentOK
  <2> DEFINE all == {Vrl!Converted(b) : b \in DOMAIN hm}
             n == Len(content)
  <2>2. content \in Seq(all) /\ \A m \in all : m.bytes = 76
    BY <2>1, BonesKnown, ConvertedKept DEF OnePerBone
  <2>3. n \in Nat /\ n <= 9
    BY <2>1, BonesKnown, AtMostNine DEF OnePerBone, Few
  <2>4. Vrl!BundleBytes(content, 16) = 16 + 80 * n
    <3> HIDE DEF all
    <3> QED BY ONLY <2>2, ConvertedBytes
  <2> HIDE DEF n
  <2>5. Vrl!OscBytes = 16 + 80 * n
    BY <1>2, <2>4 DEF Vrl!OscBytes
  <2> QED BY ONLY <2>3, <2>5 DEF Vrl!BufSize
<1>3. CASE bundle # None /\ ~(at > Len(bundle))
  <2>1. BundleOK /\ content = Vrl!Rest(bundle)
    BY <1>3 DEF ContentOK
  <2>2. /\ Vrl!BundleBytes(Vrl!Rest(bundle), 36) \in Nat
        /\ Vrl!BundleBytes(Vrl!Rest(bundle), 36) + 16 <= Vrl!BundleBytes(bundle, 16) + 36
        /\ Vrl!BundleBytes(bundle, 16) \in Nat
    <3>1. bundle \in Seq(Vrl!Messages) /\ \A m \in Vrl!Messages : m.bytes \in Nat
      BY <2>1, MessagesAre DEF BundleOK
    <3> DEFINE low == 16
               high == 36
    <3>2. low \in Nat /\ high \in Nat
      OBVIOUS
    <3> HIDE DEF low, high
    <3>3. \E sum \in [0..Len(bundle) -> Nat] :
             /\ sum[0] = low
             /\ \A k \in 1..Len(bundle) : sum[k] = sum[k - 1] + 4 + bundle[k].bytes
             /\ Vrl!BundleBytes(bundle, low) = sum[Len(bundle)]
      BY ONLY <3>1, <3>2, SumIs
    <3>4. Len(bundle) \in 0..Len(bundle)
      BY <3>1
    <3>5. Vrl!BundleBytes(bundle, low) \in Nat
      BY ONLY <3>3, <3>4
    <3>6. /\ Vrl!BundleBytes(Vrl!Rest(bundle), high) \in Nat
          /\ Vrl!BundleBytes(Vrl!Rest(bundle), high) + low
               <= Vrl!BundleBytes(bundle, low) + high
      BY ONLY <3>1, <3>2, RestIsSmaller
    <3> QED BY <3>5, <3>6 DEF low, high
  <2>3. Vrl!BundleBytes(bundle, 16) <= Vrl!BufSize
    BY <2>1 DEF BundleOK
  <2>4. Vrl!OscBytes = Vrl!BundleBytes(Vrl!Rest(bundle), 36)
    BY <1>3, <2>1 DEF Vrl!OscBytes
  <2> QED BY ONLY <2>2, <2>3, <2>4 DEF Vrl!BufSize
<1> QED BY <1>1, <1>2, <1>3

LEMMA AudioFits ==
    ASSUME audio = None \/ audio \in [payload : Payloads, extension : Vrl!Extensions]
    PROVE  Vrl!AudioBytes \in Nat /\ Vrl!AudioBytes <= Vrl!BufSize
<1>1. CASE audio = None
  BY <1>1 DEF Vrl!AudioBytes, Vrl!BufSize
<1>2. CASE audio \in [payload : Payloads, extension : Vrl!Extensions]
  <2>1. audio # None
    BY <1>2, NoneAssumption
  <2>2. Vrl!AudioBytes \in Payloads
    BY <1>2, <2>1 DEF Vrl!AudioBytes
  <2>3. Vrl!AudioBytes \in 0..(Vrl!BufSize - 12)
    BY <2>2, SizeAssumption
  <2> QED BY <2>3 DEF Vrl!BufSize
<1> QED BY <1>1, <1>2

LEMMA U16Is ==
    ASSUME NEW n \in Nat, n < Vrl!Bits16
    PROVE  Vrl!U16(n) = n
BY DEF Vrl!U16, Vrl!Bits16

\* Motion capture always goes out.
LEMMA FrameFits ==
    ASSUME bundle # None, BundleOK, MapOK, ContentOK, Vrl!Frame
    PROVE  stage' = "sent"
<1>1. stage = "frame" /\ audio = None
  BY DEF BundleOK, Vrl!Frame
<1> QED BY <1>1 DEF Vrl!Frame

LEMMA NextContent ==
    ASSUME BundleOK, MapOK, ContentOK, PanicOK, stage # "panicked",
           bundle # None, Vrl!Next
    PROVE  BundleOK' /\ MapOK' /\ ContentOK' /\ PanicOK'
<1>0. /\ bundle \in Seq(Vrl!Messages) /\ Len(bundle) \in Nat /\ at \in 1..(Len(bundle) + 1)
      /\ DOMAIN bundle = 1..Len(bundle)
  BY DEF BundleOK
<1>1. CASE Vrl!ConvertNext
  <2>1. BundleOK' /\ MapOK'
    BY <1>1, NextMap
  <2>2. stage' = "convert"
    BY <1>1 DEF Vrl!ConvertNext
  <2> QED BY <2>1, <2>2 DEF ContentOK, PanicOK
<1>2. CASE Vrl!ConvertPanics
  <2>1. /\ bundle' = bundle /\ audio' = audio /\ at' = at /\ hm' = hm /\ stage' = "panicked"
        /\ at \in DOMAIN bundle /\ Vrl!Reading(bundle[at]) = "panic"
    BY <1>0, <1>2 DEF Vrl!ConvertPanics
  <2>2. BundleOK' /\ MapOK'
    BY <2>1, MapStays
  <2>3. Vrl!Ok(at - 1)
    BY DEF BundleOK
  <2>4. PanicOK'
    BY <2>1, <2>3 DEF PanicOK, Vrl!Ok
  <2>5. ContentOK'
    BY <2>1 DEF ContentOK
  <2> QED BY <2>2, <2>4, <2>5
<1>3. CASE Vrl!ConvertFails
  <2>1. /\ bundle' = bundle /\ audio' = audio /\ at' = at /\ hm' = hm /\ stage' = "filter"
        /\ at <= Len(bundle) /\ Vrl!Reading(bundle[at]) = "error" /\ content' = bundle
    BY <1>0, <1>3 DEF Vrl!ConvertFails, Vrl!GivesUp
  <2>2. BundleOK' /\ MapOK'
    BY <2>1, MapStays
  <2>3. ~(at > Len(bundle))
    BY <1>0, <2>1
  <2>4. ContentOK' /\ PanicOK'
    BY <2>1, <2>3 DEF ContentOK, PanicOK
  <2> QED BY <2>2, <2>4
<1>4. CASE Vrl!ConvertEnds
  <2>1. /\ bundle' = bundle /\ audio' = audio /\ at' = at /\ hm' = hm /\ stage' = "filter"
        /\ at > Len(bundle)
    BY <1>4 DEF Vrl!ConvertEnds
  <2>2. BundleOK' /\ MapOK'
    BY <2>1, MapStays
  <2>3. PICK order \in [1..Cardinality(DOMAIN hm) -> DOMAIN hm] :
          /\ {order[k] : k \in DOMAIN order} = DOMAIN hm
          /\ content' = [k \in DOMAIN order |-> Vrl!Converted(order[k])]
    BY <1>4, SameCardinality DEF Vrl!ConvertEnds
  <2>4. Cardinality(DOMAIN hm) \in Nat
    BY BonesKnown, AtMostNine DEF Few
  <2> DEFINE n == Cardinality(DOMAIN hm)
             D == DOMAIN hm
             all == {Vrl!Converted(b) : b \in D}
  <2>5. /\ content' \in Seq(all) /\ Len(content') = n /\ DOMAIN content' = 1..n
        /\ \A k \in 1..n : content'[k] = Vrl!Converted(order[k])
    <3> HIDE DEF n, D
    <3>1. n \in Nat /\ order \in [1..n -> D]
          /\ content' = [k \in 1..n |-> Vrl!Converted(order[k])]
      BY <2>3, <2>4 DEF n, D
    <3>2. content' \in [1..n -> all]
      BY <3>1
    <3> QED BY <3>1, <3>2
  <2>6. {content'[k] : k \in DOMAIN content'} = all
    <3> HIDE DEF n
    <3>1. {order[k] : k \in 1..n} = D /\ order \in [1..n -> D]
      BY <2>3 DEF n
    <3>2. ASSUME NEW b \in D PROVE \E k \in DOMAIN content' : content'[k] = Vrl!Converted(b)
      <4>1. PICK k \in 1..n : order[k] = b
        BY <3>1
      <4> HIDE DEF D
      <4> QED BY <2>5, <4>1
    <3>3. ASSUME NEW k \in DOMAIN content' PROVE content'[k] \in all
      <4>1. order[k] \in D /\ content'[k] = Vrl!Converted(order[k])
        BY <2>5, <3>1
      <4> HIDE DEF D
      <4> QED BY <4>1
    <3> HIDE DEF D
    <3> QED BY <3>2, <3>3
  <2>7. \A b : Vrl!Converted(b)' = Vrl!Converted(b)
    BY <2>1 DEF Vrl!Converted, Vrl!Entry
  <2>8. OnePerBone'
    <3>1. all = {Vrl!Converted(b)' : b \in DOMAIN hm'}
      BY <2>1, <2>7
    <3> HIDE DEF all
    <3> QED BY <2>1, <2>5, <2>6, <3>1 DEF OnePerBone
  <2>9. ContentOK' /\ PanicOK'
    BY <2>1, <2>8 DEF ContentOK, PanicOK
  <2> QED BY <2>2, <2>9
<1>5. CASE Vrl!Filter
  <2>1. /\ bundle' = bundle /\ audio' = audio /\ at' = at /\ hm' = hm /\ stage = "filter"
    BY <1>5 DEF Vrl!Filter
  <2>2. BundleOK' /\ MapOK'
    BY <2>1, MapStays
  <2>3. CASE at > Len(bundle)
    <3>1. OnePerBone
      BY <2>1, <2>3 DEF ContentOK
    <3> DEFINE all == {Vrl!Converted(b) : b \in DOMAIN hm}
    <3>2. \A m \in all : Vrl!Kept(m) /\ m.name # "none"
      BY BonesKnown, ConvertedKept
    <3>3. content \in Seq(all)
      BY <3>1 DEF OnePerBone
    <3>4. \A k \in DOMAIN content : Vrl!Kept(content[k]) /\ content[k].name # "none"
      <4> HIDE DEF all
      <4> QED BY <3>2, <3>3
    <3>5. Vrl!Rest(content) = content
      <4> HIDE DEF all
      <4> QED BY <3>3, <3>4, RestKeepsAll
    <3>6. stage' = "frame" /\ content' = content
      BY <1>5, <3>4, <3>5 DEF Vrl!Filter
    <3>7. OnePerBone'
      <4>1. \A b : Vrl!Converted(b)' = Vrl!Converted(b)
        BY <2>1 DEF Vrl!Converted, Vrl!Entry
      <4> QED BY <2>1, <3>1, <3>6, <4>1 DEF OnePerBone
    <3> QED BY <2>1, <2>2, <2>3, <3>6, <3>7 DEF ContentOK, PanicOK
  <2>4. CASE ~(at > Len(bundle))
    <3>1. Vrl!Reading(bundle[at]) = "error" /\ content = bundle /\ at <= Len(bundle)
      BY <1>0, <2>1, <2>4 DEF ContentOK
    <3>2. CASE \E k \in DOMAIN content : content[k].kind = "bone" /\ content[k].name = "none"
      <4>1. stage' = "panicked"
        BY <1>5, <3>2 DEF Vrl!Filter
      <4>2. ~Vrl!Ok(Len(bundle))
        BY <3>1, AllOk
      <4>3. PanicOK'
        BY <2>1, <3>1, <3>2, <4>2 DEF PanicOK, Vrl!Ok
      <4> QED BY <2>2, <4>1, <4>3 DEF ContentOK
    <3>3. CASE ~\E k \in DOMAIN content : content[k].kind = "bone" /\ content[k].name = "none"
      <4>1. stage' = "frame" /\ content' = Vrl!Rest(content)
        BY <1>5, <3>3 DEF Vrl!Filter
      <4> QED BY <2>1, <2>2, <2>4, <3>1, <4>1 DEF ContentOK, PanicOK
    <3> QED BY <3>2, <3>3
  <2> QED BY <2>3, <2>4
<1>6. CASE Vrl!Frame
  <2>1. /\ bundle' = bundle /\ audio' = audio /\ at' = at /\ hm' = hm /\ content' = content
        /\ stage = "frame"
    BY <1>6 DEF Vrl!Frame
  <2>2. BundleOK' /\ MapOK'
    BY <2>1, MapStays
  <2>3. stage' = "sent"
    BY <1>6, FrameFits
  <2>4. \A b : Vrl!Converted(b)' = Vrl!Converted(b)
    BY <2>1 DEF Vrl!Converted, Vrl!Entry
  <2>5. OnePerBone => OnePerBone'
    BY <2>1, <2>4 DEF OnePerBone
  <2>6. ContentOK'
    BY <2>1, <2>3, <2>5 DEF ContentOK
  <2>7. PanicOK'
    BY <2>3 DEF PanicOK
  <2> QED BY <2>2, <2>6, <2>7
<1> QED BY <1>1, <1>2, <1>3, <1>4, <1>5, <1>6 DEF Vrl!Next

-----------------------------------------------------------------------------
(* The layout. *)

LEMMA FrameReadsBack ==
    ASSUME VrlInv, Vrl!Frame
    PROVE  Vrl!DatagramReadsBack'
<1>1. /\ stage = "frame" /\ user \in Users /\ user' = user /\ bundle' = bundle /\ audio' = audio
      /\ audio = None \/ audio \in [payload : Payloads, extension : Vrl!Extensions]
  BY DEF VrlInv, PacketOK, BundleOK, Vrl!Frame
<1>2. Vrl!OscBytes \in Nat /\ Vrl!OscBytes <= Vrl!BufSize + 20
  BY <1>1, OscFits DEF VrlInv
<1>3. Vrl!AudioBytes \in Nat /\ Vrl!AudioBytes <= Vrl!BufSize
  BY <1>1, AudioFits
<1> DEFINE o == Vrl!OscBytes
           a == Vrl!AudioBytes
<1>4. user \in 0..(Vrl!Bits16 - 1)
  BY <1>1, SizeAssumption
<1>5. /\ o < Vrl!Bits16 /\ a < Vrl!Bits16 /\ user \in Nat /\ user < Vrl!Bits16
      /\ Vrl!Size = Vrl!HeaderBytes + o + a
  <2> HIDE DEF o, a
  <2>1. o \in Nat /\ a \in Nat /\ o <= Vrl!BufSize + 20 /\ a <= Vrl!BufSize
    BY <1>2, <1>3 DEF o, a
  <2>2. Vrl!Size = Vrl!HeaderBytes + o + a
    <3>1. Vrl!Size = a + o + Vrl!HeaderBytes
      BY DEF Vrl!Size, o, a
    <3> QED BY ONLY <2>1, <3>1 DEF Vrl!HeaderBytes
  <2>3. o < Vrl!Bits16 /\ a < Vrl!Bits16
    BY ONLY <2>1 DEF Vrl!BufSize, Vrl!Bits16
  <2>4. user \in Nat /\ user < Vrl!Bits16
    <3>1. Vrl!Bits16 \in Nat
      BY DEF Vrl!Bits16
    <3> QED BY ONLY <1>4, <3>1
  <2> QED BY <2>2, <2>3, <2>4
<1>6. Vrl!U16(o) = o /\ Vrl!U16(a) = a /\ Vrl!U16(user) = user
  <2> HIDE DEF o, a
  <2>1. o \in Nat /\ a \in Nat
    BY <1>2, <1>3 DEF o, a
  <2> QED BY <1>5, <2>1, U16Is
<1>7. CASE stage' = "panicked"
  <2>1. audio # None /\ audio.extension = "empty"
    BY <1>7 DEF Vrl!Frame
  <2> QED BY <1>1, <1>7, <2>1 DEF Vrl!DatagramReadsBack
<1>8. CASE stage' # "panicked"
  <2>1. /\ stage' = "sent"
        /\ datagram' = [header |-> Vrl!Header(Vrl!Position),
                        body |-> <<[part |-> "osc", bytes |-> o], [part |-> "audio", bytes |-> a]>>]
    BY <1>8 DEF Vrl!Frame
  <2> DEFINE h == Vrl!Header(Vrl!Position)
  <2>2. h.size = Vrl!HeaderBytes + o + a /\ h.osc = o /\ h.audio = a /\ h.user = user
    BY <1>5, <1>6 DEF Vrl!Header
  <2> HIDE DEF h, o, a
  <2>3. /\ datagram'.header = h /\ datagram'.body[1].bytes = o /\ datagram'.body[2].bytes = a
    BY <2>1 DEF h, o, a
  <2> QED BY <1>1, <2>1, <2>2, <2>3 DEF Vrl!DatagramReadsBack
<1> QED BY <1>7, <1>8

LEMMA VrlStays ==
    ASSUME VrlInv, vrl' = vrl
    PROVE  VrlInv'
<1>1. /\ bundle' = bundle /\ audio' = audio /\ user' = user /\ at' = at /\ hm' = hm
      /\ stage' = stage /\ content' = content /\ datagram' = datagram
  BY DEF vrl
<1>2. PacketOK'
  BY <1>1 DEF VrlInv, PacketOK
<1>3. Vrl!DatagramReadsBack'
  BY <1>1 DEF VrlInv, Vrl!DatagramReadsBack
<1>4. ASSUME bundle # None PROVE BundleOK' /\ MapOK' /\ ContentOK' /\ PanicOK'
  <2>1. BundleOK /\ MapOK /\ ContentOK /\ PanicOK
    BY <1>4 DEF VrlInv
  <2>2. BundleOK' /\ MapOK'
    BY <1>1, <2>1, MapStays
  <2>3. \A b : Vrl!Converted(b)' = Vrl!Converted(b)
    BY <1>1 DEF Vrl!Converted, Vrl!Entry
  <2>4. OnePerBone => OnePerBone'
    BY <1>1, <2>3 DEF OnePerBone
  <2>5. ContentOK'
    BY <1>1, <2>1, <2>4 DEF ContentOK
  <2>6. PanicOK'
    BY <1>1, <2>1 DEF PanicOK, Vrl!Ok
  <2> QED BY <2>2, <2>5, <2>6
<1> QED BY <1>1, <1>2, <1>3, <1>4 DEF VrlInv

LEMMA VrlNext ==
    ASSUME VrlInv, Vrl!Next
    PROVE  VrlInv'
<1>1. bundle' = bundle /\ user' = user /\ audio' = audio
  BY DEF Vrl!Next, Vrl!ConvertNext, Vrl!ConvertPanics, Vrl!ConvertFails, Vrl!ConvertEnds,
         Vrl!Filter, Vrl!Frame
<1>2. stage \in {"convert", "filter", "frame"}
      /\ stage' \in {"convert", "filter", "frame", "sent", "panicked"}
  BY DEF Vrl!Next, Vrl!ConvertNext, Vrl!ConvertPanics, Vrl!ConvertFails, Vrl!ConvertEnds,
         Vrl!Filter, Vrl!Frame
<1>3. CASE bundle = None
  <2>1. stage = "frame"
    BY <1>2, <1>3 DEF VrlInv, PacketOK
  <2>2. Vrl!Frame
    BY <2>1 DEF Vrl!Next, Vrl!ConvertNext, Vrl!ConvertPanics, Vrl!ConvertFails, Vrl!ConvertEnds,
                Vrl!Filter, Vrl!Frame
  <2>3. stage' \in {"sent", "panicked"}
    BY <2>2 DEF Vrl!Frame
  <2>4. PacketOK'
    BY <1>1, <1>3, <2>1, <2>3 DEF VrlInv, PacketOK
  <2>5. Vrl!DatagramReadsBack'
    BY <2>2, FrameReadsBack
  <2> QED BY <1>1, <1>3, <2>4, <2>5 DEF VrlInv
<1>4. CASE bundle # None
  <2>1. BundleOK' /\ MapOK' /\ ContentOK' /\ PanicOK'
    BY <1>2, <1>4, NextContent DEF VrlInv
  <2>2. PacketOK'
    BY <1>1, <1>2, <1>4 DEF VrlInv, PacketOK
  <2>3. Vrl!DatagramReadsBack'
    <3>1. CASE Vrl!Frame
      BY <3>1, FrameReadsBack
    <3>2. CASE ~Vrl!Frame
      <4>1. stage' # "sent"
        BY <3>2 DEF Vrl!Next, Vrl!ConvertNext, Vrl!ConvertPanics, Vrl!ConvertFails,
                    Vrl!ConvertEnds, Vrl!Filter
      <4> QED BY <1>1, <1>4, <4>1 DEF Vrl!DatagramReadsBack
    <3> QED BY <3>1, <3>2
  <2> QED BY <2>1, <2>2, <2>3 DEF VrlInv
<1> QED BY <1>3, <1>4

LEMMA VrlInitial ==
    ASSUME Vrl!Init \/ VrlIdle
    PROVE  VrlInv
<1>1. CASE VrlIdle
  <2>1. PacketOK /\ Vrl!DatagramReadsBack /\ bundle = None
    BY <1>1 DEF VrlIdle, PacketOK, Vrl!DatagramReadsBack
  <2> QED BY <2>1 DEF VrlInv
<1>2. CASE Vrl!Init
  <2>1. /\ user \in Users /\ at = 1 /\ hm = << >> /\ content = <<>> /\ datagram = None
        /\ stage = IF bundle = None THEN "frame" ELSE "convert"
    BY <1>2 DEF Vrl!Init
  <2>2. Vrl!DatagramReadsBack
    BY <2>1 DEF Vrl!DatagramReadsBack
  <2>3. CASE bundle = None /\ audio \in [payload : Payloads, extension : Vrl!Extensions]
    <3>1. PacketOK
      BY <2>1, <2>3 DEF PacketOK
    <3> QED BY <2>2, <2>3, <3>1 DEF VrlInv
  <2>4. CASE /\ bundle \in UNION {[1..n -> Vrl!Messages] : n \in 0..MaxMessages}
             /\ Vrl!BundleBytes(bundle, 16) <= Vrl!BufSize
             /\ audio = None
    <3>1. PICK n \in 0..MaxMessages : bundle \in [1..n -> Vrl!Messages]
      BY <2>4
    <3>2. n \in Nat
      BY SizeAssumption
    <3>3. bundle \in Seq(Vrl!Messages) /\ Len(bundle) = n
      BY <3>1, <3>2
    <3>4. bundle # None
      BY <3>3, NoneAssumption
    <3>5. PacketOK
      BY <2>1, <3>4 DEF PacketOK
    <3>6. at \in 1..(Len(bundle) + 1) /\ \A k : k \notin 1..(at - 1)
      BY <2>1, <3>2, <3>3
    <3>7. BundleOK
      BY <2>4, <3>3, <3>6 DEF BundleOK, Vrl!Ok
    <3>8. MapOK
      BY <2>1, <3>6 DEF MapOK
    <3>9. ContentOK /\ PanicOK
      BY <2>1, <3>4 DEF ContentOK, PanicOK
    <3> QED BY <2>2, <3>5, <3>7, <3>8, <3>9 DEF VrlInv
  <2> QED BY <1>2, <2>3, <2>4 DEF Vrl!Init
<1> QED BY <1>1, <1>2

\* What the inductive invariant says of a bundle that is on its way.
LEMMA VrlConverted ==
    ASSUME VrlInv
    PROVE  Vrl!ConvertedWhole
<1>1. ASSUME stage = "panicked", bundle # None
      PROVE  \E k \in DOMAIN bundle :
                \/ Vrl!Ok(k - 1) /\ Vrl!Reading(bundle[k]) = "panic"
                \/ ~Vrl!Ok(Len(bundle)) /\ bundle[k].kind = "bone" /\ bundle[k].name = "none"
  BY <1>1 DEF VrlInv, PanicOK
<1> DEFINE bones == {Vrl!BoneOf[bundle[k].name] : k \in DOMAIN bundle}
<1>2. ASSUME stage = "sent", bundle # None, Vrl!Ok(Len(bundle))
      PROVE  /\ Len(content) = Vrl!Cardinality(bones)
             /\ {content[k] : k \in DOMAIN content} =
                  {Vrl!Msg("bone", b, "none", [position |-> Vrl!LastOf(b, "position"),
                                               rotation |-> Vrl!LastOf(b, "rotation")], 76) :
                      b \in bones}
  <2>1. BundleOK /\ MapOK /\ ContentOK
    BY <1>2 DEF VrlInv
  <2>2. bundle \in Seq(Vrl!Messages) /\ at \in 1..(Len(bundle) + 1) /\ DOMAIN bundle = 1..Len(bundle)
        /\ Len(bundle) \in Nat
    BY <2>1 DEF BundleOK
  <2>3. at > Len(bundle) /\ at - 1 = Len(bundle)
    <3>1. CASE at <= Len(bundle)
      <4>1. ~(at > Len(bundle))
        BY <2>2, <3>1
      <4>2. Vrl!Reading(bundle[at]) = "error"
        BY <1>2, <2>1, <4>1 DEF ContentOK
      <4> QED BY <1>2, <2>1, <3>1, <4>2, AllOk
    <3>2. CASE ~(at <= Len(bundle))
      BY <2>2, <3>2
    <3> QED BY <3>1, <3>2
  <2>4. OnePerBone
    BY <1>2, <2>1, <2>3 DEF ContentOK
  <2>5. DOMAIN hm = bones
    BY <2>1, <2>2, <2>3 DEF MapOK
  <2>6. ASSUME NEW b \in bones
        PROVE  Vrl!Converted(b) =
                 Vrl!Msg("bone", b, "none", [position |-> Vrl!LastOf(b, "position"),
                                             rotation |-> Vrl!LastOf(b, "rotation")], 76)
    <3> HIDE DEF bones
    <3>1. /\ b \in DOMAIN hm
          /\ hm[b] = [position |-> hm[b].position, rotation |-> hm[b].rotation]
          /\ SaidLast(Len(bundle), b, "position", hm[b].position)
          /\ SaidLast(Len(bundle), b, "rotation", hm[b].rotation)
      BY <2>1, <2>3, <2>5 DEF MapOK
    <3>2. /\ Vrl!LastOf(b, "position") = hm[b].position
          /\ Vrl!LastOf(b, "rotation") = hm[b].rotation
      BY <2>2, <3>1, LastIs
    <3>3. Vrl!Entry(b) = hm[b]
      BY <3>1 DEF Vrl!Entry
    <3> QED BY <3>1, <3>2, <3>3 DEF Vrl!Converted
  <2> HIDE DEF bones
  <2>7. Len(content) = Vrl!Cardinality(bones)
    BY <2>4, <2>5, SameCardinality DEF OnePerBone
  <2>8. {content[k] : k \in DOMAIN content} = {Vrl!Converted(b) : b \in bones}
    BY <2>4, <2>5 DEF OnePerBone
  <2> QED BY <2>6, <2>7, <2>8
<1>3. ASSUME stage = "sent", bundle # None, ~Vrl!Ok(Len(bundle))
      PROVE  Vrl!WithoutFiltered(bundle, content)
  <2>1. BundleOK /\ ContentOK
    BY <1>3 DEF VrlInv
  <2>2. ~(at > Len(bundle))
    BY <1>3, <2>1, AllOk
  <2>3. content = Vrl!Rest(bundle) /\ bundle \in Seq(Vrl!Messages)
    BY <1>3, <2>1, <2>2 DEF ContentOK, BundleOK
  <2> QED BY <2>3, RestPicks
<1> QED BY <1>1, <1>2, <1>3 DEF Vrl!ConvertedWhole

-----------------------------------------------------------------------------
(* OSC messages. *)

\* The addresses and paths that are put together.
LEMMA Joins ==
    /\ \A a, b : <<>> \o <<a, b>> = <<a, b>>
    /\ \A a, b, c, d : <<>> \o <<a, b, c, d>> = <<a, b, c, d>>
    /\ \A a, b : <<a>> \o <<b>> = <<a, b>>
    /\ \A a, b, x : <<x>> \o <<a, b>> = <<x, a, b>>
    /\ \A a, b, c, d, x : <<x>> \o <<a, b, c, d>> = <<x, a, b, c, d>>
    /\ \A a, b, c, d : <<a, b>> \o <<c, d>> = <<a, b, c, d>>
    /\ \A a, b, c, d, e, f : <<a, b>> \o <<c, d, e, f>> = <<a, b, c, d, e, f>>
    /\ \A a, b, c, d, x : <<x, a, b>> \o <<c, d>> = <<x, a, b, c, d>>
    /\ \A a, b, c, d, e, f, x : <<x, a, b>> \o <<c, d, e, f>> = <<x, a, b, c, d, e, f>>
<1>1. ASSUME NEW a, NEW b PROVE <<>> \o <<a, b>> = <<a, b>>
  <2> DEFINE j == <<>> \o <<a, b>>
  <2>1. j \in Seq({a, b}) /\ Len(j) = 2
    OBVIOUS
  <2>2. j[1] = a /\ j[2] = b
    OBVIOUS
  <2> HIDE DEF j
  <2>3. j = <<a, b>>
    BY <2>1, <2>2
  <2> QED BY <2>3 DEF j
<1>2. ASSUME NEW a, NEW b, NEW c, NEW d PROVE <<>> \o <<a, b, c, d>> = <<a, b, c, d>>
  <2> DEFINE j == <<>> \o <<a, b, c, d>>
  <2>1. j \in Seq({a, b, c, d}) /\ Len(j) = 4
    OBVIOUS
  <2>2. j[1] = a /\ j[2] = b /\ j[3] = c /\ j[4] = d
    OBVIOUS
  <2> HIDE DEF j
  <2>3. j = <<a, b, c, d>>
    BY <2>1, <2>2
  <2> QED BY <2>3 DEF j
<1>3. ASSUME NEW a, NEW b PROVE <<a>> \o <<b>> = <<a, b>>
  <2> DEFINE j == <<a>> \o <<b>>
  <2>1. j \in Seq({a, b}) /\ Len(j) = 2
    OBVIOUS
  <2>2. j[1] = a /\ j[2] = b
    OBVIOUS
  <2> HIDE DEF j
  <2>3. j = <<a, b>>
    BY <2>1, <2>2
  <2> QED BY <2>3 DEF j
<1>4. ASSUME NEW a, NEW b, NEW x PROVE <<x>> \o <<a, b>> = <<x, a, b>>
  <2> DEFINE j == <<x>> \o <<a, b>>
  <2>1. j \in Seq({x, a, b}) /\ Len(j) = 3
    OBVIOUS
  <2>2. j[1] = x /\ j[2] = a /\ j[3] = b
    OBVIOUS
  <2> HIDE DEF j
  <2>3. j = <<x, a, b>>
    BY <2>1, <2>2
  <2> QED BY <2>3 DEF j
<1>5. ASSUME NEW a, NEW b, NEW c, NEW d, NEW x PROVE <<x>> \o <<a, b, c, d>> = <<x, a, b, c, d>>
  <2> DEFINE j == <<x>> \o <<a, b, c, d>>
  <2>1. j \in Seq({x, a, b, c, d}) /\ Len(j) = 5
    OBVIOUS
  <2>2. j[1] = x /\ j[2] = a /\ j[3] = b /\ j[4] = c /\ j[5] = d
    OBVIOUS
  <2> HIDE DEF j
  <2>3. j = <<x, a, b, c, d>>
    BY <2>1, <2>2
  <2> QED BY <2>3 DEF j
<1>6. ASSUME NEW a, NEW b, NEW c, NEW d PROVE <<a, b>> \o <<c, d>> = <<a, b, c, d>>
  <2> DEFINE j == <<a, b>> \o <<c, d>>
  <2>1. j \in Seq({a, b, c, d}) /\ Len(j) = 4
    OBVIOUS
  <2>2. j[1] = a /\ j[2] = b /\ j[3] = c /\ j[4] = d
    OBVIOUS
  <2> HIDE DEF j
  <2>3. j = <<a, b, c, d>>
    BY <2>1, <2>2
  <2> QED BY <2>3 DEF j
<1>7. ASSUME NEW a, NEW b, NEW c, NEW d, NEW e, NEW f PROVE <<a, b>> \o <<c, d, e, f>> = <<a, b, c, d, e, f>>
  <2> DEFINE j == <<a, b>> \o <<c, d, e, f>>
  <2>1. j \in Seq({a, b, c, d, e, f}) /\ Len(j) = 6
    OBVIOUS
  <2>2. j[1] = a /\ j[2] = b /\ j[3] = c /\ j[4] = d /\ j[5] = e /\ j[6] = f
    OBVIOUS
  <2> HIDE DEF j
  <2>3. j = <<a, b, c, d, e, f>>
    BY <2>1, <2>2
  <2> QED BY <2>3 DEF j
<1>8. ASSUME NEW a, NEW b, NEW c, NEW d, NEW x PROVE <<x, a, b>> \o <<c, d>> = <<x, a, b, c, d>>
  <2> DEFINE j == <<x, a, b>> \o <<c, d>>
  <2>1. j \in Seq({x, a, b, c, d}) /\ Len(j) = 5
    OBVIOUS
  <2>2. j[1] = x /\ j[2] = a /\ j[3] = b /\ j[4] = c /\ j[5] = d
    OBVIOUS
  <2> HIDE DEF j
  <2>3. j = <<x, a, b, c, d>>
    BY <2>1, <2>2
  <2> QED BY <2>3 DEF j
<1>9. ASSUME NEW a, NEW b, NEW c, NEW d, NEW e, NEW f, NEW x PROVE <<x, a, b>> \o <<c, d, e, f>> = <<x, a, b, c, d, e, f>>
  <2> DEFINE j == <<x, a, b>> \o <<c, d, e, f>>
  <2>1. j \in Seq({x, a, b, c, d, e, f}) /\ Len(j) = 7
    OBVIOUS
  <2>2. j[1] = x /\ j[2] = a /\ j[3] = b /\ j[4] = c /\ j[5] = d /\ j[6] = e /\ j[7] = f
    OBVIOUS
  <2> HIDE DEF j
  <2>3. j = <<x, a, b, c, d, e, f>>
    BY <2>1, <2>2
  <2> QED BY <2>3 DEF j
<1> QED BY <1>1, <1>2, <1>3, <1>4, <1>5, <1>6, <1>7, <1>8, <1>9

LEMMA EmptyIs == Osc!Empty \notin {"server", "performer", "any", "audience"}
<1>1. Osc!Empty # "server" /\ Osc!Empty # "performer"
  BY Zenon DEF Osc!Empty
<1>2. Osc!Empty # "any" /\ Osc!Empty # "audience"
  BY Zenon DEF Osc!Empty
<1> QED BY <1>1, <1>2

\* The data a path comes with.
HasCount(m) == \E n \in Numbers : m.has = <<<<"count", n>>>>
HasName(m) == \E s \in Songs : m.has = <<<<"name", s>>>>
HasFlag(m) == \E b \in BOOLEAN : m.has = <<<<"flag", b>>>>
HasMember(m) == \E id \in Users, n \in Osc!UserNumbers : m.has = <<<<"user", id>>, <<"type", n>>>>

Statuses == {"useradd", "userremove", "userreconnect"}

Toggle(m) == \E t \in Osc!Toggles : m.is = <<"performer", "toggle", t>>

ServerShape(m) ==
    \/ m.is \in {<<"scene", "state">>, <<"backing", "start">>} /\ HasCount(m)
    \/ m.is \in {<<"status", w>> : w \in Statuses} /\ HasMember(m)
    \/ m.is \in {<<"backing", "stop">>, <<"performer", "matchmake", "request">>} /\ m.has = <<>>
    \/ m.is = <<"backing", "new">> /\ HasName(m)
    \/ m.is = <<"performer", "ready">> /\ HasFlag(m)
    \/ Toggle(m) /\ HasFlag(m)

LEMMA MessageIs ==
    ASSUME NEW is, NEW data, NEW m \in Osc!Messages(is, data)
    PROVE  m = Osc!Message(m.is, m.has) /\ m.is \in is /\ m.has \in data
<1>1. PICK path \in is, d \in data : m = Osc!Message(path, d)
  BY DEF Osc!Messages
<1> QED BY <1>1 DEF Osc!Message

LEMMA ServerShapes ==
    ASSUME NEW m \in Osc!ServerMessages
    PROVE  m = Osc!Message(m.is, m.has) /\ ServerShape(m)
<1>1. CASE m \in Osc!Messages({<<"scene", "state">>, <<"backing", "start">>}, Osc!Counts)
  BY <1>1, MessageIs DEF ServerShape, HasCount, Osc!Counts
<1>2. CASE m \in Osc!Messages({"status"} \X Statuses, Osc!Members)
  <2>1. m = Osc!Message(m.is, m.has) /\ m.is \in {"status"} \X Statuses /\ m.has \in Osc!Members
    BY <1>2, MessageIs
  <2>2. HasMember(m)
    BY <2>1 DEF HasMember, Osc!Members
  <2>3. m.is \in {<<"status", w>> : w \in Statuses}
    BY <2>1
  <2> QED BY <2>1, <2>2, <2>3 DEF ServerShape
<1>3. CASE m \in Osc!Messages({<<"backing", "stop">>, <<"performer", "matchmake", "request">>}, {<<>>})
  BY <1>3, MessageIs DEF ServerShape
<1>4. CASE m \in Osc!Messages({<<"backing", "new">>}, Osc!Names)
  BY <1>4, MessageIs DEF ServerShape, HasName, Osc!Names
<1>5. CASE m \in Osc!Messages({<<"performer", "ready">>}, Osc!Flags)
  BY <1>5, MessageIs DEF ServerShape, HasFlag, Osc!Flags
<1>6. CASE m \in Osc!Messages({"performer"} \X {"toggle"} \X Osc!Toggles, Osc!Flags)
  <2>1. /\ m = Osc!Message(m.is, m.has) /\ m.is \in {"performer"} \X {"toggle"} \X Osc!Toggles
        /\ m.has \in Osc!Flags
    BY <1>6, MessageIs
  <2>2. HasFlag(m)
    BY <2>1 DEF HasFlag, Osc!Flags
  <2>3. Toggle(m)
    BY <2>1 DEF Toggle
  <2> QED BY <2>1, <2>2, <2>3 DEF ServerShape
<1> QED BY <1>1, <1>2, <1>3, <1>4, <1>5, <1>6 DEF Osc!ServerMessages, Statuses

ClientShape(m) ==
    \/ m.is = <<"performer", "ready">> /\ HasFlag(m)
    \/ Toggle(m) /\ HasFlag(m)

LEMMA ClientShapes ==
    ASSUME NEW m \in Osc!ClientMessages
    PROVE  m = Osc!Message(m.is, m.has) /\ ClientShape(m)
<1>1. CASE m \in Osc!Messages({<<"performer", "ready">>}, Osc!Flags)
  BY <1>1, MessageIs DEF ClientShape, HasFlag, Osc!Flags
<1>2. CASE m \in Osc!Messages({"performer"} \X {"toggle"} \X Osc!Toggles, Osc!Flags)
  <2>1. /\ m = Osc!Message(m.is, m.has) /\ m.is \in {"performer"} \X {"toggle"} \X Osc!Toggles
        /\ m.has \in Osc!Flags
    BY <1>2, MessageIs
  <2>2. HasFlag(m)
    BY <2>1 DEF HasFlag, Osc!Flags
  <2>3. Toggle(m)
    BY <2>1 DEF Toggle
  <2> QED BY <2>1, <2>2, <2>3 DEF ClientShape
<1> QED BY <1>1, <1>2 DEF Osc!ClientMessages

\* The arguments the data become.
Args(m) == [k \in DOMAIN m.has |-> Osc!Argument(m.has[k])]

LEMMA ArgumentIs ==
    ASSUME NEW v
    PROVE  /\ Osc!Argument(<<"flag", v>>) = <<"bool", v>>
           /\ Osc!Argument(<<"name", v>>) = <<"string", v>>
           /\ Osc!Argument(<<"count", v>>) = <<"int", v>>
           /\ Osc!Argument(<<"user", v>>) = <<"int", v>>
           /\ Osc!Argument(<<"type", v>>) = <<"int", v>>
BY DEF Osc!Argument

LEMMA OneArgument ==
    ASSUME NEW m, NEW d, m.has = <<d>>
    PROVE  Args(m) = <<Osc!Argument(d)>>
BY DEF Args

LEMMA TwoArguments ==
    ASSUME NEW m, NEW d, NEW e, m.has = <<d, e>>
    PROVE  Args(m) = <<Osc!Argument(d), Osc!Argument(e)>>
BY DEF Args

LEMMA NoArguments ==
    ASSUME NEW m, m.has = <<>>
    PROVE  Args(m) = <<>>
BY DEF Args

LEMMA ArgsAre ==
    ASSUME NEW m
    PROVE  /\ HasCount(m) => \E n \in Numbers : m.has = <<<<"count", n>>>> /\ Args(m) = <<<<"int", n>>>>
           /\ HasName(m) => \E s \in Songs : m.has = <<<<"name", s>>>> /\ Args(m) = <<<<"string", s>>>>
           /\ HasFlag(m) => \E b \in BOOLEAN : m.has = <<<<"flag", b>>>> /\ Args(m) = <<<<"bool", b>>>>
           /\ HasMember(m) => \E id \in Users, n \in Osc!UserNumbers :
                 /\ m.has = <<<<"user", id>>, <<"type", n>>>>
                 /\ Args(m) = <<<<"int", id>>, <<"int", n>>>>
<1>1. ASSUME HasCount(m)
      PROVE  \E n \in Numbers : m.has = <<<<"count", n>>>> /\ Args(m) = <<<<"int", n>>>>
  <2>1. PICK n \in Numbers : m.has = <<<<"count", n>>>>
    BY <1>1 DEF HasCount
  <2> QED BY ZenonT(40), <2>1, OneArgument, ArgumentIs
<1>2. ASSUME HasName(m)
      PROVE  \E s \in Songs : m.has = <<<<"name", s>>>> /\ Args(m) = <<<<"string", s>>>>
  <2>1. PICK s \in Songs : m.has = <<<<"name", s>>>>
    BY <1>2 DEF HasName
  <2> QED BY <2>1, OneArgument, ArgumentIs
<1>3. ASSUME HasFlag(m)
      PROVE  \E b \in BOOLEAN : m.has = <<<<"flag", b>>>> /\ Args(m) = <<<<"bool", b>>>>
  <2>1. PICK b \in BOOLEAN : m.has = <<<<"flag", b>>>>
    BY <1>3 DEF HasFlag
  <2>2. Args(m) = <<<<"bool", b>>>>
    BY <2>1, OneArgument, ArgumentIs
  <2> QED BY <2>1, <2>2
<1>4. ASSUME HasMember(m)
      PROVE  \E id \in Users, n \in Osc!UserNumbers :
                 /\ m.has = <<<<"user", id>>, <<"type", n>>>>
                 /\ Args(m) = <<<<"int", id>>, <<"int", n>>>>
  <2>1. PICK id \in Users, n \in Osc!UserNumbers : m.has = <<<<"user", id>>, <<"type", n>>>>
    BY <1>4 DEF HasMember
  <2>2. Args(m) = <<Osc!Argument(<<"user", id>>), Osc!Argument(<<"type", n>>)>>
    BY <2>1, TwoArguments
  <2>3. Args(m) = <<<<"int", id>>, <<"int", n>>>>
    BY ONLY <2>2, ArgumentIs
  <2> QED BY <2>1, <2>3
<1> QED BY <1>1, <1>2, <1>3, <1>4

\* The addresses.
Prefixes == {<<>>, <<Osc!Empty>>}

LEMMA VariantsAre ==
    ASSUME NEW a, NEW b, NEW c
    PROVE  Osc!Variants(<<a, b>>) = <<a, b>> /\ Osc!Variants(<<a, b, c>>) = <<a, b, b, c>>
BY DEF Osc!Variants

LEMMA ServerAddress ==
    ASSUME NEW m, NEW prefix \in Prefixes
    PROVE  /\ Osc!EncodeServer(m, prefix).args = Args(m)
           /\ \A a, b : m.is = <<a, b>> => Osc!EncodeServer(m, prefix).address =
                 IF prefix = <<>> THEN <<Osc!Empty, "server", a, b>>
                 ELSE <<Osc!Empty, Osc!Empty, "server", a, b>>
           /\ \A a, b, c : m.is = <<a, b, c>> => Osc!EncodeServer(m, prefix).address =
                 IF prefix = <<>> THEN <<Osc!Empty, "server", a, b, b, c>>
                 ELSE <<Osc!Empty, Osc!Empty, "server", a, b, b, c>>
<1> DEFINE E == Osc!Empty
<1>1. /\ Osc!EncodeServer(m, prefix).args = Args(m)
      /\ Osc!EncodeServer(m, prefix).address = (prefix \o <<E, "server">>) \o Osc!Variants(m.is)
  BY DEF Osc!EncodeServer, Osc!Osc, Args
<1>2. prefix \o <<E, "server">> = IF prefix = <<>> THEN <<E, "server">> ELSE <<E, E, "server">>
  <2>1. <<>> \o <<E, "server">> = <<E, "server">> /\ <<E>> \o <<E, "server">> = <<E, E, "server">>
    BY Joins
  <2> QED BY <2>1 DEF Prefixes
<1> HIDE DEF E
<1>3. ASSUME NEW a, NEW b, m.is = <<a, b>>
      PROVE  Osc!EncodeServer(m, prefix).address =
               IF prefix = <<>> THEN <<E, "server", a, b>> ELSE <<E, E, "server", a, b>>
  <2>1. Osc!Variants(m.is) = <<a, b>>
    BY <1>3, VariantsAre
  <2>2. /\ <<E, "server">> \o <<a, b>> = <<E, "server", a, b>>
        /\ <<E, E, "server">> \o <<a, b>> = <<E, E, "server", a, b>>
    BY Joins
  <2> QED BY <1>1, <1>2, <2>1, <2>2
<1>4. ASSUME NEW a, NEW b, NEW c, m.is = <<a, b, c>>
      PROVE  Osc!EncodeServer(m, prefix).address =
               IF prefix = <<>> THEN <<E, "server", a, b, b, c>> ELSE <<E, E, "server", a, b, b, c>>
  <2>1. Osc!Variants(m.is) = <<a, b, b, c>>
    BY <1>4, VariantsAre
  <2>2. /\ <<E, "server">> \o <<a, b, b, c>> = <<E, "server", a, b, b, c>>
        /\ <<E, E, "server">> \o <<a, b, b, c>> = <<E, E, "server", a, b, b, c>>
    BY Joins
  <2> QED BY <1>1, <1>2, <2>1, <2>2
<1> QED BY <1>1, <1>3, <1>4 DEF E

LEMMA ClientAddress ==
    ASSUME NEW m, NEW prefix \in Prefixes
    PROVE  /\ Osc!EncodeClient(m, prefix).args = Args(m)
           /\ \A b : m.is = <<"performer", b>> =>
                 Osc!Trimmed(Osc!EncodeClient(m, prefix).address) = <<"performer", b>>
           /\ \A b, c : m.is = <<"performer", b, c>> =>
                 Osc!Trimmed(Osc!EncodeClient(m, prefix).address) = <<"performer", b, b, c>>
<1> DEFINE E == Osc!Empty
<1>1. /\ Osc!EncodeClient(m, prefix).args = Args(m)
      /\ Osc!EncodeClient(m, prefix).address = prefix \o Osc!Variants(m.is)
  BY DEF Osc!EncodeClient, Osc!Osc, Args
<1>2. E # "performer" /\ prefix \in {<<>>, <<E>>}
  BY EmptyIs DEF Prefixes
<1>3. ASSUME NEW b, m.is = <<"performer", b>>
      PROVE  Osc!Trimmed(Osc!EncodeClient(m, prefix).address) = <<"performer", b>>
  <2>1. Osc!Variants(m.is) = <<"performer", b>>
    BY <1>3, VariantsAre
  <2>2. /\ <<>> \o <<"performer", b>> = <<"performer", b>>
        /\ <<E>> \o <<"performer", b>> = <<E, "performer", b>>
    BY Joins
  <2>3. /\ Osc!Trimmed(<<"performer", b>>) = <<"performer", b>>
        /\ Osc!Trimmed(<<E, "performer", b>>) = <<"performer", b>>
    BY <1>2 DEF Osc!Trimmed
  <2> HIDE DEF E
  <2> QED BY <1>1, <1>2, <2>1, <2>2, <2>3
<1>4. ASSUME NEW b, NEW c, m.is = <<"performer", b, c>>
      PROVE  Osc!Trimmed(Osc!EncodeClient(m, prefix).address) = <<"performer", b, b, c>>
  <2>1. Osc!Variants(m.is) = <<"performer", b, b, c>>
    BY <1>4, VariantsAre
  <2>2. /\ <<>> \o <<"performer", b, b, c>> = <<"performer", b, b, c>>
        /\ <<E>> \o <<"performer", b, b, c>> = <<E, "performer", b, b, c>>
    BY Joins
  <2>3. /\ Osc!Trimmed(<<"performer", b, b, c>>) = <<"performer", b, b, c>>
        /\ Osc!Trimmed(<<E, "performer", b, b, c>>) = <<"performer", b, b, c>>
    BY <1>2 DEF Osc!Trimmed
  <2> HIDE DEF E
  <2> QED BY <1>1, <1>2, <2>1, <2>2, <2>3
<1> QED BY <1>1, <1>3, <1>4

\* What the levels of a decoder read.
LEMMA WithinIs ==
    ASSUME NEW level, NEW word, word # "panic", NEW has
    PROVE  Osc!Within(level, Osc!Message(<<word>>, has)) = Osc!Message(<<level, word>>, has)
<1> DEFINE inner == Osc!Message(<<word>>, has)
<1>1. inner.is = <<word>> /\ inner.has = has
  BY DEF Osc!Message
<1>2. Osc!Nothing.is = <<>> /\ Osc!Panic.is = <<"panic">>
  BY DEF Osc!Message, Osc!Nothing, Osc!Panic
<1>3. inner # Osc!Nothing /\ inner # Osc!Panic
  <2>1. <<word>> # <<>> /\ <<word>> # <<"panic">>
    OBVIOUS
  <2> QED BY <1>1, <1>2, <2>1
<1>4. <<level>> \o <<word>> = <<level, word>>
  BY Joins
<1> HIDE DEF inner
<1>5. Osc!Within(level, inner) = Osc!Message(<<level, word>>, has)
  BY <1>1, <1>3, <1>4 DEF Osc!Within
<1> QED BY <1>5 DEF inner

LEMMA WithinNothing == \A level : Osc!Within(level, Osc!Nothing) = Osc!Nothing
BY DEF Osc!Within

LEMMA ServerPath ==
    ASSUME NEW o
    PROVE  /\ \A a, b, c :
                 o.address \in {<<Osc!Empty, Osc!Empty, "server", a, b>>,
                                <<Osc!Empty, Osc!Empty, "server", a, b, b, c>>} =>
                    Osc!DecodeServer(o) = Osc!Nothing
           /\ \A a, b : o.address = <<Osc!Empty, "server", a, b>> =>
                 /\ a \notin {"scene", "performer"} => Osc!DecodeServer(o) = Osc!Nothing
                 /\ a = "scene" => Osc!DecodeServer(o) =
                       Osc!Within("scene", Osc!DecodeScene(<<b>>, o.args))
                 /\ a = "performer" => Osc!DecodeServer(o) =
                       Osc!Within("performer", Osc!DecodePerformerServer(o.address, <<b>>, o.args))
           /\ \A b, c : o.address = <<Osc!Empty, "server", "performer", b, b, c>> =>
                 Osc!DecodeServer(o) =
                       Osc!Within("performer",
                                  Osc!DecodePerformerServer(o.address, <<b, b, c>>, o.args))
<1> DEFINE E == Osc!Empty
           path == Osc!Trimmed(o.address)
<1>0. E # "server"
  BY EmptyIs
<1>1. ASSUME NEW a, NEW b, NEW c,
             o.address \in {<<E, E, "server", a, b>>, <<E, E, "server", a, b, b, c>>}
      PROVE  Osc!DecodeServer(o) = Osc!Nothing
  <2>1. /\ Osc!Trimmed(<<E, E, "server", a, b>>) = <<E, "server", a, b>>
        /\ Osc!Trimmed(<<E, E, "server", a, b, b, c>>) = <<E, "server", a, b, b, c>>
    BY DEF Osc!Trimmed
  <2> HIDE DEF E
  <2>2. path[1] = E
    BY <1>1, <2>1
  <2> HIDE DEF path
  <2> QED BY <1>0, <2>2 DEF Osc!DecodeServer, path
<1>2. ASSUME path[1] = "server", Len(path) \in Nat, Len(path) >= 3
      PROVE  /\ path[2] \notin {"scene", "performer"} => Osc!DecodeServer(o) = Osc!Nothing
             /\ path[2] = "scene" => Osc!DecodeServer(o) =
                   Osc!Within("scene", Osc!DecodeScene(Tail(Tail(path)), o.args))
             /\ path[2] = "performer" => Osc!DecodeServer(o) =
                   Osc!Within("performer",
                              Osc!DecodePerformerServer(o.address, Tail(Tail(path)), o.args))
  <2>1. ~(Len(path) < 3 \/ path[1] # "server")
    BY <1>2
  <2> DEFINE rest == Tail(Tail(path))
  <2>2. Osc!DecodeServer(o) =
          CASE path[2] = "scene" -> Osc!Within("scene", Osc!DecodeScene(rest, o.args))
            [] path[2] = "performer" ->
                 Osc!Within("performer", Osc!DecodePerformerServer(o.address, rest, o.args))
            [] OTHER -> Osc!Nothing
    <3> HIDE DEF path
    <3> QED BY ONLY <2>1 DEF Osc!DecodeServer, path
  <2> HIDE DEF path, rest
  <2>3. CASE path[2] = "scene"
    BY <2>2, <2>3 DEF rest
  <2>4. CASE path[2] = "performer"
    BY <2>2, <2>4 DEF rest
  <2>5. CASE path[2] \notin {"scene", "performer"}
    BY <2>2, <2>5
  <2> QED BY <2>3, <2>4, <2>5
<1>3. ASSUME NEW a, NEW b, o.address = <<E, "server", a, b>>
      PROVE  path[1] = "server" /\ path[2] = a /\ Len(path) = 3 /\ Tail(Tail(path)) = <<b>>
  <2>1. Osc!Trimmed(<<E, "server", a, b>>) = <<"server", a, b>>
    BY DEF Osc!Trimmed
  <2>2. path = <<"server", a, b>>
    BY <1>3, <2>1
  <2>3. Tail(<<"server", a, b>>) = <<a, b>> /\ Tail(<<a, b>>) = <<b>>
    OBVIOUS
  <2> HIDE DEF path
  <2> QED BY <2>2, <2>3
<1>4. ASSUME NEW b, NEW c, o.address = <<E, "server", "performer", b, b, c>>
      PROVE  /\ path[1] = "server" /\ path[2] = "performer" /\ Len(path) = 5
             /\ Tail(Tail(path)) = <<b, b, c>>
  <2>1. Osc!Trimmed(<<E, "server", "performer", b, b, c>>) = <<"server", "performer", b, b, c>>
    BY DEF Osc!Trimmed
  <2>2. path = <<"server", "performer", b, b, c>>
    BY <1>4, <2>1
  <2>3. /\ Tail(<<"server", "performer", b, b, c>>) = <<"performer", b, b, c>>
        /\ Tail(<<"performer", b, b, c>>) = <<b, b, c>>
    OBVIOUS
  <2> HIDE DEF path
  <2> QED BY <2>2, <2>3
<1>5. ASSUME NEW a, NEW b, o.address = <<E, "server", a, b>>
      PROVE  /\ a \notin {"scene", "performer"} => Osc!DecodeServer(o) = Osc!Nothing
             /\ a = "scene" => Osc!DecodeServer(o) =
                   Osc!Within("scene", Osc!DecodeScene(<<b>>, o.args))
             /\ a = "performer" => Osc!DecodeServer(o) =
                   Osc!Within("performer", Osc!DecodePerformerServer(o.address, <<b>>, o.args))
  <2> HIDE DEF path, E
  <2>1. path[1] = "server" /\ path[2] = a /\ Len(path) = 3 /\ Tail(Tail(path)) = <<b>>
    BY ONLY <1>3, <1>5
  <2>2. Len(path) \in Nat /\ Len(path) >= 3
    BY ONLY <2>1
  <2>3. /\ path[2] \notin {"scene", "performer"} => Osc!DecodeServer(o) = Osc!Nothing
        /\ path[2] = "scene" => Osc!DecodeServer(o) =
              Osc!Within("scene", Osc!DecodeScene(Tail(Tail(path)), o.args))
        /\ path[2] = "performer" => Osc!DecodeServer(o) =
              Osc!Within("performer",
                         Osc!DecodePerformerServer(o.address, Tail(Tail(path)), o.args))
    BY ONLY <1>2, <2>1, <2>2
  <2> QED BY ONLY <2>1, <2>3
<1>6. ASSUME NEW b, NEW c, o.address = <<E, "server", "performer", b, b, c>>
      PROVE  Osc!DecodeServer(o) =
                   Osc!Within("performer",
                              Osc!DecodePerformerServer(o.address, <<b, b, c>>, o.args))
  <2> HIDE DEF path, E
  <2>1. /\ path[1] = "server" /\ path[2] = "performer" /\ Len(path) = 5
        /\ Tail(Tail(path)) = <<b, b, c>>
    BY ONLY <1>4, <1>6
  <2>2. Len(path) \in Nat /\ Len(path) >= 3
    BY ONLY <2>1
  <2>3. Osc!DecodeServer(o) =
          Osc!Within("performer",
                     Osc!DecodePerformerServer(o.address, Tail(Tail(path)), o.args))
    BY ONLY <1>2, <2>1, <2>2
  <2> QED BY ONLY <2>1, <2>3
<1> HIDE DEF path
<1> QED BY <1>1, <1>5, <1>6 DEF E

\* A toggle of the server or of a client is not read.
LEMMA ToggleIs ==
    ASSUME NEW t, NEW args
    PROVE  Osc!DecodeToggle(<<"toggle", t>>, args) = Osc!Nothing
<1>1. Head(<<"toggle", t>>) = "toggle" /\ "toggle" \notin Osc!Toggles
  BY DEF Osc!Toggles
<1> QED BY <1>1 DEF Osc!DecodeToggle

\* The server's messages, at the client.
LEMMA ServerReads ==
    ASSUME NEW m \in Osc!ServerMessages, NEW prefix \in Prefixes
    PROVE  Osc!DecodeServer(Osc!EncodeServer(m, prefix)) \in {Osc!Nothing, m}
<1> DEFINE E == Osc!Empty
           o == Osc!EncodeServer(m, prefix)
<1>0. m = Osc!Message(m.is, m.has) /\ ServerShape(m) /\ o.args = Args(m)
  BY ServerShapes, ServerAddress
<1>1. ASSUME NEW a, NEW b, m.is = <<a, b>>
      PROVE  o.address \in {<<E, "server", a, b>>, <<E, E, "server", a, b>>}
  <2>1. o.address = IF prefix = <<>> THEN <<E, "server", a, b>> ELSE <<E, E, "server", a, b>>
    BY ONLY <1>1, prefix \in Prefixes, ServerAddress
  <2> QED BY ONLY <2>1
<1>2. ASSUME NEW b, NEW c, m.is = <<"performer", b, c>>
      PROVE  o.address \in {<<E, "server", "performer", b, b, c>>,
                            <<E, E, "server", "performer", b, b, c>>}
  <2>1. o.address = IF prefix = <<>> THEN <<E, "server", "performer", b, b, c>>
                    ELSE <<E, E, "server", "performer", b, b, c>>
    BY ONLY <1>2, prefix \in Prefixes, ServerAddress
  <2> QED BY ONLY <2>1
<1> HIDE DEF o
<1>3. ASSUME NEW a \in {"backing", "status"}, NEW b, m.is = <<a, b>>
      PROVE  Osc!DecodeServer(o) = Osc!Nothing
  <2>1. o.address \in {<<E, "server", a, b>>, <<E, E, "server", a, b>>}
    BY ONLY <1>1, <1>3
  <2>2. a \notin {"scene", "performer"}
    OBVIOUS
  <2>3. CASE o.address = <<E, "server", a, b>>
    BY ONLY <2>2, <2>3, ServerPath
  <2>4. CASE o.address = <<E, E, "server", a, b>>
    BY ONLY <2>4, ServerPath
  <2> QED BY ONLY <2>1, <2>3, <2>4
<1>4. ASSUME m.is = <<"scene", "state">>, HasCount(m)
      PROVE  Osc!DecodeServer(o) \in {Osc!Nothing, m}
  <2>1. CASE o.address = <<E, E, "server", "scene", "state">>
    BY <2>1, ServerPath
  <2>2. CASE o.address = <<E, "server", "scene", "state">>
    <3>1. PICK n \in Numbers : m.has = <<<<"count", n>>>> /\ Args(m) = <<<<"int", n>>>>
      BY <1>4, ArgsAre
    <3>2. Osc!DecodeScene(<<"state">>, Args(m)) = Osc!Message(<<"state">>, m.has)
      BY <3>1 DEF Osc!DecodeScene
    <3>3. Osc!DecodeServer(o) = Osc!Within("scene", Osc!DecodeScene(<<"state">>, o.args))
      BY <2>2, ServerPath
    <3>4. Osc!Within("scene", Osc!Message(<<"state">>, m.has))
            = Osc!Message(<<"scene", "state">>, m.has)
      BY WithinIs
    <3> QED BY <1>0, <1>4, <3>2, <3>3, <3>4
  <2> QED BY <1>1, <1>4, <2>1, <2>2
<1>5. ASSUME m.is = <<"performer", "ready">>, HasFlag(m)
      PROVE  Osc!DecodeServer(o) \in {Osc!Nothing, m}
  <2>1. CASE o.address = <<E, E, "server", "performer", "ready">>
    BY <2>1, ServerPath
  <2>2. CASE o.address = <<E, "server", "performer", "ready">>
    <3>1. PICK b \in BOOLEAN : m.has = <<<<"flag", b>>>> /\ Args(m) = <<<<"bool", b>>>>
      BY <1>5, ArgsAre
    <3>2. Osc!IsFlag(Args(m)) /\ <<<<"flag", Args(m)[1][2]>>>> = m.has
      BY <3>1 DEF Osc!IsFlag
    <3>3. Osc!DecodePerformerServer(o.address, <<"ready">>, Args(m))
            = Osc!Message(<<"ready">>, m.has)
      <4>1. ~(Len(<<"ready">>) > 1)
        OBVIOUS
      <4> QED BY <3>2, <4>1 DEF Osc!DecodePerformerServer
    <3>4. Osc!DecodeServer(o)
            = Osc!Within("performer", Osc!DecodePerformerServer(o.address, <<"ready">>, o.args))
      BY <2>2, ServerPath
    <3>5. Osc!Within("performer", Osc!Message(<<"ready">>, m.has))
            = Osc!Message(<<"performer", "ready">>, m.has)
      BY WithinIs
    <3> QED BY <1>0, <1>5, <3>3, <3>4, <3>5
  <2> QED BY <1>1, <1>5, <2>1, <2>2
<1>6. ASSUME NEW b \in {"matchmake", "toggle"}, NEW c, m.is = <<"performer", b, c>>
      PROVE  Osc!DecodeServer(o) = Osc!Nothing
  <2>1. CASE o.address = <<E, E, "server", "performer", b, b, c>>
    <3>1. o.address \in {<<E, E, "server", "performer", b>>,
                         <<E, E, "server", "performer", b, b, c>>}
      BY ONLY <2>1
    <3> QED BY ONLY <3>1, ServerPath
  <2>2. CASE o.address = <<E, "server", "performer", b, b, c>>
    <3>1. Len(<<b, b, c>>) > 1 /\ Head(<<b, b, c>>) = b /\ Tail(<<b, b, c>>) = <<b, c>>
      OBVIOUS
    <3>2. Osc!DecodeMatchMake(o.address, <<b, c>>) = Osc!Nothing
      <4>1. Len(o.address) # 1
        BY <2>2
      <4> QED BY <4>1 DEF Osc!DecodeMatchMake
    <3>3. b = "toggle" => Osc!DecodeToggle(<<b, c>>, o.args) = Osc!Nothing
      BY ToggleIs
    <3>4. \A level : Osc!Within(level, Osc!Nothing) = Osc!Nothing
      BY WithinNothing
    <3>5. Osc!DecodePerformerServer(o.address, <<b, b, c>>, o.args) = Osc!Nothing
      <4>1. CASE b = "matchmake"
        BY <3>1, <3>2, <3>4, <4>1 DEF Osc!DecodePerformerServer
      <4>2. CASE b = "toggle"
        BY <3>1, <3>3, <3>4, <4>2 DEF Osc!DecodePerformerServer
      <4> QED BY <4>1, <4>2
    <3>6. Osc!DecodeServer(o)
            = Osc!Within("performer",
                         Osc!DecodePerformerServer(o.address, <<b, b, c>>, o.args))
      BY <2>2, ServerPath
    <3> QED BY <3>4, <3>5, <3>6
  <2> QED BY <1>2, <1>6, <2>1, <2>2
<1>7. Osc!DecodeServer(o) \in {Osc!Nothing, m}
  <2>1. CASE m.is \in {<<"scene", "state">>, <<"backing", "start">>} /\ HasCount(m)
    BY ONLY <1>3, <1>4, <2>1
  <2>2. CASE m.is \in {<<"status", w>> : w \in Statuses}
    BY ONLY <1>3, <2>2
  <2>3. CASE m.is \in {<<"backing", "stop">>, <<"performer", "matchmake", "request">>}
    BY ONLY <1>3, <1>6, <2>3
  <2>4. CASE m.is = <<"backing", "new">>
    BY ONLY <1>3, <2>4
  <2>5. CASE m.is = <<"performer", "ready">> /\ HasFlag(m)
    BY ONLY <1>5, <2>5
  <2>6. CASE Toggle(m)
    BY ONLY <1>6, <2>6 DEF Toggle
  <2> QED BY ONLY <1>0, <2>1, <2>2, <2>3, <2>4, <2>5, <2>6 DEF ServerShape
<1> QED BY <1>7 DEF o

\* A client's messages, at the server.
LEMMA ClientReads ==
    ASSUME NEW m \in Osc!ClientMessages, NEW prefix \in Prefixes
    PROVE  Osc!DecodeClient(Osc!EncodeClient(m, prefix)) \in {Osc!Nothing, m}
<1> DEFINE o == Osc!EncodeClient(m, prefix)
           path == Osc!Trimmed(o.address)
<1>0. m = Osc!Message(m.is, m.has) /\ ClientShape(m) /\ o.args = Args(m)
  BY ClientShapes, ClientAddress
<1>1. m.is = <<"performer", "ready">> => path = <<"performer", "ready">>
  BY ONLY prefix \in Prefixes, ClientAddress
<1>2. ASSUME NEW t, m.is = <<"performer", "toggle", t>>
      PROVE  path = <<"performer", "toggle", "toggle", t>>
  BY ONLY <1>2, prefix \in Prefixes, ClientAddress
<1> HIDE DEF o
<1>3. ASSUME Len(path) # 1, path[1] = "performer"
      PROVE  Osc!DecodeClient(o) =
               Osc!Within("performer", Osc!DecodePerformerClient(Tail(path), o.args))
  <2> HIDE DEF path
  <2>1. Osc!DecodeClient(o) =
          CASE path[1] \in {"any", "audience"} -> Osc!Panic
            [] path[1] = "performer" ->
                 Osc!Within("performer", Osc!DecodePerformerClient(Tail(path), o.args))
            [] OTHER -> Osc!Nothing
    BY ONLY <1>3 DEF Osc!DecodeClient, path
  <2> QED BY ONLY <1>3, <2>1
<1> HIDE DEF path
<1>4. ASSUME m.is = <<"performer", "ready">>, HasFlag(m)
      PROVE  Osc!DecodeClient(o) = m
  <2>1. PICK b \in BOOLEAN : m.has = <<<<"flag", b>>>> /\ Args(m) = <<<<"bool", b>>>>
    BY <1>4, ArgsAre
  <2>2. path = <<"performer", "ready">>
    BY <1>1, <1>4
  <2>3. Len(path) # 1 /\ path[1] = "performer" /\ Tail(path) = <<"ready">>
    BY ONLY <2>2
  <2>4. Args(m) # <<>> /\ Args(m)[1][1] = "bool" /\ <<<<"flag", Args(m)[1][2]>>>> = m.has
    BY ONLY <2>1
  <2>5. Osc!DecodePerformerClient(<<"ready">>, Args(m)) = Osc!Message(<<"ready">>, m.has)
    <3>1. ~(Len(<<"ready">>) > 1)
      OBVIOUS
    <3> QED BY ONLY <2>4, <3>1 DEF Osc!DecodePerformerClient
  <2>6. Osc!Within("performer", Osc!Message(<<"ready">>, m.has))
          = Osc!Message(<<"performer", "ready">>, m.has)
    BY WithinIs
  <2> QED BY <1>0, <1>3, <1>4, <2>3, <2>5, <2>6
<1>5. ASSUME NEW t, m.is = <<"performer", "toggle", t>>
      PROVE  Osc!DecodeClient(o) = Osc!Nothing
  <2>1. path = <<"performer", "toggle", "toggle", t>>
    BY <1>2, <1>5
  <2>2. Len(path) # 1 /\ path[1] = "performer" /\ Tail(path) = <<"toggle", "toggle", t>>
    BY ONLY <2>1
  <2>3. Osc!DecodePerformerClient(<<"toggle", "toggle", t>>, o.args) = Osc!Nothing
    <3>1. /\ Len(<<"toggle", "toggle", t>>) > 1 /\ Head(<<"toggle", "toggle", t>>) = "toggle"
          /\ Tail(<<"toggle", "toggle", t>>) = <<"toggle", t>>
      OBVIOUS
    <3>2. Osc!DecodeToggle(<<"toggle", t>>, o.args) = Osc!Nothing
      BY ToggleIs
    <3>3. Osc!Within("toggle", Osc!Nothing) = Osc!Nothing
      BY WithinNothing
    <3> QED BY ONLY <3>1, <3>2, <3>3 DEF Osc!DecodePerformerClient
  <2>4. Osc!Within("performer", Osc!Nothing) = Osc!Nothing
    BY WithinNothing
  <2> QED BY <1>3, <2>2, <2>3, <2>4
<1>6. Osc!DecodeClient(o) \in {Osc!Nothing, m}
  <2>1. CASE m.is = <<"performer", "ready">> /\ HasFlag(m)
    BY <1>4, <2>1
  <2>2. CASE Toggle(m)
    BY <1>5, <2>2 DEF Toggle
  <2> QED BY ONLY <1>0, <2>1, <2>2 DEF ClientShape
<1> QED BY <1>6 DEF o

\* The levels read their own messages, but for the nested two.
LEMMA LevelReads ==
    ASSUME NEW m \in Osc!ServerMessages
    PROVE  Osc!DecodeLevel(m) = IF m \in Osc!Nested THEN Osc!Nothing ELSE m
<1> DEFINE args == Osc!EncodeServer(m, <<>>).args
           address == Osc!EncodeServer(m, <<>>).address
           Reads == Osc!DecodeLevel(m) = IF m \in Osc!Nested THEN Osc!Nothing ELSE m
<1>0. m = Osc!Message(m.is, m.has) /\ ServerShape(m) /\ args = Args(m)
  BY ServerShapes, ServerAddress DEF Prefixes
<1>1. ASSUME NEW a, NEW b, m.is = <<a, b>>, Osc!DecodeLevel(m) = m PROVE Reads
  <2>1. Len(m.is) # 3
    BY <1>1
  <2> QED BY <1>1, <2>1 DEF Osc!Nested
<1>12. ASSUME m.is[1] = "scene"
      PROVE  Osc!DecodeLevel(m) = Osc!Within("scene", Osc!DecodeScene(Tail(m.is), args))
  BY <1>12 DEF Osc!DecodeLevel, args
<1>13. ASSUME m.is[1] = "performer"
      PROVE  Osc!DecodeLevel(m)
                = Osc!Within("performer", Osc!DecodePerformerServer(address, Tail(m.is), args))
  BY <1>13 DEF Osc!DecodeLevel, args, address
<1>14. ASSUME NEW b \in {"matchmake", "toggle"}, NEW c, m.is = <<"performer", b, c>> PROVE Reads
  <2>1. m.is[1] = "performer" /\ Tail(m.is) = <<b, c>> /\ Len(m.is) = 3
    BY <1>14
  <2>2. address = <<Osc!Empty, "server", "performer", b, b, c>>
    <3> DEFINE prefix == <<>>
    <3>1. prefix \in Prefixes
      BY DEF Prefixes
    <3> HIDE DEF prefix
    <3>2. Osc!EncodeServer(m, prefix).address =
            IF prefix = <<>> THEN <<Osc!Empty, "server", "performer", b, b, c>>
            ELSE <<Osc!Empty, Osc!Empty, "server", "performer", b, b, c>>
      BY ONLY <1>14, <3>1, ServerAddress
    <3> QED BY <3>2 DEF prefix
  <2> HIDE DEF args, address
  <2>3. Len(<<b, c>>) > 1 /\ Head(<<b, c>>) = b /\ Tail(<<b, c>>) = <<c>> /\ ~(Len(<<c>>) > 1)
    OBVIOUS
  <2>4. Osc!DecodeMatchMake(address, <<c>>) = Osc!Nothing
    <3>1. Len(address) # 1
      BY <2>2
    <3> QED BY <3>1 DEF Osc!DecodeMatchMake
  <2>5. Osc!DecodeToggle(<<c>>, args) = Osc!Nothing
    BY <2>3 DEF Osc!DecodeToggle
  <2>6. Osc!DecodePerformerServer(address, <<b, c>>, args) = Osc!Nothing
    <3>1. CASE b = "matchmake"
      BY <2>3, <2>4, <3>1, WithinNothing DEF Osc!DecodePerformerServer
    <3>2. CASE b = "toggle"
      BY <2>3, <2>5, <3>2, WithinNothing DEF Osc!DecodePerformerServer
    <3> QED BY <3>1, <3>2
  <2>7. Osc!DecodeLevel(m) = Osc!Nothing
    BY <1>13, <2>1, <2>6, WithinNothing
  <2> QED BY <2>1, <2>7 DEF Osc!Nested
<1> HIDE DEF args, address
<1>2. ASSUME m.is[1] = "status"
      PROVE  Osc!DecodeLevel(m) = Osc!Within("status", Osc!DecodeStatus(Tail(m.is), args))
  BY <1>2 DEF Osc!DecodeLevel, args
<1>3. ASSUME m.is[1] = "backing"
      PROVE  Osc!DecodeLevel(m) = Osc!Within("backing", Osc!DecodeBacking(Tail(m.is), args))
  BY <1>3 DEF Osc!DecodeLevel, args
<1>4. ASSUME NEW w \in Statuses, m.is = <<"status", w>>, HasMember(m)
      PROVE  Osc!DecodeLevel(m) = m
  <2>1. PICK id \in Users, n \in Osc!UserNumbers :
          /\ m.has = <<<<"user", id>>, <<"type", n>>>>
          /\ Args(m) = <<<<"int", id>>, <<"int", n>>>>
    BY <1>4, ArgsAre
  <2>2. id % 65536 = id
    <3>1. id \in 0..(Vrl!Bits16 - 1)
      BY SizeAssumption
    <3>2. Vrl!Bits16 \in Nat
      BY DEF Vrl!Bits16
    <3>3. id \in Nat /\ id < Vrl!Bits16
      BY ONLY <3>1, <3>2
    <3>4. Vrl!U16(id) = id
      BY ONLY <3>3, U16Is
    <3> QED BY ONLY <3>4 DEF Vrl!U16, Vrl!Bits16
  <2>3. Osc!DecodeMember(id, n) = m.has
    BY ONLY <2>1, <2>2 DEF Osc!DecodeMember
  <2>4. /\ Len(args) = 2 /\ DOMAIN args = 1..2 /\ args[1] = <<"int", id>> /\ args[2] = <<"int", n>>
    BY ONLY <1>0, <2>1
  <2>5. ~\E k \in DOMAIN args : args[k][1] # "int"
    BY ONLY <2>4
  <2>6. args[1][2] = id /\ args[2][2] = n
    BY ONLY <2>4
  <2>7. m.has # <<>>
    BY ONLY <2>1
  <2>8. Len(<<w>>) = 1 /\ (<<w>>)[1] = w /\ w \in {"useradd", "userremove", "userreconnect"}
    BY DEF Statuses
  <2>9. Osc!DecodeStatus(<<w>>, args) = Osc!Message(<<w>>, m.has)
    BY ONLY <2>3, <2>4, <2>5, <2>6, <2>7, <2>8 DEF Osc!DecodeStatus
  <2>10. Osc!Within("status", Osc!Message(<<w>>, m.has)) = Osc!Message(<<"status", w>>, m.has)
    <3>1. w # "panic"
      BY DEF Statuses
    <3> QED BY <3>1, WithinIs
  <2>11. m.is[1] = "status" /\ Tail(m.is) = <<w>>
    BY ONLY <1>4
  <2> QED BY <1>0, <1>2, <1>4, <2>9, <2>10, <2>11
<1>5. ASSUME NEW w \in {"stop", "start", "new"}, m.is = <<"backing", w>>,
             Osc!DecodeBacking(<<w>>, args) = Osc!Message(<<w>>, m.has)
      PROVE  Osc!DecodeLevel(m) = m
  <2>1. m.is[1] = "backing" /\ Tail(m.is) = <<w>>
    BY ONLY <1>5
  <2>2. Osc!Within("backing", Osc!Message(<<w>>, m.has)) = Osc!Message(<<"backing", w>>, m.has)
    BY WithinIs
  <2> QED BY <1>0, <1>3, <1>5, <2>1, <2>2
<1>6. ASSUME m.is = <<"backing", "start">>, HasCount(m)
      PROVE  Osc!DecodeLevel(m) = m
  <2>1. PICK n \in Numbers : m.has = <<<<"count", n>>>> /\ Args(m) = <<<<"int", n>>>>
    BY <1>6, ArgsAre
  <2>2. args # <<>> /\ args[1][1] = "int" /\ <<<<"count", args[1][2]>>>> = m.has
    BY ONLY <1>0, <2>1
  <2>3. <<"start">> # <<"stop">> /\ <<"start">> # <<"new">>
    OBVIOUS
  <2>4. Osc!DecodeBacking(<<"start">>, args) = Osc!Message(<<"start">>, m.has)
    BY ONLY <2>2, <2>3 DEF Osc!DecodeBacking
  <2> QED BY <1>5, <1>6, <2>4
<1>7. ASSUME m.is = <<"backing", "new">>, HasName(m)
      PROVE  Osc!DecodeLevel(m) = m
  <2>1. PICK s \in Songs : m.has = <<<<"name", s>>>> /\ Args(m) = <<<<"string", s>>>>
    BY <1>7, ArgsAre
  <2>2. args # <<>> /\ args[1][1] = "string" /\ <<<<"name", args[1][2]>>>> = m.has
    BY ONLY <1>0, <2>1
  <2>3. <<"new">> # <<"stop">> /\ "string" # "int"
    OBVIOUS
  <2>4. Osc!DecodeBacking(<<"new">>, args) = Osc!Message(<<"new">>, m.has)
    BY ONLY <2>2, <2>3 DEF Osc!DecodeBacking
  <2> QED BY <1>5, <1>7, <2>4
<1>8. ASSUME m.is = <<"backing", "stop">>, m.has = <<>>
      PROVE  Osc!DecodeLevel(m) = m
  <2>1. Osc!DecodeBacking(<<"stop">>, args) = Osc!Message(<<"stop">>, m.has)
    BY ONLY <1>8 DEF Osc!DecodeBacking
  <2> QED BY <1>5, <1>8, <2>1
<1>9. ASSUME m.is = <<"scene", "state">>, HasCount(m)
      PROVE  Osc!DecodeLevel(m) = m
  <2>1. PICK n \in Numbers : m.has = <<<<"count", n>>>> /\ Args(m) = <<<<"int", n>>>>
    BY <1>9, ArgsAre
  <2>2. Osc!DecodeScene(<<"state">>, args) = Osc!Message(<<"state">>, m.has)
    BY <1>0, <2>1 DEF Osc!DecodeScene
  <2>3. Osc!Within("scene", Osc!Message(<<"state">>, m.has)) = Osc!Message(<<"scene", "state">>, m.has)
    BY WithinIs
  <2>4. m.is[1] = "scene" /\ Tail(m.is) = <<"state">>
    BY ONLY <1>9
  <2> QED BY <1>0, <1>9, <1>12, <2>2, <2>3, <2>4
<1>10. ASSUME m.is = <<"performer", "ready">>, HasFlag(m)
      PROVE  Osc!DecodeLevel(m) = m
  <2>1. PICK b \in BOOLEAN : m.has = <<<<"flag", b>>>> /\ Args(m) = <<<<"bool", b>>>>
    BY <1>10, ArgsAre
  <2>2. Osc!IsFlag(args) /\ <<<<"flag", args[1][2]>>>> = m.has
    BY <1>0, <2>1 DEF Osc!IsFlag
  <2>3. Osc!DecodePerformerServer(address, <<"ready">>, args) = Osc!Message(<<"ready">>, m.has)
    <3>1. ~(Len(<<"ready">>) > 1)
      OBVIOUS
    <3> QED BY <2>2, <3>1 DEF Osc!DecodePerformerServer
  <2>4. Osc!Within("performer", Osc!Message(<<"ready">>, m.has))
          = Osc!Message(<<"performer", "ready">>, m.has)
    BY WithinIs
  <2>5. m.is[1] = "performer" /\ Tail(m.is) = <<"ready">>
    BY ONLY <1>10
  <2> QED BY <1>0, <1>10, <1>13, <2>3, <2>4, <2>5
<1>11. ASSUME m.is \in {<<"status", w>> : w \in Statuses}, HasMember(m)
      PROVE  \E w \in Statuses : m.is = <<"status", w>> /\ Osc!DecodeLevel(m) = m
  BY ONLY <1>4, <1>11
<1> HIDE DEF Reads
<1>15. ASSUME m.is \in {<<"scene", "state">>, <<"backing", "start">>} /\ HasCount(m) PROVE Reads
  BY <1>1, <1>6, <1>9, <1>15
<1>16. ASSUME m.is \in {<<"status", w>> : w \in Statuses} /\ HasMember(m) PROVE Reads
  BY <1>1, <1>11, <1>16
<1>17. ASSUME m.is \in {<<"backing", "stop">>, <<"performer", "matchmake", "request">>} /\ m.has = <<>> PROVE Reads
  BY <1>1, <1>8, <1>14, <1>17
<1>18. ASSUME m.is = <<"backing", "new">> /\ HasName(m) PROVE Reads
  BY <1>1, <1>7, <1>18
<1>19. ASSUME m.is = <<"performer", "ready">> /\ HasFlag(m) PROVE Reads
  BY <1>1, <1>10, <1>19
<1>20. ASSUME Toggle(m) PROVE Reads
  BY <1>14, <1>20 DEF Toggle
<1>21. Reads
  BY ONLY <1>0, <1>15, <1>16, <1>17, <1>18, <1>19, <1>20 DEF ServerShape
<1> QED BY ONLY <1>21 DEF Reads

\* What data a path comes with.
LEMMA DataOf ==
    ASSUME NEW m, ServerShape(m)
    PROVE  /\ m.is \in {<<"scene", "state">>, <<"backing", "start">>} => HasCount(m)
           /\ m.is \in {<<"status", w>> : w \in Statuses} => HasMember(m)
           /\ m.is \in {<<"backing", "stop">>, <<"performer", "matchmake", "request">>} => m.has = <<>>
           /\ m.is = <<"backing", "new">> => HasName(m)
           /\ m.is = <<"performer", "ready">> \/ Toggle(m) => HasFlag(m)
<1>1. \A w : /\ <<"status", w>> \notin {<<"scene", "state">>, <<"backing", "start">>,
                        <<"backing", "stop">>, <<"backing", "new">>, <<"performer", "ready">>}
             /\ <<"status", w>> # <<"performer", "matchmake", "request">>
             /\ \A t : <<"status", w>> # <<"performer", "toggle", t>>
  OBVIOUS
<1>2. \A t : <<"performer", "toggle", t>> \notin
        {<<"scene", "state">>, <<"backing", "start">>, <<"backing", "stop">>,
         <<"backing", "new">>, <<"performer", "ready">>, <<"performer", "matchmake", "request">>}
  OBVIOUS
<1> QED BY <1>1, <1>2 DEF ServerShape, Toggle

\* Different data of a path become different arguments.
LEMMA DataApart ==
    ASSUME NEW m, NEW n, Args(m) = Args(n),
           \/ HasCount(m) /\ HasCount(n)
           \/ HasName(m) /\ HasName(n)
           \/ HasFlag(m) /\ HasFlag(n)
           \/ HasMember(m) /\ HasMember(n)
    PROVE  m.has = n.has
<1>1. CASE HasCount(m) /\ HasCount(n)
  <2>1. PICK x \in Numbers : m.has = <<<<"count", x>>>> /\ Args(m) = <<<<"int", x>>>>
    BY <1>1, ArgsAre
  <2>2. PICK y \in Numbers : n.has = <<<<"count", y>>>> /\ Args(n) = <<<<"int", y>>>>
    BY <1>1, ArgsAre
  <2>3. <<<<"int", x>>>> = <<<<"int", y>>>>
    BY <2>1, <2>2
  <2>4. x = y
    BY ONLY <2>3
  <2> QED BY <2>1, <2>2, <2>4
<1>2. CASE HasName(m) /\ HasName(n)
  <2>1. PICK x \in Songs : m.has = <<<<"name", x>>>> /\ Args(m) = <<<<"string", x>>>>
    BY <1>2, ArgsAre
  <2>2. PICK y \in Songs : n.has = <<<<"name", y>>>> /\ Args(n) = <<<<"string", y>>>>
    BY <1>2, ArgsAre
  <2>3. <<<<"string", x>>>> = <<<<"string", y>>>>
    BY <2>1, <2>2
  <2>4. x = y
    BY ONLY <2>3
  <2> QED BY <2>1, <2>2, <2>4
<1>3. CASE HasFlag(m) /\ HasFlag(n)
  <2>1. PICK x \in BOOLEAN : m.has = <<<<"flag", x>>>> /\ Args(m) = <<<<"bool", x>>>>
    BY <1>3, ArgsAre
  <2>2. PICK y \in BOOLEAN : n.has = <<<<"flag", y>>>> /\ Args(n) = <<<<"bool", y>>>>
    BY <1>3, ArgsAre
  <2>3. <<<<"bool", x>>>> = <<<<"bool", y>>>>
    BY <2>1, <2>2
  <2>4. x = y
    BY ONLY <2>3
  <2> QED BY <2>1, <2>2, <2>4
<1>4. CASE HasMember(m) /\ HasMember(n)
  <2>1. PICK x \in Users, a \in Osc!UserNumbers :
          /\ m.has = <<<<"user", x>>, <<"type", a>>>>
          /\ Args(m) = <<<<"int", x>>, <<"int", a>>>>
    BY <1>4, ArgsAre
  <2>2. PICK y \in Users, b \in Osc!UserNumbers :
          /\ n.has = <<<<"user", y>>, <<"type", b>>>>
          /\ Args(n) = <<<<"int", y>>, <<"int", b>>>>
    BY <1>4, ArgsAre
  <2>3. <<<<"int", x>>, <<"int", a>>>> = <<<<"int", y>>, <<"int", b>>>>
    BY <2>1, <2>2
  <2>4. x = y /\ a = b
    BY ONLY <2>3
  <2> QED BY <2>1, <2>2, <2>4
<1> QED BY <1>1, <1>2, <1>3, <1>4

\* Different paths become different addresses, behind the same prefix.
LEMMA PathsApart ==
    ASSUME NEW m, NEW n, NEW prefix \in Prefixes, ServerShape(m), ServerShape(n),
           Osc!EncodeServer(m, prefix).address = Osc!EncodeServer(n, prefix).address
    PROVE  m.is = n.is
<1> DEFINE E == Osc!Empty
           Two(x) == \E a, b : x.is = <<a, b>>
           Three(x) == \E a, b, c : x.is = <<a, b, c>>
<1>1. ASSUME NEW x, ServerShape(x) PROVE Two(x) \/ Three(x)
  BY <1>1 DEF ServerShape, Toggle
<1>2. ASSUME NEW x, NEW a, NEW b, x.is = <<a, b>>
      PROVE  Osc!EncodeServer(x, prefix).address =
                IF prefix = <<>> THEN <<E, "server", a, b>> ELSE <<E, E, "server", a, b>>
  BY ONLY <1>2, prefix \in Prefixes, ServerAddress
<1>3. ASSUME NEW x, NEW a, NEW b, NEW c, x.is = <<a, b, c>>
      PROVE  Osc!EncodeServer(x, prefix).address =
                IF prefix = <<>> THEN <<E, "server", a, b, b, c>>
                ELSE <<E, E, "server", a, b, b, c>>
  BY ONLY <1>3, prefix \in Prefixes, ServerAddress
<1> HIDE DEF E
<1>4. CASE Two(m) /\ Two(n)
  <2>1. PICK a, b : m.is = <<a, b>>
    BY <1>4
  <2>2. PICK c, d : n.is = <<c, d>>
    BY <1>4
  <2>3. \/ <<E, "server", a, b>> = <<E, "server", c, d>>
        \/ <<E, E, "server", a, b>> = <<E, E, "server", c, d>>
    <3>1. Osc!EncodeServer(m, prefix).address =
            IF prefix = <<>> THEN <<E, "server", a, b>> ELSE <<E, E, "server", a, b>>
      BY ONLY <1>2, <2>1
    <3>2. Osc!EncodeServer(n, prefix).address =
            IF prefix = <<>> THEN <<E, "server", c, d>> ELSE <<E, E, "server", c, d>>
      BY ONLY <1>2, <2>2
    <3> QED BY <3>1, <3>2
  <2>4. a = c /\ b = d
    BY ONLY <2>3
  <2> QED BY <2>1, <2>2, <2>4
<1>5. CASE Three(m) /\ Three(n)
  <2>1. PICK a, b, e : m.is = <<a, b, e>>
    BY <1>5
  <2>2. PICK c, d, f : n.is = <<c, d, f>>
    BY <1>5
  <2>3. \/ <<E, "server", a, b, b, e>> = <<E, "server", c, d, d, f>>
        \/ <<E, E, "server", a, b, b, e>> = <<E, E, "server", c, d, d, f>>
    <3>1. Osc!EncodeServer(m, prefix).address =
            IF prefix = <<>> THEN <<E, "server", a, b, b, e>> ELSE <<E, E, "server", a, b, b, e>>
      BY ONLY <1>3, <2>1
    <3>2. Osc!EncodeServer(n, prefix).address =
            IF prefix = <<>> THEN <<E, "server", c, d, d, f>> ELSE <<E, E, "server", c, d, d, f>>
      BY ONLY <1>3, <2>2
    <3> QED BY <3>1, <3>2
  <2>4. a = c /\ b = d /\ e = f
    BY ONLY <2>3
  <2> QED BY <2>1, <2>2, <2>4
<1>6. ASSUME NEW x, NEW y, Two(x), Three(y)
      PROVE  Osc!EncodeServer(x, prefix).address # Osc!EncodeServer(y, prefix).address
  <2>1. PICK a, b : x.is = <<a, b>>
    BY <1>6
  <2>2. PICK c, d, f : y.is = <<c, d, f>>
    BY <1>6
  <2>3. /\ <<E, "server", a, b>> # <<E, "server", c, d, d, f>>
        /\ <<E, E, "server", a, b>> # <<E, E, "server", c, d, d, f>>
    <3>1. /\ Len(<<E, "server", a, b>>) = 4 /\ Len(<<E, "server", c, d, d, f>>) = 6
          /\ Len(<<E, E, "server", a, b>>) = 5 /\ Len(<<E, E, "server", c, d, d, f>>) = 7
      OBVIOUS
    <3> QED BY ONLY <3>1
  <2>4. Osc!EncodeServer(x, prefix).address =
          IF prefix = <<>> THEN <<E, "server", a, b>> ELSE <<E, E, "server", a, b>>
    BY ONLY <1>2, <2>1
  <2>5. Osc!EncodeServer(y, prefix).address =
          IF prefix = <<>> THEN <<E, "server", c, d, d, f>> ELSE <<E, E, "server", c, d, d, f>>
    BY ONLY <1>3, <2>2
  <2> QED BY ONLY <2>3, <2>4, <2>5
<1> QED BY <1>1, <1>4, <1>5, <1>6

\* No two messages of the server look the same.
LEMMA MessagesApart ==
    ASSUME NEW m \in Osc!ServerMessages, NEW n \in Osc!ServerMessages, NEW prefix \in Prefixes,
           Osc!EncodeServer(m, prefix) = Osc!EncodeServer(n, prefix)
    PROVE  m = n
<1>1. /\ m = Osc!Message(m.is, m.has) /\ ServerShape(m)
      /\ n = Osc!Message(n.is, n.has) /\ ServerShape(n)
  BY ServerShapes
<1>2. m.is = n.is
  BY <1>1, PathsApart
<1>3. Args(m) = Args(n)
  BY ServerAddress
<1>4. m.has = n.has
  <2>1. \/ HasCount(m) /\ HasCount(n)
        \/ HasName(m) /\ HasName(n)
        \/ HasFlag(m) /\ HasFlag(n)
        \/ HasMember(m) /\ HasMember(n)
        \/ m.has = <<>> /\ n.has = <<>>
    <3>1. Toggle(m) => Toggle(n)
      BY <1>2 DEF Toggle
    <3>2. CASE m.is \in {<<"scene", "state">>, <<"backing", "start">>}
      <4>1. n.is \in {<<"scene", "state">>, <<"backing", "start">>}
        BY ONLY <1>2, <3>2
      <4>2. HasCount(m) /\ HasCount(n)
        BY ONLY <1>1, <3>2, <4>1, DataOf
      <4> QED BY ONLY <4>2
    <3>3. CASE m.is \in {<<"status", w>> : w \in Statuses}
      BY <1>1, <1>2, <3>3, DataOf
    <3>4. CASE m.is \in {<<"backing", "stop">>, <<"performer", "matchmake", "request">>}
      BY <1>1, <1>2, <3>4, DataOf
    <3>5. CASE m.is = <<"backing", "new">>
      BY <1>1, <1>2, <3>5, DataOf
    <3>6. CASE m.is = <<"performer", "ready">> \/ Toggle(m)
      <4>1. n.is = <<"performer", "ready">> \/ Toggle(n)
        BY ONLY <1>2, <3>1, <3>6
      <4>2. HasFlag(m) /\ HasFlag(n)
        BY ONLY <1>1, <3>6, <4>1, DataOf
      <4> QED BY ONLY <4>2
    <3> QED BY <1>1, <3>2, <3>3, <3>4, <3>5, <3>6 DEF ServerShape
  <2> QED BY <1>3, <2>1, DataApart
<1> QED BY <1>1, <1>2, <1>4

-----------------------------------------------------------------------------
(* The invariant of Codecs, and its theorems. *)

LEMMA OscInitial ==
    ASSUME Osc!OscInit \/ OscIdle
    PROVE  OscInv
<1>1. CASE OscIdle
  BY <1>1 DEF OscIdle, OscInv, OscUnambiguous, Osc!OscUnambiguous
<1>2. CASE Osc!OscInit
  <2>1. /\ \/ said \in [side : {"server"}, prefix : Prefixes, message : Osc!ServerMessages]
           \/ said \in [side : {"client"}, prefix : Prefixes, message : Osc!ClientMessages]
        /\ read = None
    BY <1>2 DEF Osc!OscInit, Prefixes
  <2>2. OscUnambiguous
    BY <2>1, LevelReads, MessagesApart DEF OscUnambiguous, Osc!OscUnambiguous
  <2> QED BY <2>1, <2>2 DEF OscInv, Prefixes
<1> QED BY <1>1, <1>2

LEMMA OscNext ==
    ASSUME OscInv, Osc!Transmit \/ osc' = osc
    PROVE  OscInv'
<1>1. said' = said
  BY DEF Osc!Transmit, osc
<1>2. OscUnambiguous'
  <2>1. CASE osc' = osc
    BY <2>1 DEF osc, OscInv, OscUnambiguous, Osc!OscUnambiguous
  <2>2. CASE Osc!Transmit
    <3>1. said # None
      BY <2>2 DEF Osc!Transmit
    <3>2. read' \in {Osc!Nothing, said.message}
      <4>1. CASE said \in [side : {"server"}, prefix : Prefixes, message : Osc!ServerMessages]
        BY <2>2, <4>1, ServerReads DEF Osc!Transmit
      <4>2. CASE said \in [side : {"client"}, prefix : Prefixes, message : Osc!ClientMessages]
        BY <2>2, <4>2, ClientReads DEF Osc!Transmit
      <4> QED BY <3>1, <4>1, <4>2 DEF OscInv, Prefixes
    <3> QED BY <1>1, <3>1, <3>2 DEF OscInv, OscUnambiguous, Osc!OscUnambiguous
  <2> QED BY <2>1, <2>2
<1> QED BY <1>1, <1>2 DEF OscInv

LEMMA TcpInitial ==
    ASSUME Tcp!TcpInit \/ TcpIdle
    PROVE  TcpInv
BY DEF Tcp!TcpInit, TcpIdle, TcpInv, Tcp!TcpReadsBack

\* A length that fits is kept, and one that does not gets smaller.
LEMMA BodyCut ==
    ASSUME NEW bytes \in Nat
    PROVE  /\ Tcp!BodyLen(bytes) \in Nat
           /\ bytes < BodySpace => Tcp!BodyLen(bytes) = bytes
           /\ bytes >= BodySpace => Tcp!BodyLen(bytes) < bytes
BY SizeAssumption DEF Tcp!BodyLen

\* The lengths in front of the parts are those of the parts, or cut.
LEMMA TcpNext ==
    ASSUME TcpInv, Tcp!Write \/ tcp' = tcp
    PROVE  TcpInv'
<1>1. parts' = parts
  BY DEF Tcp!Write, tcp
<1>2. \A bytes \in Events \union Files : bytes \in Nat
  BY SizeAssumption
<1>3. Tcp!TcpReadsBack'
  <2>1. CASE tcp' = tcp
    BY <2>1 DEF tcp, TcpInv, Tcp!TcpReadsBack
  <2>2. CASE Tcp!Write
    <3>1. PICK title \in {6, 8}, header \in 0..257, body \in Nat :
            parts = Tcp!Parts(title, header, body)
      <4>1. CASE parts \in {Tcp!Parts(6, 0, bytes) : bytes \in Events}
        <5>1. PICK bytes \in Events : parts = Tcp!Parts(6, 0, bytes)
          BY <4>1
        <5>2. bytes \in Nat
          BY <1>2
        <5> QED BY <5>1, <5>2
      <4>2. CASE parts \in {Tcp!Parts(8, 2 + name, bytes) : name \in FileNames, bytes \in Files}
        <5>1. PICK name \in FileNames, bytes \in Files : parts = Tcp!Parts(8, 2 + name, bytes)
          BY <4>2
        <5>2. bytes \in Nat /\ name \in 1..255
          BY <1>2, SizeAssumption
        <5>3. 2 + name \in 0..257
          BY <5>2
        <5> QED BY <5>1, <5>2, <5>3
      <4> QED BY <2>2, <4>1, <4>2 DEF TcpInv, Tcp!Write
    <3>2. parts.title = title /\ parts.header = header /\ parts.body = body
      BY <3>1 DEF Tcp!Parts
    <3>3. title % 256 = title /\ Tcp!HeaderLen(header) = header
      BY DEF Tcp!HeaderLen
    <3> DEFINE len == Tcp!BodyLen(body)
    <3>4. /\ written'.titleLen = title /\ written'.headerLen = header /\ written'.bodyLen = len
          /\ written'.bytes = 1 + title + 2 + 4 + header + body
      BY <2>2, <3>2, <3>3 DEF Tcp!Write
    <3>5. /\ len \in Nat /\ BodySpace \in Nat
          /\ body < BodySpace => len = body
          /\ body >= BodySpace => len < body
      BY <3>1, BodyCut, SizeAssumption
    <3> HIDE DEF len
    <3>6. /\ body < BodySpace => 7 + title + header + len = 1 + title + 2 + 4 + header + body
          /\ body >= BodySpace => 7 + title + header + len < 1 + title + 2 + 4 + header + body
      BY <3>1, <3>5
    <3> QED BY <1>1, <3>2, <3>4, <3>5, <3>6 DEF Tcp!TcpReadsBack
  <2> QED BY <2>1, <2>2
<1> QED BY <1>1, <1>3 DEF TcpInv

\* What leaves the server is what the invariant says of it at every step, for
\* all messages, sizes and bundles the constants name.
THEOREM CodecsInvariance == Spec => []CodecsInv
<1>1. Init => CodecsInv
  BY OscInitial, TcpInitial, VrlInitial DEF Init, CodecsInv
<1>2. CodecsInv /\ [Next]_vars => CodecsInv'
  <2> SUFFICES ASSUME CodecsInv, [Next]_vars PROVE CodecsInv'
    OBVIOUS
  <2>1. OscInv /\ TcpInv /\ VrlInv
    BY DEF CodecsInv
  <2>2. CASE Osc!Transmit /\ UNCHANGED <<tcp, vrl>>
    BY <2>1, <2>2, OscNext, TcpNext, VrlStays DEF CodecsInv
  <2>3. CASE Tcp!Write /\ UNCHANGED <<osc, vrl>>
    BY <2>1, <2>3, OscNext, TcpNext, VrlStays DEF CodecsInv
  <2>4. CASE Vrl!Next /\ UNCHANGED <<osc, tcp>>
    BY <2>1, <2>4, OscNext, TcpNext, VrlNext DEF CodecsInv
  <2>5. CASE Over \/ UNCHANGED vars
    <3>1. osc' = osc /\ tcp' = tcp /\ vrl' = vrl
      BY <2>5 DEF Over, vars
    <3> QED BY <2>1, <3>1, OscNext, TcpNext, VrlStays DEF CodecsInv
  <2> QED BY <2>2, <2>3, <2>4, <2>5 DEF Next
<1> QED BY <1>1, <1>2, PTL DEF Spec

\* Motion capture goes out converted as a whole or as it came but for the
\* filtered bones (VRMConversion in vrm_packet.rs), however long its bundle is.
THEOREM BundlesConvertedWhole == Spec => []ConvertedWhole
<1>1. CodecsInv => ConvertedWhole
  BY VrlConverted DEF CodecsInv, ConvertedWhole
<1> QED BY <1>1, CodecsInvariance, PTL

\* The lengths in front of a TCP packet (vrl_tcp_packet.rs) and in the header of
\* a datagram (vrl_packet.rs) are those of what follows, but for the body of a TCP
\* packet that takes 2^32 bytes or more: its length is cut.
THEOREM FramesAreReadBack == Spec => []FramesReadBack
<1>1. CodecsInv => FramesReadBack
  BY DEF CodecsInv, TcpInv, VrlInv, FramesReadBack
<1> QED BY <1>1, CodecsInvariance, PTL

\* The decoders of osc_messages_in.rs and osc_messages_out.rs read of an encoded
\* message that message or nothing, each level of the server's messages reads its own
\* but for the nested two, which read nothing, and no two messages look alike.
THEOREM MessagesUnambiguous == Spec => []OscUnambiguous
<1>1. CodecsInv => OscUnambiguous
  BY DEF CodecsInv, OscInv
<1> QED BY <1>1, CodecsInvariance, PTL
=============================================================================
