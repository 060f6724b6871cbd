--------------------------- MODULE PeripheralsProofs ---------------------------
(* What the three parts of Peripherals promise, for any pins, buffer,       *)
(* silence, bytes, checksum and stream.                                     *)
(*                                                                          *)
(* The manager of the pins: what std::remove keeps of a list is found by    *)
(* induction over the list, and clean() by how far it has come.  The        *)
(* receiver: what the timer says about the silence at each state, and what  *)
(* loop() may find at each of its places.  The parser keeps within its      *)
(* buffer since its count is set back with the length and the states        *)
(* between do not touch it; and a message is returned since checksum and    *)
(* fields are, at each state, those of the bytes heard so far.              *)
EXTENDS Peripherals, TLAPS, SequenceTheorems, NaturalsInduction, WellFoundedInduction

(* A set of naturals has a least element: induction over the naturals.       *)
LEMMA LeastElement ==
    ASSUME NEW T \in SUBSET Nat, T # {}
    PROVE  \E x \in T : \A y \in T : x <= y
  <1> DEFINE Less == {xy \in Nat \X Nat : xy[1] < xy[2]}
  <1>1. IsWellFoundedOn(Less, Nat)
    BY NatLessThanWellFounded DEF OpToRel
  <1>2. \A x, y \in Nat : y < x => <<y, x>> \in Less
    OBVIOUS
  <1> HIDE DEF Less
  <1>3. PICK x \in T : \A y \in T : ~(<<y, x>> \in Less)
    BY <1>1, WFMin
  <1>4. ASSUME NEW y \in T PROVE x <= y
    <2>1. x \in Nat /\ y \in Nat /\ ~(y < x)
      BY <1>2, <1>3
    <2> QED BY <2>1
  <1> QED BY <1>4

(* What is true of 0, and of i + 1 when it is of i, is true up to n.         *)
LEMMA UpTo ==
    ASSUME NEW n \in Nat, NEW T, 0 \in T,
           \A i \in 0 .. n : i < n /\ i \in T => i + 1 \in T
    PROVE  0 .. n \subseteq T
  <1> DEFINE Bad == {i \in 0 .. n : i \notin T}
  <1>1. SUFFICES Bad = {}
    OBVIOUS
  <1>2. ASSUME Bad # {} PROVE FALSE
    <2>1. Bad \in SUBSET Nat
      OBVIOUS
    <2>2. PICK x \in Bad : \A y \in Bad : x <= y
      <3> HIDE DEF Bad
      <3> QED BY <1>2, <2>1, LeastElement
    <2>3. x \in 0 .. n /\ x \notin T
      BY <2>2
    <2>4. PICK j \in 0 .. n : x = j + 1 /\ j < n
      <3>1. x # 0
        BY <2>3
      <3>2. x - 1 \in 0 .. n /\ x = (x - 1) + 1 /\ x - 1 < n
        BY <2>3, <3>1
      <3> QED BY <3>2
    <2>5. j \in T
      <3>1. ~(x <= j)
        BY <2>4
      <3> QED BY <2>2, <2>4, <3>1
    <2> QED BY <2>3, <2>4, <2>5
  <1> QED BY <1>2

(* A function on 0 .. n that is defined from its value before exists, ...    *)
\* from a value and the next argument to the next value
Steps(V) == [V \X Nat -> V]

Follows(w, n, base, F) ==
    /\ w[0] = base
    /\ \A i \in 0 .. n : i < n => w[i + 1] = F[<<w[i], i + 1>>]

LEMMA RecursionExists ==
    ASSUME NEW n \in Nat, NEW V, NEW base \in V, NEW F \in Steps(V)
    PROVE  \E w \in [0 .. n -> V] : Follows(w, n, base, F)
  <1> DEFINE T == {k \in Nat : \E w \in [0 .. k -> V] : Follows(w, k, base, F)}
  <1>1. 0 \in T
    <2>1. [i \in 0 .. 0 |-> base] \in [0 .. 0 -> V]
      OBVIOUS
    <2>2. Follows([i \in 0 .. 0 |-> base], 0, base, F)
      BY DEF Follows
    <2> QED BY <2>1, <2>2
  <1>2. ASSUME NEW k \in 0 .. n, k < n, k \in T PROVE k + 1 \in T
    <2>1. PICK m \in Nat : m = k
      OBVIOUS
    <2>2. PICK w \in [0 .. m -> V] : Follows(w, m, base, F)
      BY <1>2, <2>1
    <2> DEFINE v == [i \in 0 .. m + 1 |-> IF i = m + 1 THEN F[<<w[m], m + 1>>] ELSE w[i]]
    <2>3. \A i \in 0 .. m : i \in 0 .. m + 1 /\ v[i] = w[i]
      OBVIOUS
    <2>4. m + 1 \in 0 .. m + 1 /\ v[m + 1] = F[<<w[m], m + 1>>] /\ m + 1 \in Nat /\ m \in 0 .. m
      OBVIOUS
    <2>5. \A i \in 0 .. m + 1 : i # m + 1 => i \in 0 .. m
      OBVIOUS
    <2>6. v \in [0 .. m + 1 -> V]
      <3>1. F[<<w[m], m + 1>>] \in V
        BY <2>4 DEF Steps
      <3>2. ASSUME NEW i \in 0 .. m + 1
            PROVE  (IF i = m + 1 THEN F[<<w[m], m + 1>>] ELSE w[i]) \in V
        BY <2>5, <3>1
      <3> QED BY <3>2
    <2> HIDE DEF v
    <2>7. Follows(v, m + 1, base, F)
      <3>1. v[0] = base
        <4>1. 0 \in 0 .. m
          OBVIOUS
        <4> QED BY <2>2, <2>3, <4>1 DEF Follows
      <3>2. ASSUME NEW i \in 0 .. m + 1, i < m + 1
            PROVE  v[i + 1] = F[<<v[i], i + 1>>]
        <4>1. i \in 0 .. m /\ v[i] = w[i]
          BY <2>3, <2>5, <3>2
        <4>2. CASE i = m
          BY <2>4, <4>1, <4>2
        <4>3. CASE i # m
          <5>1. i < m /\ i + 1 \in 0 .. m
            BY <4>1, <4>3
          <5>2. w[i + 1] = F[<<w[i], i + 1>>]
            BY <2>2, <4>1, <5>1 DEF Follows
          <5> QED BY <2>3, <4>1, <5>1, <5>2
        <4> QED BY <4>2, <4>3
      <3> QED BY <3>1, <3>2 DEF Follows
    <2> QED BY <2>1, <2>4, <2>6, <2>7
  <1>3. 0 .. n \subseteq T
    <2> HIDE DEF T
    <2> QED BY <1>1, <1>2, UpTo
  <1>4. n \in 0 .. n
    OBVIOUS
  <1> QED BY <1>3, <1>4

(* ... and is the only one, even if of two only the rule is known.           *)
Obeys(w, n, V, base, F) ==
    /\ w[0] = base
    /\ \A i \in 0 .. n : i < n /\ w[i] \in V => w[i + 1] = F[<<w[i], i + 1>>]

Agree(v, w, n, V) == \A i \in 0 .. n : v[i] \in V /\ v[i] = w[i]

LEMMA RecursionAgrees ==
    ASSUME NEW n, NEW V, NEW base, NEW F, n \in Nat, base \in V, F \in Steps(V),
           NEW v, Obeys(v, n, V, base, F), NEW w, Obeys(w, n, V, base, F)
    PROVE  Agree(v, w, n, V)
  <1> DEFINE T == {i \in Nat : v[i] \in V /\ v[i] = w[i]}
  <1>1. 0 \in T
    BY DEF Obeys
  <1>2. ASSUME NEW i \in 0 .. n, i < n, i \in T PROVE i + 1 \in T
    <2>1. v[i] \in V /\ v[i] = w[i]
      BY <1>2
    <2>2. v[i + 1] = F[<<v[i], i + 1>>] /\ w[i + 1] = F[<<w[i], i + 1>>]
      BY <1>2, <2>1 DEF Obeys
    <2>3. i + 1 \in Nat
      OBVIOUS
    <2> QED BY <2>1, <2>2, <2>3 DEF Steps
  <1>3. 0 .. n \subseteq T
    <2> HIDE DEF T
    <2> QED BY <1>1, <1>2, UpTo
  <1> QED BY <1>3 DEF Agree

-----------------------------------------------------------------------------
(* unexportPin: what std::remove keeps.                                      *)
KeptStep(s, p, V) ==
    [ki \in Seq(V) \X Nat |->
        IF ki[2] \in 1 .. Len(s)
          THEN IF s[ki[2]] = p THEN ki[1] ELSE Append(ki[1], s[ki[2]])
          ELSE <<>>]

LEMMA KeptDefined ==
    ASSUME NEW V, NEW s \in Seq(V), NEW p
    PROVE  Pins!Kept(s, p) =
             [i \in 0 .. Len(s) |->
                IF i = 0 THEN <<>>
                ELSE IF s[i] = p THEN Pins!Kept(s, p)[i - 1]
                     ELSE Append(Pins!Kept(s, p)[i - 1], s[i])]
  <1>1. PICK n \in Nat : n = Len(s) /\ \A i \in 1 .. n : s[i] \in V
    <2>1. Len(s) \in Nat /\ \A i \in 1 .. Len(s) : s[i] \in V
      BY ElementOfSeq, LenProperties
    <2> QED BY <2>1
  <1> DEFINE F == KeptStep(s, p, V)
  <1>2. ASSUME NEW k \in Seq(V), NEW i \in Nat
        PROVE  (IF i \in 1 .. n THEN IF s[i] = p THEN k ELSE Append(k, s[i]) ELSE <<>>) \in Seq(V)
    <2>1. CASE i \in 1 .. n
      <3>1. Append(k, s[i]) \in Seq(V)
        BY <1>1, <2>1, AppendProperties
      <3> QED BY <2>1, <3>1
    <2>2. CASE ~(i \in 1 .. n)
      BY <2>2
    <2> QED BY <2>1, <2>2
  <1>3. F \in Steps(Seq(V))
    <2>1. ASSUME NEW ki \in Seq(V) \X Nat
          PROVE  (IF ki[2] \in 1 .. n
                    THEN IF s[ki[2]] = p THEN ki[1] ELSE Append(ki[1], s[ki[2]])
                    ELSE <<>>) \in Seq(V)
      <3>1. ki[1] \in Seq(V) /\ ki[2] \in Nat
        OBVIOUS
      <3> QED BY <1>2, <3>1
    <2> QED BY <1>1, <2>1 DEF KeptStep, Steps
  <1>4. \A k \in Seq(V), i \in 1 .. n :
           F[<<k, i>>] = IF s[i] = p THEN k ELSE Append(k, s[i])
    <2>1. ASSUME NEW k \in Seq(V), NEW i \in 1 .. n
          PROVE  F[<<k, i>>] = IF s[i] = p THEN k ELSE Append(k, s[i])
      <3>1. <<k, i>> \in Seq(V) \X Nat /\ i \in 1 .. n
        OBVIOUS
      <3> QED BY <1>1, <3>1 DEF KeptStep
    <2> QED BY <2>1
  <1> HIDE DEF F
  <1>5. PICK w \in [0 .. n -> Seq(V)] : Follows(w, n, <<>>, F)
    <2>1. <<>> \in Seq(V)
      OBVIOUS
    <2> QED BY <1>3, <2>1, RecursionExists
  <1>6. ASSUME NEW i \in 0 .. n
        PROVE  w[i] = IF i = 0 THEN <<>>
                      ELSE IF s[i] = p THEN w[i - 1] ELSE Append(w[i - 1], s[i])
    <2>1. CASE i = 0
      BY <1>5, <2>1 DEF Follows
    <2>2. CASE i # 0
      <3>1. PICK j \in 0 .. n : i = j + 1 /\ j < n /\ i - 1 = j /\ i \in 1 .. n
        <4>1. i - 1 \in 0 .. n /\ i = (i - 1) + 1 /\ i - 1 < n /\ i \in 1 .. n
          BY <2>2
        <4> QED BY <4>1
      <3>2. w[i] = F[<<w[j], i>>] /\ w[j] \in Seq(V)
        BY <1>5, <3>1 DEF Follows
      <3>3. w[i] = IF s[i] = p THEN w[j] ELSE Append(w[j], s[i])
        BY <1>4, <3>1, <3>2
      <3> QED BY <2>2, <3>1, <3>3
    <2> QED BY <2>1, <2>2
  <1>7. w = [i \in 0 .. n |-> w[i]]
    OBVIOUS
  <1>8. w = [i \in 0 .. Len(s) |->
                IF i = 0 THEN <<>>
                ELSE IF s[i] = p THEN w[i - 1] ELSE Append(w[i - 1], s[i])]
    BY <1>1, <1>6, <1>7
  <1> QED BY <1>8, Zenon DEF Pins!Kept

(* The other entries stay, all of the removed one go.                        *)
LEMMA RemoveTakesAll ==
    ASSUME NEW V, NEW s \in Seq(V), NEW p
    PROVE  /\ Pins!Kept(s, p)[Len(s)] \in Seq(V)
           /\ Len(Pins!Kept(s, p)[Len(s)]) <= Len(s)
           /\ (\E j \in 1 .. Len(s) : s[j] = p) => Len(Pins!Kept(s, p)[Len(s)]) < Len(s)
           /\ \A x : Pins!Contains(Pins!Kept(s, p)[Len(s)], x)
                        <=> x # p /\ Pins!Contains(s, x)
  <1>1. PICK n \in Nat : n = Len(s) /\ \A i \in 1 .. n : s[i] \in V
    <2>1. Len(s) \in Nat /\ \A i \in 1 .. Len(s) : s[i] \in V
      BY ElementOfSeq, LenProperties
    <2> QED BY <2>1
  <1>2. PICK k : k = Pins!Kept(s, p)
    OBVIOUS
  <1>3. k = [i \in 0 .. n |->
                IF i = 0 THEN <<>> ELSE IF s[i] = p THEN k[i - 1] ELSE Append(k[i - 1], s[i])]
    <2>1. Pins!Kept(s, p) =
             [i \in 0 .. Len(s) |->
                IF i = 0 THEN <<>>
                ELSE IF s[i] = p THEN Pins!Kept(s, p)[i - 1]
                     ELSE Append(Pins!Kept(s, p)[i - 1], s[i])]
      BY KeptDefined
    <2> QED BY <1>1, <1>2, <2>1
  <1> DEFINE Holds(i) ==
                /\ k[i] \in Seq(V) /\ Len(k[i]) <= i
                /\ (\E j \in 1 .. i : s[j] = p) => Len(k[i]) < i
                /\ \A x : (\E j \in 1 .. Len(k[i]) : k[i][j] = x)
                             <=> x # p /\ \E j \in 1 .. i : s[j] = x
             T == {i \in Nat : Holds(i)}
  <1>4. 0 \in T
    <2>1. k[0] = <<>>
      <3>1. 0 \in 0 .. n
        OBVIOUS
      <3> QED BY <1>3, <3>1
    <2>2. k[0] \in Seq(V) /\ Len(k[0]) = 0 /\ 1 .. 0 = {}
      BY <2>1
    <2> QED BY <2>2
  <1>5. ASSUME NEW i \in 0 .. n, i < n, i \in T PROVE i + 1 \in T
    <2>1. i + 1 \in 0 .. n /\ i + 1 # 0 /\ (i + 1) - 1 = i /\ i + 1 \in 1 .. n
      BY <1>5
    <2>2. k[i + 1] = IF s[i + 1] = p THEN k[i] ELSE Append(k[i], s[i + 1])
      BY <1>3, <2>1
    <2>3. PICK t \in Seq(V), m \in Nat : t = k[i] /\ m = Len(t) /\ m <= i
      <3>1. k[i] \in Seq(V) /\ Len(k[i]) <= i
        BY <1>5
      <3> QED BY <3>1, LenProperties
    <2>4. (\E j \in 1 .. i : s[j] = p) => m < i
      BY <1>5, <2>3
    <2>5. \A x : (\E j \in 1 .. m : t[j] = x) <=> x # p /\ \E j \in 1 .. i : s[j] = x
      BY <1>5, <2>3
    <2>6. \A x : (\E j \in 1 .. i + 1 : s[j] = x) <=> (\E j \in 1 .. i : s[j] = x) \/ s[i + 1] = x
      <3>1. \A j \in 1 .. i + 1 : j \in 1 .. i \/ j = i + 1
        BY <1>5
      <3>2. i + 1 \in 1 .. i + 1 /\ \A j \in 1 .. i : j \in 1 .. i + 1
        BY <1>5
      <3> QED BY <3>1, <3>2
    <2>7. CASE s[i + 1] = p
      <3>1. k[i + 1] = t
        BY <2>2, <2>3, <2>7
      <3>2. m <= i + 1 /\ m < i + 1
        BY <2>3
      <3>3. \A x : (\E j \in 1 .. m : t[j] = x) <=> x # p /\ \E j \in 1 .. i + 1 : s[j] = x
        BY <2>5, <2>6, <2>7, Zenon
      <3>4. Holds(i + 1)
        BY <2>3, <3>1, <3>2, <3>3
      <3> QED BY <2>1, <3>4
    <2>8. CASE s[i + 1] # p
      <3>1. PICK u \in Seq(V) : /\ u = k[i + 1] /\ Len(u) = m + 1 /\ u[m + 1] = s[i + 1]
                                /\ \A j \in 1 .. m : u[j] = t[j]
        <4>1. s[i + 1] \in V
          BY <1>1, <2>1
        <4>2. k[i + 1] = Append(t, s[i + 1])
          BY <2>2, <2>3, <2>8
        <4>3. /\ Append(t, s[i + 1]) \in Seq(V) /\ Len(Append(t, s[i + 1])) = m + 1
              /\ Append(t, s[i + 1])[m + 1] = s[i + 1]
              /\ \A j \in 1 .. m : Append(t, s[i + 1])[j] = t[j]
          BY <2>3, <4>1, AppendProperties
        <4> QED BY <4>2, <4>3
      <3>2. m + 1 <= i + 1
        BY <2>3
      <3>3. (\E j \in 1 .. i + 1 : s[j] = p) => m + 1 < i + 1
        <4>1. (\E j \in 1 .. i + 1 : s[j] = p) => (\E j \in 1 .. i : s[j] = p)
          BY <2>6, <2>8
        <4>2. m < i => m + 1 < i + 1
          BY <2>3
        <4> QED BY <2>4, <4>1, <4>2
      <3>4. \A x : (\E j \in 1 .. m + 1 : u[j] = x) <=> (\E j \in 1 .. m : t[j] = x) \/ s[i + 1] = x
        <4>1. \A j \in 1 .. m + 1 : j \in 1 .. m \/ j = m + 1
          OBVIOUS
        <4>2. m + 1 \in 1 .. m + 1 /\ \A j \in 1 .. m : j \in 1 .. m + 1
          OBVIOUS
        <4> QED BY <3>1, <4>1, <4>2
      <3>5. \A x : (\E j \in 1 .. m + 1 : u[j] = x) <=> x # p /\ \E j \in 1 .. i + 1 : s[j] = x
        BY <2>5, <2>6, <2>8, <3>4, Zenon
      <3>6. Holds(i + 1)
        BY <3>1, <3>2, <3>3, <3>5
      <3> QED BY <2>1, <3>6
    <2> QED BY <2>7, <2>8
  <1>6. 0 .. n \subseteq T
    <2> HIDE DEF T
    <2> QED BY <1>4, <1>5, UpTo
  <1>7. Holds(n)
    <2>1. n \in T
      <3>1. n \in 0 .. n
        OBVIOUS
      <3> HIDE DEF T
      <3> QED BY <1>6, <3>1
    <2> QED BY <2>1
  <1> QED BY <1>1, <1>2, <1>7 DEF Pins!Contains

(* An entry that is there once goes, and those behind it move up.            *)
LEMMA RemoveTakesOne ==
    ASSUME NEW V, NEW s \in Seq(V), NEW c \in 1 .. Len(s),
           \A j \in 1 .. Len(s) : s[j] = s[c] => j = c
    PROVE  /\ Len(Pins!Kept(s, s[c])[Len(s)]) = Len(s) - 1
           /\ \A j \in 1 .. Len(s) - 1 :
                 Pins!Kept(s, s[c])[Len(s)][j] = IF j < c THEN s[j] ELSE s[j + 1]
  <1>1. PICK n \in Nat : n = Len(s) /\ \A i \in 1 .. n : s[i] \in V
    <2>1. Len(s) \in Nat /\ \A i \in 1 .. Len(s) : s[i] \in V
      BY ElementOfSeq, LenProperties
    <2> QED BY <2>1
  <1>2. PICK k : k = Pins!Kept(s, s[c])
    OBVIOUS
  <1>3. k = [i \in 0 .. n |->
              IF i = 0 THEN <<>> ELSE IF s[i] = s[c] THEN k[i - 1] ELSE Append(k[i - 1], s[i])]
    <2>1. Pins!Kept(s, s[c]) =
             [i \in 0 .. Len(s) |->
                IF i = 0 THEN <<>>
                ELSE IF s[i] = s[c] THEN Pins!Kept(s, s[c])[i - 1]
                     ELSE Append(Pins!Kept(s, s[c])[i - 1], s[i])]
      BY KeptDefined
    <2> QED BY <1>1, <1>2, <2>1
  <1> DEFINE Holds(i) ==
                /\ k[i] \in Seq(V)
                /\ i < c => Len(k[i]) = i /\ \A j \in 1 .. i : k[i][j] = s[j]
                /\ i >= c => /\ Len(k[i]) = i - 1
                             /\ \A j \in 1 .. i - 1 : k[i][j] = IF j < c THEN s[j] ELSE s[j + 1]
             T == {i \in Nat : Holds(i)}
  <1>4. 0 \in T
    <2>1. k[0] = <<>>
      <3>1. 0 \in 0 .. n
        OBVIOUS
      <3> QED BY <1>3, <3>1
    <2>2. k[0] \in Seq(V) /\ Len(k[0]) = 0 /\ 1 .. 0 = {} /\ ~(0 >= c)
      BY <2>1
    <2> QED BY <2>2
  <1>5. ASSUME NEW i \in 0 .. n, i < n, i \in T PROVE i + 1 \in T
    <2>1. i + 1 \in 0 .. n /\ i + 1 # 0 /\ (i + 1) - 1 = i /\ i + 1 \in 1 .. n /\ i + 1 \in Nat
      BY <1>5
    <2>2. k[i + 1] = IF s[i + 1] = s[c] THEN k[i] ELSE Append(k[i], s[i + 1])
      BY <1>3, <2>1
    <2>3. PICK t \in Seq(V), m \in Nat : t = k[i] /\ m = Len(t)
      <3>1. k[i] \in Seq(V)
        BY <1>5
      <3> QED BY <3>1, LenProperties
    <2>4. CASE i + 1 = c
      <3>1. i < c /\ k[i + 1] = t
        BY <2>2, <2>3, <2>4
      <3>2. m = i /\ \A j \in 1 .. i : t[j] = s[j] /\ j < c
        BY <1>5, <2>3, <2>4
      <3>3. Holds(i + 1)
        BY <2>1, <2>3, <2>4, <3>1, <3>2
      <3> QED BY <2>1, <3>3
    <2>5. CASE i + 1 # c
      <3>1. PICK u \in Seq(V) : /\ u = k[i + 1] /\ Len(u) = m + 1 /\ u[m + 1] = s[i + 1]
                                /\ \A j \in 1 .. m : u[j] = t[j]
        <4>1. s[i + 1] \in V /\ s[i + 1] # s[c]
          BY <1>1, <2>1, <2>5
        <4>2. k[i + 1] = Append(t, s[i + 1])
          BY <2>2, <2>3, <4>1
        <4>3. /\ Append(t, s[i + 1]) \in Seq(V) /\ Len(Append(t, s[i + 1])) = m + 1
              /\ Append(t, s[i + 1])[m + 1] = s[i + 1]
              /\ \A j \in 1 .. m : Append(t, s[i + 1])[j] = t[j]
          BY <2>3, <4>1, AppendProperties
        <4> QED BY <4>2, <4>3
      <3>2. CASE i < c
        <4>1. m = i /\ \A j \in 1 .. i : t[j] = s[j]
          BY <1>5, <2>3, <3>2
        <4>2. i + 1 < c /\ ~(i + 1 >= c)
          BY <2>5, <3>2
        <4>3. \A j \in 1 .. i + 1 : j \in 1 .. i \/ j = i + 1
          OBVIOUS
        <4>4. \A j \in 1 .. i + 1 : u[j] = s[j]
          BY <3>1, <4>1, <4>3
        <4>5. Holds(i + 1)
          BY <3>1, <4>1, <4>2, <4>4
        <4> QED BY <2>1, <4>5
      <3>3. CASE ~(i < c)
        <4>1. i >= c /\ i + 1 >= c /\ ~(i + 1 < c) /\ i > 0
          BY <3>3
        <4>2. m = i - 1 /\ \A j \in 1 .. i - 1 : t[j] = IF j < c THEN s[j] ELSE s[j + 1]
          BY <1>5, <2>3, <4>1
        <4>3. \A j \in 1 .. (i + 1) - 1 : j \in 1 .. m \/ (j = i /\ j = m + 1 /\ ~(j < c))
          BY <2>1, <4>1, <4>2
        <4>4. \A j \in 1 .. (i + 1) - 1 : u[j] = IF j < c THEN s[j] ELSE s[j + 1]
          BY <3>1, <4>2, <4>3
        <4>5. Len(u) = (i + 1) - 1
          BY <3>1, <4>2
        <4>6. Holds(i + 1)
          BY <3>1, <4>1, <4>4, <4>5
        <4> QED BY <2>1, <4>6
      <3> QED BY <3>2, <3>3
    <2> QED BY <2>4, <2>5
  <1>6. 0 .. n \subseteq T
    <2> HIDE DEF T
    <2> QED BY <1>4, <1>5, UpTo
  <1>7. Holds(n)
    <2>1. n \in T
      <3>1. n \in 0 .. n
        OBVIOUS
      <3> HIDE DEF T
      <3> QED BY <1>6, <3>1
    <2> QED BY <2>1
  <1>8. n >= c
    BY <1>1
  <1> QED BY <1>1, <1>2, <1>7, <1>8

-----------------------------------------------------------------------------
(* The manager of the pins.                                                  *)
PinTypes ==
    /\ exportedPins \in Seq(Pins!Pin) /\ Len(exportedPins) <= MaxPins
    /\ toClean \in Seq(Pins!Pin) /\ Len(toClean) <= MaxPins
    /\ handlers \subseteq Key /\ cleaning \in Nat
    /\ kernel \subseteq Pins!Pin /\ refused \subseteq Pins!Pin

\* How far clean() can come, and what it has done when no pin is listed twice.
CleanedSoFar ==
    cleaning > 0 =>
        /\ Len(exportedPins) + cleaning <= Len(toClean) + 1
        /\ 2 * cleaning <= Len(toClean) + 3
        /\ Pins!IsInjective(toClean) =>
              /\ Len(exportedPins) + cleaning = Len(toClean) + 1
              /\ \A i \in 1 .. Len(exportedPins) :
                    exportedPins[i] = IF i < cleaning THEN toClean[2 * i]
                                      ELSE toClean[i + cleaning - 1]

PinsInv == PinTypes /\ Pins!ListedIsExported /\ CleanedSoFar

LEMMA PinsInvInit == PeripheralsInit => PinsInv
  <1> SUFFICES ASSUME PeripheralsInit PROVE PinsInv
    OBVIOUS
  <1>1. /\ exportedPins = <<>> /\ handlers = {} /\ cleaning = 0 /\ toClean = <<>>
        /\ kernel \subseteq Pins!Pin /\ refused = {}
    BY DEF PeripheralsInit, Pins!Init
  <1>2. <<>> \in Seq(Pins!Pin) /\ Len(<<>>) = 0 /\ 1 .. 0 = {}
    OBVIOUS
  <1>3. MaxPins \in Nat
    BY PeripheralsAssumption DEF Pins!KeysAssumption
  <1>4. PinTypes /\ CleanedSoFar
    BY <1>1, <1>2, <1>3 DEF PinTypes, CleanedSoFar
  <1>5. Pins!ListedIsExported
    BY <1>1, <1>2 DEF Pins!ListedIsExported, Pins!Contains
  <1> QED BY <1>4, <1>5 DEF PinsInv

(* A pin is exported and listed, by a handler or without one.                *)
LEMMA ExportKeeps ==
    ASSUME PinsInv, NEW p \in Pins!Pin, Pins!ExportPin(p), cleaning = 0,
           UNCHANGED <<cleaning, toClean>>, Len(exportedPins) < MaxPins,
           handlers' \subseteq Key,
           \A k \in handlers' : k \in handlers \/ PinOf[k] = p
    PROVE  PinsInv'
  <1>1. PICK n \in Nat, m \in Nat : n = Len(exportedPins) /\ m = MaxPins /\ n < m
    <2>1. Len(exportedPins) \in Nat
      BY DEF PinsInv, PinTypes
    <2> QED BY <2>1, PeripheralsAssumption DEF Pins!KeysAssumption
  <1>2. /\ exportedPins' \in Seq(Pins!Pin) /\ Len(exportedPins') = n + 1
        /\ exportedPins'[n + 1] = p
        /\ \A i \in 1 .. n : exportedPins'[i] = exportedPins[i]
    <2>1. exportedPins' = Append(exportedPins, p) /\ exportedPins \in Seq(Pins!Pin)
      BY DEF Pins!ExportPin, PinsInv, PinTypes
    <2> QED BY <1>1, <2>1, AppendProperties
  <1>3. /\ kernel' \in {kernel, kernel \cup {p}}
        /\ refused' = IF p \in kernel' THEN refused \ {p} ELSE refused \cup {p}
    BY DEF Pins!ExportPin
  <1>4. PinTypes'
    BY <1>1, <1>2, <1>3 DEF PinsInv, PinTypes
  <1>5. \A q : Pins!Contains(exportedPins, q)' <=> Pins!Contains(exportedPins, q) \/ q = p
    <2>1. n + 1 \in 1 .. n + 1 /\ \A i \in 1 .. n : i \in 1 .. n + 1
      OBVIOUS
    <2>2. \A i \in 1 .. n + 1 : i \in 1 .. n \/ i = n + 1
      OBVIOUS
    <2> QED BY <1>1, <1>2, <2>1, <2>2 DEF Pins!Contains
  <1>6. Pins!ListedIsExported'
    <2> SUFFICES ASSUME NEW q \in Pins!Pin \ refused'
                 PROVE  /\ Pins!Contains(exportedPins, q)' => q \in kernel'
                        /\ q \in kernel' /\ (\E k \in handlers' : PinOf[k] = q)
                              => Pins!Contains(exportedPins, q)'
      BY DEF Pins!ListedIsExported
    <2>1. CASE q = p
      <3>1. p \in kernel'
        BY <1>3, <2>1
      <3> QED BY <1>5, <2>1, <3>1
    <2>2. CASE q # p
      <3>1. q \in Pins!Pin \ refused /\ (q \in kernel' <=> q \in kernel)
        BY <1>3, <2>2
      <3>2. (\E k \in handlers' : PinOf[k] = q) => \E k \in handlers : PinOf[k] = q
        BY <2>2
      <3> QED BY <1>5, <2>2, <3>1, <3>2 DEF PinsInv, Pins!ListedIsExported
    <2> QED BY <2>1, <2>2
  <1>7. CleanedSoFar'
    BY DEF CleanedSoFar, PinsInv, PinTypes
  <1> QED BY <1>4, <1>6, <1>7 DEF PinsInv

(* A pin goes from the list, however often it is in it, and from the kernel  *)
(* unless that refuses.                                                      *)
LEMMA UnexportKeeps ==
    ASSUME PinsInv, NEW p \in Pins!Pin, Pins!UnexportPin(p), UNCHANGED <<handlers, toClean>>,
           cleaning' \in Nat
    PROVE  PinTypes' /\ Pins!ListedIsExported'
  <1>1. PICK n \in Nat, m \in Nat : n = Len(exportedPins) /\ m = MaxPins /\ n <= m
    <2>1. Len(exportedPins) \in Nat /\ Len(exportedPins) <= MaxPins
      BY DEF PinsInv, PinTypes
    <2> QED BY <2>1, PeripheralsAssumption DEF Pins!KeysAssumption
  <1>2. PICK t \in Seq(Pins!Pin) : /\ t = exportedPins' /\ Len(t) <= n
                                   /\ \A x : Pins!Contains(t, x)
                                                <=> x # p /\ Pins!Contains(exportedPins, x)
    <2>1. exportedPins \in Seq(Pins!Pin)
      BY DEF PinsInv, PinTypes
    <2>2. exportedPins' = Pins!Kept(exportedPins, p)[n]
      BY <1>1 DEF Pins!UnexportPin
    <2>3. /\ Pins!Kept(exportedPins, p)[n] \in Seq(Pins!Pin)
          /\ Len(Pins!Kept(exportedPins, p)[n]) <= n
          /\ \A x : Pins!Contains(Pins!Kept(exportedPins, p)[n], x)
                        <=> x # p /\ Pins!Contains(exportedPins, x)
      BY <1>1, <2>1, RemoveTakesAll
    <2> QED BY <2>2, <2>3
  <1>3. /\ kernel' \in {kernel, kernel \ {p}}
        /\ refused' = IF p \in kernel' THEN refused \cup {p} ELSE refused \ {p}
    BY DEF Pins!UnexportPin
  <1>4. PinTypes'
    <2>1. Len(t) \in Nat
      OBVIOUS
    <2>2. Len(t) <= m
      BY <1>1, <1>2, <2>1
    <2> QED BY <1>1, <1>2, <1>3, <2>2 DEF PinsInv, PinTypes
  <1>5. Pins!ListedIsExported'
    <2>1. \A x : Pins!Contains(exportedPins, x)' <=> x # p /\ Pins!Contains(exportedPins, x)
      BY <1>2 DEF Pins!Contains
    <2> SUFFICES ASSUME NEW q \in Pins!Pin \ refused'
                 PROVE  /\ Pins!Contains(exportedPins, q)' => q \in kernel'
                        /\ q \in kernel' /\ (\E k \in handlers' : PinOf[k] = q)
                              => Pins!Contains(exportedPins, q)'
      BY DEF Pins!ListedIsExported
    <2>2. CASE q = p
      <3>1. p \notin kernel'
        BY <1>3, <2>2
      <3> QED BY <2>1, <2>2, <3>1
    <2>3. CASE q # p
      <3>1. q \in Pins!Pin \ refused /\ (q \in kernel' <=> q \in kernel)
        BY <1>3, <2>3
      <3> QED BY <2>1, <2>3, <3>1 DEF PinsInv, Pins!ListedIsExported
    <2> QED BY <2>2, <2>3
  <1> QED BY <1>4, <1>5

(* One turn of clean(): without a pin twice the list loses the entry at the  *)
(* index, and the index passes the one that has moved up.                    *)
LEMMA CleanNextKeeps ==
    ASSUME PinsInv, Pins!CleanNext
    PROVE  PinsInv'
  <1> DEFINE n == Len(exportedPins)
             l == Len(toClean)
             c == cleaning
             p == exportedPins[cleaning]
  <1>1. /\ n \in Nat /\ l \in Nat /\ c \in 1 .. n /\ p \in Pins!Pin
        /\ exportedPins \in Seq(Pins!Pin) /\ toClean \in Seq(Pins!Pin)
    <2>1. /\ exportedPins \in Seq(Pins!Pin) /\ toClean \in Seq(Pins!Pin)
          /\ c \in 1 .. n
      BY DEF PinsInv, PinTypes, Pins!CleanNext
    <2> QED BY <2>1, LenProperties, ElementOfSeq
  <1>2. /\ Pins!UnexportPin(p) /\ cleaning' = c + 1 /\ UNCHANGED <<handlers, toClean>>
        /\ exportedPins' = Pins!Kept(exportedPins, p)[n]
    BY DEF Pins!CleanNext, Pins!UnexportPin
  <1>3. PinTypes' /\ Pins!ListedIsExported'
    <2>1. cleaning' \in Nat
      BY <1>1, <1>2
    <2> HIDE DEF p
    <2> QED BY <1>1, <1>2, <2>1, UnexportKeeps
  <1>4. n + c <= l + 1
    BY <1>1 DEF PinsInv, CleanedSoFar
  <1>5. Len(exportedPins') \in Nat /\ Len(exportedPins') < n
    <2>1. Pins!Kept(exportedPins, p)[n] \in Seq(Pins!Pin)
      BY <1>1, RemoveTakesAll
    <2>2. Len(Pins!Kept(exportedPins, p)[n]) < n
      BY <1>1, RemoveTakesAll
    <2> QED BY <1>2, <2>1, <2>2, LenProperties
  <1>6. ASSUME Pins!IsInjective(toClean)
        PROVE  /\ Len(exportedPins') + (c + 1) = l + 1
               /\ \A i \in 1 .. Len(exportedPins') :
                     exportedPins'[i] = IF i < c + 1 THEN toClean[2 * i]
                                        ELSE toClean[i + (c + 1) - 1]
    <2>1. /\ n + c = l + 1
          /\ \A i \in 1 .. n : exportedPins[i] = IF i < c THEN toClean[2 * i]
                                                 ELSE toClean[i + c - 1]
      BY <1>1, <1>6 DEF PinsInv, CleanedSoFar
    <2>2. \A a, b \in 1 .. l : toClean[a] = toClean[b] => a = b
      BY <1>1, <1>6, LenProperties DEF Pins!IsInjective
    <2>3. ASSUME NEW j \in 1 .. n, exportedPins[j] = p PROVE j = c
      <3>1. p = toClean[c + c - 1] /\ c + c - 1 \in 1 .. l
        BY <1>1, <2>1
      <3>2. CASE j < c
        <4>1. exportedPins[j] = toClean[2 * j] /\ 2 * j \in 1 .. l /\ 2 * j # c + c - 1
          BY <1>1, <2>1, <3>2
        <4> HIDE DEF p
        <4> QED BY <2>2, <2>3, <3>1, <4>1
      <3>3. CASE ~(j < c)
        <4>1. exportedPins[j] = toClean[j + c - 1] /\ j + c - 1 \in 1 .. l
          BY <1>1, <2>1, <3>3
        <4>2. j + c - 1 = c + c - 1
          <5> HIDE DEF p
          <5> QED BY <2>2, <2>3, <3>1, <4>1
        <4> QED BY <1>1, <4>2
      <3> QED BY <3>2, <3>3
    <2>4. /\ Len(exportedPins') = n - 1
          /\ \A j \in 1 .. n - 1 :
                exportedPins'[j] = IF j < c THEN exportedPins[j] ELSE exportedPins[j + 1]
      BY <1>1, <1>2, <2>3, RemoveTakesOne
    <2>5. (n - 1) + (c + 1) = l + 1
      <3>1. \A x, y \in Nat : (x - 1) + (y + 1) = x + y
        OBVIOUS
      <3>2. c \in Nat /\ n \in Nat /\ n + c = l + 1
        BY <1>1, <2>1
      <3> HIDE DEF n, l, c
      <3> QED BY <3>1, <3>2
    <2>6. ASSUME NEW i \in 1 .. n - 1
          PROVE  exportedPins'[i] = IF i < c + 1 THEN toClean[2 * i]
                                    ELSE toClean[i + (c + 1) - 1]
      <3>1. CASE i < c
        <4>1. i \in 1 .. n /\ i < c + 1
          BY <1>1, <3>1
        <4> QED BY <2>1, <2>4, <3>1, <4>1
      <3>2. CASE ~(i < c)
        <4>1. i + 1 \in 1 .. n /\ ~(i + 1 < c)
          BY <1>1, <3>2
        <4>2. exportedPins'[i] = toClean[(i + 1) + c - 1]
          BY <2>1, <2>4, <3>2, <4>1
        <4>3. (i + 1) + c - 1 = i + (c + 1) - 1
          BY <1>1
        <4>4. i < c + 1 => i = c /\ 2 * i = i + (c + 1) - 1
          BY <1>1, <3>2
        <4> QED BY <4>2, <4>3, <4>4
      <3> QED BY <3>1, <3>2
    <2> QED BY <2>4, <2>5, <2>6
  <1>7. CleanedSoFar'
    <2>1. Len(exportedPins') + (c + 1) <= l + 1
      BY <1>1, <1>4, <1>5
    <2>2. 2 * (c + 1) <= l + 3
      BY <1>1, <1>4
    <2>3. Pins!IsInjective(toClean)' <=> Pins!IsInjective(toClean)
      BY <1>2 DEF Pins!IsInjective
    <2> QED BY <1>2, <1>6, <2>1, <2>2, <2>3 DEF CleanedSoFar
  <1> QED BY <1>3, <1>7 DEF PinsInv

LEMMA PinsInvStep == PinsInv /\ [PeripheralsNext]_allVars => PinsInv'
  <1> SUFFICES ASSUME PinsInv, [PeripheralsNext]_allVars PROVE PinsInv'
    OBVIOUS
  <1>1. CASE UNCHANGED pinVars
    <2>1. /\ exportedPins' = exportedPins /\ handlers' = handlers /\ cleaning' = cleaning
          /\ toClean' = toClean /\ kernel' = kernel /\ refused' = refused
      BY <1>1 DEF pinVars
    <2> QED BY <2>1 DEF PinsInv, PinTypes, CleanedSoFar, Pins!ListedIsExported,
                        Pins!Contains, Pins!IsInjective
  <1>2. ASSUME NEW k \in Key, Pins!GetGpioHandler(k) PROVE PinsInv'
    <2>1. PinOf[k] \in Pins!Pin
      BY DEF Pins!Pin
    <2>2. /\ Pins!ExportPin(PinOf[k]) /\ cleaning = 0 /\ UNCHANGED <<cleaning, toClean>>
          /\ Len(exportedPins) < MaxPins /\ handlers' = handlers \cup {k}
      BY <1>2 DEF Pins!GetGpioHandler
    <2>3. handlers' \subseteq Key
      BY <2>2 DEF PinsInv, PinTypes
    <2>4. \A h \in handlers' : h \in handlers \/ PinOf[h] = PinOf[k]
      BY <2>2
    <2> QED BY <2>1, <2>2, <2>3, <2>4, ExportKeeps
  <1>3. ASSUME NEW p \in Pins!Pin, Pins!Export(p) PROVE PinsInv'
    <2>1. /\ Pins!ExportPin(p) /\ cleaning = 0 /\ UNCHANGED <<cleaning, toClean>>
          /\ Len(exportedPins) < MaxPins /\ handlers' = handlers
      BY <1>3 DEF Pins!Export
    <2>2. handlers' \subseteq Key /\ \A h \in handlers' : h \in handlers \/ PinOf[h] = p
      BY <2>1 DEF PinsInv, PinTypes
    <2> QED BY <2>1, <2>2, ExportKeeps
  <1>4. ASSUME NEW p \in Pins!Pin, Pins!GiveBack(p) PROVE PinsInv'
    <2>1. /\ Pins!UnexportPin(p) /\ UNCHANGED <<handlers, toClean>>
          /\ cleaning = 0 /\ cleaning' = 0
      BY <1>4 DEF Pins!GiveBack
    <2>2. PinTypes' /\ Pins!ListedIsExported'
      BY <2>1, UnexportKeeps
    <2>3. CleanedSoFar'
      BY <2>1 DEF CleanedSoFar
    <2> QED BY <2>2, <2>3 DEF PinsInv
  <1>5. CASE Pins!Clean
    <2>1. /\ cleaning = 0 /\ cleaning' = 1 /\ toClean' = exportedPins
          /\ UNCHANGED <<exportedPins, handlers, kernel, refused>>
      BY <1>5 DEF Pins!Clean
    <2>2. PICK n \in Nat : n = Len(exportedPins)
      BY DEF PinsInv, PinTypes
    <2>3. n + 1 <= n + 1 /\ 2 * 1 <= n + 3
      OBVIOUS
    <2>4. \A i \in 1 .. n : ~(i < 1) /\ i + 1 - 1 = i
      OBVIOUS
    <2>5. CleanedSoFar'
      BY <2>1, <2>2, <2>3, <2>4 DEF CleanedSoFar
    <2>6. PinTypes' /\ Pins!ListedIsExported'
      BY <2>1 DEF PinsInv, PinTypes, Pins!ListedIsExported, Pins!Contains
    <2> QED BY <2>5, <2>6 DEF PinsInv
  <1>6. CASE Pins!CleanNext
    BY <1>6, CleanNextKeeps
  <1>7. CASE Pins!CleanEnds
    <2>1. /\ cleaning' = 0 /\ toClean' = <<>>
          /\ UNCHANGED <<exportedPins, handlers, kernel, refused>>
      BY <1>7 DEF Pins!CleanEnds
    <2>2. <<>> \in Seq(Pins!Pin) /\ Len(<<>>) = 0 /\ MaxPins \in Nat
      BY PeripheralsAssumption DEF Pins!KeysAssumption
    <2>3. PinTypes' /\ Pins!ListedIsExported'
      BY <2>1, <2>2 DEF PinsInv, PinTypes, Pins!ListedIsExported, Pins!Contains
    <2>4. CleanedSoFar'
      BY <2>1 DEF CleanedSoFar
    <2> QED BY <2>3, <2>4 DEF PinsInv
  <1>8. CASE Pins!Restart
    <2>1. /\ exportedPins' = <<>> /\ handlers' = {} /\ cleaning' = 0 /\ toClean' = <<>>
          /\ refused' = {} /\ UNCHANGED kernel
      BY <1>8 DEF Pins!Restart
    <2>2. <<>> \in Seq(Pins!Pin) /\ Len(<<>>) = 0 /\ 1 .. 0 = {} /\ MaxPins \in Nat
      BY PeripheralsAssumption DEF Pins!KeysAssumption
    <2>3. PinTypes'
      BY <2>1, <2>2 DEF PinsInv, PinTypes
    <2>4. Pins!ListedIsExported'
      BY <2>1, <2>2 DEF Pins!ListedIsExported, Pins!Contains
    <2>5. CleanedSoFar'
      BY <2>1 DEF CleanedSoFar
    <2> QED BY <2>3, <2>4, <2>5 DEF PinsInv
  <1>9. CASE Pins!Next
    BY <1>2, <1>3, <1>4, <1>5, <1>6, <1>7, <1>8, <1>9 DEF Pins!Next
  <1>10. UNCHANGED pinVars \/ Pins!Next
    BY DEF PeripheralsNext, ParserMoves, Sampled, LoopMoves, PinsMove, allVars
  <1> QED BY <1>1, <1>9, <1>10

(* What the list holds, as sequences and as sets, for any pins and keys.     *)
THEOREM PinsInvHolds == PeripheralsSpec => []PinsInv
  <1> QED BY PinsInvInit, PinsInvStep, PTL DEF PeripheralsSpec

(* The list of pins is true but for the pins whose last call the kernel      *)
(* refused, and clean() leaves no more than half of it, for any pins, keys   *)
(* and refusals (gpio_manager.cpp 45-83, 264-272).                           *)
THEOREM PinsAreSound == PeripheralsSpec => []GpioSound
  <1>1. ASSUME PinsInv PROVE GpioSound
    <2>1. PICK n \in Nat, l \in Nat, c \in Nat :
             /\ n = Len(exportedPins) /\ l = Len(toClean) /\ c = cleaning
             /\ n <= MaxPins /\ l <= MaxPins /\ MaxPins \in Nat
             /\ exportedPins \in [1 .. n -> Pins!Pin] /\ toClean \in [1 .. l -> Pins!Pin]
      <3>1. exportedPins \in Seq(Pins!Pin) /\ toClean \in Seq(Pins!Pin)
        BY <1>1 DEF PinsInv, PinTypes
      <3>2. /\ cleaning \in Nat /\ Len(exportedPins) <= MaxPins /\ Len(toClean) <= MaxPins
            /\ MaxPins \in Nat
        BY <1>1, PeripheralsAssumption DEF PinsInv, PinTypes, Pins!KeysAssumption
      <3>3. /\ Len(exportedPins) \in Nat /\ exportedPins \in [1 .. Len(exportedPins) -> Pins!Pin]
            /\ Len(toClean) \in Nat /\ toClean \in [1 .. Len(toClean) -> Pins!Pin]
        BY <3>1, LenProperties
      <3> QED BY <3>2, <3>3
    <2>2. PICK q \in Nat : (l = 2 * q \/ l = 2 * q + 1) /\ q = l \div 2
      <3>1. l \div 2 \in Nat /\ (l = 2 * (l \div 2) \/ l = 2 * (l \div 2) + 1)
        OBVIOUS
      <3> QED BY <3>1
    <2>3. /\ c > 0 => n + c <= l + 1 /\ 2 * c <= l + 3
      BY <1>1, <2>1 DEF PinsInv, CleanedSoFar
    <2>4. c \in 0 .. q + 2
      <3>1. c > 0 => 2 * c <= 2 * q + 4
        BY <2>2, <2>3
      <3> QED BY <3>1
    <2>5. n \in 0 .. MaxPins /\ l \in 0 .. MaxPins
      BY <2>1
    <2>6. Pins!TypeOK
      <3>1. exportedPins \in Pins!BoundedSeq(Pins!Pin, MaxPins)
        BY <2>1, <2>5 DEF Pins!BoundedSeq, Pins!SeqOf
      <3>2. toClean \in Pins!BoundedSeq(Pins!Pin, MaxPins)
        BY <2>1, <2>5 DEF Pins!BoundedSeq, Pins!SeqOf
      <3>3. cleaning \in 0 .. Len(toClean) \div 2 + 2
        BY <2>1, <2>2, <2>4
      <3>4. handlers \subseteq Key /\ kernel \subseteq Pins!Pin /\ refused \subseteq Pins!Pin
        BY <1>1 DEF PinsInv, PinTypes
      <3> QED BY <3>1, <3>2, <3>3, <3>4 DEF Pins!TypeOK
    <2>7. Pins!ListedIsExported
      BY <1>1 DEF PinsInv
    <2>8. Pins!CleanTakesHalf
      <3> SUFFICES ASSUME c > n PROVE 2 * n <= l
        BY <2>1 DEF Pins!CleanTakesHalf
      <3>1. n + c <= l + 1 /\ c >= n + 1
        BY <2>1, <2>3
      <3> QED BY <3>1
    <2> QED BY <2>6, <2>7, <2>8 DEF GpioSound, Pins!GpioSound
  <1> QED BY PinsInvHolds, <1>1, PTL

(* How far clean() is from what its comment says, for any pins: of a list    *)
(* without a pin twice every second entry stays (gpio_manager.cpp 268-272).  *)
THEOREM CleanSkips == PeripheralsSpec => []Pins!CleanLeavesEverySecond
  <1>1. ASSUME PinsInv PROVE Pins!CleanLeavesEverySecond
    <2>1. PICK n \in Nat, l \in Nat, c \in Nat :
             /\ n = Len(exportedPins) /\ l = Len(toClean) /\ c = cleaning
             /\ n <= MaxPins /\ l <= MaxPins /\ MaxPins \in Nat
             /\ exportedPins \in [1 .. n -> Pins!Pin] /\ toClean \in [1 .. l -> Pins!Pin]
      <3>1. exportedPins \in Seq(Pins!Pin) /\ toClean \in Seq(Pins!Pin)
        BY <1>1 DEF PinsInv, PinTypes
      <3>2. /\ cleaning \in Nat /\ Len(exportedPins) <= MaxPins /\ Len(toClean) <= MaxPins
            /\ MaxPins \in Nat
        BY <1>1, PeripheralsAssumption DEF PinsInv, PinTypes, Pins!KeysAssumption
      <3>3. /\ Len(exportedPins) \in Nat /\ exportedPins \in [1 .. Len(exportedPins) -> Pins!Pin]
            /\ Len(toClean) \in Nat /\ toClean \in [1 .. Len(toClean) -> Pins!Pin]
        BY <3>1, LenProperties
      <3> QED BY <3>2, <3>3
    <2>2. PICK q \in Nat : (l = 2 * q \/ l = 2 * q + 1) /\ q = l \div 2
      <3>1. l \div 2 \in Nat /\ (l = 2 * (l \div 2) \/ l = 2 * (l \div 2) + 1)
        OBVIOUS
      <3> QED BY <3>1
    <2>3. /\ c > 0 => n + c <= l + 1 /\ 2 * c <= l + 3
      BY <1>1, <2>1 DEF PinsInv, CleanedSoFar
    <2> SUFFICES ASSUME c > n, Pins!IsInjective(toClean)
                 PROVE  exportedPins = [i \in 1 .. l \div 2 |-> toClean[2 * i]]
      BY <2>1 DEF Pins!CleanLeavesEverySecond
    <2>4. /\ n + c = l + 1
          /\ \A i \in 1 .. n : exportedPins[i] = IF i < c THEN toClean[2 * i]
                                                 ELSE toClean[i + c - 1]
      <3>1. c > 0
        BY <2>1
      <3> QED BY <1>1, <2>1, <3>1 DEF PinsInv, CleanedSoFar
    <2>5. n = q
      <3>1. 2 * c <= l + 3 /\ n + c = l + 1 /\ c > n
        BY <2>3, <2>4
      <3>2. CASE l = 2 * q
        BY <3>1, <3>2
      <3>3. CASE l = 2 * q + 1
        BY <3>1, <3>3
      <3> QED BY <2>2, <3>2, <3>3
    <2>6. \A i \in 1 .. n : exportedPins[i] = toClean[2 * i]
      <3>1. \A i \in 1 .. n : i < c
        BY <2>1
      <3> QED BY <2>4, <3>1
    <2>7. exportedPins = [i \in 1 .. n |-> exportedPins[i]]
      BY <2>1
    <2>8. exportedPins = [i \in 1 .. n |-> toClean[2 * i]]
      BY <2>6, <2>7
    <2> QED BY <2>2, <2>5, <2>8
  <1> QED BY PinsInvHolds, <1>1, PTL

-----------------------------------------------------------------------------
(* The receiver.  quiet is the measure of what the timer measures in SPACE,  *)
(* IDLE and STOP; in MARK it is 0.                                           *)
TimerTells ==
    /\ Infrared!GapMeasured
    /\ rcvstate = "MARK" => quiet = 0 /\ (rawlen = RAWBUF => timer = 0)
    /\ rcvstate = "SPACE" =>
          /\ quiet = timer + 1 /\ timer <= GAP_TICKS
          /\ rawlen = RAWBUF => timer = 0

\* What loop() may find at each place of it.
ByPlace ==
    /\ main = "state" => (lag = 0 \/ rcvstate = "STOP" => results = rawlen)
    /\ main = "decode" => results = rawlen
    /\ main \in {"decode", "resume"} => rcvstate = "STOP"
    /\ main = "rawlen" =>
          IF lag = 0 THEN rcvstate = "IDLE"
          ELSE rcvstate \in {"IDLE", "STOP"} \/ (rcvstate = "MARK" /\ crossed)

Entry(i) == IF i = 0 THEN "gap" ELSE IF i % 2 = 1 THEN "mark" ELSE "space"

\* What has been recorded, and what is recorded next.
Recorded ==
    ~crossed =>
        /\ \A i \in 0 .. rawlen - 1 : rawbuf[i] = Entry(i)
        /\ rcvstate = "MARK" => rawlen % 2 = 1
        /\ rcvstate = "SPACE" => rawlen % 2 = 0 /\ rawlen > 0

ReceiverInv == Infrared!TypeOK /\ TimerTells /\ ByPlace /\ Recorded

NatConstants ==
    /\ RAWBUF \in Nat /\ RAWBUF > 0 /\ GAP_TICKS \in Nat /\ GAP_TICKS > 1
    /\ TimerWrap \in Nat /\ TimerWrap > 2 * GAP_TICKS

LEMMA Constants == NatConstants
  BY PeripheralsAssumption DEF Infrared!ConstantsAssumption, NatConstants

LEMMA Modulo ==
    ASSUME NEW w \in Nat, NEW n \in Nat, 0 < w, n < w + w
    PROVE  n % w = IF n < w THEN n ELSE n - w
  OBVIOUS

\* A tick of the timer and of the measure of silence.
LEMMA Tick ==
    ASSUME NEW w \in Nat, NEW n \in Nat, w > 1, n + 1 < w + w
    PROVE  ((n % w) + 1) % w = (n + 1) % w
  <1>1. 0 < w
    OBVIOUS
  <1>2. CASE n < w
    <2>1. n % w = n
      BY <1>2, Modulo, <1>1
    <2> QED BY <2>1
  <1>3. CASE ~(n < w)
    <2>1. PICK k \in Nat : n = w + k
      <3>1. n - w \in Nat /\ n = w + (n - w)
        BY <1>3
      <3> QED BY <3>1
    <2>2. n % w = k
      BY <1>3, Modulo, <1>1, <2>1
    <2>3. (n + 1) % w = k + 1
      <3>1. n + 1 \in Nat /\ ~(n + 1 < w) /\ (n + 1) - w = k + 1
        BY <1>3, <2>1
      <3> QED BY <3>1, Modulo, <1>1
    <2>4. k + 1 < w
      BY <2>1
    <2>5. (k + 1) % w = k + 1
      BY <2>4, Modulo, <1>1
    <2> QED BY <2>2, <2>3, <2>5
  <1> QED BY <1>2, <1>3

LEMMA Parity ==
    ASSUME NEW n \in Nat
    PROVE  /\ n % 2 = 1 => (n + 1) % 2 = 0
           /\ n % 2 = 0 => (n + 1) % 2 = 1
  OBVIOUS

(* A sample in silence: the gap is measured on.                              *)
LEMMA SilenceMeasured ==
    ASSUME NatConstants, Infrared!TypeOK, Infrared!GapMeasured,
           rcvstate \in {"IDLE", "STOP"},
           quiet < Infrared!Longest, quiet' = quiet + 1, timer' = Infrared!Ticked
    PROVE  Infrared!GapMeasured'
  <1>1. PICK w \in Nat, g \in Nat, q \in Nat :
            w = TimerWrap /\ g = GAP_TICKS /\ q = quiet /\ w > 2 * g /\ g > 1
    BY DEF NatConstants, Infrared!TypeOK, Infrared!Longest
  <1>2. q < w + g /\ w > 1 /\ q + 1 < w + w
    BY <1>1 DEF Infrared!Longest
  <1>3. PICK r \in {q, q - 1} : r \in Nat /\ timer = r % w
    BY <1>1 DEF Infrared!GapMeasured
  <1>4. r + 1 \in Nat /\ r + 1 < w + w /\ r + 1 \in {q + 1, (q + 1) - 1}
    BY <1>2, <1>3
  <1>5. timer' = (r + 1) % w
    BY <1>1, <1>2, <1>3, <1>4, Tick DEF Infrared!Ticked
  <1>6. r + 1 \in {quiet', quiet' - 1}
    BY <1>1, <1>4
  <1> QED BY <1>1, <1>4, <1>5, <1>6 DEF Infrared!GapMeasured

(* What a sample does, by the state the interrupt finds.                     *)
LEMMA SampleTimes ==
    ASSUME NatConstants, ReceiverInv, NEW mark \in BOOLEAN,
           \/ Infrared!InIdle(mark) \/ Infrared!InMark(mark)
           \/ Infrared!InSpace(mark) \/ Infrared!InStop(mark),
           quiet' = (IF mark THEN 0 ELSE quiet + 1), ~mark => quiet < Infrared!Longest
    PROVE  TimerTells' /\ timer' \in 0 .. TimerWrap - 1 /\ quiet' \in 0 .. Infrared!Longest
  <1>1. PICK w \in Nat, g \in Nat, n \in Nat, b \in Nat :
            /\ w = TimerWrap /\ g = GAP_TICKS /\ n = rawlen /\ b = RAWBUF
            /\ w > 2 * g /\ g > 1 /\ b > 0 /\ n <= b
    BY DEF NatConstants, ReceiverInv, Infrared!TypeOK
  <1>2. PICK t \in Nat, q \in Nat :
            t = timer /\ q = quiet /\ t < w /\ q <= w + g /\ Infrared!Longest = w + g
    BY <1>1 DEF ReceiverInv, Infrared!TypeOK, Infrared!Longest
  <1>3. Infrared!Ticked = IF t + 1 < w THEN t + 1 ELSE 0
    <2>1. t + 1 \in Nat /\ 0 < w /\ t + 1 < w + w
      BY <1>1, <1>2
    <2>2. (t + 1) % w = IF t + 1 < w THEN t + 1 ELSE (t + 1) - w
      BY <2>1, Modulo
    <2>3. ~(t + 1 < w) => (t + 1) - w = 0
      BY <1>2
    <2> QED BY <1>1, <1>2, <2>2, <2>3 DEF Infrared!Ticked
  <1>4. quiet' \in 0 .. Infrared!Longest /\ Infrared!Ticked \in 0 .. TimerWrap - 1
    <2>1. quiet' \in 0 .. w + g
      BY <1>2
    <2>2. (IF t + 1 < w THEN t + 1 ELSE 0) \in 0 .. w - 1
      BY <1>1, <1>2
    <2> QED BY <1>1, <1>2, <1>3, <2>1, <2>2
  <1>5. 0 \in 0 .. TimerWrap - 1
    BY <1>1
  <1>6. ASSUME mark, timer' = 0 PROVE Infrared!GapMeasured'
    <2>1. 0 % w = 0
      BY <1>1, Modulo
    <2> QED BY <1>1, <1>6, <2>1 DEF Infrared!GapMeasured
  <1>7. ASSUME rcvstate \in {"IDLE", "STOP"}, ~mark, timer' = Infrared!Ticked
        PROVE  Infrared!GapMeasured'
    BY <1>7, SilenceMeasured DEF ReceiverInv, TimerTells
  <1>8. CASE Infrared!InIdle(mark)
    <2>1. CASE mark /\ Infrared!Ticked >= GAP_TICKS
      <3>1. rcvstate' = "MARK" /\ timer' = 0 /\ quiet' = 0
        BY <1>8, <2>1 DEF Infrared!InIdle, Infrared!Record
      <3> QED BY <1>4, <1>5, <1>6, <2>1, <3>1 DEF TimerTells
    <2>2. CASE ~(mark /\ Infrared!Ticked >= GAP_TICKS)
      <3>1. /\ rcvstate = "IDLE" /\ rcvstate' = "IDLE"
            /\ timer' = IF mark THEN 0 ELSE Infrared!Ticked
        BY <1>8, <2>2 DEF Infrared!InIdle, Infrared!Found
      <3>2. Infrared!GapMeasured'
        BY <1>6, <1>7, <3>1
      <3>3. timer' \in 0 .. TimerWrap - 1
        BY <1>4, <1>5, <3>1
      <3> QED BY <1>4, <3>1, <3>2, <3>3 DEF TimerTells
    <2> QED BY <2>1, <2>2
  <1>9. CASE Infrared!InMark(mark)
    <2>1. rcvstate = "MARK" /\ n < b /\ q = 0
      BY <1>1, <1>2, <1>9 DEF Infrared!InMark, Infrared!Found, ReceiverInv, TimerTells
    <2>2. CASE mark
      <3>1. /\ rcvstate' = "MARK" /\ timer' = Infrared!Ticked /\ quiet' = 0
            /\ rawlen' = rawlen
        BY <1>9, <2>1, <2>2 DEF Infrared!InMark, Infrared!Keep, Infrared!Found
      <3>2. rawlen' # RAWBUF
        BY <1>1, <2>1, <3>1
      <3> QED BY <1>4, <3>1, <3>2 DEF TimerTells, Infrared!GapMeasured
    <2>3. CASE ~mark
      <3>1. rcvstate' = "SPACE" /\ timer' = 0 /\ quiet' = 1
        BY <1>2, <1>9, <2>1, <2>3 DEF Infrared!InMark, Infrared!Record
      <3>2. quiet' = timer' + 1 /\ timer' <= GAP_TICKS
        BY <1>1, <3>1
      <3> QED BY <1>4, <1>5, <3>1, <3>2 DEF TimerTells, Infrared!GapMeasured
    <2> QED BY <2>2, <2>3
  <1>10. CASE Infrared!InSpace(mark)
    <2>1. rcvstate = "SPACE" /\ n < b /\ q = t + 1 /\ t <= g
      BY <1>1, <1>2, <1>10 DEF Infrared!InSpace, Infrared!Found, ReceiverInv, TimerTells
    <2>2. CASE mark
      <3>1. rcvstate' = "MARK" /\ timer' = 0 /\ quiet' = 0
        BY <1>10, <2>2 DEF Infrared!InSpace, Infrared!Record
      <3> QED BY <1>4, <1>5, <3>1 DEF TimerTells, Infrared!GapMeasured
    <2>3. CASE ~mark
      <3>1. t + 1 < w /\ t + 1 \in Nat
        BY <1>1, <2>1
      <3>2. timer' = t + 1 /\ quiet' = t + 2 /\ rawlen' = rawlen
        BY <1>2, <1>3, <1>10, <2>1, <2>3, <3>1 DEF Infrared!InSpace, Infrared!Keep
      <3>3. timer' \in 0 .. TimerWrap - 1
        BY <1>1, <3>1, <3>2
      <3>4. CASE t + 1 > g
        <4>1. rcvstate' = "STOP"
          BY <1>1, <1>3, <1>10, <2>3, <3>1, <3>4 DEF Infrared!InSpace
        <4>2. t + 1 \in {quiet', quiet' - 1}
          BY <3>2
        <4>3. (t + 1) % w = t + 1
          BY <3>1, Modulo
        <4> QED BY <1>1, <1>4, <3>1, <3>2, <3>3, <4>1, <4>2, <4>3
            DEF TimerTells, Infrared!GapMeasured
      <3>5. CASE ~(t + 1 > g)
        <4>1. rcvstate' = "SPACE"
          BY <1>1, <1>3, <1>10, <2>3, <3>1, <3>5 DEF Infrared!InSpace
        <4>2. quiet' = timer' + 1 /\ timer' <= GAP_TICKS /\ rawlen' # RAWBUF
          BY <1>1, <2>1, <3>2, <3>5
        <4> QED BY <1>4, <3>3, <4>1, <4>2 DEF TimerTells, Infrared!GapMeasured
      <3> QED BY <3>4, <3>5
    <2> QED BY <2>2, <2>3
  <1>11. CASE Infrared!InStop(mark)
    <2>1. /\ rcvstate' = "STOP" /\ timer' = (IF mark THEN 0 ELSE Infrared!Ticked)
          /\ rcvstate = "STOP" \/ n = b
      BY <1>1, <1>11 DEF Infrared!InStop, Infrared!Found
    <2>2. timer' \in 0 .. TimerWrap - 1
      BY <1>4, <1>5, <2>1
    <2>3. CASE mark
      BY <1>4, <1>6, <2>1, <2>2, <2>3 DEF TimerTells
    <2>4. CASE ~mark /\ rcvstate \in {"IDLE", "STOP"}
      BY <1>4, <1>7, <2>1, <2>2, <2>4 DEF TimerTells
    <2>5. CASE ~mark /\ rcvstate \notin {"IDLE", "STOP"}
      <3>1. t = 0 /\ q \in {0, 1}
        BY <1>1, <1>2, <2>1, <2>5 DEF ReceiverInv, TimerTells, Infrared!TypeOK
      <3>2. timer' = 1 /\ 1 < w /\ quiet' = q + 1
        BY <1>1, <1>2, <1>3, <2>1, <2>5, <3>1
      <3>3. 1 \in {q + 1, (q + 1) - 1} /\ 1 % w = 1
        BY <3>1, <3>2, Modulo
      <3>4. Infrared!GapMeasured'
        BY <1>1, <3>2, <3>3 DEF Infrared!GapMeasured
      <3> QED BY <1>4, <2>1, <2>2, <3>4 DEF TimerTells
    <2> QED BY <2>3, <2>4, <2>5
  <1> QED BY <1>8, <1>9, <1>10, <1>11

LEMMA SampleKeepsTypes ==
    ASSUME NatConstants, ReceiverInv, Infrared!Interrupt
    PROVE  Infrared!TypeOK' /\ TimerTells'
  <1>1. PICK mark \in BOOLEAN :
            /\ \/ Infrared!InIdle(mark) \/ Infrared!InMark(mark)
               \/ Infrared!InSpace(mark) \/ Infrared!InStop(mark)
            /\ quiet' = (IF mark THEN 0 ELSE quiet + 1)
            /\ ~mark => quiet < Infrared!Longest
    BY DEF Infrared!Interrupt
  <1>2. TimerTells' /\ timer' \in 0 .. TimerWrap - 1 /\ quiet' \in 0 .. Infrared!Longest
    BY <1>1, SampleTimes
  <1>3. lag' \in 0 .. 1 /\ main' = main /\ results' = results
    BY DEF Infrared!Interrupt
  <1>4. crossed' \in BOOLEAN
    BY <1>1, Zenon DEF ReceiverInv, Infrared!TypeOK, Infrared!InIdle, Infrared!InMark,
                Infrared!InSpace, Infrared!InStop
  <1>5. rcvstate' \in {"IDLE", "MARK", "SPACE", "STOP"}
    <2>1. Infrared!Found \in {"IDLE", "MARK", "SPACE", "STOP"}
      BY DEF ReceiverInv, Infrared!TypeOK, Infrared!Found
    <2> QED BY <1>1, <2>1 DEF Infrared!InIdle, Infrared!InMark, Infrared!InSpace,
                Infrared!InStop, ReceiverInv, Infrared!TypeOK
  <1>6. rawlen' \in 0 .. RAWBUF
        /\ rawbuf' \in [0 .. RAWBUF - 1 -> {"none", "gap", "mark", "space"}]
    <2>1. PICK b \in Nat, n \in Nat : b = RAWBUF /\ n = rawlen /\ n <= b /\ b > 0
      BY DEF NatConstants, ReceiverInv, Infrared!TypeOK
    <2>2. rawbuf \in [0 .. RAWBUF - 1 -> {"none", "gap", "mark", "space"}]
      BY DEF ReceiverInv, Infrared!TypeOK
    <2>3. ASSUME NEW k \in Nat, k < b, NEW kind \in {"gap", "mark", "space"},
                 Infrared!Record(k, kind)
          PROVE  /\ rawlen' \in 0 .. RAWBUF
                 /\ rawbuf' \in [0 .. RAWBUF - 1 -> {"none", "gap", "mark", "space"}]
      BY <2>1, <2>2, <2>3 DEF Infrared!Record
    <2>4. ASSUME Infrared!Keep
          PROVE  /\ rawlen' \in 0 .. RAWBUF
                 /\ rawbuf' \in [0 .. RAWBUF - 1 -> {"none", "gap", "mark", "space"}]
      BY <2>4 DEF Infrared!Keep, ReceiverInv, Infrared!TypeOK
    <2>5. \/ Infrared!Keep \/ Infrared!Record(0, "gap")
          \/ n < b /\ (Infrared!Record(n, "mark") \/ Infrared!Record(n, "space"))
      BY <1>1, <2>1 DEF Infrared!InIdle, Infrared!InMark, Infrared!InSpace,
          Infrared!InStop, Infrared!Found
    <2> QED BY <2>1, <2>3, <2>4, <2>5
  <1> QED BY <1>2, <1>3, <1>4, <1>5, <1>6 DEF Infrared!TypeOK, ReceiverInv

(* A sample records the entry that is due, and only while loop() is not      *)
(* between decode()'s look at the state and resume().                        *)
LEMMA SampleRecords ==
    ASSUME NatConstants, ReceiverInv, Infrared!Interrupt
    PROVE  Recorded' /\ ByPlace'
  <1>1. PICK mark \in BOOLEAN : \/ Infrared!InIdle(mark) \/ Infrared!InMark(mark)
                                \/ Infrared!InSpace(mark) \/ Infrared!InStop(mark)
    BY DEF Infrared!Interrupt
  <1>2. PICK b \in Nat, n \in Nat : b = RAWBUF /\ n = rawlen /\ n <= b /\ b > 0
    BY DEF NatConstants, ReceiverInv, Infrared!TypeOK
  <1>3. rawbuf \in [0 .. b - 1 -> {"none", "gap", "mark", "space"}]
    BY <1>2 DEF ReceiverInv, Infrared!TypeOK
  <1>4. /\ main' = main /\ results' = results
        /\ main \in {"state", "rawlen"} => lag = 0 /\ lag' = 1
    BY DEF Infrared!Interrupt, Infrared!Adjacent
  <1>5. CASE mark /\ Infrared!Ticked >= GAP_TICKS /\ Infrared!InIdle(mark)
    <2>1. /\ rcvstate' = "MARK" /\ rawlen' = 1 /\ crossed' = (main = "rawlen")
          /\ rawbuf' = [rawbuf EXCEPT ![0] = "gap"] /\ Infrared!Found = "IDLE"
      BY <1>5 DEF Infrared!InIdle, Infrared!Record
    <2>2. rawbuf'[0] = "gap"
      BY <1>2, <1>3, <2>1
    <2>3. 1 % 2 = 1
      OBVIOUS
    <2>4. \A i \in 0 .. 1 - 1 : i = 0
      OBVIOUS
    <2>5. Recorded'
      BY <2>1, <2>2, <2>3, <2>4 DEF Recorded, Entry
    <2>6. rcvstate = "IDLE"
      BY <2>1 DEF Infrared!Found
    <2>7. main \notin {"decode", "resume"}
      BY <2>6 DEF ReceiverInv, ByPlace
    <2>8. main = "rawlen" => crossed'
      BY <2>1
    <2>9. lag' = 0 => main \notin {"state", "rawlen"}
      BY <1>4
    <2>10. ByPlace'
      BY <1>4, <2>1, <2>7, <2>8, <2>9, Zenon DEF ByPlace
    <2> QED BY <2>5, <2>10
  <1>6. CASE Infrared!Keep /\ crossed' = crossed /\
             (rcvstate' = rcvstate \/ rcvstate' = "STOP")
    <2>1. Recorded'
      BY <1>6 DEF ReceiverInv, Recorded, Infrared!Keep
    <2>2. ByPlace'
      BY <1>4, <1>6 DEF ReceiverInv, ByPlace, Infrared!Keep
    <2> QED BY <2>1, <2>2
  <1>7. CASE Infrared!InMark(mark) /\ ~mark
    <2>1. /\ rcvstate = "MARK" /\ n < b /\ rcvstate' = "SPACE" /\ rawlen' = n + 1
          /\ rawbuf' = [rawbuf EXCEPT ![n] = "mark"] /\ crossed' = crossed
      BY <1>2, <1>7 DEF Infrared!InMark, Infrared!Record, Infrared!Found
    <2>2. Recorded'
      <3> SUFFICES ASSUME ~crossed PROVE Recorded'
        BY <2>1 DEF Recorded
      <3>1. n % 2 = 1 /\ \A i \in 0 .. n - 1 : rawbuf[i] = Entry(i)
        BY <1>2, <2>1 DEF ReceiverInv, Recorded
      <3>2. (n + 1) % 2 = 0 /\ n + 1 > 0 /\ n # 0
        BY <3>1, Parity
      <3>3. ASSUME NEW i \in 0 .. (n + 1) - 1 PROVE rawbuf'[i] = Entry(i)
        <4>1. CASE i = n
          BY <1>3, <2>1, <3>1, <3>2, <4>1 DEF Entry
        <4>2. CASE i # n
          <5>1. i \in 0 .. n - 1 /\ i \in 0 .. b - 1
            BY <2>1, <3>3, <4>2
          <5> QED BY <1>3, <2>1, <3>1, <4>2, <5>1
        <4> QED BY <4>1, <4>2
      <3> QED BY <2>1, <3>2, <3>3 DEF Recorded
    <2>3. main \notin {"decode", "resume"}
      BY <2>1 DEF ReceiverInv, ByPlace
    <2>4. main # "rawlen"
      BY <1>4, <2>1 DEF ReceiverInv, ByPlace
    <2> QED BY <1>4, <2>1, <2>2, <2>3, <2>4 DEF ByPlace
  <1>8. CASE Infrared!InSpace(mark) /\ mark
    <2>1. /\ rcvstate = "SPACE" /\ n < b /\ rcvstate' = "MARK" /\ rawlen' = n + 1
          /\ rawbuf' = [rawbuf EXCEPT ![n] = "space"] /\ crossed' = crossed
      BY <1>2, <1>8 DEF Infrared!InSpace, Infrared!Record, Infrared!Found
    <2>2. Recorded'
      <3> SUFFICES ASSUME ~crossed PROVE Recorded'
        BY <2>1 DEF Recorded
      <3>1. n % 2 = 0 /\ n > 0 /\ \A i \in 0 .. n - 1 : rawbuf[i] = Entry(i)
        BY <1>2, <2>1 DEF ReceiverInv, Recorded
      <3>2. (n + 1) % 2 = 1 /\ n # 0 /\ n % 2 # 1
        BY <3>1, Parity
      <3>3. ASSUME NEW i \in 0 .. (n + 1) - 1 PROVE rawbuf'[i] = Entry(i)
        <4>1. CASE i = n
          BY <1>3, <2>1, <3>1, <3>2, <4>1 DEF Entry
        <4>2. CASE i # n
          <5>1. i \in 0 .. n - 1 /\ i \in 0 .. b - 1
            BY <2>1, <3>3, <4>2
          <5> QED BY <1>3, <2>1, <3>1, <4>2, <5>1
        <4> QED BY <4>1, <4>2
      <3> QED BY <2>1, <3>2, <3>3 DEF Recorded
    <2>3. main \notin {"decode", "resume"}
      BY <2>1 DEF ReceiverInv, ByPlace
    <2>4. main # "rawlen"
      BY <1>4, <2>1 DEF ReceiverInv, ByPlace
    <2> QED BY <1>4, <2>1, <2>2, <2>3, <2>4 DEF ByPlace
  <1>9. \/ mark /\ Infrared!Ticked >= GAP_TICKS /\ Infrared!InIdle(mark)
        \/ Infrared!InMark(mark) /\ ~mark
        \/ Infrared!InSpace(mark) /\ mark
        \/ Infrared!Keep /\ crossed' = crossed /\
             (rcvstate' = rcvstate \/ rcvstate' = "STOP")
    <2>1. CASE Infrared!InIdle(mark)
      BY <2>1 DEF Infrared!InIdle, Infrared!Keep
    <2>2. CASE Infrared!InMark(mark)
      BY <2>2 DEF Infrared!InMark, Infrared!Keep, Infrared!Found
    <2>3. CASE Infrared!InSpace(mark)
      BY <2>3 DEF Infrared!InSpace, Infrared!Keep, Infrared!Found
    <2>4. CASE Infrared!InStop(mark)
      BY <2>4 DEF Infrared!InStop, Infrared!Keep
    <2> QED BY <1>1, <2>1, <2>2, <2>3, <2>4
  <1> QED BY <1>5, <1>6, <1>7, <1>8, <1>9

(* A step of loop().                                                         *)
LEMMA LoopKeeps ==
    ASSUME NatConstants, ReceiverInv, Infrared!Loop
    PROVE  ReceiverInv'
  <1> USE DEF Infrared!Goto, Infrared!irparams
  <1>1. PICK b \in Nat, n \in Nat : b = RAWBUF /\ n = rawlen /\ n <= b /\ b > 0
    BY DEF NatConstants, ReceiverInv, Infrared!TypeOK
  <1>2. /\ lag' = 0 /\ quiet' = quiet /\ crossed' = crossed /\ timer' = timer
        /\ rawbuf' = rawbuf
    BY Zenon DEF Infrared!Loop, Infrared!CopyLength, Infrared!CheckState, Infrared!Decode,
        Infrared!ResumeState, Infrared!ResumeLength
  <1>3. CASE Infrared!CopyLength
    <2>1. /\ rcvstate' = rcvstate /\ rawlen' = rawlen /\ results' = rawlen
          /\ main = "loop" /\ main' = "state"
      BY <1>3 DEF Infrared!CopyLength
    <2> QED BY <1>2, <2>1 DEF ReceiverInv, Infrared!TypeOK, TimerTells,
                Infrared!GapMeasured, ByPlace, Recorded
  <1>4. CASE Infrared!CheckState
    <2>1. /\ rcvstate' = rcvstate /\ rawlen' = rawlen /\ results' = results
          /\ main = "state" /\ main' = IF rcvstate = "STOP" THEN "decode" ELSE "loop"
      BY <1>4 DEF Infrared!CheckState
    <2> QED BY <1>2, <2>1 DEF ReceiverInv, Infrared!TypeOK, TimerTells,
                Infrared!GapMeasured, ByPlace, Recorded
  <1>5. CASE Infrared!Decode
    <2>1. /\ rcvstate' = rcvstate /\ rawlen' = rawlen /\ results' = results
          /\ main = "decode" /\ main' = "resume"
      BY <1>5 DEF Infrared!Decode
    <2> QED BY <1>2, <2>1 DEF ReceiverInv, Infrared!TypeOK, TimerTells,
                Infrared!GapMeasured, ByPlace, Recorded
  <1>6. CASE Infrared!ResumeState
    <2>1. /\ rcvstate' = "IDLE" /\ rawlen' = rawlen /\ results' = results
          /\ main = "resume" /\ main' = "rawlen" /\ rcvstate = "STOP"
      BY <1>6 DEF Infrared!ResumeState, ReceiverInv, ByPlace
    <2> QED BY <1>2, <2>1 DEF ReceiverInv, Infrared!TypeOK, TimerTells,
                Infrared!GapMeasured, ByPlace, Recorded
  <1>7. CASE Infrared!ResumeLength
    <2>1. /\ rcvstate' = rcvstate /\ rawlen' = 0 /\ results' = results
          /\ main = "rawlen" /\ main' = "loop"
          /\ rcvstate \in {"IDLE", "STOP"} \/ (rcvstate = "MARK" /\ crossed)
      BY <1>7 DEF Infrared!ResumeLength, ReceiverInv, ByPlace
    <2>2. Infrared!TypeOK'
      BY <1>1, <1>2, <2>1 DEF ReceiverInv, Infrared!TypeOK
    <2>3. TimerTells'
      BY <1>1, <1>2, <2>1 DEF ReceiverInv, TimerTells, Infrared!GapMeasured
    <2>4. Recorded'
      BY <1>2, <2>1 DEF Recorded
    <2> QED BY <2>1, <2>2, <2>3, <2>4 DEF ReceiverInv, ByPlace
  <1> QED BY <1>3, <1>4, <1>5, <1>6, <1>7 DEF Infrared!Loop

LEMMA ReceiverInvInit == PeripheralsInit => ReceiverInv
  <1> SUFFICES ASSUME PeripheralsInit PROVE ReceiverInv
    OBVIOUS
  <1>1. PICK b \in Nat, w \in Nat, g \in Nat :
            b = RAWBUF /\ w = TimerWrap /\ g = GAP_TICKS /\ b > 0 /\ w > 2 * g /\ g > 1
    BY Constants DEF NatConstants
  <1>2. /\ rcvstate = "IDLE" /\ timer = 0 /\ rawlen = 0 /\ main = "loop"
        /\ results = 0 /\ lag = 0 /\ quiet = 0 /\ crossed = FALSE
        /\ rawbuf = [i \in 0 .. RAWBUF - 1 |-> "none"]
    BY DEF PeripheralsInit, Infrared!Init
  <1>3. 0 \in 0 .. b /\ 0 \in 0 .. w - 1 /\ 0 \in 0 .. w + g
    BY <1>1
  <1>4. Infrared!TypeOK
    <2>1. timer \in 0 .. TimerWrap - 1 /\ quiet \in 0 .. TimerWrap + GAP_TICKS
      BY <1>1, <1>2, <1>3
    <2>2. rawlen \in 0 .. RAWBUF /\ results \in 0 .. RAWBUF /\ lag \in 0 .. 1
      BY <1>1, <1>2, <1>3
    <2>3. rawbuf \in [0 .. RAWBUF - 1 -> {"none", "gap", "mark", "space"}]
      BY <1>2
    <2> QED BY <1>2, <2>1, <2>2, <2>3 DEF Infrared!TypeOK, Infrared!Longest
  <1>5. 0 % w = 0
    BY <1>1, Modulo
  <1>6. TimerTells
    BY <1>1, <1>2, <1>5 DEF TimerTells, Infrared!GapMeasured
  <1> QED BY <1>2, <1>4, <1>6 DEF ReceiverInv, ByPlace, Recorded

(* The recording and the timer, place by place of the interrupt and the loop *)
(* (IRremote.cpp 309-400).                                                   *)
THEOREM ReceiverInvHolds == PeripheralsSpec => []ReceiverInv
  <1>1. ReceiverInv /\ [PeripheralsNext]_allVars => ReceiverInv'
    <2> SUFFICES ASSUME ReceiverInv, [PeripheralsNext]_allVars PROVE ReceiverInv'
      OBVIOUS
    <2>1. CASE Infrared!Interrupt
      BY <2>1, Constants, SampleKeepsTypes, SampleRecords DEF ReceiverInv
    <2>2. CASE Infrared!Loop
      BY <2>2, Constants, LoopKeeps
    <2>3. CASE UNCHANGED infraredVars
      BY <2>3 DEF infraredVars, ReceiverInv, Infrared!TypeOK, TimerTells,
                  Infrared!GapMeasured, ByPlace, Recorded
    <2> QED BY <2>1, <2>2, <2>3
        DEF PeripheralsNext, ParserMoves, Sampled, LoopMoves, PinsMove, allVars
  <1> QED BY <1>1, ReceiverInvInit, PTL DEF PeripheralsSpec

(* The receiver measures the gap and decodes whole recordings.               *)
THEOREM ReceiverIsSound == PeripheralsSpec => []ReceiverSound
  <1>1. ReceiverInv => ReceiverSound
    BY DEF ReceiverInv, TimerTells, ByPlace, Recorded, Entry, ReceiverSound,
           Infrared!ReceiverSound, Infrared!DecodesWhole
  <1> QED BY <1>1, ReceiverInvHolds, PTL

-----------------------------------------------------------------------------
(* The parser: the checksums along a sequence of bytes.                      *)
\* How the checksum of the bytes of h goes on from one byte to the next.
SumStep(h) ==
    [ci \in Crc \X Nat |->
        IF ci[2] \in 2 .. Len(h) THEN Accumulate[ci[1]][h[ci[2]]] ELSE Start]

LEMMA SumStepFacts ==
    ASSUME NEW h \in Seq(Byte)
    PROVE  /\ SumStep(h) \in Steps(Crc)
           /\ \A crc \in Crc, i \in 1 .. Len(h) :
                 SumStep(h)[<<crc, i>>] = IF i < 2 THEN Start ELSE Accumulate[crc][h[i]]
  <1>1. PICK n \in Nat : n = Len(h) /\ \A i \in 1 .. n : h[i] \in Byte
    OBVIOUS
  <1>2. ASSUME NEW crc \in Crc, NEW i \in Nat
        PROVE  (IF i \in 2 .. n THEN Accumulate[crc][h[i]] ELSE Start) \in Crc
    <2>1. CASE i \in 2 .. n
      <3>1. h[i] \in Byte
        BY <1>1, <2>1
      <3> QED BY <2>1, <3>1, CrcAssumption
    <2> QED BY <2>1, CrcAssumption
  <1>3. ASSUME NEW ci \in Crc \X Nat
        PROVE  (IF ci[2] \in 2 .. n THEN Accumulate[ci[1]][h[ci[2]]] ELSE Start) \in Crc
    <2>1. ci[1] \in Crc /\ ci[2] \in Nat
      OBVIOUS
    <2> QED BY <1>2, <2>1
  <1>4. SumStep(h) \in Steps(Crc)
    BY <1>1, <1>3 DEF SumStep, Steps
  <1>5. ASSUME NEW crc \in Crc, NEW i \in 1 .. n
        PROVE  SumStep(h)[<<crc, i>>] = IF i < 2 THEN Start ELSE Accumulate[crc][h[i]]
    <2>1. <<crc, i>> \in Crc \X Nat /\ (i \in 2 .. n <=> ~(i < 2))
      OBVIOUS
    <2> QED BY <1>1, <2>1 DEF SumStep
  <1> QED BY <1>1, <1>4, <1>5

LEMMA SumsDefined ==
    ASSUME NEW h \in Seq(Byte)
    PROVE  Sums(h) = [i \in 0 .. Len(h) |->
                        IF i < 2 THEN Start ELSE Accumulate[Sums(h)[i - 1]][h[i]]]
  <1>1. PICK n \in Nat : n = Len(h)
    OBVIOUS
  <1>2. PICK w \in [0 .. n -> Crc] : Follows(w, n, Start, SumStep(h))
    BY SumStepFacts, RecursionExists, CrcAssumption
  <1>3. ASSUME NEW i \in 0 .. n
        PROVE  w[i] = IF i < 2 THEN Start ELSE Accumulate[w[i - 1]][h[i]]
    <2>1. CASE i = 0
      BY <1>2, <2>1 DEF Follows
    <2>2. CASE i # 0
      <3>1. PICK j \in 0 .. n : i = j + 1 /\ j < n /\ i - 1 = j /\ i \in 1 .. n
        <4>1. i - 1 \in 0 .. n /\ i = (i - 1) + 1 /\ i - 1 < n /\ i \in 1 .. n
          BY <2>2
        <4> QED BY <4>1
      <3>2. w[i] = SumStep(h)[<<w[j], i>>] /\ w[j] \in Crc
        BY <1>2, <3>1 DEF Follows
      <3> QED BY <1>1, <3>1, <3>2, SumStepFacts
    <2> QED BY <2>1, <2>2
  <1>4. w = [i \in 0 .. n |-> w[i]]
    OBVIOUS
  <1>5. w = [i \in 0 .. Len(h) |-> IF i < 2 THEN Start ELSE Accumulate[w[i - 1]][h[i]]]
    BY <1>1, <1>3, <1>4
  <1> QED BY <1>5, Zenon DEF Sums

(* The checksums of a sequence obey the rule of each that begins like it.    *)
LEMMA SumsObey ==
    ASSUME NEW h \in Seq(Byte), NEW g \in Seq(Byte), Len(h) <= Len(g),
           \A i \in 1 .. Len(h) : g[i] = h[i]
    PROVE  Obeys(Sums(g), Len(h), Crc, Start, SumStep(h))
  <1>1. PICK n \in Nat, m \in Nat : n = Len(h) /\ m = Len(g) /\ n <= m
    OBVIOUS
  <1>2. \A i \in 0 .. m :
           Sums(g)[i] = IF i < 2 THEN Start ELSE Accumulate[Sums(g)[i - 1]][g[i]]
    BY <1>1, SumsDefined
  <1>3. Sums(g)[0] = Start
    <2>1. 0 \in 0 .. m /\ 0 < 2
      OBVIOUS
    <2> QED BY <1>2, <2>1
  <1>4. ASSUME NEW i \in 0 .. n, i < n, Sums(g)[i] \in Crc
        PROVE  Sums(g)[i + 1] = SumStep(h)[<<Sums(g)[i], i + 1>>]
    <2>1. i + 1 \in 0 .. m /\ i + 1 \in 1 .. n /\ (i + 1) - 1 = i
      BY <1>1, <1>4
    <2>2. Sums(g)[i + 1] = IF i + 1 < 2 THEN Start ELSE Accumulate[Sums(g)[i]][g[i + 1]]
      BY <1>2, <2>1
    <2>3. g[i + 1] = h[i + 1]
      BY <1>1, <2>1
    <2>4. SumStep(h)[<<Sums(g)[i], i + 1>>]
            = IF i + 1 < 2 THEN Start ELSE Accumulate[Sums(g)[i]][h[i + 1]]
      BY <1>1, <1>4, <2>1, SumStepFacts
    <2> QED BY <2>2, <2>3, <2>4
  <1> QED BY <1>1, <1>3, <1>4 DEF Obeys

(* Another byte adds one checksum and leaves those before.                   *)
LEMMA SumsGoOn ==
    ASSUME NEW h \in Seq(Byte), NEW c \in Byte
    PROVE  /\ Append(h, c) \in Seq(Byte) /\ Len(Append(h, c)) = Len(h) + 1
           /\ Append(h, c)[Len(h) + 1] = c
           /\ \A i \in 1 .. Len(h) : Append(h, c)[i] = h[i]
           /\ \A i \in 0 .. Len(h) : Sums(Append(h, c))[i] = Sums(h)[i]
           /\ Len(h) > 0 => Sums(Append(h, c))[Len(h) + 1] = Accumulate[Sums(h)[Len(h)]][c]
  <1>1. PICK g \in Seq(Byte), n \in Nat :
           /\ g = Append(h, c) /\ n = Len(h) /\ Len(g) = n + 1
           /\ g[n + 1] = c /\ \A i \in 1 .. n : g[i] = h[i]
    <2>1. Append(h, c) \in Seq(Byte) /\ Len(h) \in Nat
      OBVIOUS
    <2>2. Len(Append(h, c)) = Len(h) + 1 /\ Append(h, c)[Len(h) + 1] = c
      OBVIOUS
    <2>3. \A i \in 1 .. Len(h) : Append(h, c)[i] = h[i]
      OBVIOUS
    <2> QED BY <2>1, <2>2, <2>3
  <1>2. Obeys(Sums(h), n, Crc, Start, SumStep(h))
    <2>1. Len(h) <= Len(h)
      BY <1>1
    <2> QED BY <1>1, <2>1, SumsObey
  <1>3. Obeys(Sums(g), n, Crc, Start, SumStep(h))
    <2>1. Len(h) <= Len(g)
      BY <1>1
    <2> QED BY <1>1, <2>1, SumsObey
  <1>4. \A i \in 0 .. n : Sums(g)[i] = Sums(h)[i]
    <2>1. SumStep(h) \in Steps(Crc) /\ Start \in Crc
      BY SumStepFacts, CrcAssumption
    <2>2. SumStep(h) \in Steps(Crc)
      BY <2>1
    <2>3. Start \in Crc
      BY <2>1
    <2>4. Agree(Sums(g), Sums(h), n, Crc)
      <3>1. n \in Nat
        OBVIOUS
      <3> QED BY <1>2, <1>3, <2>2, <2>3, <3>1, RecursionAgrees, Zenon
    <2> QED BY <2>4, Zenon DEF Agree
  <1>5. ASSUME n > 0 PROVE Sums(g)[n + 1] = Accumulate[Sums(h)[n]][c]
    <2>1. n + 1 \in 0 .. n + 1 /\ ~(n + 1 < 2) /\ (n + 1) - 1 = n /\ n \in 0 .. n
      BY <1>5
    <2>2. Sums(g) = [i \in 0 .. n + 1 |->
                        IF i < 2 THEN Start ELSE Accumulate[Sums(g)[i - 1]][g[i]]]
      BY <1>1, SumsDefined
    <2>3. Sums(g)[n + 1] = Accumulate[Sums(g)[n]][g[n + 1]]
      BY <2>1, <2>2
    <2> QED BY <1>1, <1>4, <2>1, <2>3
  <1> QED BY <1>1, <1>4, <1>5

(* The checksum of a message does not depend on what follows its payload.    *)
LEMMA SumOfGoesOn ==
    ASSUME NEW h \in Seq(Byte), NEW c \in Byte, 6 + h[2] <= Len(h), h[2] \in Nat
    PROVE  SumOf(Append(h, c)) = SumOf(h)
  <1>1. PICK n \in Nat, l \in Nat : n = Len(h) /\ l = h[2] /\ 6 + l <= n
    OBVIOUS
  <1>2. 2 \in 1 .. n /\ 6 \in 1 .. n /\ 6 + l \in 0 .. n
    BY <1>1
  <1>3. Sums(Append(h, c))[6 + l] = Sums(h)[6 + l]
    BY <1>1, <1>2, SumsGoOn
  <1>4. Append(h, c)[2] = h[2] /\ Append(h, c)[6] = h[6]
    BY <1>1, <1>2, SumsGoOn
  <1> QED BY <1>1, <1>3, <1>4 DEF SumOf

LEMMA SumBegins == Sums(<<STX>>)[1] = Start
  <1>1. <<STX>> \in Seq(Byte)
    BY ByteAssumption
  <1>2. Len(<<STX>>) = 1 /\ 1 \in 0 .. 1 /\ 1 < 2
    OBVIOUS
  <1> QED BY <1>1, <1>2, SumsDefined

-----------------------------------------------------------------------------
USE ByteAssumption, CrcAssumption

\* The count of payload bytes in the states where it means something.
CountByState ==
    /\ parse_state \in {"GOT_LENGTH", "GOT_SEQ", "GOT_SYSID", "GOT_COMPID"} => packet_idx = 0
    /\ parse_state = "GOT_MSGID" => packet_idx < len
    /\ parse_state \in {"GOT_PAYLOAD", "GOT_CRC1"} => packet_idx = len

IInv == TypeOK /\ CountByState

LEMMA HeaderStates ==
    /\ Header[1] = "GOT_STX" /\ Header[2] = "GOT_LENGTH" /\ Header[3] = "GOT_SEQ"
    /\ Header[4] = "GOT_SYSID" /\ Header[5] = "GOT_COMPID"
    /\ States = {"GOT_STX", "GOT_LENGTH", "GOT_SEQ", "GOT_SYSID", "GOT_COMPID",
                 "IDLE", "GOT_MSGID", "GOT_PAYLOAD", "GOT_CRC1"}
<1>1. Header = <<"GOT_STX", "GOT_LENGTH", "GOT_SEQ", "GOT_SYSID", "GOT_COMPID">>
  BY DEF Header
<1>2. 1 .. 5 = {1, 2, 3, 4, 5}
  OBVIOUS
<1> QED
  BY <1>1, <1>2 DEF States

LEMMA CellFacts == /\ Byte \subseteq Cell /\ 0 \in Cell
                   /\ \A b \in Byte : b \in Cell /\ b + 1 \in Cell
                   /\ \A b \in Byte, n \in Nat : n <= b => n \in Byte
  BY DEF Cell

LEMMA SumFacts == /\ \A crc \in Crc, b \in Byte : Accumulate[crc][b] \in Crc
                  /\ \A b \in Byte : Extra[b] \in Byte
  OBVIOUS

LEMMA InitIInv == Init => IInv
<1> SUFFICES ASSUME Init PROVE IInv
  OBVIOUS
<1> USE HeaderStates, CellFacts DEF Init
<1>1. msg_received \in BOOLEAN
  BY Zenon
<1>2. payload \in [Cell -> Byte] /\ heard \in Seq(Byte)
  OBVIOUS
<1> QED
  BY <1>1, <1>2 DEF IInv, TypeOK, CountByState

(* What a step leaves to show, msg_received being set by all of them.       *)
LEMMA Suffices ==
  ASSUME /\ parse_state' \in States
         /\ len' \in Byte /\ msgid' \in Byte /\ checksum' \in Crc
         /\ packet_idx' \in Byte
         /\ payload' \in [Cell -> Byte]
         /\ heard' \in Seq(Byte)
         /\ CountByState',
         msg_received' \in BOOLEAN
  PROVE  IInv'
  BY DEF IInv, TypeOK

(* What is kept of the stream is a sequence of bytes.                       *)
LEMMA HeardType ==
  ASSUME IInv, NEW c \in Byte, heard' = Heard(heard, c)
  PROVE  heard' \in Seq(Byte)
<1>1. heard \in Seq(Byte)
  BY DEF IInv, TypeOK
<1>2. Append(heard, c) \in Seq(Byte) /\ Begun(c) \in Seq(Byte)
  BY <1>1 DEF Begun
<1> QED BY <1>2, Zenon DEF Heard

LEMMA BeginStep ==
  ASSUME IInv, NEW c \in Byte, BeginPacket, heard' = Heard(heard, c), msg_received' \in BOOLEAN
  PROVE  IInv'
<1>1. /\ parse_state' = "GOT_STX" /\ len' = 0 /\ checksum' = Start
      /\ UNCHANGED <<msgid, packet_idx, payload>>
  BY DEF BeginPacket, Goto
<1>2. heard' \in Seq(Byte)
  BY HeardType
<1>3. msgid \in Byte /\ packet_idx \in Byte /\ payload \in [Cell -> Byte]
  BY DEF IInv, TypeOK
<1> QED
  BY <1>1, <1>2, <1>3, HeaderStates, Suffices DEF CountByState

LEMMA TakeFacts ==
  ASSUME IInv, NEW c \in Byte, Take(c)
  PROVE  checksum' \in Crc
  BY SumFacts DEF Take, IInv, TypeOK

LEMMA ParseStep ==
  ASSUME IInv, NEW c \in Byte, mavlink_parse_char(c)
  PROVE  IInv'
<1>0. heard' = Heard(heard, c) /\ heard' \in Seq(Byte)
  BY HeardType DEF mavlink_parse_char
<1>1. msg_received' \in BOOLEAN
  BY Zenon DEF mavlink_parse_char, Crc2
<1>2. /\ len \in Byte /\ msgid \in Byte /\ checksum \in Crc /\ packet_idx \in Byte
      /\ payload \in [Cell -> Byte] /\ heard \in Seq(Byte) /\ parse_state \in States
  BY DEF IInv, TypeOK
<1> CountByState
  BY DEF IInv
<1> USE HeaderStates, CellFacts
<1>3. CASE Idle(c)
  <2>1. CASE c = STX
    BY <1>0, <1>1, <1>3, <2>1, BeginStep DEF Idle
  <2>2. CASE c # STX
    BY <1>0, <1>1, <1>2, <1>3, <2>2, Suffices DEF Idle, CountByState
  <2> QED
    BY <2>1, <2>2
<1>4. CASE Length(c)
  <2>1. checksum' \in Crc
    BY <1>4, TakeFacts DEF Length
  <2> QED
    BY <1>0, <1>1, <1>2, <1>4, <2>1, Suffices DEF Length, Goto, CountByState
<1>5. CASE Address(c)
  <2>1. checksum' \in Crc
    BY <1>5, TakeFacts DEF Address
  <2>2. /\ parse_state \in {"GOT_LENGTH", "GOT_SEQ", "GOT_SYSID"}
        /\ parse_state' \in {"GOT_SEQ", "GOT_SYSID", "GOT_COMPID"}
        /\ UNCHANGED <<len, msgid, packet_idx, payload>>
    <3>1. 2 .. 4 = {2, 3, 4}
      OBVIOUS
    <3> QED
      BY <1>5, <3>1 DEF Address, Goto
  <2> QED
    BY <1>0, <1>1, <1>2, <2>1, <2>2, Suffices DEF CountByState
<1>6. CASE MsgId(c)
  <2>1. checksum' \in Crc
    BY <1>6, TakeFacts DEF MsgId
  <2>2. /\ packet_idx = 0 /\ msgid' = c /\ UNCHANGED <<len, packet_idx, payload>>
        /\ parse_state' = IF len = 0 THEN "GOT_PAYLOAD" ELSE "GOT_MSGID"
    BY <1>6 DEF MsgId, Goto, CountByState
  <2>3. len = 0 \/ 0 < len
    BY <1>2
  <2>4. CountByState'
    BY <2>2, <2>3 DEF CountByState
  <2> QED
    BY <1>0, <1>1, <1>2, <2>1, <2>2, <2>4, Suffices
<1>7. CASE Payload(c)
  <2>1. checksum' \in Crc
    BY <1>7, TakeFacts DEF Payload
  <2>2. /\ packet_idx < len /\ packet_idx' = packet_idx + 1 /\ UNCHANGED <<len, msgid>>
        /\ payload' = [payload EXCEPT ![packet_idx] = c]
        /\ parse_state' = IF packet_idx' = len THEN "GOT_PAYLOAD" ELSE "GOT_MSGID"
    BY <1>7 DEF Payload, Goto, CountByState
  <2>3. packet_idx \in Nat /\ len \in Nat
    BY <1>2
  <2>4. packet_idx' \in Byte /\ packet_idx' <= len
    BY <1>2, <2>2, <2>3
  <2>5. CountByState'
    BY <2>2, <2>3, <2>4 DEF CountByState
  <2>6. payload' \in [Cell -> Byte]
    BY <1>2, <2>2
  <2> QED
    BY <1>0, <1>1, <1>2, <2>1, <2>2, <2>4, <2>5, <2>6, Suffices
<1>8. CASE Crc1(c)
  <2> DEFINE sum == Accumulate[checksum][Extra[msgid]]
  <2>1. sum \in Crc
    BY <1>2, SumFacts
  <2>2. CASE c = Low[sum]
    BY <1>0, <1>1, <1>2, <1>8, <2>1, <2>2, Suffices DEF Crc1, Goto, CountByState
  <2>3. CASE c # Low[sum] /\ c = STX
    BY <1>0, <1>1, <1>8, <2>3, BeginStep DEF Crc1
  <2>4. CASE c # Low[sum] /\ c # STX
    BY <1>0, <1>1, <1>2, <1>8, <2>1, <2>4, Suffices DEF Crc1, Goto, CountByState
  <2> QED
    BY <2>2, <2>3, <2>4
<1>9. CASE Crc2(c)
  <2>1. CASE c = High[checksum]
    BY <1>0, <1>1, <1>2, <1>9, <2>1, Suffices DEF Crc2, Goto, CountByState
  <2>2. CASE c # High[checksum] /\ c = STX
    <3>1. BeginPacket
      BY <1>9, <2>2, Zenon DEF Crc2
    <3> QED BY <1>0, <1>1, <3>1, BeginStep
  <2>3. CASE c # High[checksum] /\ c # STX
    BY <1>0, <1>1, <1>2, <1>9, <2>3, Suffices DEF Crc2, Goto, CountByState
  <2> QED
    BY <2>1, <2>2, <2>3
<1> QED
  BY <1>3, <1>4, <1>5, <1>6, <1>7, <1>8, <1>9 DEF mavlink_parse_char

(* The parser's counters agree with its state (mavlink_helpers.h 247-437).   *)
THEOREM Invariance == Spec => []IInv
<1>1. IInv /\ [Next]_vars => IInv'
  <2>1. ASSUME IInv, UNCHANGED vars PROVE IInv'
    <3>1. msg_received' \in BOOLEAN
      BY <2>1, Zenon DEF vars, IInv, TypeOK
    <3> QED
      BY <2>1, <3>1, Suffices DEF vars, IInv, TypeOK, CountByState
  <2> QED
    BY <2>1, ParseStep DEF Next
<1> QED
  BY InitIInv, <1>1, PTL DEF Spec

-----------------------------------------------------------------------------
(* The types of the parser's state (mavlink_helpers.h 247-437).             *)
THEOREM TypeCorrect == Spec => []TypeOK
<1>1. IInv => TypeOK
  BY DEF IInv
<1> QED
  BY Invariance, <1>1, PTL

(* Neither the payload nor the checksum behind it is written outside the    *)
(* buffer, whatever the bytes that come (mavlink_helpers.h 360-413).        *)
THEOREM NeverOverruns == Spec => []PayloadFits
<1>1. IInv => PayloadFits
  BY CellFacts DEF IInv, TypeOK, CountByState, PayloadFits
<1> QED
  BY Invariance, <1>1, PTL

-----------------------------------------------------------------------------
(* What is heard and what it has become, by the state of the parser.         *)
HeardLength ==
    /\ parse_state = "GOT_STX" => Len(heard) = 1
    /\ parse_state = "GOT_LENGTH" => Len(heard) = 2
    /\ parse_state = "GOT_SEQ" => Len(heard) = 3
    /\ parse_state = "GOT_SYSID" => Len(heard) = 4
    /\ parse_state = "GOT_COMPID" => Len(heard) = 5
    /\ parse_state \in {"GOT_MSGID", "GOT_PAYLOAD"} => Len(heard) = 6 + packet_idx
    /\ parse_state = "GOT_CRC1" => Len(heard) = 7 + packet_idx

HeardFields ==
    /\ Len(heard) > 0 => heard[1] = STX
    /\ Len(heard) > 1 => heard[2] = len
    /\ Len(heard) > 5 => heard[6] = msgid
    /\ \A i \in 1 .. packet_idx : Len(heard) >= 6 + i => payload[i - 1] = heard[6 + i]

SumByState ==
    /\ parse_state \notin {"IDLE", "GOT_CRC1"} => checksum = Sums(heard)[Len(heard)]
    /\ parse_state = "GOT_CRC1" =>
          checksum = SumOf(heard) /\ heard[7 + len] = Low[checksum]

Returned ==
    IF parse_state = "IDLE" /\ msg_received
      THEN IsMessage(heard) /\ packet_idx = len
      ELSE ~msg_received /\ (parse_state = "IDLE" => heard = <<>>)

MessageInv == HeardLength /\ HeardFields /\ SumByState /\ Returned

LEMMA MessageInvInit == Init => MessageInv
<1> SUFFICES ASSUME Init PROVE MessageInv
  OBVIOUS
<1>1. Len(heard) = 0 /\ heard = <<>> /\ parse_state = "IDLE" /\ packet_idx = 0 /\ ~msg_received
  <2>1. msg_received = FALSE
    BY Zenon DEF Init
  <2> QED BY <2>1 DEF Init
<1> QED
  BY <1>1 DEF MessageInv, HeardLength, HeardFields, SumByState, Returned

LEMMA MessageInvStutters == ASSUME MessageInv, UNCHANGED vars PROVE MessageInv'
<1>1. /\ parse_state' = parse_state /\ len' = len /\ msgid' = msgid
      /\ checksum' = checksum /\ packet_idx' = packet_idx /\ payload' = payload
      /\ heard' = heard
  BY DEF vars
<1>2. msg_received' = msg_received
  BY Zenon DEF vars
<1>3. HeardLength' /\ HeardFields' /\ SumByState'
  BY <1>1 DEF MessageInv, HeardLength, HeardFields, SumByState, SumOf, Sums
<1>4. Returned'
  <2>1. IsMessage(heard)' <=> IsMessage(heard)
    BY <1>1 DEF IsMessage, SumOf, Sums
  <2> QED BY <1>1, <1>2, <2>1, Zenon DEF MessageInv, Returned
<1> QED BY <1>3, <1>4 DEF MessageInv

(* The parser goes back to where nothing of a message is heard, or to where  *)
(* only its first byte is.                                                   *)
LEMMA IdleAgain ==
  ASSUME parse_state' = "IDLE", heard' = <<>>, ~msg_received', packet_idx' \in Nat
  PROVE  MessageInv'
<1>1. Len(heard') = 0
  OBVIOUS
<1>2. \A i \in 1 .. packet_idx' : ~(0 >= 6 + i)
  OBVIOUS
<1> QED
  BY <1>1, <1>2 DEF MessageInv, HeardLength, HeardFields, SumByState, Returned

LEMMA BeginsAgain ==
  ASSUME BeginPacket, heard' = <<STX>>, ~msg_received', packet_idx \in Nat
  PROVE  MessageInv'
<1>1. /\ parse_state' = "GOT_STX" /\ checksum' = Start /\ heard' = <<STX>>
      /\ packet_idx' = packet_idx
  BY DEF BeginPacket, Goto
<1>2. Len(heard') = 1 /\ heard'[1] = STX
  BY <1>1
<1>3. \A i \in 1 .. packet_idx' : ~(1 >= 6 + i)
  BY <1>1
<1>4. Sums(heard')[Len(heard')] = Start
  BY <1>1, <1>2, SumBegins
<1>5. Sums(heard)' = Sums(heard')
  BY DEF Sums
<1> QED
  BY <1>1, <1>2, <1>3, <1>4, <1>5 DEF MessageInv, HeardLength, HeardFields, SumByState, Returned

(* A byte more is heard: the ones before stay, and so do their checksums.    *)
LEMMA HeardGoesOn ==
  ASSUME IInv, NEW c \in Byte, heard' = Append(heard, c)
  PROVE  /\ Len(heard') = Len(heard) + 1 /\ heard'[Len(heard) + 1] = c
         /\ \A i \in 1 .. Len(heard) : heard'[i] = heard[i]
         /\ Len(heard) > 0 =>
               Sums(heard)'[Len(heard) + 1] = Accumulate[Sums(heard)[Len(heard)]][c]
         /\ heard \in Seq(Byte) /\ heard' \in Seq(Byte) /\ Len(heard) \in Nat
<1>1. heard \in Seq(Byte)
  BY DEF IInv, TypeOK
<1>2. Sums(heard)' = Sums(heard')
  BY DEF Sums
<1>3. Len(heard) \in Nat
  BY <1>1
<1> QED
  BY <1>1, <1>2, <1>3, SumsGoOn

(* The parser's state tells which byte of the message is next: what is heard *)
(* with it does not depend on anything the parser keeps.                     *)
LEMMA HeardIs ==
  ASSUME IInv, MessageInv, NEW c \in Byte, heard' = Heard(heard, c)
  PROVE  /\ parse_state = "IDLE" => heard' = Begun(c)
         /\ parse_state \notin {"IDLE", "GOT_PAYLOAD", "GOT_CRC1"} => heard' = Append(heard, c)
         /\ parse_state = "GOT_PAYLOAD" =>
               heard' = IF c = Low[Accumulate[checksum][Extra[msgid]]]
                        THEN Append(heard, c) ELSE Begun(c)
         /\ parse_state = "GOT_CRC1" =>
               heard' = IF c = High[checksum] THEN Append(heard, c) ELSE Begun(c)
<1>1. PICK l \in Nat, k \in Nat, n \in Nat :
         /\ l = len /\ k = packet_idx /\ n = Len(heard) /\ heard \in Seq(Byte)
         /\ parse_state \in States
  <2>1. len \in Nat /\ packet_idx \in Nat /\ heard \in Seq(Byte) /\ parse_state \in States
    BY DEF IInv, TypeOK
  <2>2. Len(heard) \in Nat
    BY <2>1
  <2> QED BY <2>1, <2>2, Zenon
<1>2. heard # <<>> <=> n # 0
  BY <1>1
<1>3. n > 1 => heard[2] = l
  BY <1>1 DEF MessageInv, HeardFields
<1>4. ASSUME n # 0, n # 8 + l, ~BreaksChecksum(heard, c) PROVE heard' = Append(heard, c)
  <2>1. ~IsMessage(heard)
    <3>1. n > 7 => n > 1
      OBVIOUS
    <3> QED BY <1>1, <1>3, <1>4, <3>1 DEF IsMessage
  <2> QED BY <1>2, <1>4, <2>1, Zenon DEF Heard
<1>5. ASSUME BreaksChecksum(heard, c) PROVE heard' = Begun(c)
  BY <1>5, Zenon DEF Heard
<1>6. CASE parse_state = "IDLE"
  <2>1. IsMessage(heard) \/ heard = <<>>
    BY <1>6, Zenon DEF MessageInv, Returned
  <2> QED BY <1>6, <2>1 DEF Heard
<1>7. CASE parse_state \in {"GOT_STX", "GOT_LENGTH", "GOT_SEQ", "GOT_SYSID", "GOT_COMPID"}
  <2>1. n \in 1 .. 5
    BY <1>1, <1>7 DEF MessageInv, HeardLength
  <2>2. n # 0 /\ n # 8 + l /\ ~(n > 5)
    BY <2>1
  <2>3. ~BreaksChecksum(heard, c)
    BY <1>1, <2>2 DEF BreaksChecksum
  <2> QED BY <1>4, <1>7, <2>2, <2>3
<1>8. CASE parse_state = "GOT_MSGID"
  <2>1. n = 6 + k /\ k < l
    BY <1>1, <1>8 DEF MessageInv, HeardLength, IInv, CountByState
  <2>2. n # 0 /\ n # 8 + l /\ n # 6 + l /\ n # 7 + l /\ n > 1
    BY <2>1
  <2>3. ~BreaksChecksum(heard, c)
    BY <1>1, <1>3, <2>2 DEF BreaksChecksum
  <2> QED BY <1>4, <1>8, <2>2, <2>3
<1>9. CASE parse_state = "GOT_PAYLOAD"
  <2>1. n = 6 + l /\ checksum = Sums(heard)[n]
    BY <1>1, <1>9 DEF MessageInv, HeardLength, SumByState, IInv, CountByState
  <2>2. n # 0 /\ n # 8 + l /\ n # 7 + l /\ n > 1 /\ n > 5
    BY <2>1
  <2>3. SumOf(heard) = Accumulate[checksum][Extra[msgid]]
    BY <1>1, <1>3, <2>1, <2>2 DEF SumOf, MessageInv, HeardFields
  <2>4. BreaksChecksum(heard, c) <=> c # Low[Accumulate[checksum][Extra[msgid]]]
    BY <1>1, <1>3, <2>1, <2>2, <2>3 DEF BreaksChecksum
  <2> QED BY <1>4, <1>5, <1>9, <2>2, <2>4
<1>10. CASE parse_state = "GOT_CRC1"
  <2>1. n = 7 + l /\ checksum = SumOf(heard)
    BY <1>1, <1>10 DEF MessageInv, HeardLength, SumByState, IInv, CountByState
  <2>2. n # 0 /\ n # 8 + l /\ n # 6 + l /\ n > 1 /\ n > 5
    BY <2>1
  <2>3. BreaksChecksum(heard, c) <=> c # High[checksum]
    BY <1>1, <1>3, <2>1, <2>2 DEF BreaksChecksum
  <2> QED BY <1>4, <1>5, <1>10, <2>2, <2>3
<1> QED BY <1>1, <1>6, <1>7, <1>8, <1>9, <1>10, HeaderStates

LEMMA HeaderKeeps ==
  ASSUME IInv, MessageInv, NEW c \in Byte, ~msg_received', heard' = Append(heard, c),
         Length(c) \/ Address(c)
  PROVE  MessageInv'
<1>0. /\ checksum' = Accumulate[checksum][c] /\ heard' = Append(heard, c)
      /\ packet_idx' \in Nat
  BY DEF Length, Address, Take, IInv, TypeOK
<1>1. CASE Length(c)
  <2>1. parse_state = "GOT_STX" /\ parse_state' = "GOT_LENGTH" /\ len' = c /\ packet_idx' = 0
    BY <1>1 DEF Length, Goto
  <2>2. Len(heard) = 1 /\ heard[1] = STX /\ checksum = Sums(heard)[1]
    <3>1. Len(heard) = 1 /\ checksum = Sums(heard)[Len(heard)]
      BY <2>1 DEF MessageInv, HeardLength, SumByState
    <3> QED BY <3>1 DEF MessageInv, HeardFields
  <2>3. Len(heard') = 2 /\ heard'[1] = STX /\ heard'[2] = c /\ checksum' = Sums(heard)'[2]
    <3>1. 1 \in 1 .. 1 /\ 1 + 1 = 2 /\ 1 > 0
      OBVIOUS
    <3> QED BY <1>0, <2>2, <3>1, HeardGoesOn
  <2> QED
    BY <2>1, <2>3 DEF MessageInv, HeardLength, HeardFields, SumByState, Returned
<1>2. CASE Address(c)
  <2>1. /\ \/ parse_state = "GOT_LENGTH" /\ parse_state' = "GOT_SEQ" /\ Len(heard) = 2
           \/ parse_state = "GOT_SEQ" /\ parse_state' = "GOT_SYSID" /\ Len(heard) = 3
           \/ parse_state = "GOT_SYSID" /\ parse_state' = "GOT_COMPID" /\ Len(heard) = 4
        /\ UNCHANGED <<len, msgid, packet_idx, payload>>
    <3>1. 2 .. 4 = {2, 3, 4}
      OBVIOUS
    <3>2. HeardLength
      BY DEF MessageInv
    <3> QED BY <1>2, <3>1, <3>2, HeaderStates DEF Address, Goto, HeardLength
  <2>2. PICK n \in 2 .. 4 : n = Len(heard)
    BY <2>1
  <2>3. heard[1] = STX /\ heard[2] = len /\ checksum = Sums(heard)[n]
    <3>1. n > 0 /\ n > 1
      OBVIOUS
    <3>2. checksum = Sums(heard)[Len(heard)]
      BY <2>1 DEF MessageInv, SumByState
    <3> QED BY <2>2, <3>1, <3>2 DEF MessageInv, HeardFields
  <2>4. /\ Len(heard') = n + 1 /\ heard'[1] = STX /\ heard'[2] = len'
        /\ checksum' = Sums(heard)'[n + 1]
    <3>1. 1 \in 1 .. n /\ 2 \in 1 .. n /\ n > 0
      OBVIOUS
    <3> QED BY <1>0, <2>1, <2>2, <2>3, <3>1, HeardGoesOn
  <2>5. n + 1 <= 5 /\ ~(n + 1 > 5)
    OBVIOUS
  <2>6. \A i \in 1 .. packet_idx' : ~(n + 1 >= 6 + i)
    BY <1>0, <2>5
  <2>7. HeardLength'
    <3>1. 2 + 1 = 3 /\ 3 + 1 = 4 /\ 4 + 1 = 5
      OBVIOUS
    <3>2. /\ parse_state' = "GOT_SEQ" => n = 2
          /\ parse_state' = "GOT_SYSID" => n = 3
          /\ parse_state' = "GOT_COMPID" => n = 4
          /\ parse_state' \in {"GOT_SEQ", "GOT_SYSID", "GOT_COMPID"}
      BY <2>1, <2>2
    <3> QED BY <2>4, <3>1, <3>2 DEF HeardLength
  <2>8. HeardFields'
    BY <2>4, <2>5, <2>6 DEF HeardFields
  <2>9. SumByState' /\ Returned'
    BY <2>1, <2>4 DEF SumByState, Returned
  <2> QED BY <2>7, <2>8, <2>9 DEF MessageInv
<1> QED BY <1>1, <1>2

LEMMA MsgIdKeeps ==
  ASSUME IInv, MessageInv, NEW c \in Byte, ~msg_received', heard' = Append(heard, c), MsgId(c)
  PROVE  MessageInv'
<1>1. /\ checksum' = Accumulate[checksum][c] /\ heard' = Append(heard, c)
      /\ parse_state = "GOT_COMPID" /\ parse_state' \in {"GOT_PAYLOAD", "GOT_MSGID"}
      /\ msgid' = c /\ UNCHANGED <<len, packet_idx, payload>> /\ packet_idx = 0
  BY DEF MsgId, Take, Goto, IInv, CountByState
<1>2. Len(heard) = 5 /\ heard[1] = STX /\ heard[2] = len /\ checksum = Sums(heard)[5]
  <2>1. Len(heard) = 5 /\ checksum = Sums(heard)[Len(heard)]
    BY <1>1 DEF MessageInv, HeardLength, SumByState
  <2> QED BY <2>1 DEF MessageInv, HeardFields
<1>3. /\ Len(heard') = 6 /\ heard'[1] = STX /\ heard'[2] = len' /\ heard'[6] = msgid'
      /\ checksum' = Sums(heard)'[6]
  <2>1. 1 \in 1 .. 5 /\ 2 \in 1 .. 5 /\ 5 > 0 /\ 5 + 1 = 6
    OBVIOUS
  <2> QED BY <1>1, <1>2, <2>1, HeardGoesOn
<1>4. 1 .. packet_idx' = {}
  BY <1>1
<1>5. HeardLength'
  BY <1>1, <1>3 DEF HeardLength
<1>6. HeardFields'
  BY <1>3, <1>4 DEF HeardFields
<1>7. SumByState' /\ Returned'
  BY <1>1, <1>3 DEF SumByState, Returned
<1> QED BY <1>5, <1>6, <1>7 DEF MessageInv

LEMMA PayloadKeeps ==
  ASSUME IInv, MessageInv, NEW c \in Byte, ~msg_received', heard' = Append(heard, c), Payload(c)
  PROVE  MessageInv'
<1>1. PICK k \in Nat : k = packet_idx /\ packet_idx' = k + 1 /\ k \in Cell
  BY CellFacts DEF Payload, IInv, TypeOK
<1>2. /\ checksum' = Accumulate[checksum][c] /\ heard' = Append(heard, c)
      /\ parse_state = "GOT_MSGID" /\ parse_state' \in {"GOT_PAYLOAD", "GOT_MSGID"}
      /\ payload' = [payload EXCEPT ![k] = c] /\ UNCHANGED <<len, msgid>>
  BY <1>1 DEF Payload, Take, Goto
<1>3. Len(heard) = 6 + k /\ checksum = Sums(heard)[6 + k]
  BY <1>1, <1>2 DEF MessageInv, HeardLength, SumByState
<1>4. heard[1] = STX /\ heard[2] = len /\ heard[6] = msgid
  <2>1. 6 + k > 0 /\ 6 + k > 1 /\ 6 + k > 5
    OBVIOUS
  <2> QED BY <1>3, <2>1 DEF MessageInv, HeardFields
<1>5. /\ Len(heard') = (6 + k) + 1 /\ heard'[(6 + k) + 1] = c
      /\ \A i \in 1 .. 6 + k : heard'[i] = heard[i]
      /\ checksum' = Sums(heard)'[(6 + k) + 1]
  <2>1. 6 + k > 0
    OBVIOUS
  <2> QED BY <1>2, <1>3, <2>1, HeardGoesOn
<1>6. heard'[1] = STX /\ heard'[2] = len' /\ heard'[6] = msgid'
  <2>1. 1 \in 1 .. 6 + k /\ 2 \in 1 .. 6 + k /\ 6 \in 1 .. 6 + k
    OBVIOUS
  <2> QED BY <1>2, <1>4, <1>5, <2>1
<1>7. ASSUME NEW i \in 1 .. k + 1 PROVE payload'[i - 1] = heard'[6 + i]
  <2>1. payload \in [Cell -> Byte]
    BY DEF IInv, TypeOK
  <2>2. CASE i = k + 1
    <3>1. i - 1 = k /\ 6 + i = (6 + k) + 1
      BY <2>2
    <3> QED BY <1>1, <1>2, <1>5, <2>1, <3>1
  <2>3. CASE i # k + 1
    <3>1. i \in 1 .. k /\ 6 + i \in 1 .. 6 + k /\ 6 + k >= 6 + i /\ i - 1 # k
      BY <2>3
    <3>2. payload[i - 1] = heard[6 + i]
      BY <1>1, <1>3, <3>1 DEF MessageInv, HeardFields
    <3>3. payload'[i - 1] = payload[i - 1]
      BY <1>2, <2>1, <3>1
    <3> QED BY <1>5, <3>1, <3>2, <3>3
  <2> QED BY <2>2, <2>3
<1>8. HeardLength'
  <2>1. (6 + k) + 1 = 6 + (k + 1)
    OBVIOUS
  <2> QED BY <1>1, <1>2, <1>5, <2>1 DEF HeardLength
<1>9. HeardFields'
  BY <1>1, <1>6, <1>7 DEF HeardFields
<1>10. SumByState' /\ Returned'
  BY <1>2, <1>5 DEF SumByState, Returned
<1> QED BY <1>8, <1>9, <1>10 DEF MessageInv

(* The first byte of the checksum, when it fits.                             *)
LEMMA Crc1Keeps ==
  ASSUME IInv, MessageInv, NEW c \in Byte, ~msg_received', heard' = Append(heard, c), Crc1(c),
         c = Low[Accumulate[checksum][Extra[msgid]]]
  PROVE  MessageInv'
<1>1. PICK k \in Nat : k = packet_idx /\ k = len /\ k \in Cell
  BY CellFacts DEF Crc1, IInv, TypeOK, CountByState
<1>2. /\ parse_state = "GOT_PAYLOAD" /\ parse_state' = "GOT_CRC1"
      /\ checksum' = Accumulate[checksum][Extra[msgid]] /\ heard' = Append(heard, c)
      /\ payload' = [payload EXCEPT ![k] = c] /\ UNCHANGED <<len, msgid, packet_idx>>
  BY <1>1 DEF Crc1, Goto
<1>3. Len(heard) = 6 + k /\ checksum = Sums(heard)[6 + k]
  BY <1>1, <1>2 DEF MessageInv, HeardLength, SumByState
<1>4. heard[1] = STX /\ heard[2] = len /\ heard[6] = msgid
  <2>1. 6 + k > 0 /\ 6 + k > 1 /\ 6 + k > 5
    OBVIOUS
  <2> QED BY <1>3, <2>1 DEF MessageInv, HeardFields
<1>5. /\ Len(heard') = (6 + k) + 1 /\ heard'[(6 + k) + 1] = c
      /\ \A i \in 1 .. 6 + k : heard'[i] = heard[i]
  BY <1>2, <1>3, HeardGoesOn
<1>6. heard'[1] = STX /\ heard'[2] = len' /\ heard'[6] = msgid'
  <2>1. 1 \in 1 .. 6 + k /\ 2 \in 1 .. 6 + k /\ 6 \in 1 .. 6 + k
    OBVIOUS
  <2> QED BY <1>2, <1>4, <1>5, <2>1
<1>7. ASSUME NEW i \in 1 .. k PROVE payload'[i - 1] = heard'[6 + i]
  <2>1. i \in 1 .. k /\ 6 + i \in 1 .. 6 + k /\ 6 + k >= 6 + i /\ i - 1 # k
    OBVIOUS
  <2>2. payload[i - 1] = heard[6 + i]
    BY <1>1, <1>3, <2>1 DEF MessageInv, HeardFields
  <2>3. payload'[i - 1] = payload[i - 1]
    BY <1>2, <2>1 DEF IInv, TypeOK
  <2> QED BY <1>5, <2>1, <2>2, <2>3
<1>8. SumOf(heard)' = checksum'
  <2>1. SumOf(heard) = checksum'
    BY <1>1, <1>2, <1>3, <1>4 DEF SumOf
  <2>2. 6 + heard[2] <= Len(heard) /\ heard[2] \in Nat /\ heard \in Seq(Byte)
    BY <1>1, <1>3, <1>4 DEF IInv, TypeOK
  <2>3. SumOf(heard') = SumOf(heard)
    BY <1>2, <2>2, SumOfGoesOn
  <2>4. SumOf(heard)' = SumOf(heard')
    BY DEF SumOf, Sums
  <2> QED BY <2>1, <2>3, <2>4
<1>9. SumByState'
  <2>1. (6 + k) + 1 = 7 + k
    OBVIOUS
  <2> QED BY <1>1, <1>2, <1>5, <1>8, <2>1 DEF SumByState
<1>10. HeardLength'
  <2>1. (6 + k) + 1 = 7 + k
    OBVIOUS
  <2> QED BY <1>1, <1>2, <1>5, <2>1 DEF HeardLength
<1>11. HeardFields'
  BY <1>1, <1>2, <1>6, <1>7 DEF HeardFields
<1>12. Returned'
  BY <1>2 DEF Returned
<1> QED BY <1>9, <1>10, <1>11, <1>12 DEF MessageInv

(* The second one, when it fits: the message is complete.                    *)
LEMMA Crc2Completes ==
  ASSUME IInv, MessageInv, NEW c \in Byte, msg_received', heard' = Append(heard, c), Crc2(c),
         c = High[checksum]
  PROVE  MessageInv'
<1>1. PICK k \in Nat : k = packet_idx /\ k = len /\ k + 1 \in Cell
  BY CellFacts DEF Crc2, IInv, TypeOK, CountByState
<1>2. /\ parse_state = "GOT_CRC1" /\ parse_state' = "IDLE" /\ heard' = Append(heard, c)
      /\ payload' = [payload EXCEPT ![k + 1] = c]
      /\ UNCHANGED <<len, msgid, checksum, packet_idx>>
  BY <1>1 DEF Crc2, Goto
<1>3. /\ Len(heard) = 7 + k /\ checksum = SumOf(heard)
      /\ heard[7 + k] = Low[checksum]
  BY <1>1, <1>2 DEF MessageInv, HeardLength, SumByState
<1>4. heard[1] = STX /\ heard[2] = len /\ heard[6] = msgid
  <2>1. 7 + k > 0 /\ 7 + k > 1 /\ 7 + k > 5
    OBVIOUS
  <2> QED BY <1>3, <2>1 DEF MessageInv, HeardFields
<1>5. /\ Len(heard') = (7 + k) + 1 /\ heard'[(7 + k) + 1] = c
      /\ \A i \in 1 .. 7 + k : heard'[i] = heard[i]
  BY <1>2, <1>3, HeardGoesOn
<1>6. heard'[1] = STX /\ heard'[2] = len' /\ heard'[6] = msgid' /\ heard'[7 + k] = heard[7 + k]
  <2>1. 1 \in 1 .. 7 + k /\ 2 \in 1 .. 7 + k /\ 6 \in 1 .. 7 + k /\ 7 + k \in 1 .. 7 + k
    OBVIOUS
  <2> QED BY <1>2, <1>4, <1>5, <2>1
<1>7. ASSUME NEW i \in 1 .. k PROVE payload'[i - 1] = heard'[6 + i]
  <2>1. i \in 1 .. k /\ 6 + i \in 1 .. 7 + k /\ 7 + k >= 6 + i /\ i - 1 # k + 1
    OBVIOUS
  <2>2. payload[i - 1] = heard[6 + i]
    BY <1>1, <1>3, <2>1 DEF MessageInv, HeardFields
  <2>3. payload'[i - 1] = payload[i - 1]
    BY <1>2, <2>1 DEF IInv, TypeOK
  <2> QED BY <1>5, <2>1, <2>2, <2>3
<1>8. SumOf(heard)' = checksum
  <2>1. 6 + heard[2] <= Len(heard) /\ heard[2] \in Nat /\ heard \in Seq(Byte)
    BY <1>1, <1>3, <1>4 DEF IInv, TypeOK
  <2>2. SumOf(heard') = SumOf(heard)
    BY <1>2, <2>1, SumOfGoesOn
  <2>3. SumOf(heard)' = SumOf(heard')
    BY DEF SumOf, Sums
  <2> QED BY <1>3, <2>2, <2>3
<1>9. IsMessage(heard)'
  <2>1. (7 + k) + 1 = 8 + k /\ 8 + k > 7
    OBVIOUS
  <2>2. heard'[2] = k
    BY <1>1, <1>2, <1>6
  <2>3. /\ Len(heard') > 7 /\ Len(heard') = 8 + heard'[2] /\ heard'[1] = STX
        /\ heard'[7 + heard'[2]] = Low[checksum] /\ heard'[8 + heard'[2]] = High[checksum]
    BY <1>3, <1>5, <1>6, <2>1, <2>2
  <2> QED BY <1>8, <2>3 DEF IsMessage
<1>10. HeardLength' /\ SumByState'
  BY <1>2 DEF HeardLength, SumByState
<1>11. HeardFields'
  BY <1>1, <1>2, <1>6, <1>7 DEF HeardFields
<1>12. Returned'
  BY <1>1, <1>2, <1>9 DEF Returned
<1> QED BY <1>10, <1>11, <1>12 DEF MessageInv

LEMMA MessageInvStep ==
  ASSUME IInv, MessageInv, NEW c \in Byte, mavlink_parse_char(c)
  PROVE  MessageInv'
<1>1. heard' = Heard(heard, c) /\ packet_idx \in Nat
  BY DEF mavlink_parse_char, IInv, TypeOK
<1>2. c = STX => Begun(c) = <<STX>>
  BY DEF Begun
<1>3. c # STX => Begun(c) = <<>>
  BY DEF Begun
<1>4. CASE Idle(c) /\ ~msg_received'
  <2>1. parse_state = "IDLE" /\ heard' = Begun(c)
    BY <1>1, <1>4, HeardIs DEF Idle
  <2>2. CASE c = STX
    BY <1>1, <1>2, <1>4, <2>1, <2>2, BeginsAgain DEF Idle
  <2>3. CASE c # STX
    <3>1. parse_state' = "IDLE" /\ heard' = <<>> /\ packet_idx' = packet_idx
      BY <1>3, <1>4, <2>1, <2>3 DEF Idle
    <3> QED BY <1>1, <1>4, <3>1, IdleAgain
  <2> QED BY <2>2, <2>3
<1>5. CASE (Length(c) \/ Address(c)) /\ ~msg_received'
  <2>1. parse_state \notin {"IDLE", "GOT_PAYLOAD", "GOT_CRC1"}
    <3>1. 2 .. 4 = {2, 3, 4}
      OBVIOUS
    <3> QED BY <1>5, <3>1, HeaderStates DEF Length, Address
  <2> QED BY <1>1, <1>5, <2>1, HeardIs, HeaderKeeps
<1>6. CASE MsgId(c) /\ ~msg_received'
  <2>1. parse_state = "GOT_COMPID"
    BY <1>6 DEF MsgId
  <2> QED BY <1>1, <1>6, <2>1, HeardIs, MsgIdKeeps
<1>7. CASE Payload(c) /\ ~msg_received'
  <2>1. parse_state = "GOT_MSGID"
    BY <1>7 DEF Payload
  <2> QED BY <1>1, <1>7, <2>1, HeardIs, PayloadKeeps
<1>8. CASE Crc1(c) /\ ~msg_received'
  <2>1. parse_state = "GOT_PAYLOAD"
    BY <1>8 DEF Crc1
  <2>2. CASE c = Low[Accumulate[checksum][Extra[msgid]]]
    BY <1>1, <1>8, <2>1, <2>2, HeardIs, Crc1Keeps
  <2>3. CASE c # Low[Accumulate[checksum][Extra[msgid]]]
    <3>1. heard' = Begun(c)
      BY <1>1, <2>1, <2>3, HeardIs
    <3>2. CASE c = STX
      <4>1. BeginPacket
        BY <1>8, <2>3, <3>2 DEF Crc1
      <4> QED BY <1>1, <1>2, <1>8, <3>1, <3>2, <4>1, BeginsAgain
    <3>3. CASE c # STX
      <4>1. parse_state' = "IDLE" /\ heard' = <<>> /\ packet_idx' = packet_idx
        BY <1>3, <1>8, <2>3, <3>1, <3>3 DEF Crc1, Goto
      <4> QED BY <1>1, <1>8, <4>1, IdleAgain
    <3> QED BY <3>2, <3>3
  <2> QED BY <2>2, <2>3
<1>9. CASE Crc2(c)
  <2>1. parse_state = "GOT_CRC1"
    BY <1>9 DEF Crc2
  <2>2. msg_received' <=> c = High[checksum]
    BY <1>9, Zenon DEF Crc2
  <2>3. CASE c = High[checksum]
    <3>1. heard' = Append(heard, c)
      BY <1>1, <2>1, <2>3, HeardIs
    <3> QED BY <1>9, <2>2, <2>3, <3>1, Crc2Completes
  <2>4. CASE c # High[checksum]
    <3>1. heard' = Begun(c)
      BY <1>1, <2>1, <2>4, HeardIs
    <3>2. CASE c = STX
      <4>1. BeginPacket
        BY <1>9, <2>4, <3>2, Zenon DEF Crc2
      <4> QED BY <1>1, <1>2, <2>2, <2>4, <3>1, <3>2, <4>1, BeginsAgain
    <3>3. CASE c # STX
      <4>1. parse_state' = "IDLE" /\ heard' = <<>> /\ packet_idx' = packet_idx
        BY <1>3, <1>9, <2>4, <3>1, <3>3 DEF Crc2, Goto
      <4> QED BY <1>1, <2>2, <2>4, <4>1, IdleAgain
    <3> QED BY <3>2, <3>3
  <2> QED BY <2>3, <2>4
<1> QED
  BY <1>4, <1>5, <1>6, <1>7, <1>8, <1>9, Zenon DEF mavlink_parse_char

(* What was collected of a message is what was heard of it.                  *)
THEOREM MessageInvHolds == Spec => []MessageInv
<1>1. IInv /\ MessageInv /\ [Next]_vars => MessageInv'
  BY MessageInvStep, MessageInvStutters DEF Next
<1> QED
  BY MessageInvInit, <1>1, Invariance, PTL DEF Spec

(* 1 is returned for every message of the stream, as its bytes alone tell    *)
(* them, for nothing else, and with the payload heard, whatever the bytes    *)
(* and the checksum (mavlink_helpers.h 247-437).                             *)
THEOREM MessagesAreReturned == Spec => []ReturnsMessages
<1>1. ASSUME IInv, MessageInv PROVE ReturnsMessages
  <2>1. PICK l \in Nat, k \in Nat : l = len /\ k = packet_idx /\ parse_state \in States
    BY <1>1 DEF IInv, TypeOK
  <2>2. CASE msg_received
    <3>1. parse_state = "IDLE" /\ IsMessage(heard) /\ k = l
      BY <1>1, <2>1, <2>2, Zenon DEF MessageInv, Returned
    <3>2. heard[2] = l /\ Len(heard) = 8 + l /\ heard[6] = msgid
      <4>1. Len(heard) > 7
        BY <3>1 DEF IsMessage
      <4>2. Len(heard) > 1 /\ Len(heard) > 5
        <5>1. Len(heard) \in Nat
          BY <1>1 DEF IInv, TypeOK
        <5> QED BY <4>1, <5>1
      <4>3. heard[2] = l /\ heard[6] = msgid
        BY <1>1, <2>1, <4>2 DEF MessageInv, HeardFields
      <4> QED BY <3>1, <4>3 DEF IsMessage
    <3>3. ASSUME NEW i \in 1 .. l PROVE payload[i - 1] = heard[6 + i]
      <4>1. 8 + l >= 6 + i
        OBVIOUS
      <4> QED BY <1>1, <2>1, <3>1, <3>2, <4>1 DEF MessageInv, HeardFields
    <3> QED BY <2>1, <2>2, <3>1, <3>2, <3>3 DEF ReturnsMessages
  <2>3. CASE ~msg_received
    <3>1. SUFFICES ~IsMessage(heard)
      BY <2>3, Zenon DEF ReturnsMessages
    <3>2. CASE parse_state = "IDLE"
      <4>1. heard = <<>>
        BY <1>1, <2>3, <3>2, Zenon DEF MessageInv, Returned
      <4> QED BY <4>1 DEF IsMessage
    <3>3. CASE parse_state \in {"GOT_STX", "GOT_LENGTH", "GOT_SEQ", "GOT_SYSID", "GOT_COMPID"}
      <4>1. Len(heard) \in 1 .. 5
        BY <1>1, <3>3 DEF MessageInv, HeardLength
      <4>2. \A n \in 1 .. 5 : ~(n > 7)
        OBVIOUS
      <4>3. ~(Len(heard) > 7)
        BY <4>1, <4>2, Zenon
      <4> QED BY <4>3, Zenon DEF IsMessage
    <3>4. CASE parse_state \in {"GOT_MSGID", "GOT_PAYLOAD", "GOT_CRC1"}
      <4>1. k <= l /\ Len(heard) \in {6 + k, 7 + k} /\ Len(heard) > 5
        BY <1>1, <2>1, <3>4 DEF MessageInv, HeardLength, IInv, CountByState
      <4>2. Len(heard) > 1
        BY <4>1
      <4>3. heard[2] = l
        BY <1>1, <2>1, <4>2 DEF MessageInv, HeardFields
      <4>4. Len(heard) # 8 + l
        BY <4>1
      <4> QED BY <4>3, <4>4 DEF IsMessage
    <3> QED BY <2>1, <3>2, <3>3, <3>4, HeaderStates
  <2> QED BY <2>2, <2>3
<1> QED
  BY Invariance, MessageInvHolds, <1>1, PTL

(* A behaviour of the bundle is one of the parser, which may rest.           *)
THEOREM ParserIsAPart == PeripheralsSpec => Spec
<1>1. PeripheralsInit => Init
  BY DEF PeripheralsInit
<1>2. [PeripheralsNext]_allVars => [Next]_vars
  BY DEF PeripheralsNext, ParserMoves, Sampled, LoopMoves, PinsMove, allVars
<1> QED
  BY <1>1, <1>2, PTL DEF PeripheralsSpec, Spec
=============================================================================
