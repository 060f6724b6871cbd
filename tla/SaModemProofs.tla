--------------------------- MODULE SaModemProofs ---------------------------
(***************************************************************************)
(* For every byte width, buffer size and choice of framing bytes: the      *)
(* demodulator's fields always agree with the bytes it has read, its       *)
(* buffer is never overrun, and it implements PacketReceiver.  And of the  *)
(* link, for readings of any length and any number of faults: whole        *)
(* packets are published and damaged ones are not.                         *)
(***************************************************************************)
EXTENDS SaModemStream, HrLink, TLAPS, SequenceTheorems, FiniteSetTheorems,
        NaturalsInduction, WellFoundedInduction

(* A set of naturals has a least element: induction over the naturals.       *)
LEMMA LeastElement ==
    ASSUME NEW T \in SUBSET Nat, T # {}
    PROVE  \E x \in T : \A y \in T : x <= y
  <1> DEFINE Less == {xy \in Nat \X Nat : xy[1] < xy[2]}
  <1>1. IsWellFoundedOn(Less, Nat)
    BY NatLessThanWellFounded DEF OpToRel
  <1>2. \A x, y \in Nat : y < x => <<y, x>> \in Less
    OBVIOUS
  <1> HIDE DEF Less
  <1>3. PICK x \in T : \A y \in T : ~(<<y, x>> \in Less)
    BY <1>1, WFMin
  <1>4. ASSUME NEW y \in T PROVE x <= y
    <2>1. x \in Nat /\ y \in Nat /\ ~(y < x)
      BY <1>2, <1>3
    <2> QED BY <2>1
  <1> QED BY <1>4

(* What is true of 0, and of i + 1 when it is of i, is true up to n.         *)
LEMMA UpTo ==
    ASSUME NEW n \in Nat, NEW T, 0 \in T,
           \A i \in 0 .. n : i < n /\ i \in T => i + 1 \in T
    PROVE  0 .. n \subseteq T
  <1> DEFINE Bad == {i \in 0 .. n : i \notin T}
  <1>1. SUFFICES Bad = {}
    OBVIOUS
  <1>2. ASSUME Bad # {} PROVE FALSE
    <2>1. Bad \in SUBSET Nat
      OBVIOUS
    <2>2. PICK x \in Bad : \A y \in Bad : x <= y
      <3> HIDE DEF Bad
      <3> QED BY <1>2, <2>1, LeastElement
    <2>3. x \in 0 .. n /\ x \notin T
      BY <2>2
    <2>4. PICK j \in 0 .. n : x = j + 1 /\ j < n
      <3>1. x # 0
        BY <2>3
      <3>2. x - 1 \in 0 .. n /\ x = (x - 1) + 1 /\ x - 1 < n
        BY <2>3, <3>1
      <3> QED BY <3>2
    <2>5. j \in T
      <3>1. ~(x <= j)
        BY <2>4
      <3> QED BY <2>2, <2>4, <3>1
    <2> QED BY <2>3, <2>4, <2>5
  <1> QED BY <1>2

(* A function on 0 .. n that is defined from its value before exists.        *)
\* from a value and the next argument to the next value
Steps(V) == [V \X Nat -> V]

Follows(w, n, base, F) ==
    /\ w[0] = base
    /\ \A i \in 0 .. n : i < n => w[i + 1] = F[<<w[i], i + 1>>]

LEMMA RecursionExists ==
    ASSUME NEW n \in Nat, NEW V, NEW base \in V, NEW F \in Steps(V)
    PROVE  \E w \in [0 .. n -> V] : Follows(w, n, base, F)
  <1> DEFINE T == {k \in Nat : \E w \in [0 .. k -> V] : Follows(w, k, base, F)}
  <1>1. 0 \in T
    <2>1. [i \in 0 .. 0 |-> base] \in [0 .. 0 -> V]
      OBVIOUS
    <2>2. Follows([i \in 0 .. 0 |-> base], 0, base, F)
      BY DEF Follows
    <2> QED BY <2>1, <2>2
  <1>2. ASSUME NEW k \in 0 .. n, k < n, k \in T PROVE k + 1 \in T
    <2>1. PICK m \in Nat : m = k
      OBVIOUS
    <2>2. PICK w \in [0 .. m -> V] : Follows(w, m, base, F)
      BY <1>2, <2>1
    <2> DEFINE v == [i \in 0 .. m + 1 |-> IF i = m + 1 THEN F[<<w[m], m + 1>>] ELSE w[i]]
    <2>3. \A i \in 0 .. m : i \in 0 .. m + 1 /\ v[i] = w[i]
      OBVIOUS
    <2>4. m + 1 \in 0 .. m + 1 /\ v[m + 1] = F[<<w[m], m + 1>>] /\ m + 1 \in Nat /\ m \in 0 .. m
      OBVIOUS
    <2>5. \A i \in 0 .. m + 1 : i # m + 1 => i \in 0 .. m
      OBVIOUS
    <2>6. v \in [0 .. m + 1 -> V]
      <3>1. F[<<w[m], m + 1>>] \in V
        BY <2>4 DEF Steps
      <3>2. ASSUME NEW i \in 0 .. m + 1
            PROVE  (IF i = m + 1 THEN F[<<w[m], m + 1>>] ELSE w[i]) \in V
        BY <2>5, <3>1
      <3> QED BY <3>2
    <2> HIDE DEF v
    <2>7. Follows(v, m + 1, base, F)
      <3>1. v[0] = base
        <4>1. 0 \in 0 .. m
          OBVIOUS
        <4> QED BY <2>2, <2>3, <4>1 DEF Follows
      <3>2. ASSUME NEW i \in 0 .. m + 1, i < m + 1
            PROVE  v[i + 1] = F[<<v[i], i + 1>>]
        <4>1. i \in 0 .. m /\ v[i] = w[i]
          BY <2>3, <2>5, <3>2
        <4>2. CASE i = m
          BY <2>4, <4>1, <4>2
        <4>3. CASE i # m
          <5>1. i < m /\ i + 1 \in 0 .. m
            BY <4>1, <4>3
          <5>2. w[i + 1] = F[<<w[i], i + 1>>]
            BY <2>2, <4>1, <5>1 DEF Follows
          <5> QED BY <2>3, <4>1, <5>1, <5>2
        <4> QED BY <4>2, <4>3
      <3> QED BY <3>1, <3>2 DEF Follows
    <2> QED BY <2>1, <2>4, <2>6, <2>7
  <1>3. 0 .. n \subseteq T
    <2> HIDE DEF T
    <2> QED BY <1>1, <1>2, UpTo
  <1>4. n \in 0 .. n
    OBVIOUS
  <1> QED BY <1>3, <1>4

-----------------------------------------------------------------------------
(* The powers of two, the bits of a byte and the number with given bits.     *)
LEMMA WeightFacts ==
    /\ Weight[0] = 1
    /\ \A i \in 0 .. ByteBits : Weight[i] \in Nat /\ Weight[i] >= 1
    /\ \A i \in 0 .. ByteBits : i < ByteBits => Weight[i + 1] = 2 * Weight[i]
  <1>1. PICK n \in Nat : n = ByteBits
    BY ByteAssumption
  <1> DEFINE F == [wi \in Nat \X Nat |-> 2 * wi[1]]
  <1>2. F \in Steps(Nat) /\ \A w \in Nat, i \in Nat : F[<<w, i>>] = 2 * w
    <2>1. ASSUME NEW wi \in Nat \X Nat PROVE 2 * wi[1] \in Nat
      <3>1. wi[1] \in Nat
        OBVIOUS
      <3> QED BY <3>1
    <2> QED BY <2>1 DEF Steps
  <1> HIDE DEF F
  <1>3. PICK w \in [0 .. n -> Nat] : Follows(w, n, 1, F)
    BY <1>2, RecursionExists
  <1>4. w[0] = 1 /\ \A i \in 0 .. n : i < n => w[i + 1] = 2 * w[i]
    <2>1. ASSUME NEW i \in 0 .. n, i < n PROVE w[i + 1] = 2 * w[i]
      <3>1. w[i + 1] = F[<<w[i], i + 1>>]
        BY <1>3, <2>1 DEF Follows
      <3>2. w[i] \in Nat /\ i + 1 \in Nat
        BY <1>3
      <3>3. F[<<w[i], i + 1>>] = 2 * w[i]
        BY <1>2, <3>2
      <3> QED BY <3>1, <3>3
    <2>2. w[0] = 1
      BY <1>3 DEF Follows
    <2> QED BY <2>1, <2>2
  <1>5. w = [i \in 0 .. n |-> IF i = 0 THEN 1 ELSE 2 * w[i - 1]]
    <2>1. ASSUME NEW i \in 0 .. n PROVE w[i] = IF i = 0 THEN 1 ELSE 2 * w[i - 1]
      <3>1. CASE i = 0
        BY <1>4, <3>1
      <3>2. CASE i # 0
        <4>1. i - 1 \in 0 .. n /\ i - 1 < n /\ (i - 1) + 1 = i
          BY <3>2
        <4> QED BY <1>4, <3>2, <4>1
      <3> QED BY <3>1, <3>2
    <2> QED BY <2>1
  <1>6. Weight = [i \in 0 .. n |-> IF i = 0 THEN 1 ELSE 2 * Weight[i - 1]]
    BY <1>1, <1>5, Zenon DEF Weight
  <1>7. Weight[0] = 1
    BY <1>6
  <1>8. ASSUME NEW i \in 0 .. n, i < n PROVE Weight[i + 1] = 2 * Weight[i]
    <2>1. i + 1 \in 0 .. n /\ i + 1 # 0 /\ (i + 1) - 1 = i
      BY <1>8
    <2> QED BY <1>6, <2>1
  <1> DEFINE T == {i \in Nat : Weight[i] \in Nat /\ Weight[i] >= 1}
  <1>9. 0 .. n \subseteq T
    <2>1. 0 \in T
      BY <1>7
    <2>2. ASSUME NEW i \in 0 .. n, i < n, i \in T PROVE i + 1 \in T
      <3>1. PICK w0 \in Nat : w0 = Weight[i] /\ w0 >= 1
        BY <2>2
      <3>2. Weight[i + 1] = 2 * w0 /\ 2 * w0 \in Nat /\ 2 * w0 >= 1
        BY <1>8, <2>2, <3>1
      <3> QED BY <3>2
    <2> HIDE DEF T
    <2> QED BY <2>1, <2>2, UpTo
  <1> QED BY <1>1, <1>7, <1>8, <1>9

LEMMA ShiftedFacts ==
    ASSUME NEW x \in Nat
    PROVE  /\ Shifted(x)[0] = x
           /\ \A i \in 0 .. ByteBits : Shifted(x)[i] \in Nat
           /\ \A i \in 0 .. ByteBits : i < ByteBits => Shifted(x)[i + 1] = Shifted(x)[i] \div 2
  <1>1. PICK n \in Nat : n = ByteBits
    BY ByteAssumption
  <1> DEFINE F == [hi \in Nat \X Nat |-> hi[1] \div 2]
  <1>2. F \in Steps(Nat) /\ \A h \in Nat, i \in Nat : F[<<h, i>>] = h \div 2
    <2>1. ASSUME NEW hi \in Nat \X Nat PROVE hi[1] \div 2 \in Nat
      <3>1. hi[1] \in Nat
        OBVIOUS
      <3> QED BY <3>1
    <2> QED BY <2>1 DEF Steps
  <1> HIDE DEF F
  <1>3. PICK w \in [0 .. n -> Nat] : Follows(w, n, x, F)
    BY <1>2, RecursionExists
  <1>4. w[0] = x /\ \A i \in 0 .. n : i < n => w[i + 1] = w[i] \div 2
    <2>1. ASSUME NEW i \in 0 .. n, i < n PROVE w[i + 1] = w[i] \div 2
      <3>1. w[i + 1] = F[<<w[i], i + 1>>]
        BY <1>3, <2>1 DEF Follows
      <3>2. w[i] \in Nat /\ i + 1 \in Nat
        BY <1>3
      <3>3. F[<<w[i], i + 1>>] = w[i] \div 2
        BY <1>2, <3>2
      <3> QED BY <3>1, <3>3
    <2>2. w[0] = x
      BY <1>3 DEF Follows
    <2> QED BY <2>1, <2>2
  <1>5. w = [i \in 0 .. n |-> IF i = 0 THEN x ELSE w[i - 1] \div 2]
    <2>1. ASSUME NEW i \in 0 .. n PROVE w[i] = IF i = 0 THEN x ELSE w[i - 1] \div 2
      <3>1. CASE i = 0
        BY <1>4, <3>1
      <3>2. CASE i # 0
        <4>1. i - 1 \in 0 .. n /\ i - 1 < n /\ (i - 1) + 1 = i
          BY <3>2
        <4> QED BY <1>4, <3>2, <4>1
      <3> QED BY <3>1, <3>2
    <2> QED BY <2>1
  <1>6. Shifted(x) = [i \in 0 .. n |-> IF i = 0 THEN x ELSE Shifted(x)[i - 1] \div 2]
    BY <1>1, <1>5, Zenon DEF Shifted
  <1>7. PICK s : s = Shifted(x)
    OBVIOUS
  <1>8. s[0] = x
    BY <1>6, <1>7
  <1>9. ASSUME NEW i \in 0 .. n, i < n PROVE s[i + 1] = s[i] \div 2
    <2>1. i + 1 \in 0 .. n /\ i + 1 # 0 /\ (i + 1) - 1 = i
      BY <1>9
    <2> QED BY <1>6, <1>7, <2>1
  <1> DEFINE T == {i \in Nat : s[i] \in Nat}
  <1>10. 0 .. n \subseteq T
    <2>1. 0 \in T
      BY <1>8
    <2>2. ASSUME NEW i \in 0 .. n, i < n, i \in T PROVE i + 1 \in T
      <3>1. PICK h \in Nat : h = s[i]
        BY <2>2
      <3>2. s[i + 1] = h \div 2 /\ h \div 2 \in Nat
        BY <1>9, <2>2, <3>1
      <3> QED BY <3>2
    <2> HIDE DEF T
    <2> QED BY <2>1, <2>2, UpTo
  <1> QED BY <1>1, <1>7, <1>8, <1>9, <1>10

LEMMA BitFacts ==
    ASSUME NEW x \in Nat, NEW i \in 0 .. ByteBits, i < ByteBits
    PROVE  /\ Bit(x, i) \in {0, 1}
           /\ Shifted(x)[i] = 2 * Shifted(x)[i + 1] + Bit(x, i)
  <1>1. PICK h \in Nat : h = Shifted(x)[i] /\ Shifted(x)[i + 1] = h \div 2 /\ Bit(x, i) = h % 2
    BY ShiftedFacts DEF Bit
  <1>2. h % 2 \in {0, 1} /\ h = 2 * (h \div 2) + (h % 2)
    OBVIOUS
  <1> QED BY <1>1, <1>2

Bits == [0 .. ByteBits - 1 -> {0, 1}]

LEMMA LowerBitsFacts ==
    ASSUME NEW bits \in Bits
    PROVE  /\ \A i \in 0 .. ByteBits :
                 LowerBits(bits)[i] \in Nat /\ LowerBits(bits)[i] < Weight[i]
           /\ LowerBits(bits)[0] = 0
           /\ \A i \in 0 .. ByteBits : i < ByteBits =>
                 LowerBits(bits)[i + 1] = LowerBits(bits)[i] + Weight[i] * bits[i]
  <1>1. PICK n \in Nat : n = ByteBits
    BY ByteAssumption
  <1> DEFINE F == [si \in Nat \X Nat |->
                     IF si[2] \in 1 .. n THEN si[1] + Weight[si[2] - 1] * bits[si[2] - 1] ELSE 0]
  <1>2. ASSUME NEW s \in Nat, NEW i \in 1 .. n
        PROVE  /\ i - 1 \in 0 .. n - 1 /\ Weight[i - 1] * bits[i - 1] \in Nat
               /\ s + Weight[i - 1] * bits[i - 1] \in Nat
    <2>1. i - 1 \in 0 .. n - 1 /\ i - 1 \in 0 .. n
      OBVIOUS
    <2>2. PICK w \in Nat : w = Weight[i - 1]
      BY <1>1, <2>1, WeightFacts
    <2>3. bits[i - 1] \in {0, 1}
      BY <1>1, <2>1 DEF Bits
    <2>4. w * 0 = 0 /\ w * 1 = w
      OBVIOUS
    <2> QED BY <2>1, <2>2, <2>3, <2>4
  <1>3. F \in Steps(Nat)
    <2>1. ASSUME NEW si \in Nat \X Nat
          PROVE  (IF si[2] \in 1 .. n THEN si[1] + Weight[si[2] - 1] * bits[si[2] - 1] ELSE 0) \in Nat
      <3>1. si[1] \in Nat /\ si[2] \in Nat
        OBVIOUS
      <3> QED BY <1>2, <3>1
    <2> QED BY <2>1 DEF Steps
  <1>4. ASSUME NEW s \in Nat, NEW i \in 1 .. n
        PROVE  F[<<s, i>>] = s + Weight[i - 1] * bits[i - 1]
    <2>1. <<s, i>> \in Nat \X Nat
      OBVIOUS
    <2> QED BY <2>1
  <1> HIDE DEF F
  <1>5. PICK w \in [0 .. n -> Nat] : Follows(w, n, 0, F)
    BY <1>3, RecursionExists
  <1>6. w = [i \in 0 .. n |-> IF i = 0 THEN 0 ELSE w[i - 1] + Weight[i - 1] * bits[i - 1]]
    <2>1. ASSUME NEW i \in 0 .. n
          PROVE  w[i] = IF i = 0 THEN 0 ELSE w[i - 1] + Weight[i - 1] * bits[i - 1]
      <3>1. CASE i = 0
        BY <1>5, <3>1 DEF Follows
      <3>2. CASE i # 0
        <4>1. PICK j \in 0 .. n : i = j + 1 /\ j < n /\ i - 1 = j /\ i \in 1 .. n
          <5>1. i - 1 \in 0 .. n /\ i = (i - 1) + 1 /\ i - 1 < n /\ i \in 1 .. n
            BY <3>2
          <5> QED BY <5>1
        <4>2. w[i] = F[<<w[j], i>>] /\ w[j] \in Nat
          BY <1>5, <4>1 DEF Follows
        <4> QED BY <1>4, <3>2, <4>1, <4>2
      <3> QED BY <3>1, <3>2
    <2> QED BY <2>1
  <1>7. LowerBits(bits) =
          [i \in 0 .. n |-> IF i = 0 THEN 0
                            ELSE LowerBits(bits)[i - 1] + Weight[i - 1] * bits[i - 1]]
    BY <1>1, <1>6, Zenon DEF LowerBits
  <1>8. PICK s : s = LowerBits(bits)
    OBVIOUS
  <1>9. s[0] = 0
    BY <1>7, <1>8
  <1>10. ASSUME NEW i \in 0 .. n, i < n PROVE s[i + 1] = s[i] + Weight[i] * bits[i]
    <2>1. i + 1 \in 0 .. n /\ i + 1 # 0 /\ (i + 1) - 1 = i
      BY <1>10
    <2> QED BY <1>7, <1>8, <2>1
  <1> DEFINE T == {i \in Nat : s[i] \in Nat /\ s[i] < Weight[i]}
  <1>11. 0 .. n \subseteq T
    <2>1. 0 \in T
      BY <1>9, WeightFacts
    <2>2. ASSUME NEW i \in 0 .. n, i < n, i \in T PROVE i + 1 \in T
      <3>1. PICK a \in Nat, v \in Nat, u \in {0, 1} :
               a = s[i] /\ v = Weight[i] /\ u = bits[i] /\ a < v /\ Weight[i + 1] = 2 * v
        <4>1. i \in 0 .. ByteBits /\ i < ByteBits /\ i \in 0 .. ByteBits - 1
          BY <1>1, <2>2
        <4>2. Weight[i] \in Nat /\ Weight[i + 1] = 2 * Weight[i]
          BY <4>1, WeightFacts
        <4>3. bits[i] \in {0, 1}
          BY <4>1 DEF Bits
        <4> QED BY <2>2, <4>2, <4>3
      <3>2. s[i + 1] = a + v * u
        BY <1>10, <2>2, <3>1
      <3>3. v * 0 = 0 /\ v * 1 = v
        OBVIOUS
      <3>4. s[i + 1] = a \/ s[i + 1] = a + v
        BY <3>2, <3>3
      <3>5. s[i + 1] \in Nat /\ s[i + 1] < 2 * v
        BY <3>1, <3>4
      <3> QED BY <3>1, <3>5
    <2> HIDE DEF T
    <2> QED BY <2>1, <2>2, UpTo
  <1> QED BY <1>1, <1>8, <1>9, <1>10, <1>11

(* Bytes with the same bits are the same.                                    *)
LEMMA BitsTell ==
    ASSUME NEW x \in Byte, NEW y \in Byte, \A i \in 0 .. ByteBits - 1 : Bit(x, i) = Bit(y, i)
    PROVE  x = y
  <1>1. PICK n \in Nat : n = ByteBits
    BY ByteAssumption
  <1>2. ASSUME NEW z \in Byte PROVE Shifted(z)[n] = 0 /\ z \in Nat
    <2>1. z \in Nat /\ z < Weight[n]
      <3>1. n \in 0 .. n
        OBVIOUS
      <3>2. PICK w \in Nat : w = Weight[n]
        BY <1>1, <3>1, WeightFacts
      <3>3. z \in 0 .. w - 1
        BY <1>1, <3>2 DEF Byte
      <3> QED BY <3>2, <3>3
    <2> DEFINE T == {i \in Nat : Shifted(z)[i] < Weight[n - i]}
    <2>2. 0 \in T
      <3>1. n - 0 = n
        OBVIOUS
      <3> QED BY <2>1, <3>1, ShiftedFacts
    <2>3. ASSUME NEW i \in 0 .. n, i < n, i \in T PROVE i + 1 \in T
      <3>1. PICK k \in 0 .. n : k = n - (i + 1) /\ k < n /\ k + 1 = n - i
        <4>1. n - (i + 1) \in 0 .. n /\ n - (i + 1) < n /\ (n - (i + 1)) + 1 = n - i
          BY <2>3
        <4> QED BY <4>1
      <3>2. PICK h \in Nat, w \in Nat :
               /\ h = Shifted(z)[i] /\ Shifted(z)[i + 1] = h \div 2
               /\ w = Weight[k] /\ Weight[n - i] = 2 * w /\ h < 2 * w
        <4>1. Shifted(z)[i] \in Nat /\ Shifted(z)[i + 1] = Shifted(z)[i] \div 2
          BY <1>1, <2>1, <2>3, ShiftedFacts
        <4>2. Weight[k] \in Nat /\ Weight[k + 1] = 2 * Weight[k]
          BY <1>1, <3>1, WeightFacts
        <4>3. Shifted(z)[i] < Weight[k + 1]
          BY <2>3, <3>1
        <4> QED BY <3>1, <4>1, <4>2, <4>3
      <3>3. h \div 2 < w
        <4>1. \A a, b \in Nat : a < 2 * b => a \div 2 < b
          OBVIOUS
        <4> QED BY <3>2, <4>1
      <3>4. i + 1 \in Nat
        OBVIOUS
      <3> QED BY <3>1, <3>2, <3>3, <3>4
    <2>4. 0 .. n \subseteq T
      <3> HIDE DEF T
      <3> QED BY <2>2, <2>3, UpTo
    <2>5. Shifted(z)[n] < Weight[n - n] /\ n - n = 0 /\ n \in 0 .. n
      <3>1. n \in 0 .. n /\ n - n = 0
        OBVIOUS
      <3> QED BY <2>4, <3>1
    <2>6. PICK h \in Nat : h = Shifted(z)[n] /\ h < 1
      BY <1>1, <2>1, <2>5, ShiftedFacts, WeightFacts
    <2>7. h = 0
      BY <2>6
    <2> QED BY <2>1, <2>6, <2>7
  <1>3. x \in Nat /\ y \in Nat /\ Shifted(x)[n] = Shifted(y)[n]
    BY <1>2
  <1> DEFINE D == {j \in Nat : Shifted(x)[n - j] = Shifted(y)[n - j]}
  <1>4. 0 \in D
    <2>1. n - 0 = n
      OBVIOUS
    <2> QED BY <1>3, <2>1
  <1>5. ASSUME NEW j \in 0 .. n, j < n, j \in D PROVE j + 1 \in D
    <2>1. PICK k \in 0 .. n : k = n - (j + 1) /\ k < n /\ k + 1 = n - j /\ k \in 0 .. n - 1
      <3>1. /\ n - (j + 1) \in 0 .. n /\ n - (j + 1) < n /\ (n - (j + 1)) + 1 = n - j
            /\ n - (j + 1) \in 0 .. n - 1
        BY <1>5
      <3> QED BY <3>1
    <2>2. Shifted(x)[k + 1] = Shifted(y)[k + 1]
      BY <1>5, <2>1
    <2>3. /\ Shifted(x)[k] = 2 * Shifted(x)[k + 1] + Bit(x, k)
          /\ Shifted(y)[k] = 2 * Shifted(y)[k + 1] + Bit(y, k)
      BY <1>1, <1>3, <2>1, BitFacts
    <2>4. Bit(x, k) = Bit(y, k)
      BY <1>1, <2>1
    <2>5. j + 1 \in Nat
      OBVIOUS
    <2> QED BY <2>1, <2>2, <2>3, <2>4, <2>5
  <1>6. 0 .. n \subseteq D
    <2> HIDE DEF D
    <2> QED BY <1>4, <1>5, UpTo
  <1>7. n \in 0 .. n /\ n - n = 0
    OBVIOUS
  <1>8. Shifted(x)[0] = Shifted(y)[0]
    BY <1>6, <1>7
  <1> QED BY <1>3, <1>8, ShiftedFacts

(* Numbers with different bits are different.                                *)
LEMMA NumbersTell ==
    ASSUME NEW a \in Bits, NEW b \in Bits, NEW j \in 0 .. ByteBits - 1, a[j] # b[j]
    PROVE  LowerBits(a)[ByteBits] # LowerBits(b)[ByteBits]
  <1>1. PICK n \in Nat : n = ByteBits
    BY ByteAssumption
  <1> DEFINE D == {i \in Nat : i <= j \/ LowerBits(a)[i] # LowerBits(b)[i]}
  <1>2. 0 \in D
    BY <1>1
  <1>3. ASSUME NEW i \in 0 .. n, i < n, i \in D PROVE i + 1 \in D
    <2>1. i + 1 \in Nat /\ i \in 0 .. n - 1 /\ j \in 0 .. n - 1
      BY <1>1, <1>3
    <2>2. CASE i < j
      <3>1. i + 1 <= j
        BY <2>1, <2>2
      <3> QED BY <2>1, <3>1
    <2>3. CASE ~(i < j)
      <3>1. PICK s \in Nat, t \in Nat, w \in Nat, u \in {0, 1}, v \in {0, 1} :
               /\ s = LowerBits(a)[i] /\ t = LowerBits(b)[i] /\ w = Weight[i]
               /\ u = a[i] /\ v = b[i] /\ s < w /\ t < w
               /\ LowerBits(a)[i + 1] = s + w * u /\ LowerBits(b)[i + 1] = t + w * v
        <4>1. Weight[i] \in Nat /\ a[i] \in {0, 1} /\ b[i] \in {0, 1}
          BY <1>1, <2>1, WeightFacts DEF Bits
        <4>2. /\ LowerBits(a)[i] \in Nat /\ LowerBits(a)[i] < Weight[i]
              /\ LowerBits(a)[i + 1] = LowerBits(a)[i] + Weight[i] * a[i]
          BY <1>1, <1>3, LowerBitsFacts
        <4>3. /\ LowerBits(b)[i] \in Nat /\ LowerBits(b)[i] < Weight[i]
              /\ LowerBits(b)[i + 1] = LowerBits(b)[i] + Weight[i] * b[i]
          BY <1>1, <1>3, LowerBitsFacts
        <4> QED BY <4>1, <4>2, <4>3
      <3>2. s # t \/ u # v
        <4>1. CASE i = j
          BY <3>1, <4>1
        <4>2. CASE i # j
          <5>1. ~(i <= j)
            BY <2>1, <2>3, <4>2
          <5> QED BY <1>3, <3>1, <5>1
        <4> QED BY <4>1, <4>2
      <3>3. w * 0 = 0 /\ w * 1 = w
        OBVIOUS
      <3>4. s + w * u # t + w * v
        <4>1. CASE u = v
          <5>1. PICK c \in Nat : c = w * u /\ c = w * v
            BY <3>3, <4>1
          <5>2. s + c # t + c
            BY <3>2, <4>1
          <5> QED BY <5>1, <5>2
        <4>2. CASE u = 0 /\ v = 1
          <5>1. s + 0 # t + w
            BY <3>1
          <5> QED BY <3>3, <4>2, <5>1
        <4>3. CASE u = 1 /\ v = 0
          <5>1. s + w # t + 0
            BY <3>1
          <5> QED BY <3>3, <4>3, <5>1
        <4> QED BY <4>1, <4>2, <4>3
      <3> QED BY <2>1, <3>1, <3>4
    <2> QED BY <2>2, <2>3
  <1>4. 0 .. n \subseteq D
    <2> HIDE DEF D
    <2> QED BY <1>2, <1>3, UpTo
  <1>5. n \in 0 .. n /\ ~(n <= j)
    BY <1>1
  <1> QED BY <1>1, <1>4, <1>5

LEMMA ParityIsABit ==
    ASSUME NEW n \in Nat, NEW r, DOMAIN r = 1 .. n, NEW i
    PROVE  /\ Parity(r, i) \in {0, 1}
           /\ IsFiniteSet({k \in 1 .. n : Bit(r[k], i) = 1})
  <1> DEFINE S == {k \in 1 .. n : Bit(r[k], i) = 1}
  <1>1. IsFiniteSet(S)
    <2>1. IsFiniteSet(1 .. n) /\ S \in SUBSET (1 .. n)
      BY FS_Interval
    <2> HIDE DEF S
    <2> QED BY <2>1, FS_Subset
  <1>2. PICK m \in Nat : m = Cardinality(S)
    <2> HIDE DEF S
    <2> QED BY <1>1, FS_CardinalityType
  <1>3. Parity(r, i) = m % 2
    BY <1>2 DEF Parity
  <1>4. m % 2 \in {0, 1}
    OBVIOUS
  <1> QED BY <1>1, <1>3, <1>4

(* A byte with another bit changes the parity of that bit.                   *)
RaisesOne(n, r, q, j, i) == /\ DOMAIN r = 1 .. n /\ DOMAIN q = 1 .. n
                            /\ \A k \in 1 .. n : k # j => q[k] = r[k]
                            /\ Bit(r[j], i) = 0 /\ Bit(q[j], i) = 1

LEMMA ParityChanges ==
    ASSUME NEW n \in Nat, NEW r, NEW q, NEW j \in 1 .. n, NEW i, RaisesOne(n, r, q, j, i)
    PROVE  Parity(q, i) # Parity(r, i)
  <1> DEFINE S == {k \in 1 .. n : Bit(r[k], i) = 1}
             U == {k \in 1 .. n : Bit(q[k], i) = 1}
  <1> DOMAIN r = 1 .. n /\ DOMAIN q = 1 .. n
    BY DEF RaisesOne
  <1>1. U = S \cup {j} /\ j \notin S
    BY DEF RaisesOne
  <1>2. IsFiniteSet(S)
    BY ParityIsABit
  <1>3. PICK m \in Nat : m = Cardinality(S)
    <2> HIDE DEF S
    <2> QED BY <1>2, FS_CardinalityType
  <1>4. Cardinality(U) = m + 1
    <2> HIDE DEF S, U
    <2> QED BY <1>1, <1>2, <1>3, FS_AddElement
  <1>5. Parity(r, i) = m % 2
    BY <1>3 DEF Parity
  <1>6. Parity(q, i) = (m + 1) % 2
    BY <1>4 DEF Parity
  <1>7. m % 2 # (m + 1) % 2
    OBVIOUS
  <1> QED BY <1>5, <1>6, <1>7

-----------------------------------------------------------------------------
(* The checksum is a byte, and one changed byte of the payload changes it.   *)
ParityBits(r) == [i \in 0 .. ByteBits - 1 |-> Parity(r, i)]

LEMMA CrcFits ==
    ASSUME NEW n \in Nat, NEW r, DOMAIN r = 1 .. n
    PROVE  /\ Crc(r) \in Byte
           /\ ParityBits(r) \in Bits /\ Crc(r) = LowerBits(ParityBits(r))[ByteBits]
  <1>1. PICK m \in Nat, w \in Nat : m = ByteBits /\ w = Weight[m] /\ m \in 0 .. m
    <2>1. ByteBits \in Nat /\ ByteBits \in 0 .. ByteBits
      BY ByteAssumption
    <2> QED BY <2>1, WeightFacts
  <1>2. ParityBits(r) \in Bits
    BY ParityIsABit DEF ParityBits, Bits
  <1>3. Crc(r) = LowerBits(ParityBits(r))[ByteBits]
    BY DEF Crc, ParityBits
  <1>4. PICK c \in Nat : c = Crc(r) /\ c < w
    BY <1>1, <1>2, <1>3, LowerBitsFacts
  <1>5. c \in 0 .. w - 1
    BY <1>4
  <1> QED BY <1>1, <1>2, <1>3, <1>4, <1>5 DEF Byte

LEMMA CrcDetects ==
    ASSUME NEW n \in Nat, NEW r \in [1 .. n -> Byte], NEW j \in 1 .. n,
           NEW b \in Byte \ {r[j]}
    PROVE  Crc([r EXCEPT ![j] = b]) # Crc(r)
  <1>1. PICK q \in [1 .. n -> Byte] :
           /\ q = [r EXCEPT ![j] = b] /\ q[j] = b
           /\ \A k \in 1 .. n : k # j => q[k] = r[k]
    <2> DEFINE e == [r EXCEPT ![j] = b]
    <2>1. e \in [1 .. n -> Byte]
      OBVIOUS
    <2>2. e[j] = b
      OBVIOUS
    <2>3. \A k \in 1 .. n : k # j => e[k] = r[k]
      OBVIOUS
    <2> HIDE DEF e
    <2>4. e = [r EXCEPT ![j] = b]
      BY DEF e
    <2> QED BY <2>1, <2>2, <2>3, <2>4
  <1>2. PICK i \in 0 .. ByteBits - 1 : Bit(r[j], i) # Bit(b, i)
    BY BitsTell
  <1>3. Bit(r[j], i) \in {0, 1} /\ Bit(b, i) \in {0, 1}
    <2>1. i \in 0 .. ByteBits /\ i < ByteBits
      BY ByteAssumption
    <2>2. \A x \in Byte : x \in Nat
      BY DEF Byte
    <2>3. r[j] \in Nat /\ b \in Nat
      BY <2>2
    <2> QED BY <2>1, <2>3, BitFacts
  <1>4. DOMAIN r = 1 .. n /\ DOMAIN q = 1 .. n
    OBVIOUS
  <1>5. Parity(q, i) # Parity(r, i)
    <2>1. CASE Bit(r[j], i) = 0 /\ Bit(b, i) = 1
      <3>1. RaisesOne(n, r, q, j, i)
        BY <1>1, <1>4, <2>1 DEF RaisesOne
      <3> QED BY <3>1, ParityChanges, Zenon
    <2>2. CASE Bit(r[j], i) = 1 /\ Bit(b, i) = 0
      <3>1. \A k \in 1 .. n : k # j => r[k] = q[k]
        BY <1>1
      <3>2. RaisesOne(n, q, r, j, i)
        BY <1>1, <1>4, <2>2, <3>1 DEF RaisesOne
      <3>3. Parity(r, i) # Parity(q, i)
        BY <3>2, ParityChanges, Zenon
      <3> QED BY <3>3
    <2> QED BY <1>2, <1>3, <2>1, <2>2
  <1>6. ParityBits(q)[i] # ParityBits(r)[i]
    BY <1>5 DEF ParityBits
  <1>7. /\ ParityBits(r) \in Bits /\ Crc(r) = LowerBits(ParityBits(r))[ByteBits]
        /\ ParityBits(q) \in Bits /\ Crc(q) = LowerBits(ParityBits(q))[ByteBits]
    BY <1>4, CrcFits
  <1>8. LowerBits(ParityBits(q))[ByteBits] # LowerBits(ParityBits(r))[ByteBits]
    BY <1>6, <1>7, NumbersTell
  <1> QED BY <1>1, <1>7, <1>8

(***************************************************************************)
(* Bytes are natural numbers that the buffer can count up to.              *)
(***************************************************************************)
LEMMA ByteFacts ==
    /\ 0 \in Byte
    /\ SA_LEADING_BYTE \in Byte
    /\ SA_CHECK_BYTE \in Byte
    /\ \A b \in Byte : b \in Nat /\ b <= BufferSize
  <1>1. PICK m \in Nat, w \in Nat : m = ByteBits /\ w = Weight[m] /\ w >= 1
    <2>1. ByteBits \in Nat /\ ByteBits \in 0 .. ByteBits
      BY ByteAssumption
    <2> QED BY <2>1, WeightFacts
  <1>2. Byte = 0 .. w - 1
    BY <1>1 DEF Byte
  <1>3. 0 \in Byte /\ \A b \in Byte : b \in Nat
    BY <1>1, <1>2
  <1> QED BY <1>3, FramingAssumption, BufferAssumption

(***************************************************************************)
(* The inductive invariant: the fields have their types and agree with the *)
(* bytes read.                                                             *)
(***************************************************************************)
IInv == TypeOK /\ FieldsMatchBytes

(***************************************************************************)
(* The constructor establishes the invariant, whatever the buffer holds.   *)
(***************************************************************************)
LEMMA InitIInv == Init => IInv
  <1> SUFFICES ASSUME Init PROVE IInv
    OBVIOUS
  <1>1. FlagsOK
    BY Zenon DEF Init, ModemInit, FlagsOK
  <1>2. DataOK
    BY ByteFacts, BufferAssumption DEF Init, ModemInit, DataOK
  <1>3. ~isPacketLocked /\ Unlocked
    BY DEF Init, ModemInit, Unlocked
  <1> QED BY <1>1, <1>2, <1>3, Zenon DEF IInv, TypeOK, FieldsMatchBytes

(***************************************************************************)
(* resetStatus() leads to the state between packets.                       *)
(***************************************************************************)
LEMMA ResetIInv ==
    ASSUME TypeOK, ResetStatus, heard' = <<>>
    PROVE  IInv'
  <1>1. FlagsOK'
    BY Zenon DEF ResetStatus, FlagsOK
  <1>2. DataOK'
    BY ByteFacts, BufferAssumption DEF ResetStatus, TypeOK, DataOK
  <1>3. ~isPacketLocked' /\ Unlocked'
    BY DEF ResetStatus, Unlocked
  <1> QED BY <1>1, <1>2, <1>3, Zenon DEF IInv, TypeOK, FieldsMatchBytes

(***************************************************************************)
(* A leading byte opens a candidate packet.                                *)
(***************************************************************************)
LEMMA HuntIInv ==
    ASSUME IInv, NEW byte \in Byte, Hunt(byte),
           heard' = IF isPacketLocked' THEN Append(heard, byte) ELSE <<>>
    PROVE  IInv'
  <1>1. isPacketLocked' /\ ~decoded' /\ FlagsOK'
    BY Zenon DEF Hunt, FlagsOK
  <1>2. heard = <<>>
    BY Zenon DEF Hunt, IInv, FieldsMatchBytes, Unlocked
  <1>3. heard' \in Seq(Byte) /\ Len(heard') = 1 /\ heard'[1] = byte
    BY <1>1, <1>2, AppendProperties DEF IInv, TypeOK, DataOK
  <1>4. DataOK'
    BY <1>3, BufferAssumption DEF IInv, TypeOK, DataOK, Hunt
  <1>5. AwaitingCheckByte'
    BY <1>3 DEF AwaitingCheckByte, Hunt
  <1> QED BY <1>1, <1>4, <1>5, Zenon DEF IInv, TypeOK, FieldsMatchBytes

(***************************************************************************)
(* The check byte, case (1), is recorded in the packet index.              *)
(***************************************************************************)
LEMMA ReadCheckByteIInv ==
    ASSUME IInv, NEW byte \in Byte, NEW late \in BOOLEAN,
           ReadCheckByte(byte, late),
           heard' = IF isPacketLocked' THEN Append(heard, byte) ELSE <<>>
    PROVE  IInv'
  <1>1. isPacketLocked' /\ FlagsOK'
    BY Zenon DEF ReadCheckByte, FlagsOK
  <1>2. AwaitingCheckByte
    <2>1. isPacketLocked /\ packetIndex = 1
      BY DEF ReadCheckByte
    <2>2. AwaitingCheckByte \/ AwaitingSize \/ AwaitingPayload \/ AwaitingCrc
      BY <2>1, Zenon DEF IInv, FieldsMatchBytes
    <2> QED BY <2>1, <2>2 DEF AwaitingSize, AwaitingPayload, AwaitingCrc
  <1>3. /\ heard' \in Seq(Byte) /\ Len(heard') = 2
        /\ heard'[1] = SA_LEADING_BYTE /\ heard'[2] = SA_CHECK_BYTE
    <2>1. heard' = Append(heard, byte) /\ heard \in Seq(Byte)
      BY <1>1 DEF IInv, TypeOK, DataOK
    <2>2. /\ heard' \in Seq(Byte) /\ Len(heard') = Len(heard) + 1
          /\ heard'[Len(heard) + 1] = byte
          /\ \A i \in 1 .. Len(heard) : heard'[i] = heard[i]
      BY <2>1, AppendProperties
    <2> QED BY <1>2, <2>2 DEF AwaitingCheckByte, ReadCheckByte
  <1>4. DataOK'
    BY <1>3, ByteFacts DEF IInv, TypeOK, DataOK, ReadCheckByte
  <1>5. AwaitingSize'
    BY <1>3 DEF AwaitingSize, ReadCheckByte
  <1> QED BY <1>1, <1>4, <1>5, Zenon DEF IInv, TypeOK, FieldsMatchBytes

(***************************************************************************)
(* The size, case (2) or fallen into from case (1), starts the payload at  *)
(* index 0, or goes straight to the checksum if there is none.             *)
(***************************************************************************)
LEMMA ReadPayloadSizeIInv ==
    ASSUME IInv, NEW byte \in Byte, NEW late \in BOOLEAN,
           ReadPayloadSize(byte, late),
           heard' = IF isPacketLocked' THEN Append(heard, byte) ELSE <<>>
    PROVE  IInv'
  <1>1. isPacketLocked /\ isPacketLocked' /\ FlagsOK'
    BY Zenon DEF ReadPayloadSize, IInv, TypeOK, FlagsOK
  <1>2. AwaitingCheckByte \/ AwaitingSize \/ AwaitingPayload \/ AwaitingCrc
    BY <1>1, Zenon DEF IInv, FieldsMatchBytes
  <1>3. heard \in Seq(Byte) /\ heard' = Append(heard, byte)
    BY <1>1 DEF IInv, TypeOK, DataOK
  <1>4. /\ heard' \in Seq(Byte)
        /\ Len(heard') = Len(heard) + 1
        /\ heard'[Len(heard) + 1] = byte
        /\ \A i \in 1 .. Len(heard) : heard'[i] = heard[i]
    BY <1>3, AppendProperties
  <1>5. byte \in Nat /\ payloadSize' = byte /\ payloadIndex' = 0
    BY ByteFacts DEF ReadPayloadSize
  <1>6. DataOK'
    BY <1>4, ByteFacts, BufferAssumption DEF IInv, TypeOK, DataOK, ReadPayloadSize
  <1>7. HeaderHeard'
    <2>1. CASE packetIndex = 1 /\ byte # SA_CHECK_BYTE
      <3>1. AwaitingCheckByte
        BY <1>2, <2>1 DEF AwaitingSize, AwaitingPayload, AwaitingCrc
      <3> QED BY <1>4, <1>5, <2>1, <3>1 DEF AwaitingCheckByte, HeaderHeard,
                PR!HasHeader, PR!HeaderLength, PR!SizeOf
    <2>2. CASE packetIndex = 2
      <3>1. AwaitingSize
        BY <1>2, <2>2 DEF AwaitingCheckByte, AwaitingPayload, AwaitingCrc
      <3> QED BY <1>4, <1>5, <2>2, <3>1 DEF AwaitingSize, HeaderHeard,
                PR!HasHeader, PR!HeaderLength, PR!SizeOf
    <2> QED BY <2>1, <2>2 DEF ReadPayloadSize
  <1>8. AwaitingPayload' \/ AwaitingCrc'
    BY <1>5, <1>7 DEF AwaitingPayload, AwaitingCrc, ReadPayloadSize
  <1> QED BY <1>1, <1>6, <1>8, Zenon DEF IInv, TypeOK, FieldsMatchBytes

(***************************************************************************)
(* A payload byte, case (3), lands at its place and the index stays below  *)
(* the size until the last one.                                            *)
(***************************************************************************)
LEMMA ReadPayloadIInv ==
    ASSUME IInv, NEW byte \in Byte, NEW late \in BOOLEAN,
           ReadPayload(byte, late),
           heard' = IF isPacketLocked' THEN Append(heard, byte) ELSE <<>>
    PROVE  IInv'
  <1>1. isPacketLocked /\ isPacketLocked' /\ FlagsOK'
    BY Zenon DEF ReadPayload, IInv, TypeOK, FlagsOK
  <1>2. AwaitingPayload
    <2>1. packetIndex = 3
      BY DEF ReadPayload
    <2>2. AwaitingCheckByte \/ AwaitingSize \/ AwaitingPayload \/ AwaitingCrc
      BY <1>1, Zenon DEF IInv, FieldsMatchBytes
    <2> QED BY <2>1, <2>2 DEF AwaitingCheckByte, AwaitingSize, AwaitingCrc
  <1>3. DataOK
    BY DEF IInv, TypeOK
  <1>4. /\ heard' \in Seq(Byte)
        /\ Len(heard') = Len(heard) + 1
        /\ heard'[Len(heard) + 1] = byte
        /\ \A i \in 1 .. Len(heard) : heard'[i] = heard[i]
    <2>1. heard' = Append(heard, byte) /\ heard \in Seq(Byte)
      BY <1>1, <1>3 DEF DataOK
    <2> QED BY <2>1, AppendProperties
  <1>5. /\ payloadIndex \in Nat /\ payloadSize \in Nat /\ BufferSize \in Nat
        /\ payloadIndex < payloadSize /\ payloadSize <= BufferSize
    BY <1>2, <1>3, ByteFacts, BufferAssumption DEF AwaitingPayload, DataOK
  <1>6. DataOK'
    BY <1>3, <1>4, <1>5 DEF ReadPayload, DataOK
  <1> DEFINE H == PR!HeaderLength(heard)
  <1>7. /\ H \in {2, 3} /\ Len(heard) \in Nat /\ Len(heard) = H + payloadIndex
        /\ heard[1] = SA_LEADING_BYTE /\ heard[H] = payloadSize
        /\ \A i \in 0 .. payloadIndex - 1 : payloadBuffer[i] = heard[H + 1 + i]
    BY <1>2, <1>3 DEF AwaitingPayload, HeaderHeard, PR!HeaderLength, PR!SizeOf, DataOK
  <1>8. PR!HeaderLength(heard)' = H
    BY <1>4, <1>5, <1>7 DEF PR!HeaderLength
  <1>9. HeaderHeard'
    <2>1. \A i \in 0 .. payloadIndex : payloadBuffer'[i] = heard'[H + 1 + i]
      <3> SUFFICES ASSUME NEW i \in 0 .. payloadIndex
                   PROVE  payloadBuffer'[i] = heard'[H + 1 + i]
        OBVIOUS
      <3> HIDE DEF H
      <3>1. payloadBuffer' = [payloadBuffer EXCEPT ![payloadIndex] = byte]
        BY DEF ReadPayload
      <3>2. CASE i = payloadIndex
        BY <1>3, <1>4, <1>5, <1>7, <3>1, <3>2 DEF DataOK
      <3>3. CASE i \in 0 .. payloadIndex - 1
        <4>1. payloadBuffer'[i] = payloadBuffer[i]
          BY <1>3, <1>5, <3>1, <3>3 DEF DataOK
        <4>2. H + 1 + i \in 1 .. Len(heard)
          BY <1>5, <1>7, <3>3
        <4> QED BY <1>4, <1>7, <3>3, <4>1, <4>2
      <3>4. i = payloadIndex \/ i \in 0 .. payloadIndex - 1
        BY <1>5
      <3> QED BY <3>2, <3>3, <3>4
    <2>2. payloadIndex' = payloadIndex + 1 /\ payloadSize' = payloadSize
      BY DEF ReadPayload
    <2> HIDE DEF H
    <2>3. heard'[1] = SA_LEADING_BYTE /\ heard'[H] = payloadSize'
      <3>1. 1 \in 1 .. Len(heard) /\ H \in 1 .. Len(heard)
        BY <1>5, <1>7
      <3> QED BY <1>4, <1>7, <2>2, <3>1
    <2>4. Len(heard') = H + payloadIndex' /\ Len(heard') >= 2 /\ Len(heard') >= H
      <3>1. PICK k \in Nat, h \in 2 .. 3 : k = payloadIndex /\ h = H
        BY <1>5, <1>7
      <3>2. Len(heard') = h + k + 1 /\ payloadIndex' = k + 1
        BY <1>4, <1>7, <2>2, <3>1
      <3>3. h + k + 1 = h + (k + 1) /\ h + k + 1 >= 2 /\ h + k + 1 >= h
        OBVIOUS
      <3> QED BY <3>1, <3>2, <3>3
    <2>5. \A i \in 0 .. payloadIndex' - 1 : payloadBuffer'[i] = heard'[H + 1 + i]
      <3>1. payloadIndex' - 1 = payloadIndex
        BY <1>5, <2>2
      <3> QED BY <2>1, <3>1, Zenon
    <2> QED BY <1>8, <2>3, <2>4, <2>5, Zenon
            DEF HeaderHeard, PR!HasHeader, PR!SizeOf
  <1>10. AwaitingPayload' \/ AwaitingCrc'
    BY <1>5, <1>9 DEF AwaitingPayload, AwaitingCrc, ReadPayload
  <1> QED BY <1>1, <1>6, <1>10, Zenon DEF IInv, TypeOK, FieldsMatchBytes

(***************************************************************************)
(* An accepted packet, case (4), unlocks and keeps index and size.         *)
(***************************************************************************)
LEMMA AcceptPacketIInv ==
    ASSUME IInv, NEW byte \in Byte, NEW late \in BOOLEAN,
           AcceptPacket(byte, late),
           heard' = IF isPacketLocked' THEN Append(heard, byte) ELSE <<>>
    PROVE  IInv'
  <1>1. ~isPacketLocked' /\ FlagsOK'
    BY Zenon DEF AcceptPacket, FlagsOK
  <1>2. heard' = <<>>
    BY <1>1
  <1>3. DataOK' /\ Unlocked'
    BY <1>2 DEF AcceptPacket, IInv, TypeOK, DataOK, Unlocked
  <1> QED BY <1>1, <1>3, Zenon DEF IInv, TypeOK, FieldsMatchBytes

(***************************************************************************)
(* Every byte preserves the invariant: demodulateByte.                     *)
(***************************************************************************)
LEMMA NextIInv == IInv /\ [Next]_streamVars => IInv'
  <1> SUFFICES ASSUME IInv, [Next]_streamVars PROVE IInv'
    OBVIOUS
  <1>1. CASE Next
    <2>1. PICK byte \in Byte, late \in BOOLEAN : Hear(byte, late)
      BY <1>1 DEF Next
    <2>2. heard' = IF isPacketLocked' THEN Append(heard, byte) ELSE <<>>
      BY <2>1 DEF Hear
    <2>3. CASE ResetStatus
      BY <2>2, <2>3, ResetIInv DEF IInv, ResetStatus
    <2>4. CASE Hunt(byte)
      BY <2>2, <2>4, HuntIInv
    <2>5. CASE ReadCheckByte(byte, late)
      BY <2>2, <2>5, ReadCheckByteIInv
    <2>6. CASE ReadPayloadSize(byte, late)
      BY <2>2, <2>6, ReadPayloadSizeIInv
    <2>7. CASE ReadPayload(byte, late)
      BY <2>2, <2>7, ReadPayloadIInv
    <2>8. CASE AcceptPacket(byte, late)
      BY <2>2, <2>8, AcceptPacketIInv
    <2> QED
      BY <2>1, <2>3, <2>4, <2>5, <2>6, <2>7, <2>8
      DEF Hear, DemodulateByte, Timeout, SkipNoise, RejectPacket
  <1>2. CASE UNCHANGED streamVars
    BY <1>2, Zenon DEF streamVars, modemVars, IInv, TypeOK, FlagsOK, DataOK,
      FieldsMatchBytes, Unlocked, LastPayload,
      AwaitingCheckByte, AwaitingSize, AwaitingPayload, AwaitingCrc,
      HeaderHeard, PR!HasHeader, PR!HeaderLength, PR!SizeOf
  <1> QED BY <1>1, <1>2

(***************************************************************************)
(* The fields always agree with the bytes read: demodulateByte.            *)
(***************************************************************************)
THEOREM FieldsMatchBytesHolds == Spec => [](TypeOK /\ FieldsMatchBytes)
  <1>1. Spec => []IInv
    BY InitIInv, NextIInv, PTL DEF Spec
  <1> QED BY <1>1, PTL DEF IInv

(***************************************************************************)
(* No byte is ever written outside mPayloadBuffer, and the equality that   *)
(* ends the payload is never overshot: cases (2) and (3).                  *)
(***************************************************************************)
THEOREM PayloadFitsHolds == Spec => []PayloadFits
  <1>1. Spec => []IInv
    BY InitIInv, NextIInv, PTL DEF Spec
  <1>2. IInv => PayloadFits
    <2> SUFFICES ASSUME IInv PROVE PayloadFits
      OBVIOUS
    <2>1. /\ payloadIndex \in Nat /\ payloadSize \in Nat
          /\ BufferSize \in Nat /\ payloadSize <= BufferSize
      BY ByteFacts, BufferAssumption DEF IInv, TypeOK, DataOK
    <2>2. ASSUME isPacketLocked, packetIndex = 3
          PROVE  payloadIndex < payloadSize
      <3>1. AwaitingCheckByte \/ AwaitingSize \/ AwaitingPayload \/ AwaitingCrc
        BY <2>2, Zenon DEF IInv, FieldsMatchBytes
      <3> QED BY <2>2, <3>1 DEF AwaitingCheckByte, AwaitingSize, AwaitingPayload, AwaitingCrc
    <2> QED BY <2>1, <2>2 DEF PayloadFits
  <1> QED BY <1>1, <1>2, PTL

-----------------------------------------------------------------------------

(***************************************************************************)
(* Reading one more byte keeps the header already heard and, behind a      *)
(* whole payload, makes the payload of the grammar the one that            *)
(* getLastPayload copies out.                                              *)
(***************************************************************************)
LEMMA HeaderKept ==
    ASSUME DataOK, HeaderHeard, NEW byte \in Byte,
           NEW h \in Seq(Byte), h = Append(heard, byte)
    PROVE  /\ PR!HeaderLength(h) = PR!HeaderLength(heard)
           /\ PR!HeaderLength(h) \in {2, 3}
           /\ PR!HasHeader(h)
           /\ PR!SizeOf(h) = payloadSize
           /\ h[1] = SA_LEADING_BYTE
           /\ Len(h) = PR!HeaderLength(h) + payloadIndex + 1
           /\ h[Len(h)] = byte
           /\ \A i \in 1 .. payloadIndex :
                h[PR!HeaderLength(h) + i] = payloadBuffer[i - 1]
  <1>1. /\ heard \in Seq(Byte) /\ Len(heard) \in Nat
        /\ payloadIndex \in Nat
    BY BufferAssumption DEF DataOK
  <1>2. /\ Len(h) = Len(heard) + 1
        /\ h[Len(heard) + 1] = byte
        /\ \A i \in 1 .. Len(heard) : h[i] = heard[i]
    BY <1>1, AppendProperties
  <1> DEFINE H == PR!HeaderLength(heard)
  <1>3. /\ H \in {2, 3} /\ Len(heard) = H + payloadIndex
        /\ heard[1] = SA_LEADING_BYTE /\ heard[H] = payloadSize
        /\ \A i \in 0 .. payloadIndex - 1 : payloadBuffer[i] = heard[H + 1 + i]
    BY DEF HeaderHeard, PR!HeaderLength, PR!SizeOf
  <1>4. PR!HeaderLength(h) = H
    BY <1>1, <1>2, <1>3 DEF PR!HeaderLength
  <1> HIDE DEF H
  <1>5. ASSUME NEW i \in 1 .. payloadIndex
        PROVE  h[H + i] = payloadBuffer[i - 1]
    <2>1. i - 1 \in 0 .. payloadIndex - 1 /\ H + i \in 1 .. Len(heard)
      BY <1>1, <1>3
    <2>2. payloadBuffer[i - 1] = heard[H + 1 + (i - 1)] /\ H + 1 + (i - 1) = H + i
      BY <1>1, <1>3, <2>1
    <2> QED BY <1>2, <2>1, <2>2
  <1>6. PR!HasHeader(h) /\ PR!SizeOf(h) = payloadSize
    BY <1>1, <1>2, <1>3, <1>4 DEF PR!HasHeader, PR!SizeOf
  <1>7. h[1] = SA_LEADING_BYTE /\ Len(h) = H + payloadIndex + 1 /\ h[Len(h)] = byte
    <2>1. Len(h) = H + payloadIndex + 1
      BY <1>1, <1>2, <1>3
    <2>2. h[Len(h)] = byte
      BY <1>2
    <2>3. 1 \in 1 .. Len(heard)
      BY <1>1, <1>3
    <2> QED BY <1>2, <1>3, <2>1, <2>2, <2>3
  <1>8. \A i \in 1 .. payloadIndex : h[PR!HeaderLength(h) + i] = payloadBuffer[i - 1]
    BY <1>4, <1>5
  <1>9. PR!HeaderLength(h) \in {2, 3}
    BY <1>3, <1>4
  <1>10. Len(h) = PR!HeaderLength(h) + payloadIndex + 1
    BY <1>4, <1>7
  <1>11. PR!HeaderLength(h) = PR!HeaderLength(heard)
    BY <1>4 DEF H
  <1> QED BY <1>6, <1>7, <1>8, <1>9, <1>10, <1>11

(***************************************************************************)
(* While a payload is complete, what getLastPayload would copy out is the  *)
(* payload of the bytes heard, whatever byte comes next.                   *)
(***************************************************************************)
LEMMA PayloadHeard ==
    ASSUME DataOK, AwaitingCrc, NEW byte \in Byte,
           NEW h \in Seq(Byte), h = Append(heard, byte)
    PROVE  /\ h[1] = SA_LEADING_BYTE
           /\ PR!HasHeader(h)
           /\ Len(h) = PR!FullLength(h)
           /\ Len(h) >= 1
           /\ h[Len(h)] = byte
           /\ PR!PayloadOf(h) = LastPayload
  <1>1. HeaderHeard /\ payloadIndex = payloadSize /\ payloadSize \in Nat
    BY ByteFacts DEF AwaitingCrc, DataOK
  <1>2. /\ PR!HeaderLength(h) = PR!HeaderLength(heard)
        /\ PR!HeaderLength(h) \in {2, 3}
        /\ PR!HasHeader(h)
        /\ PR!SizeOf(h) = payloadSize
        /\ h[1] = SA_LEADING_BYTE
        /\ Len(h) = PR!HeaderLength(h) + payloadIndex + 1
        /\ h[Len(h)] = byte
        /\ \A i \in 1 .. payloadIndex :
             h[PR!HeaderLength(h) + i] = payloadBuffer[i - 1]
    BY <1>1, HeaderKept, Zenon
  <1>3. PR!PayloadOf(h) = LastPayload
    BY <1>1, <1>2 DEF PR!PayloadOf, LastPayload
  <1>4. Len(h) = PR!FullLength(h) /\ Len(h) >= 1
    BY <1>1, <1>2 DEF PR!FullLength
  <1> QED BY <1>2, <1>3, <1>4

(***************************************************************************)
(* Each byte the demodulator takes in is a step of PacketReceiver.         *)
(***************************************************************************)
LEMMA TimeoutRefines ==
    ASSUME IInv, isPacketLocked, ResetStatus, heard' = <<>>
    PROVE  heard # <<>> /\ PR!Abandon
  <1>1. AwaitingCheckByte \/ AwaitingSize \/ AwaitingPayload \/ AwaitingCrc
    BY Zenon DEF IInv, FieldsMatchBytes
  <1>2. heard # <<>>
    <2>1. Len(heard) # 0
      BY <1>1 DEF AwaitingCheckByte, AwaitingSize, AwaitingPayload, AwaitingCrc,
                  HeaderHeard, PR!HasHeader
    <2> QED BY <2>1
  <1> QED BY <1>2, Zenon DEF ResetStatus, PR!Abandon

(***************************************************************************)
(* Between packets a byte opens a candidate or is discarded.               *)
(***************************************************************************)
LEMMA UnlockedRefines ==
    ASSUME IInv, NEW byte \in Byte, ~isPacketLocked,
           Hunt(byte) \/ SkipNoise(byte),
           heard' = IF isPacketLocked' THEN Append(heard, byte) ELSE <<>>
    PROVE  PR!Receive(byte)
  <1> DEFINE h == Append(heard, byte)
  <1>1. heard = <<>> /\ heard \in Seq(Byte)
    BY Zenon, EmptySeq DEF IInv, TypeOK, DataOK, FieldsMatchBytes, Unlocked
  <1>2. Len(h) = 1 /\ h[1] = byte
    BY <1>1, AppendProperties
  <1> HIDE DEF h
  <1>3. ~PR!HasHeader(h)
    BY <1>2 DEF PR!HasHeader
  <1>4. CASE Hunt(byte)
    <2>1. PR!IsCandidate(h)
      BY <1>2, <1>3, <1>4 DEF PR!IsCandidate, Hunt
    <2>2. heard' = h /\ ~decoded'
      BY <1>4, Zenon DEF Hunt, h
    <2> QED BY <2>1, <2>2, Zenon DEF PR!Receive, PR!Extend, h
  <1>5. CASE SkipNoise(byte)
    <2>1. ~PR!IsCandidate(h) /\ ~PR!IsPacket(h)
      BY <1>2, <1>5 DEF PR!IsCandidate, PR!IsPacket, SkipNoise
    <2>2. heard' = <<>> /\ ~decoded'
      BY <1>5, Zenon DEF SkipNoise, ResetStatus
    <2> QED BY <2>1, <2>2, Zenon DEF PR!Receive, PR!Discard, h
  <1> QED BY <1>4, <1>5

(***************************************************************************)
(* A byte that leaves a candidate is received by PacketReceiver.           *)
(***************************************************************************)
LEMMA ExtendRefines ==
    ASSUME NEW byte \in Byte, heard' = Append(heard, byte), ~decoded',
           PR!IsCandidate(Append(heard, byte))
    PROVE  PR!Receive(byte)
  BY Zenon DEF PR!Receive, PR!Extend

(***************************************************************************)
(* The check byte extends the candidate.                                   *)
(***************************************************************************)
LEMMA ReadCheckByteRefines ==
    ASSUME IInv, NEW byte \in Byte, NEW late \in BOOLEAN,
           ReadCheckByte(byte, late),
           heard' = IF isPacketLocked' THEN Append(heard, byte) ELSE <<>>
    PROVE  PR!Receive(byte)
  <1>1. ~decoded' /\ heard' = Append(heard, byte)
    BY Zenon DEF ReadCheckByte
  <1>2. AwaitingSize' /\ heard' \in Seq(Byte)
    <2>1. IInv' /\ isPacketLocked'
      BY ReadCheckByteIInv, Zenon DEF ReadCheckByte
    <2>2. packetIndex' = 2 /\ DataOK'
      BY <2>1 DEF ReadCheckByte, IInv, TypeOK
    <2>3. AwaitingCheckByte' \/ AwaitingSize' \/ AwaitingPayload' \/ AwaitingCrc'
      BY <2>1, Zenon DEF IInv, FieldsMatchBytes
    <2> QED BY <2>2, <2>3 DEF AwaitingCheckByte, AwaitingPayload, AwaitingCrc, DataOK
  <1>3. PR!IsCandidate(heard')
    BY <1>2 DEF AwaitingSize, PR!IsCandidate, PR!HasHeader, PR!HeaderLength
  <1> QED BY <1>1, <1>3, ExtendRefines

(***************************************************************************)
(* After the size or a payload byte the packet is still incomplete.        *)
(***************************************************************************)
LEMMA IncompleteIsCandidate ==
    ASSUME DataOK', AwaitingPayload' \/ AwaitingCrc'
    PROVE  PR!IsCandidate(heard')
  <1>1. payloadIndex' \in Nat /\ payloadSize' \in Nat /\ heard' \in Seq(Byte)
    BY ByteFacts, BufferAssumption DEF DataOK
  <1>2. HeaderHeard' /\ payloadIndex' <= payloadSize'
    BY <1>1 DEF AwaitingPayload, AwaitingCrc
  <1>3. PR!HeaderLength(heard') \in {2, 3}
    BY DEF PR!HeaderLength
  <1> QED BY <1>1, <1>2, <1>3
          DEF HeaderHeard, PR!IsCandidate, PR!HasHeader, PR!FullLength, PR!SizeOf

(***************************************************************************)
(* The size and the payload bytes extend the candidate.                    *)
(***************************************************************************)
LEMMA ReadDataRefines ==
    ASSUME IInv, NEW byte \in Byte, NEW late \in BOOLEAN,
           ReadPayloadSize(byte, late) \/ ReadPayload(byte, late),
           heard' = IF isPacketLocked' THEN Append(heard, byte) ELSE <<>>
    PROVE  PR!Receive(byte)
  <1>1. isPacketLocked' /\ ~decoded' /\ heard' = Append(heard, byte)
    <2>1. isPacketLocked' /\ ~decoded'
      <3>1. CASE ReadPayloadSize(byte, late)
        BY <3>1, Zenon DEF ReadPayloadSize
      <3>2. CASE ReadPayload(byte, late)
        BY <3>2, Zenon DEF ReadPayload
      <3> QED BY <3>1, <3>2
    <2> QED BY <2>1
  <1>2. IInv'
    BY ReadPayloadSizeIInv, ReadPayloadIInv
  <1>3. packetIndex' \in {3, 4}
    BY DEF ReadPayloadSize, ReadPayload
  <1>4. AwaitingCheckByte' \/ AwaitingSize' \/ AwaitingPayload' \/ AwaitingCrc'
    BY <1>1, <1>2, Zenon DEF IInv, FieldsMatchBytes
  <1>5. AwaitingPayload' \/ AwaitingCrc'
    BY <1>3, <1>4 DEF AwaitingCheckByte, AwaitingSize
  <1>6. PR!IsCandidate(heard')
    BY <1>2, <1>5, IncompleteIsCandidate DEF IInv, TypeOK
  <1> QED BY <1>1, <1>6, ExtendRefines

(***************************************************************************)
(* The byte after the payload delivers the packet or discards it.          *)
(***************************************************************************)
LEMMA LastByteRefines ==
    ASSUME IInv, NEW byte \in Byte, NEW late \in BOOLEAN,
           AcceptPacket(byte, late) \/ RejectPacket(byte, late),
           heard' = IF isPacketLocked' THEN Append(heard, byte) ELSE <<>>
    PROVE  PR!Receive(byte)
  <1> DEFINE h == Append(heard, byte)
  <1>1. AwaitingCrc /\ DataOK
    <2>1. isPacketLocked /\ packetIndex = 4
      BY DEF AcceptPacket, RejectPacket
    <2>2. AwaitingCheckByte \/ AwaitingSize \/ AwaitingPayload \/ AwaitingCrc
      BY <2>1, Zenon DEF IInv, FieldsMatchBytes
    <2> QED BY <2>1, <2>2 DEF AwaitingCheckByte, AwaitingSize, AwaitingPayload,
                              IInv, TypeOK
  <1>2. /\ h[1] = SA_LEADING_BYTE
        /\ PR!HasHeader(h)
        /\ Len(h) = PR!FullLength(h)
        /\ Len(h) >= 1
        /\ h[Len(h)] = byte
        /\ PR!PayloadOf(h) = LastPayload
    <2>1. h \in Seq(Byte)
      BY <1>1, AppendProperties DEF DataOK
    <2> HIDE DEF h
    <2>2. h = Append(heard, byte)
      BY DEF h
    <2> QED BY <1>1, <2>1, <2>2, PayloadHeard
  <1>3. Len(h) \in Nat
    BY <1>1, AppendProperties DEF DataOK
  <1> HIDE DEF h
  <1>4. ~PR!IsCandidate(h)
    BY <1>2, <1>3 DEF PR!IsCandidate
  <1>5. CASE AcceptPacket(byte, late)
    <2>1. PR!IsPacket(h)
      BY <1>2, <1>5, Zenon DEF PR!IsPacket, AcceptPacket
    <2>2. heard' = <<>> /\ decoded' /\ LastPayload' = LastPayload
      BY <1>5, Zenon DEF AcceptPacket, LastPayload
    <2>3. PR!Deliver(h)
      BY <1>2, <2>1, <2>2, Zenon DEF PR!Deliver
    <2> QED BY <2>3, Zenon DEF PR!Receive, h
  <1>6. CASE RejectPacket(byte, late)
    <2>1. ~PR!IsPacket(h)
      BY <1>2, <1>6, Zenon DEF PR!IsPacket, RejectPacket
    <2>2. heard' = <<>> /\ ~decoded'
      BY <1>6, Zenon DEF RejectPacket, ResetStatus
    <2>3. PR!Discard(h)
      BY <1>4, <2>1, <2>2, Zenon DEF PR!Discard
    <2> QED BY <2>3, Zenon DEF PR!Receive, h
  <1> QED BY <1>5, <1>6

(***************************************************************************)
(* The demodulator implements PacketReceiver: on any stream of bytes it    *)
(* delivers exactly the payloads of the whole packets it hears, and none   *)
(* is cut, mixed or passed over: what each call does is decided by its     *)
(* byte, its lateness and the bytes held (demodulateByte, getLastPayload). *)
(***************************************************************************)
THEOREM DeliversWhatWasHeardHolds == Spec => DeliversWhatWasHeard
  <1>1. Init => PR!PRInit
    BY Zenon DEF Init, ModemInit, Call, PR!PRInit, PR!Call
  <1>2. IInv /\ [Next]_streamVars => [PR!PRNext]_(PR!prVars)
    <2> SUFFICES ASSUME IInv, [Next]_streamVars PROVE [PR!PRNext]_(PR!prVars)
      OBVIOUS
    <2>1. CASE Next
      <3>1. PICK byte \in Byte, late \in BOOLEAN : Hear(byte, late)
        BY <2>1 DEF Next
      <3>2. heard' = IF isPacketLocked' THEN Append(heard, byte) ELSE <<>>
        BY <3>1 DEF Hear
      <3>5. arrived' = PR!Call(byte, late, ~arrived.turn)
        BY <3>1 DEF Hear, Call, PR!Call
      <3>3. CASE Timeout(late)
        <4>1. heard' = <<>>
          BY <3>2, <3>3, Zenon DEF Timeout, ResetStatus
        <4>2. late /\ heard # <<>> /\ PR!Abandon
          BY <3>3, <4>1, TimeoutRefines, Zenon DEF Timeout
        <4> QED BY <3>5, <4>2, Zenon DEF PR!PRNext
      <3>4. CASE ~Timeout(late)
        <4>1. PR!Receive(byte)
          BY <3>1, <3>2, <3>4, UnlockedRefines, ReadCheckByteRefines,
             ReadDataRefines, LastByteRefines, Zenon
          DEF Hear, DemodulateByte, Hunt, SkipNoise
        <4>2. ~(late /\ heard # <<>>)
          BY <3>1, <3>4, Zenon DEF Hear, DemodulateByte, Timeout, Hunt,
            SkipNoise, ReadCheckByte, ReadPayloadSize, ReadPayload,
            AcceptPacket, RejectPacket, IInv, FieldsMatchBytes, Unlocked
        <4> QED BY <3>5, <4>1, <4>2, Zenon DEF PR!PRNext
      <3> QED BY <3>3, <3>4
    <2>2. CASE UNCHANGED streamVars
      BY <2>2, Zenon DEF streamVars, modemVars, PR!prVars, LastPayload
    <2> QED BY <2>1, <2>2
  <1>3. Spec => []IInv
    BY InitIInv, NextIInv, PTL DEF Spec
  <1> QED BY <1>1, <1>2, <1>3, PTL DEF Spec, DeliversWhatWasHeard, PR!PRSpec

-----------------------------------------------------------------------------
(***************************************************************************)
(* The link.                                                               *)
(***************************************************************************)
\* The fields keep within the buffer, whatever arrives.
ModemKeepsWithin ==
    /\ isPacketLocked \in BOOLEAN
    /\ packetIndex \in 0 .. 4
    /\ payloadIndex \in 0 .. BufferSize
    /\ payloadSize \in Byte
    /\ payloadBuffer \in [0 .. BufferSize - 1 -> Byte]
    /\ packetIndex = 3 => payloadIndex < payloadSize

\* The payload bytes read, but the one at place j, are the packet's.
CopiedBut(j) ==
    \A i \in 1 .. payloadIndex : i # j => payloadBuffer[i - 1] = packet[i]

\* A packet met in step, with no byte changed or one of those the checksum
\* covers: the modem is where the firmware is.
InStep ==
    /\ next \in 2 .. 3 => damage = {} /\ isPacketLocked /\ packetIndex = next - 1
    /\ next \in 4 .. CrcAt =>
          /\ isPacketLocked
          /\ packetIndex = IF next = CrcAt THEN 4 ELSE 3
          /\ payloadSize = PayloadLength /\ payloadIndex = next - 4
          /\ damage = {} => CopiedBut(0)
          /\ damage = {"data"} =>
                \E j \in 1 .. payloadIndex :
                    payloadBuffer[j - 1] # packet[j] /\ CopiedBut(j)
    /\ next = CrcAt + 1 =>
          /\ damage = {} => decoded /\ dataBuffer = packet
          /\ damage = {"data"} => ~decoded

LinkInv ==
    /\ LinkTypeOK
    /\ ModemKeepsWithin
    /\ synced /\ next = 1 => ~isPacketLocked
    /\ synced /\ next > 1 /\ damage \subseteq {"data"} => InStep

LEMMA FrameFacts ==
    ASSUME NEW r \in Reading
    PROVE  /\ Frame(r) \in Seq(Byte)
           /\ Len(Frame(r)) = PayloadLength + 6
           /\ Frame(r)[1] = SA_LEADING_BYTE
           /\ Frame(r)[2] = SA_CHECK_BYTE
           /\ Frame(r)[3] = PayloadLength
           /\ \A i \in 1 .. PayloadLength : Frame(r)[i + 3] = r[i]
           /\ Frame(r)[CrcAt] = Crc(r)
           /\ \A n \in 1 .. PayloadLength + 6 : Frame(r)[n] \in Byte
  <1> DEFINE head == <<SA_LEADING_BYTE, SA_CHECK_BYTE, PayloadLength>>
             tail == <<Crc(r), CR, LF>>
  <1>1. PICK p \in Nat : p = PayloadLength
    BY ByteFacts, LinkAssumption
  <1>2. Crc(r) \in Byte
    BY <1>1, LinkAssumption, CrcFits
  <1>3. head \in Seq(Byte) /\ Len(head) = 3
    BY ByteFacts, LinkAssumption
  <1>4. tail \in Seq(Byte) /\ Len(tail) = 3 /\ tail[1] = Crc(r)
    BY <1>2, LinkAssumption
  <1>5. r \in [1 .. p -> Byte]
    BY <1>1, LinkAssumption
  <1>6. r \in Seq(Byte) /\ Len(r) = p
    BY <1>5
  <1>7. /\ head \o r \in Seq(Byte) /\ Len(head \o r) = 3 + p
        /\ \A i \in 1 .. 3 : (head \o r)[i] = head[i]
        /\ \A i \in 1 .. p : (head \o r)[i + 3] = r[i]
    BY <1>3, <1>6, ConcatProperties
  <1>8. Frame(r) = (head \o r) \o tail
    BY DEF Frame
  <1> HIDE DEF head, tail
  <1>9. /\ Frame(r) \in Seq(Byte) /\ Len(Frame(r)) = p + 6
        /\ \A i \in 1 .. 3 + p : Frame(r)[i] = (head \o r)[i]
        /\ Frame(r)[3 + p + 1] = tail[1]
    <2>1. PICK front \in Seq(Byte) : front = head \o r
      BY <1>7
    <2>2. Len(front) = 3 + p
      BY <1>7, <2>1
    <2>3. PICK back \in Seq(Byte) : back = tail
      BY <1>4
    <2>4. /\ front \o back \in Seq(Byte)
          /\ Len(front \o back) = 3 + p + 3
          /\ \A i \in 1 .. 3 + p : (front \o back)[i] = front[i]
          /\ (front \o back)[3 + p + 1] = back[1]
      <3>1. Len(back) = 3
        BY <1>4, <2>3
      <3>2. front \o back \in Seq(Byte) /\ Len(front \o back) = Len(front) + Len(back)
        BY ConcatProperties
      <3>3. \A i \in 1 .. Len(front) : (front \o back)[i] = front[i]
        BY ConcatProperties
      <3>4. \A i \in Len(front) + 1 .. Len(front) + Len(back) :
               (front \o back)[i] = back[i - Len(front)]
        BY ConcatProperties
      <3>5. 3 + p + 1 \in 3 + p + 1 .. 3 + p + 3 /\ (3 + p + 1) - (3 + p) = 1
        OBVIOUS
      <3>6. (front \o back)[3 + p + 1] = back[1]
        BY <2>2, <3>1, <3>4, <3>5
      <3> QED BY <2>2, <3>1, <3>2, <3>3, <3>6
    <2>5. Frame(r) = front \o back
      BY <1>8, <2>1, <2>3, Zenon
    <2>6. 3 + p + 3 = p + 6
      OBVIOUS
    <2> QED BY <2>1, <2>3, <2>4, <2>5, <2>6, Zenon
  <1>10. /\ head[1] = SA_LEADING_BYTE /\ head[2] = SA_CHECK_BYTE
         /\ head[3] = PayloadLength
    BY DEF head
  <1>11. \A i \in 1 .. p : Frame(r)[i + 3] = r[i]
    <2> TAKE i \in 1 .. p
    <2>1. i + 3 \in 1 .. 3 + p
      OBVIOUS
    <2> QED BY <1>7, <1>9, <2>1
  <1>12. \A n \in 1 .. p + 6 : Frame(r)[n] \in Byte
    BY <1>9
  <1>13. 3 + p + 1 = CrcAt
    BY <1>1 DEF CrcAt
  <1>14. \A i \in 1 .. 3 : Frame(r)[i] = head[i]
    BY <1>7, <1>9
  <1> QED
    BY <1>1, <1>4, <1>9, <1>10, <1>11, <1>12, <1>13, <1>14

(***************************************************************************)
(* No byte takes the fields out of their ranges.                           *)
(***************************************************************************)
LEMMA ModemStays ==
    ASSUME ModemKeepsWithin, NEW byte \in Byte, NEW late \in BOOLEAN,
           DemodulateByte(byte, late)
    PROVE  ModemKeepsWithin'
  <1> USE ByteFacts, BufferAssumption
  <1>1. CASE ResetStatus
    <2>1. /\ isPacketLocked' = FALSE /\ packetIndex' = 0 /\ payloadIndex' = 0
          /\ payloadSize' = 0 /\ payloadBuffer' = payloadBuffer
      BY <1>1 DEF ResetStatus
    <2>2. 0 \in 0 .. 4 /\ 0 \in 0 .. BufferSize
      OBVIOUS
    <2>3. packetIndex' # 3
      BY <2>1
    <2> QED BY <2>1, <2>2, <2>3 DEF ModemKeepsWithin
  <1>2. CASE Hunt(byte)
    BY <1>2 DEF Hunt, ModemKeepsWithin
  <1>3. CASE ReadCheckByte(byte, late)
    BY <1>3 DEF ReadCheckByte, ModemKeepsWithin
  <1>4. CASE ReadPayloadSize(byte, late)
    <2>1. PICK b \in Nat : b = byte
      OBVIOUS
    <2> QED BY <1>4, <2>1 DEF ReadPayloadSize, ModemKeepsWithin
  <1>5. CASE ReadPayload(byte, late)
    <2>1. PICK n \in Nat, k \in Nat : n = payloadSize /\ k = payloadIndex
      BY DEF ModemKeepsWithin
    <2>2. k < n /\ n <= BufferSize
      BY <1>5, <2>1 DEF ReadPayload, ModemKeepsWithin
    <2>3. payloadBuffer' \in [0 .. BufferSize - 1 -> Byte]
      BY <1>5 DEF ReadPayload, ModemKeepsWithin
    <2> QED BY <1>5, <2>1, <2>2, <2>3 DEF ReadPayload, ModemKeepsWithin
  <1>6. CASE AcceptPacket(byte, late)
    BY <1>6 DEF AcceptPacket, ModemKeepsWithin
  <1> QED
    BY <1>1, <1>2, <1>3, <1>4, <1>5, <1>6
    DEF DemodulateByte, Timeout, SkipNoise, RejectPacket

(***************************************************************************)
(* The firmware goes on to the next byte, or begins the next packet.       *)
(***************************************************************************)
LEMMA AdvanceSteps ==
    ASSUME LinkTypeOK, Advance
    PROVE  /\ packet' \in Reading /\ next' \in 1 .. PayloadLength + 6
           /\ next' = 1 => synced' = ~isPacketLocked'
           /\ next' # 1 =>
                 /\ next \in 1 .. PayloadLength + 5 /\ next' = next + 1
                 /\ packet' = packet /\ synced' = synced
  <1>1. PICK p \in Nat : p = PayloadLength
    BY ByteFacts, LinkAssumption
  <1>2. PICK n \in 1 .. p + 6 : n = next
    BY <1>1 DEF LinkTypeOK
  <1>3. packet \in Reading /\ Len(Frame(packet)) = p + 6
    BY <1>1, FrameFacts DEF LinkTypeOK
  <1>4. CASE n < p + 6
    <2>1. next' = n + 1 /\ packet' = packet /\ synced' = synced
      BY <1>2, <1>3, <1>4 DEF Advance
    <2>2. n + 1 \in 1 .. p + 6 /\ n \in 1 .. p + 5 /\ n + 1 # 1
      BY <1>4
    <2> QED BY <1>1, <1>2, <1>3, <2>1, <2>2
  <1>5. CASE ~(n < p + 6)
    <2>1. next' = 1 /\ packet' \in Reading /\ synced' = ~isPacketLocked'
      BY <1>2, <1>3, <1>5 DEF Advance
    <2>2. 1 \in 1 .. p + 6
      OBVIOUS
    <2> QED BY <1>1, <2>1, <2>2
  <1> QED BY <1>4, <1>5

(***************************************************************************)
(* What readData decodes are bytes.                                        *)
(***************************************************************************)
LEMMA DecodeSteps ==
    ASSUME LinkTypeOK, ModemKeepsWithin', Decode
    PROVE  dataBuffer' \in [1 .. PayloadLength -> Byte]
  <1>1. CASE ~decoded'
    BY <1>1 DEF Decode, LinkTypeOK
  <1>2. CASE decoded'
    <2>1. PICK s \in Nat, z \in Nat : s = payloadSize' /\ z = BufferSize /\ s <= z
      BY ByteFacts, BufferAssumption DEF ModemKeepsWithin
    <2>2. payloadBuffer' \in [0 .. z - 1 -> Byte]
      BY <2>1 DEF ModemKeepsWithin
    <2>3. ASSUME NEW i \in 1 .. PayloadLength, i <= s
          PROVE  LastPayload'[i] \in Byte
      <3>1. i \in 1 .. s /\ i - 1 \in 0 .. z - 1
        BY <2>1, <2>3, ByteFacts, LinkAssumption
      <3>2. LastPayload'[i] = payloadBuffer'[i - 1]
        BY <2>1, <3>1 DEF LastPayload
      <3> QED BY <2>2, <3>1, <3>2
    <2> QED BY <1>2, <2>1, <2>3 DEF Decode, LinkTypeOK
  <1> QED BY <1>1, <1>2

(***************************************************************************)
(* The first three bytes of a packet met in step.                          *)
(***************************************************************************)
LEMMA HeaderArrives ==
    ASSUME LinkInv, NEW late \in BOOLEAN, late => next = 1, synced,
           DemodulateByte(Frame(packet)[next], late),
           next' = next + 1, packet' = packet,
           damage' = IF next = 1 THEN {} ELSE damage, damage' \subseteq {"data"},
           next \in 1 .. 3
    PROVE  InStep'
  <1>1. PICK p \in Nat : p = PayloadLength /\ p \in Byte /\ CrcAt = p + 4
    BY ByteFacts, LinkAssumption DEF CrcAt
  <1>2. /\ Frame(packet)[1] = SA_LEADING_BYTE
        /\ Frame(packet)[2] = SA_CHECK_BYTE
        /\ Frame(packet)[3] = p
    BY <1>1, FrameFacts DEF LinkInv, LinkTypeOK
  <1>3. CASE next = 1
    <2>1. ~isPacketLocked
      BY <1>3 DEF LinkInv
    <2>2. Hunt(SA_LEADING_BYTE)
      BY <1>2, <1>3, <2>1
      DEF DemodulateByte, Timeout, SkipNoise, ReadCheckByte, ReadPayloadSize,
          ReadPayload, AcceptPacket, RejectPacket
    <2>3. next' = 2 /\ isPacketLocked' /\ packetIndex' = 1 /\ damage' = {}
      BY <1>3, <2>2 DEF Hunt
    <2> QED BY <1>1, <2>3 DEF InStep, CrcAt
  <1>4. CASE next = 2
    <2>1. ~late /\ damage = {} /\ isPacketLocked /\ packetIndex = 1
      BY <1>4 DEF LinkInv, InStep
    <2>4. DemodulateByte(SA_CHECK_BYTE, late)
      BY <1>2, <1>4
    <2>5. packetIndex \notin {2, 3, 4}
      BY <2>1
    <2>2. ReadCheckByte(SA_CHECK_BYTE, late)
      BY <2>1, <2>4, <2>5, Zenon
      DEF DemodulateByte, Timeout, Hunt, SkipNoise, ReadPayloadSize,
          ReadPayload, AcceptPacket, RejectPacket
    <2>3. next' = 3 /\ isPacketLocked' /\ packetIndex' = 2 /\ damage' = {}
      BY <1>4, <2>1, <2>2 DEF ReadCheckByte
    <2> QED BY <1>1, <2>3 DEF InStep, CrcAt
  <1>5. CASE next = 3
    <2>1. ~late /\ damage = {} /\ isPacketLocked /\ packetIndex = 2
      BY <1>5 DEF LinkInv, InStep
    <2>2. ReadPayloadSize(p, late)
      BY <1>2, <1>5, <2>1
      DEF DemodulateByte, Timeout, Hunt, SkipNoise, ReadCheckByte,
          ReadPayload, AcceptPacket, RejectPacket
    <2>3. /\ next' = 4 /\ isPacketLocked' /\ damage' = {}
          /\ packetIndex' = (IF p = 0 THEN 4 ELSE 3)
          /\ payloadSize' = p /\ payloadIndex' = 0
      BY <1>5, <2>1, <2>2 DEF ReadPayloadSize
    <2>4. CopiedBut(0)'
      BY <2>3 DEF CopiedBut
    <2>5. 4 = p + 4 <=> p = 0
      OBVIOUS
    <2> QED BY <1>1, <2>3, <2>4, <2>5 DEF InStep, CrcAt
  <1> QED BY <1>3, <1>4, <1>5

(***************************************************************************)
(* A byte of the payload, as it was sent or changed: it goes to its place. *)
(***************************************************************************)
LEMMA PayloadArrives ==
    ASSUME LinkInv, NEW byte \in Byte, synced,
           DemodulateByte(byte, FALSE),
           next' = next + 1, packet' = packet,
           next \in 4 .. PayloadLength + 3, damage \subseteq {"data"},
           \/ byte = Frame(packet)[next] /\ damage' = damage
           \/ byte # Frame(packet)[next] /\ damage = {} /\ damage' = {"data"}
    PROVE  InStep'
  <1>1. PICK p \in Nat : p = PayloadLength /\ p \in Byte /\ CrcAt = p + 4
    BY ByteFacts, LinkAssumption DEF CrcAt
  <1>2. PICK k \in 0 .. p - 1 : next = k + 4
    <2>1. next - 4 \in 0 .. p - 1 /\ next = (next - 4) + 4
      BY <1>1
    <2> QED BY <2>1
  <1>3. k + 1 \in 1 .. p /\ k + 4 # p + 4 /\ k + 4 \in 4 .. p + 4
    OBVIOUS
  <1>4. Frame(packet)[next] = packet[k + 1]
    <2>1. \A i \in 1 .. p : Frame(packet)[i + 3] = packet[i]
      BY <1>1, FrameFacts DEF LinkInv, LinkTypeOK
    <2>2. (k + 1) + 3 = k + 4
      OBVIOUS
    <2> QED BY <1>2, <1>3, <2>1, <2>2
  <1>5. /\ isPacketLocked /\ packetIndex = 3 /\ payloadSize = p /\ payloadIndex = k
        /\ damage = {} => CopiedBut(0)
        /\ damage = {"data"} =>
              \E j \in 1 .. k : payloadBuffer[j - 1] # packet[j] /\ CopiedBut(j)
    <2>1. InStep /\ next \in 4 .. CrcAt /\ next # CrcAt /\ next - 4 = k
      BY <1>1, <1>2, <1>3 DEF LinkInv
    <2> QED BY <1>1, <2>1 DEF InStep
  <1>6. ReadPayload(byte, FALSE)
    <2>1. packetIndex \notin {1, 2, 4}
      BY <1>5
    <2> QED BY <1>5, <2>1, Zenon
        DEF DemodulateByte, Timeout, Hunt, SkipNoise, ReadCheckByte,
            ReadPayloadSize, AcceptPacket, RejectPacket
  <1>7. /\ isPacketLocked' /\ payloadSize' = p /\ payloadIndex' = k + 1
        /\ payloadBuffer' = [payloadBuffer EXCEPT ![k] = byte]
        /\ packetIndex' = IF k + 1 = p THEN 4 ELSE 3
    BY <1>5, <1>6 DEF ReadPayload
  <1>8. /\ payloadBuffer'[k] = byte
        /\ \A i \in 1 .. k : payloadBuffer'[i - 1] = payloadBuffer[i - 1]
    <2>1. PICK z \in Nat : z = BufferSize /\ p <= z
      BY <1>1, ByteFacts, BufferAssumption
    <2>2. payloadBuffer \in [0 .. z - 1 -> Byte] /\ k \in 0 .. z - 1
      BY <2>1 DEF LinkInv, ModemKeepsWithin
    <2>3. ASSUME NEW i \in 1 .. k
          PROVE  i - 1 \in 0 .. z - 1 /\ i - 1 # k
      BY <2>1
    <2> QED BY <1>7, <2>2, <2>3
  <1>9. /\ next' = k + 5 /\ next' \in 4 .. p + 4 /\ next' # 2 /\ next' # 3
        /\ next' # p + 5 /\ next' - 4 = k + 1
        /\ next' = p + 4 <=> k + 1 = p
    BY <1>2
  <1>10. \A i \in 1 .. k + 1 : i \in 1 .. k \/ i = k + 1
    OBVIOUS
  <1>11. (k + 1) - 1 = k
    OBVIOUS
  <1>12. CASE byte = packet[k + 1]
    <2>1. damage' = damage
      BY <1>4, <1>12
    <2>2. ASSUME NEW j, CopiedBut(j)
          PROVE  CopiedBut(j)'
      BY <1>5, <1>7, <1>8, <1>10, <1>11, <1>12, <2>2 DEF CopiedBut
    <2>3. damage' = {} => CopiedBut(0)'
      BY <1>5, <2>1, <2>2
    <2>4. ASSUME damage' = {"data"}
          PROVE  \E j \in 1 .. k + 1 :
                    payloadBuffer'[j - 1] # packet'[j] /\ CopiedBut(j)'
      <3>1. PICK j \in 1 .. k : payloadBuffer[j - 1] # packet[j] /\ CopiedBut(j)
        BY <1>5, <2>1, <2>4
      <3>2. CopiedBut(j)'
        BY <2>2, <3>1
      <3>3. j \in 1 .. k + 1 /\ payloadBuffer'[j - 1] # packet'[j]
        BY <1>8, <3>1
      <3> QED BY <3>2, <3>3
    <2> QED BY <1>1, <1>7, <1>9, <2>3, <2>4 DEF InStep, CrcAt
  <1>13. CASE byte # packet[k + 1]
    <2>1. damage = {} /\ damage' = {"data"}
      BY <1>4, <1>13
    <2>2. \A i \in 1 .. k : payloadBuffer[i - 1] = packet[i]
      BY <1>5, <2>1 DEF CopiedBut
    <2>3. CopiedBut(k + 1)'
      BY <1>7, <1>8, <1>10, <2>2 DEF CopiedBut
    <2>4. k + 1 \in 1 .. k + 1 /\ payloadBuffer'[(k + 1) - 1] # packet'[k + 1]
      BY <1>8, <1>11, <1>13
    <2>5. damage' # {}
      BY <2>1
    <2> QED BY <1>1, <1>7, <1>9, <2>1, <2>3, <2>4, <2>5 DEF InStep, CrcAt
  <1> QED BY <1>12, <1>13

(***************************************************************************)
(* The checksum: an unchanged packet is accepted and decoded, and one with *)
(* a byte changed, of the payload or the checksum itself, is rejected.     *)
(***************************************************************************)
LEMMA CrcArrives ==
    ASSUME LinkInv, NEW byte \in Byte, synced,
           DemodulateByte(byte, FALSE), Decode,
           next' = next + 1, packet' = packet,
           next = CrcAt, damage \subseteq {"data"},
           \/ byte = Frame(packet)[next] /\ damage' = damage
           \/ byte # Frame(packet)[next] /\ damage = {} /\ damage' = {"data"}
    PROVE  InStep'
  <1>1. PICK p \in Nat : p = PayloadLength /\ p \in Byte /\ CrcAt = p + 4
    BY ByteFacts, LinkAssumption DEF CrcAt
  <1>2. packet \in [1 .. p -> Byte] /\ Frame(packet)[next] = Crc(packet)
    BY <1>1, FrameFacts, LinkAssumption DEF LinkInv, LinkTypeOK
  <1>3. /\ isPacketLocked /\ packetIndex = 4 /\ payloadSize = p /\ payloadIndex = p
        /\ damage = {} => CopiedBut(0)
        /\ damage = {"data"} =>
              \E j \in 1 .. p : payloadBuffer[j - 1] # packet[j] /\ CopiedBut(j)
    <2>1. InStep /\ next \in 4 .. CrcAt /\ next - 4 = p
      BY <1>1 DEF LinkInv
    <2> QED BY <1>1, <2>1 DEF InStep
  <1>4. AcceptPacket(byte, FALSE) \/ RejectPacket(byte, FALSE)
    <2>1. packetIndex \notin {1, 2, 3}
      BY <1>3
    <2> QED BY <1>3, <2>1, Zenon
        DEF DemodulateByte, Timeout, Hunt, SkipNoise, ReadCheckByte,
            ReadPayloadSize, ReadPayload
  <1>5. LastPayload = [i \in 1 .. p |-> payloadBuffer[i - 1]]
    BY <1>3 DEF LastPayload
  <1>6. LastPayload \in [1 .. p -> Byte]
    <2>1. PICK z \in Nat : z = BufferSize /\ p <= z
      BY <1>1, ByteFacts, BufferAssumption
    <2>2. payloadBuffer \in [0 .. z - 1 -> Byte]
      BY <2>1 DEF LinkInv, ModemKeepsWithin
    <2>3. \A i \in 1 .. p : i - 1 \in 0 .. z - 1
      BY <2>1
    <2> QED BY <1>5, <2>2, <2>3
  <1>7. next' = p + 5 /\ next' \notin 2 .. 3 /\ next' \notin 4 .. p + 4
    BY <1>1
  <1>8. damage' = {} => decoded' /\ dataBuffer' = packet
    <2> SUFFICES ASSUME damage' = {}
                 PROVE  decoded' /\ dataBuffer' = packet
      OBVIOUS
    <2>1. damage = {} /\ byte = Crc(packet)
      BY <1>2
    <2>2. \A i \in 1 .. p : payloadBuffer[i - 1] = packet[i]
      BY <1>3, <2>1 DEF CopiedBut
    <2>3. LastPayload = packet
      BY <1>2, <1>5, <2>2
    <2>4. AcceptPacket(byte, FALSE)
      BY <1>4, <2>1, <2>3 DEF RejectPacket
    <2>5. decoded' /\ payloadSize' = p /\ LastPayload' = LastPayload
      BY <1>3, <2>4 DEF AcceptPacket, LastPayload
    <2>6. dataBuffer' = [i \in 1 .. p |->
                            IF i <= p THEN packet[i] ELSE dataBuffer[i]]
      BY <1>1, <2>3, <2>5 DEF Decode
    <2>7. \A i \in 1 .. p : i <= p
      OBVIOUS
    <2> QED BY <1>2, <2>5, <2>6, <2>7
  <1>9. damage' = {"data"} => ~decoded'
    <2> SUFFICES ASSUME damage' = {"data"}
                 PROVE  ~decoded'
      OBVIOUS
    <2>1. byte # Crc(LastPayload)
      <3>1. CASE damage = {}
        <4>1. byte # Crc(packet)
          BY <1>2, <3>1
        <4>2. \A i \in 1 .. p : payloadBuffer[i - 1] = packet[i]
          BY <1>3, <3>1 DEF CopiedBut
        <4>3. LastPayload = packet
          BY <1>2, <1>5, <4>2
        <4> QED BY <4>1, <4>3
      <3>2. CASE damage # {}
        <4>1. byte = Crc(packet) /\ damage = {"data"}
          BY <1>2, <3>2
        <4>2. PICK j \in 1 .. p : payloadBuffer[j - 1] # packet[j] /\ CopiedBut(j)
          BY <1>3, <4>1
        <4>3. PICK b \in Byte : b = LastPayload[j] /\ b = payloadBuffer[j - 1]
          BY <1>5, <1>6
        <4>4. \A i \in 1 .. p : i # j => LastPayload[i] = packet[i]
          BY <1>3, <1>5, <4>2 DEF CopiedBut
        <4>5. LastPayload = [packet EXCEPT ![j] = b]
          BY <1>2, <1>6, <4>3, <4>4
        <4>6. Crc([packet EXCEPT ![j] = b]) # Crc(packet)
          <5>1. b \in Byte \ {packet[j]}
            BY <4>2, <4>3
          <5> QED BY <1>1, <1>2, <5>1, CrcDetects
        <4> QED BY <4>1, <4>5, <4>6
      <3> QED BY <3>1, <3>2
    <2>2. RejectPacket(byte, FALSE)
      BY <1>4, <2>1 DEF AcceptPacket
    <2> QED BY <2>2 DEF RejectPacket, ResetStatus
  <1> QED BY <1>1, <1>7, <1>8, <1>9 DEF InStep, CrcAt

(***************************************************************************)
(* The types survive a byte's fate, whatever it is.                        *)
(***************************************************************************)
LEMMA LinkTypesStay ==
    ASSUME LinkInv, LinkNext
    PROVE  LinkTypeOK' /\ ModemKeepsWithin'
  <1>1. \A n \in 1 .. PayloadLength + 6 : Frame(packet)[n] \in Byte
    BY FrameFacts DEF LinkInv, LinkTypeOK
  <1>2. Frame(packet)[next] \in Byte
    BY <1>1 DEF LinkInv, LinkTypeOK
  <1>3. ModemKeepsWithin'
    <2>1. ASSUME NEW byte \in Byte, NEW late \in BOOLEAN, DemodulateByte(byte, late)
          PROVE  ModemKeepsWithin'
      BY <2>1, ModemStays DEF LinkInv
    <2>2. CASE Arrive
      BY <1>2, <2>1, <2>2 DEF Arrive
    <2>3. CASE Lose
      BY <2>3 DEF Lose, LinkInv, ModemKeepsWithin
    <2>4. CASE Damage
      BY <2>1, <2>4 DEF Damage
    <2>5. CASE Stall
      BY <1>2, <2>1, <2>5 DEF Stall
    <2> QED BY <2>2, <2>3, <2>4, <2>5 DEF LinkNext
  <1>4. Decode /\ Advance
    BY Zenon DEF LinkNext, Arrive, Lose, Damage, Stall
  <1>5. \E kind \in {"none", "lost", "data", "more", "frame", "stalled"} : Record(kind)
    BY DEF LinkNext, Arrive, Lose, Damage, Stall
  <1>6. damage' \subseteq {"lost", "data", "more", "frame", "stalled"}
    BY <1>5 DEF Record, LinkInv, LinkTypeOK
  <1>7. faults' \in 0 .. MaxFaults
    <2>1. PICK m \in Nat, f \in Nat : m = MaxFaults /\ f = faults /\ f <= m
      BY LinkAssumption DEF LinkInv, LinkTypeOK
    <2>2. CASE Arrive
      <3>1. faults' = faults
        BY <2>2 DEF Arrive
      <3> QED BY <2>1, <3>1
    <2>3. CASE ~Arrive
      <3>1. faults < MaxFaults /\ faults' = faults + 1
        BY <2>3, Zenon DEF LinkNext, Lose, Damage, Stall
      <3>2. f < m /\ faults' = f + 1
        BY <2>1, <3>1
      <3> QED BY <2>1, <3>2
    <2> QED BY <2>2, <2>3
  <1>8. dataBuffer' \in [1 .. PayloadLength -> Byte]
    BY <1>3, <1>4, DecodeSteps DEF LinkInv
  <1>9. packet' \in Reading /\ next' \in 1 .. PayloadLength + 6
    BY <1>4, AdvanceSteps DEF LinkInv
  <1> QED
    BY <1>3, <1>6, <1>7, <1>8, <1>9 DEF LinkTypeOK, ModemKeepsWithin

(***************************************************************************)
(* A packet met in step stays in step.                                     *)
(***************************************************************************)
LEMMA InStepStays ==
    ASSUME LinkInv, LinkNext, synced', next' # 1, damage' \subseteq {"data"}
    PROVE  InStep'
  <1>1. PICK p \in Nat : p = PayloadLength /\ CrcAt = p + 4
    BY ByteFacts, LinkAssumption DEF CrcAt
  <1>2. Decode /\ Advance
    BY Zenon DEF LinkNext, Arrive, Lose, Damage, Stall
  <1>3. /\ next \in 1 .. p + 5 /\ next' = next + 1
        /\ packet' = packet /\ synced
    BY <1>1, <1>2, AdvanceSteps DEF LinkInv
  <1>4. next \in 1 .. 3 \/ next \in 4 .. p + 3 \/ next = p + 4 \/ next = p + 5
    BY <1>3
  <1>5. Frame(packet)[next] \in Byte
    <2>1. \A n \in 1 .. p + 6 : Frame(packet)[n] \in Byte
      BY <1>1, FrameFacts DEF LinkInv, LinkTypeOK
    <2> QED BY <1>3, <2>1
  <1>6. CASE next = p + 5
    <2>1. next' \notin 2 .. 3 /\ next' \notin 4 .. p + 4 /\ next' # p + 5
      BY <1>3, <1>6
    <2> QED BY <1>1, <2>1 DEF InStep, CrcAt
  <1>7. CASE Arrive /\ next # p + 5
    <2>1. PICK late \in BOOLEAN : /\ late => next = 1
                                  /\ DemodulateByte(Frame(packet)[next], late)
      BY <1>7 DEF Arrive
    <2>2. damage' = IF next = 1 THEN {} ELSE damage
      BY <1>7 DEF Arrive, Record
    <2>3. CASE next \in 1 .. 3
      BY <1>3, <2>1, <2>2, <2>3, HeaderArrives
    <2>4. CASE next \in 4 .. p + 4
      <3>1. late = FALSE /\ damage' = damage
        BY <2>1, <2>2, <2>4
      <3>2. DemodulateByte(Frame(packet)[next], FALSE)
        BY <2>1, <3>1
      <3>3. CASE next = p + 4
        BY <1>1, <1>2, <1>3, <1>5, <3>1, <3>2, <3>3, CrcArrives
      <3>4. CASE next \in 4 .. p + 3
        BY <1>1, <1>3, <1>5, <3>1, <3>2, <3>4, PayloadArrives
      <3> QED BY <1>4, <2>4, <3>3, <3>4
    <2> QED BY <1>4, <1>7, <2>3, <2>4
  <1>8. CASE Damage /\ next # p + 5
    <2>1. PICK byte \in Byte : /\ byte # Frame(packet)[next]
                               /\ DemodulateByte(byte, FALSE)
      BY <1>8 DEF Damage
    <2>2. Record(IF next \in 4 .. CrcAt
                   THEN IF "data" \in damage THEN "more" ELSE "data"
                   ELSE "frame")
      BY <1>8 DEF Damage
    <2>3. next \in 4 .. CrcAt
      BY <2>2 DEF Record
    <2>4. next # 1
      BY <2>3
    <2>5. "data" \notin damage
      BY <2>2, <2>3 DEF Record
    <2>6. damage' = damage \cup {"data"}
      BY <2>2, <2>3, <2>4, <2>5 DEF Record
    <2>7. damage = {} /\ damage' = {"data"}
      BY <2>5, <2>6
    <2>8. CASE next = p + 4
      BY <1>1, <1>2, <1>3, <2>1, <2>7, <2>8, CrcArrives
    <2>9. CASE next \in 4 .. p + 3
      BY <1>1, <1>3, <2>1, <2>7, <2>9, PayloadArrives
    <2> QED BY <1>1, <1>4, <2>3, <2>8, <2>9
  <1>9. CASE Lose
    BY <1>9 DEF Lose, Record
  <1>10. CASE Stall
    BY <1>10 DEF Stall, Record
  <1> QED BY <1>6, <1>7, <1>8, <1>9, <1>10 DEF LinkNext

LEMMA LinkInvInit == LinkInit => LinkInv
  <1> SUFFICES ASSUME LinkInit PROVE LinkInv
    OBVIOUS
  <1>1. PICK p \in Nat, m \in Nat, z \in Nat :
            p = PayloadLength /\ m = MaxFaults /\ z = BufferSize
    BY ByteFacts, BufferAssumption, LinkAssumption
  <1>2. 1 \in 1 .. p + 6 /\ 0 \in 0 .. m /\ 0 \in 0 .. z /\ 0 \in 0 .. 4 /\ 0 # 3
    OBVIOUS
  <1>3. /\ isPacketLocked = FALSE /\ packetIndex = 0 /\ payloadIndex = 0
        /\ payloadSize = 0 /\ payloadBuffer \in [0 .. BufferSize - 1 -> Byte]
        /\ packet \in Reading /\ next = 1 /\ faults = 0 /\ damage = {}
        /\ dataBuffer = [i \in 1 .. PayloadLength |-> 0]
    BY DEF LinkInit, ModemInit
  <1>4. dataBuffer \in [1 .. PayloadLength -> Byte]
    BY <1>3, ByteFacts
  <1>5. LinkTypeOK
    BY <1>1, <1>2, <1>3, <1>4, ByteFacts DEF LinkTypeOK
  <1>6. ModemKeepsWithin
    BY <1>1, <1>2, <1>3, ByteFacts DEF ModemKeepsWithin
  <1>7. ~(next > 1)
    BY <1>3
  <1> QED BY <1>3, <1>5, <1>6, <1>7 DEF LinkInv

LEMMA LinkInvStays == ASSUME LinkInv, [LinkNext]_linkVars PROVE LinkInv'
  <1>1. CASE LinkNext
    <2>1. LinkTypeOK' /\ ModemKeepsWithin'
      BY <1>1, LinkTypesStay
    <2>2. synced' /\ next' = 1 => ~isPacketLocked'
      <3>1. Advance
        BY <1>1, Zenon DEF LinkNext, Arrive, Lose, Damage, Stall
      <3> QED BY <3>1, AdvanceSteps DEF LinkInv
    <2>3. synced' /\ next' > 1 /\ damage' \subseteq {"data"} => InStep'
      <3>1. next' > 1 => next' # 1
        OBVIOUS
      <3> QED BY <1>1, <3>1, InStepStays
    <2> QED BY <2>1, <2>2, <2>3 DEF LinkInv
  <1>2. CASE UNCHANGED linkVars
    BY <1>2 DEF linkVars, modemVars, LinkInv, LinkTypeOK, ModemKeepsWithin, InStep,
                CopiedBut
  <1> QED BY <1>1, <1>2

(***************************************************************************)
(* Modem and firmware are in step in every packet met between packets and  *)
(* not yet harmed but in one byte (sa_modem.cpp 24-143, hr.ino 128-161).   *)
(***************************************************************************)
THEOREM LinkInvHolds == LinkSpec => []LinkInv
  <1> QED BY LinkInvInit, LinkInvStays, PTL DEF LinkSpec

(***************************************************************************)
(* A packet that the modem meets between packets and that arrives whole is *)
(* published, and nothing but its own reading is.                          *)
(***************************************************************************)
THEOREM WholePacketsGetThrough == LinkSpec => []WholePacketPublished
  <1>1. LinkInv => WholePacketPublished
    <2>1. PICK p \in Nat : CrcAt = p + 4
      BY ByteFacts, LinkAssumption DEF CrcAt
    <2> QED BY <2>1 DEF LinkInv, InStep, WholePacketPublished, PacketOver
  <1> QED BY <1>1, LinkInvHolds, PTL

(***************************************************************************)
(* A packet with one byte changed is not published: the modem is in step   *)
(* with it up to the checksum, which notices.                              *)
(***************************************************************************)
THEOREM DamageIsNoticed == LinkSpec => []DamagedPacketRejected
  <1>1. LinkInv => DamagedPacketRejected
    <2>1. PICK p \in Nat : CrcAt = p + 4
      BY ByteFacts, LinkAssumption DEF CrcAt
    <2> QED BY <2>1 DEF LinkInv, InStep, DamagedPacketRejected, PacketOver
  <1> QED BY <1>1, LinkInvHolds, PTL

=============================================================================
