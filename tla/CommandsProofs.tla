--------------------------- MODULE CommandsProofs ---------------------------
(***************************************************************************)
(* The formats of Commands for every message: what a serializer writes,    *)
(* its deserializer reads back.                                            *)
(***************************************************************************)
EXTENDS Commands, SequenceTheorems, WellFoundedInduction, TLAPS

-----------------------------------------------------------------------------
(***************************************************************************)
(* Counting up, and functions that are defined by it.                      *)
(***************************************************************************)
\* A set of numbers has a least one.
LEMMA LeastNumber ==
  ASSUME NEW I \in SUBSET Nat, I # {}
  PROVE  \E i \in I : \A j \in I : i <= j
<1>1. PICK i \in I : \A j \in I : ~(<<j, i>> \in OpToRel(<, Nat))
  BY NatLessThanWellFounded, WFMin
<1>2. \A j \in I : ~(j < i)
  BY <1>1, Zenon DEF OpToRel
<1>3. \A j \in I : i <= j
  BY <1>2
<1> QED
  BY <1>3

\* A set with 0 that has i + 1 whenever it has i < n has all numbers up to n.
LEMMA CountingUp ==
  ASSUME NEW n \in Nat, NEW P, 0 \in P,
         \A i \in 0..n - 1 : i \in P => i + 1 \in P
  PROVE  \A i \in 0..n : i \in P
<1> DEFINE I == {i \in 0..n : i \notin P}
<1> SUFFICES ASSUME I # {} PROVE FALSE
  OBVIOUS
<1>1. I \in SUBSET Nat
  OBVIOUS
<1>2. PICK i \in I : \A j \in I : i <= j
  BY <1>1, LeastNumber
<1>3. i \in 0..n /\ i # 0 /\ i \notin P
  BY <1>2
<1>4. i - 1 \in 0..n - 1 /\ i - 1 \notin I /\ (i - 1) + 1 = i
  BY <1>2, <1>3
<1>5. i - 1 \in P
  BY <1>4
<1> QED
  BY <1>3, <1>4, <1>5

\* f goes from first by the steps of step.
Steps(f, n, S, first, step) ==
  /\ f \in [0..n -> S]
  /\ f[0] = first
  /\ \A i \in 1..n : f[i] = step[i][f[i - 1]]

\* A function on 0..n can be defined by its first value and its steps.
LEMMA Recursion ==
  ASSUME NEW n \in Nat, NEW S, NEW first \in S, NEW step \in [1..n -> [S -> S]]
  PROVE  \E f : Steps(f, n, S, first, step)
<1> DEFINE Defined(k, f) == /\ f \in [0..k -> S]
                            /\ f[0] = first
                            /\ \A i \in 1..k : f[i] = step[i][f[i - 1]]
           P == {k \in 0..n : \E f \in [0..k -> S] : Defined(k, f)}
<1>1. 0 \in P
  <2> DEFINE g == [i \in 0..0 |-> first]
  <2>1. g \in [0..0 -> S] /\ Defined(0, g)
    OBVIOUS
  <2> HIDE DEF g, Defined
  <2> QED
    BY <2>1
<1>2. ASSUME NEW k \in 0..n - 1, k \in P PROVE k + 1 \in P
  <2>1. PICK f \in [0..k -> S] : Defined(k, f)
    BY <1>2
  <2> DEFINE g == [i \in 0..k + 1 |-> IF i = k + 1 THEN step[k + 1][f[k]] ELSE f[i]]
  <2>2. k + 1 \in 1..n /\ k \in 0..k /\ k \in Nat
    OBVIOUS
  <2>3. f[k] \in S /\ step[k + 1] \in [S -> S]
    BY <2>2
  <2>4. g \in [0..k + 1 -> S]
    BY <2>2, <2>3
  <2>5. g[0] = first
    BY <2>1, <2>2
  <2>6. ASSUME NEW i \in 1..k + 1 PROVE g[i] = step[i][g[i - 1]]
    <3>1. i - 1 \in 0..k /\ g[i - 1] = f[i - 1]
      BY <2>2
    <3>2. CASE i = k + 1
      BY <3>1, <3>2, <2>2
    <3>3. CASE i # k + 1
      <4>1. i \in 1..k /\ g[i] = f[i]
        BY <3>3, <2>2
      <4> QED
        BY <4>1, <3>1, <2>1
    <3> QED
      BY <3>2, <3>3
  <2> HIDE DEF g
  <2>7. Defined(k + 1, g)
    BY <2>4, <2>5, <2>6
  <2> QED
    BY <2>2, <2>4, <2>7
<1>3. n \in P
  <2> HIDE DEF P
  <2>1. \A i \in 0..n : i \in P
    BY <1>1, <1>2, CountingUp
  <2> QED
    BY <2>1
<1> QED
  BY <1>3 DEF Steps

-----------------------------------------------------------------------------
(***************************************************************************)
(* Integers in network byte order.                                         *)
(***************************************************************************)
\* Arithmetic of bytes.
LEMMA Remainder ==
  ASSUME NEW b \in Nat, b > 0, NEW n \in Nat
  PROVE  b * (n \div b) + (n % b) = n
<1>1. \A i, j \in Nat : i # 0 => j % i = j - i * (j \div i)
  BY SMTT(60)
<1>2. n % b = n - b * (n \div b)
  BY <1>1
<1>3. n \div b \in Nat
  OBVIOUS
<1> DEFINE p == b * (n \div b)
<1>4. p \in Int
  BY <1>3
<1>5. n % b = n - p
  BY <1>2
<1> HIDE DEF p
<1>6. p + (n % b) = n
  BY <1>4, <1>5
<1> QED
  BY <1>6 DEF p

\* Bounds of a quotient and of a product.
LEMMA Quotient ==
  ASSUME NEW b \in Nat, b > 0, NEW x \in Nat, NEW n \in Nat, n <= b * x + (b - 1)
  PROVE  n \div b <= x
OBVIOUS

LEMMA Product ==
  ASSUME NEW b \in Nat, b > 0, NEW x \in Nat, NEW y \in Nat, x <= y
  PROVE  b * x \in Nat /\ b * y \in Nat /\ b * x <= b * y
<1>1. b * x <= b * y
  OBVIOUS
<1> QED
  BY <1>1

\* What the loop of FromBigEndian computes.
LEMMA FromBigEndianSteps ==
  ASSUME NEW bytes \in Seq(Int)
  PROVE  \E v \in [0..Len(bytes) -> Int] :
           /\ v[0] = 0
           /\ \A i \in 1..Len(bytes) : v[i] = Base * v[i - 1] + bytes[i]
           /\ FromBigEndian(bytes) = v[Len(bytes)]
<1> DEFINE n == Len(bytes)
           step == [i \in 1..n |-> [x \in Int |-> Base * x + bytes[i]]]
           equation(f) == [i \in 0..n |->
                             IF i = 0 THEN 0 ELSE Base * f[i - 1] + bytes[i]]
           value == CHOOSE f : f = equation(f)
<1>1. n \in Nat /\ \A i \in 1..n : bytes[i] \in Int
  OBVIOUS
<1>2. Base \in Int
  BY CommandsAssumption
<1>3. step \in [1..n -> [Int -> Int]]
  BY <1>1, <1>2
<1>4. PICK f : Steps(f, n, Int, 0, step)
  <2>1. 0 \in Int /\ n \in Nat
    OBVIOUS
  <2> HIDE DEF step, n
  <2> QED
    BY <1>3, <2>1, Recursion, Zenon
<1>0. f \in [0..n -> Int] /\ f[0] = 0
  BY <1>4 DEF Steps
<1>5. \A i \in 1..n : f[i - 1] \in Int /\ f[i] = Base * f[i - 1] + bytes[i]
  <2> TAKE i \in 1..n
  <2>1. i - 1 \in 0..n
    BY <1>1
  <2>2. f[i - 1] \in Int
    BY <1>0, <2>1
  <2> QED
    BY <1>4, <2>2 DEF Steps
<1>6. f = equation(f)
  BY <1>0, <1>1, <1>5
<1>7. value = equation(value)
  <2> HIDE DEF equation
  <2> QED
    BY <1>6
<1>8. FromBigEndian(bytes) = value[n]
  BY Zenon DEF FromBigEndian
<1> HIDE DEF value
<1>9. \A i \in 0..n : value[i] = f[i]
  <2> DEFINE P == {i \in 0..n : value[i] = f[i]}
  <2>1. 0 \in P
    BY <1>0, <1>1, <1>7
  <2>2. \A i \in 0..n - 1 : i \in P => i + 1 \in P
    <3> SUFFICES ASSUME NEW i \in 0..n - 1, i \in P PROVE i + 1 \in P
      OBVIOUS
    <3>1. i + 1 \in 1..n /\ (i + 1) - 1 = i /\ i + 1 \in 0..n /\ i + 1 # 0
      BY <1>1, SMTT(30)
    <3>2. value[i + 1] = Base * value[i] + bytes[i + 1]
      BY <1>7, <3>1
    <3>3. f[i + 1] = Base * f[i] + bytes[i + 1]
      BY <1>5, <3>1
    <3> QED
      BY <3>1, <3>2, <3>3
  <2> HIDE DEF P
  <2>3. \A i \in 0..n : i \in P
    BY <1>1, <2>1, <2>2, CountingUp
  <2> QED
    BY <2>3 DEF P
<1>10. FromBigEndian(bytes) = f[n]
  BY <1>1, <1>8, <1>9
<1> QED
  BY <1>0, <1>5, <1>10

\* What BigEndian writes.
LEMMA BigEndianSteps ==
  ASSUME NEW n \in Nat, NEW w \in Nat
  PROVE  \E q \in [0..w -> Nat] :
           /\ q[0] = n
           /\ \A k \in 1..w : q[k] = q[k - 1] \div Base
           /\ BigEndian(n, w) = [i \in 1..w |-> q[w - i] % Base]
<1> DEFINE step == [k \in 1..w |-> [x \in Nat |-> x \div Base]]
           equation(f) == [k \in 0..w |-> IF k = 0 THEN n ELSE f[k - 1] \div Base]
           shifted == CHOOSE f : f = equation(f)
<1>1. \A x \in Nat : x \div Base \in Nat
  BY CommandsAssumption
<1>2. step \in [1..w -> [Nat -> Nat]]
  BY <1>1
<1>3. PICK f : Steps(f, w, Nat, n, step)
  <2> HIDE DEF step
  <2> QED
    BY <1>2, Recursion, Zenon
<1>4. f \in [0..w -> Nat] /\ f[0] = n
  BY <1>3 DEF Steps
<1>5. \A k \in 1..w : f[k - 1] \in Nat /\ f[k] = f[k - 1] \div Base
  <2> TAKE k \in 1..w
  <2>1. k - 1 \in 0..w
    OBVIOUS
  <2>2. f[k - 1] \in Nat
    BY <1>4, <2>1
  <2> QED
    BY <1>3, <2>2 DEF Steps
<1>6. f = equation(f)
  BY <1>4, <1>5
<1>7. shifted = equation(shifted)
  <2> HIDE DEF equation
  <2> QED
    BY <1>6
<1>8. BigEndian(n, w) = [i \in 1..w |-> shifted[w - i] % Base]
  BY Zenon DEF BigEndian
<1> HIDE DEF shifted
<1>9. \A k \in 0..w : shifted[k] = f[k]
  <2> DEFINE P == {k \in 0..w : shifted[k] = f[k]}
  <2>1. 0 \in P
    BY <1>4, <1>7
  <2>2. \A k \in 0..w - 1 : k \in P => k + 1 \in P
    <3> SUFFICES ASSUME NEW k \in 0..w - 1, k \in P PROVE k + 1 \in P
      OBVIOUS
    <3>1. k + 1 \in 1..w /\ (k + 1) - 1 = k /\ k + 1 \in 0..w /\ k + 1 # 0
      OBVIOUS
    <3>2. shifted[k + 1] = shifted[k] \div Base
      BY <1>7, <3>1
    <3>3. f[k + 1] = f[k] \div Base
      BY <1>5, <3>1
    <3> QED
      BY <3>1, <3>2, <3>3
  <2> HIDE DEF P
  <2>3. \A k \in 0..w : k \in P
    BY <2>1, <2>2, CountingUp
  <2> QED
    BY <2>3 DEF P
<1>10. BigEndian(n, w) = [i \in 1..w |-> f[w - i] % Base]
  <2>1. \A i \in 1..w : w - i \in 0..w
    OBVIOUS
  <2>2. \A i \in 1..w : shifted[w - i] = f[w - i]
    BY <1>9, <2>1
  <2> QED
    BY <1>8, <2>2
<1> QED
  BY <1>4, <1>5, <1>10

\* An integer is sent as bytes, as many as its type has.
LEMMA BigEndianType ==
  ASSUME NEW n \in Nat, NEW w \in Nat
  PROVE  BigEndian(n, w) \in Seq(Byte) /\ Len(BigEndian(n, w)) = w
<1>1. PICK q \in [0..w -> Nat] :
        BigEndian(n, w) = [i \in 1..w |-> q[w - i] % Base]
  BY BigEndianSteps, ZenonT(30)
<1>2. \A x \in Nat : x % Base \in Byte
  BY CommandsAssumption DEF Byte
<1>3. \A i \in 1..w : q[w - i] % Base \in Byte
  <2> TAKE i \in 1..w
  <2>1. w - i \in 0..w
    OBVIOUS
  <2> QED
    BY <1>2, <2>1
<1> QED
  BY <1>1, <1>3

\* Largest is the last of the numbers that all-ones bytes make.
LEMMA LargestSteps ==
  ASSUME NEW w \in Nat
  PROVE  \E l \in [0..w -> Nat] :
           /\ l[0] = 0
           /\ \A i \in 1..w : l[i] = Base * l[i - 1] + (Base - 1)
           /\ Largest(w) = l[w]
<1> DEFINE ones == [i \in 1..w |-> Base - 1]
<1>1. Base \in Nat \ {0, 1}
  BY CommandsAssumption
<1>2. ones \in Seq(Int) /\ Len(ones) = w /\ \A i \in 1..w : ones[i] = Base - 1
  BY <1>1
<1>3. Largest(w) = FromBigEndian(ones)
  BY DEF Largest
<1> HIDE DEF ones
<1>4. PICK v \in [0..w -> Int] :
        /\ v[0] = 0
        /\ \A i \in 1..w : v[i] = Base * v[i - 1] + ones[i]
        /\ FromBigEndian(ones) = v[w]
  <2>1. \E v \in [0..Len(ones) -> Int] :
        /\ v[0] = 0
        /\ \A i \in 1..Len(ones) : v[i] = Base * v[i - 1] + ones[i]
        /\ FromBigEndian(ones) = v[Len(ones)]
    BY <1>2, FromBigEndianSteps, Zenon
  <2> QED
    BY <1>2, <2>1
<1>5. \A i \in 1..w : v[i] = Base * v[i - 1] + (Base - 1)
  BY <1>2, <1>4
<1>6. \A i \in 0..w : v[i] \in Nat
  <2> DEFINE P == {i \in 0..w : v[i] \in Nat}
  <2>1. 0 \in P
    BY <1>4
  <2>2. \A i \in 0..w - 1 : i \in P => i + 1 \in P
    <3> SUFFICES ASSUME NEW i \in 0..w - 1, i \in P PROVE i + 1 \in P
      OBVIOUS
    <3>1. i + 1 \in 1..w /\ (i + 1) - 1 = i /\ i + 1 \in 0..w
      OBVIOUS
    <3>2. v[i + 1] = Base * v[i] + (Base - 1) /\ v[i] \in Nat
      BY <1>5, <3>1
    <3>3. Base * v[i] \in Nat
      BY <1>1, <3>2
    <3>4. Base * v[i] + (Base - 1) \in Nat
      BY <1>1, <3>3
    <3> QED
      BY <3>1, <3>2, <3>4
  <2> HIDE DEF P
  <2>3. \A i \in 0..w : i \in P
    BY <2>1, <2>2, CountingUp
  <2> QED
    BY <2>3 DEF P
<1>7. v \in [0..w -> Nat]
  BY <1>6
<1> QED
  BY <1>3, <1>4, <1>5, <1>7

\* What is read from so many bytes is an integer of so many bytes.
LEMMA FromBigEndianType ==
  ASSUME NEW bytes \in Seq(Byte)
  PROVE  FromBigEndian(bytes) \in Unsigned(Len(bytes))
<1> DEFINE n == Len(bytes)
<1>1. Base \in Nat \ {0, 1} /\ n \in Nat
  BY CommandsAssumption
<1>2. bytes \in Seq(Int) /\ \A i \in 1..n : bytes[i] \in 0..Base - 1
  BY <1>1 DEF Byte
<1>3. PICK v \in [0..n -> Int] :
        /\ v[0] = 0
        /\ \A i \in 1..n : v[i] = Base * v[i - 1] + bytes[i]
        /\ FromBigEndian(bytes) = v[n]
  BY <1>2, FromBigEndianSteps, Zenon
<1>4. PICK l \in [0..n -> Nat] :
        /\ l[0] = 0
        /\ \A i \in 1..n : l[i] = Base * l[i - 1] + (Base - 1)
        /\ Largest(n) = l[n]
  BY <1>1, LargestSteps, Zenon
<1> DEFINE P == {i \in 0..n : v[i] \in 0..l[i]}
<1>5. 0 \in P
  BY <1>1, <1>3, <1>4
<1>6. \A i \in 0..n - 1 : i \in P => i + 1 \in P
  <2> SUFFICES ASSUME NEW i \in 0..n - 1, i \in P PROVE i + 1 \in P
    OBVIOUS
  <2>1. i + 1 \in 1..n /\ (i + 1) - 1 = i /\ i + 1 \in 0..n /\ i \in 0..n
    BY <1>1
  <2>2. v[i + 1] = Base * v[i] + bytes[i + 1] /\ bytes[i + 1] \in 0..Base - 1
    BY <1>2, <1>3, <2>1
  <2>3. l[i + 1] = Base * l[i] + (Base - 1)
    BY <1>4, <2>1
  <2>4. l[i] \in Nat /\ v[i] \in Nat /\ v[i] <= l[i]
    BY <2>1, <1>4
  <2>5. Base * v[i] \in Nat /\ Base * l[i] \in Nat /\ Base * v[i] <= Base * l[i]
    BY <1>1, <2>4, Product
  <2>6. Base * v[i] + bytes[i + 1] \in 0..(Base * l[i] + (Base - 1))
    BY <1>1, <2>2, <2>5
  <2>7. v[i + 1] \in 0..l[i + 1]
    BY <2>2, <2>3, <2>6
  <2> QED
    BY <2>1, <2>7
<1> HIDE DEF P
<1>7. \A i \in 0..n : i \in P
  BY <1>1, <1>5, <1>6, CountingUp
<1>8. v[n] \in 0..l[n]
  BY <1>1, <1>7 DEF P
<1> QED
  BY <1>3, <1>4, <1>8 DEF Unsigned

(***************************************************************************)
(* betoh64 (and ntohs, ntohl) undoes htobe64 (and htons, htonl): an        *)
(* unsigned integer of so many bytes arrives unchanged, for every width.   *)
(***************************************************************************)
THEOREM BigEndianRoundTrip ==
  ASSUME NEW w \in Nat, NEW n \in Unsigned(w)
  PROVE  FromBigEndian(BigEndian(n, w)) = n
<1> DEFINE bytes == BigEndian(n, w)
<1>1. Base \in Nat \ {0, 1}
  BY CommandsAssumption
<1>2. PICK l \in [0..w -> Nat] :
        /\ l[0] = 0
        /\ \A i \in 1..w : l[i] = Base * l[i - 1] + (Base - 1)
        /\ Largest(w) = l[w]
  BY LargestSteps, Zenon
<1>3. n \in Nat /\ n <= l[w]
  BY <1>2 DEF Unsigned
<1>4. PICK q \in [0..w -> Nat] :
        /\ q[0] = n
        /\ \A k \in 1..w : q[k] = q[k - 1] \div Base
        /\ BigEndian(n, w) = [i \in 1..w |-> q[w - i] % Base]
  BY <1>3, BigEndianSteps, Zenon
<1>5. /\ bytes \in Seq(Int) /\ Len(bytes) = w
      /\ \A i \in 1..w : bytes[i] = q[w - i] % Base
  <2>1. bytes \in Seq(Byte) /\ Len(bytes) = w
    BY <1>3, BigEndianType
  <2> QED
    BY <1>1, <1>4, <2>1 DEF Byte
<1> HIDE DEF bytes
<1>6. PICK v \in [0..w -> Int] :
        /\ v[0] = 0
        /\ \A i \in 1..w : v[i] = Base * v[i - 1] + bytes[i]
        /\ FromBigEndian(bytes) = v[w]
  <2>1. \E v \in [0..Len(bytes) -> Int] :
        /\ v[0] = 0
        /\ \A i \in 1..Len(bytes) : v[i] = Base * v[i - 1] + bytes[i]
        /\ FromBigEndian(bytes) = v[Len(bytes)]
    BY <1>5, FromBigEndianSteps, Zenon
  <2> QED
    BY <1>5, <2>1
\* Shifted by all its bytes, nothing is left of it.
<1>7. q[w] = 0
  <2> DEFINE P == {k \in 0..w : q[k] <= l[w - k]}
  <2>1. 0 \in P
    BY <1>3, <1>4
  <2>2. \A k \in 0..w - 1 : k \in P => k + 1 \in P
    <3> SUFFICES ASSUME NEW k \in 0..w - 1, k \in P PROVE k + 1 \in P
      OBVIOUS
    <3>1. /\ k + 1 \in 1..w /\ (k + 1) - 1 = k /\ k + 1 \in 0..w /\ k \in 0..w
          /\ w - k \in 1..w /\ (w - k) - 1 = w - (k + 1) /\ w - (k + 1) \in 0..w
      OBVIOUS
    <3>2. q[k + 1] = q[k] \div Base
      BY <1>4, <3>1
    <3>3. l[w - k] = Base * l[w - (k + 1)] + (Base - 1)
      BY <1>2, <3>1
    <3>4. q[k] \in Nat /\ l[w - (k + 1)] \in Nat
      BY <3>1
    <3>5. q[k] <= Base * l[w - (k + 1)] + (Base - 1)
      BY <3>3
    <3>6. q[k] \div Base <= l[w - (k + 1)]
      <4>1. Base \in Nat /\ Base > 0
        BY <1>1
      <4> QED
        BY <3>4, <3>5, <4>1, Quotient, Zenon
    <3> QED
      BY <3>1, <3>2, <3>6
  <2> HIDE DEF P
  <2>3. \A k \in 0..w : k \in P
    BY <2>1, <2>2, CountingUp
  <2>4. w \in 0..w /\ w - w = 0
    OBVIOUS
  <2>5. q[w] <= l[0]
    BY <2>3, <2>4 DEF P
  <2> QED
    BY <1>2, <2>4, <2>5
<1>8. \A i \in 0..w : v[i] = q[w - i]
  <2> DEFINE P == {i \in 0..w : v[i] = q[w - i]}
  <2>1. 0 \in P
    BY <1>6, <1>7
  <2>2. \A i \in 0..w - 1 : i \in P => i + 1 \in P
    <3> SUFFICES ASSUME NEW i \in 0..w - 1, i \in P PROVE i + 1 \in P
      OBVIOUS
    <3>1. /\ i + 1 \in 1..w /\ (i + 1) - 1 = i /\ i + 1 \in 0..w
          /\ w - i \in 1..w /\ (w - i) - 1 = w - (i + 1) /\ w - (i + 1) \in 0..w
      OBVIOUS
    <3>2. v[i + 1] = Base * q[w - i] + bytes[i + 1]
      BY <1>6, <3>1
    <3>3. bytes[i + 1] = q[w - (i + 1)] % Base
      BY <1>5, <3>1
    <3>4. q[w - i] = q[w - (i + 1)] \div Base
      BY <1>4, <3>1
    <3>5. q[w - (i + 1)] \in Nat
      BY <3>1
    <3>6. Base * (q[w - (i + 1)] \div Base) + (q[w - (i + 1)] % Base)
            = q[w - (i + 1)]
      <4>1. Base \in Nat /\ Base > 0
        BY <1>1
      <4> QED
        BY <3>5, <4>1, Remainder, Zenon
    <3>7. v[i + 1] = q[w - (i + 1)]
      BY <3>2, <3>3, <3>4, <3>6
    <3> QED
      BY <3>1, <3>7
  <2> HIDE DEF P
  <2>3. \A i \in 0..w : i \in P
    BY <2>1, <2>2, CountingUp
  <2> QED
    BY <2>3 DEF P
<1>9. v[w] = n
  <2>1. w \in 0..w /\ w - w = 0
    OBVIOUS
  <2> QED
    BY <1>4, <1>8, <2>1
<1> QED
  BY <1>6, <1>9 DEF bytes

-----------------------------------------------------------------------------
(***************************************************************************)
(* Fields in a buffer.                                                     *)
(***************************************************************************)
\* The bytes of piece are in buffer behind the first offset ones.
Holds(buffer, offset, piece) ==
  /\ offset + Len(piece) <= Len(buffer)
  /\ \A i \in 1..Len(piece) : buffer[offset + i] = piece[i]

\* A message holds itself.
LEMMA HoldsItself ==
  ASSUME NEW p \in Seq(Byte)
  PROVE  Holds(p, 0, p)
BY DEF Holds

\* A buffer that holds two pieces in a row holds each in its place.
LEMMA HoldsParts ==
  ASSUME NEW buffer \in Seq(Byte), NEW offset \in Nat,
         NEW p \in Seq(Byte), NEW q \in Seq(Byte), Holds(buffer, offset, p \o q)
  PROVE  Holds(buffer, offset, p) /\ Holds(buffer, offset + Len(p), q)
<1>1. /\ p \o q \in Seq(Byte) /\ Len(p \o q) = Len(p) + Len(q)
      /\ \A i \in 1..Len(p) + Len(q) : (p \o q)[i] =
           IF i <= Len(p) THEN p[i] ELSE q[i - Len(p)]
  BY ConcatProperties
<1>2. Len(p) \in Nat /\ Len(q) \in Nat /\ Len(buffer) \in Nat
  OBVIOUS
<1>3. /\ offset + (Len(p) + Len(q)) <= Len(buffer)
      /\ \A i \in 1..Len(p) + Len(q) : buffer[offset + i] = (p \o q)[i]
  BY <1>1 DEF Holds
<1>4. \A i \in 1..Len(p) : buffer[offset + i] = p[i]
  BY <1>1, <1>2, <1>3
<1>5. ASSUME NEW i \in 1..Len(q) PROVE buffer[(offset + Len(p)) + i] = q[i]
  <2>1. Len(p) + i \in 1..Len(p) + Len(q) /\ ~(Len(p) + i <= Len(p))
    BY <1>2
  <2>2. buffer[offset + (Len(p) + i)] = q[(Len(p) + i) - Len(p)]
    BY <1>1, <1>3, <2>1
  <2>3. offset + (Len(p) + i) = (offset + Len(p)) + i /\ (Len(p) + i) - Len(p) = i
    BY <1>2
  <2> QED
    BY <2>2, <2>3
<1> QED
  BY <1>2, <1>3, <1>4, <1>5 DEF Holds

\* What is held is read.
LEMMA BytesHeld ==
  ASSUME NEW buffer \in Seq(Byte), NEW offset \in Nat, NEW p \in Seq(Byte),
         NEW w, w = Len(p), Holds(buffer, offset, p)
  PROVE  Bytes(buffer, offset, w) = p
<1>1. w \in Nat /\ p = [i \in 1..w |-> p[i]] /\ Len(buffer) \in Nat
  OBVIOUS
<1>2. offset + w <= Len(buffer) /\ \A i \in 1..w : buffer[offset + i] = p[i]
  BY DEF Holds
<1>3. \A i \in 1..w : offset + i <= Len(buffer)
  BY <1>1, <1>2
<1> QED
  BY <1>1, <1>2, <1>3 DEF Bytes

\* A number that is in a buffer is read back.
LEMMA NumberHeld ==
  ASSUME NEW buffer \in Seq(Byte), NEW offset \in Nat, NEW w \in Nat,
         NEW n \in Unsigned(w), Holds(buffer, offset, BigEndian(n, w))
  PROVE  Number(buffer, offset, w) = n
<1>1. n \in Nat
  BY DEF Unsigned
<1>2. BigEndian(n, w) \in Seq(Byte) /\ w = Len(BigEndian(n, w))
  BY <1>1, BigEndianType
<1>3. Bytes(buffer, offset, w) = BigEndian(n, w)
  BY <1>2, BytesHeld
<1> QED
  BY <1>3, BigEndianRoundTrip DEF Number

\* What is read inside of a buffer are bytes, and integers of their width.
LEMMA BytesType ==
  ASSUME NEW buffer \in Seq(Byte), NEW offset \in Nat, NEW w \in Nat,
         offset + w <= Len(buffer)
  PROVE  /\ Bytes(buffer, offset, w) \in [1..w -> Byte]
         /\ Bytes(buffer, offset, w) \in Seq(Byte)
         /\ Len(Bytes(buffer, offset, w)) = w
         /\ Number(buffer, offset, w) \in Unsigned(w)
<1>1. Len(buffer) \in Nat
  OBVIOUS
<1>2. \A i \in 1..w : offset + i \in 1..Len(buffer) /\ offset + i <= Len(buffer)
  BY <1>1
<1>3. \A i \in 1..w : buffer[offset + i] \in Byte
  BY <1>2
<1>4. /\ Bytes(buffer, offset, w) \in [1..w -> Byte]
      /\ Bytes(buffer, offset, w) \in Seq(Byte)
      /\ Len(Bytes(buffer, offset, w)) = w
  BY <1>2, <1>3 DEF Bytes
<1> QED
  BY <1>4, FromBigEndianType DEF Number

\* Concatenations of sequences of bytes.
LEMMA Join ==
  ASSUME NEW p \in Seq(Byte), NEW q \in Seq(Byte)
  PROVE  p \o q \in Seq(Byte) /\ Len(p \o q) = Len(p) + Len(q)
BY ConcatProperties

\* A piece of a message with its size.
Piece(p, n) == p \in Seq(Byte) /\ Len(p) = n

\* Several pieces in a row.
LEMMA Join2 ==
  ASSUME NEW p, NEW q, NEW m, NEW n, Piece(p, m), Piece(q, n)
  PROVE  Piece(p \o q, m + n)
BY Join DEF Piece

\* Five pieces.
LEMMA Join5 ==
  ASSUME NEW p1, NEW p2, NEW p3, NEW p4, NEW p5,
         NEW n1, NEW n2, NEW n3, NEW n4, NEW n5,
         Piece(p1, n1), Piece(p2, n2), Piece(p3, n3), Piece(p4, n4),
         Piece(p5, n5)
  PROVE  Piece(p1 \o p2 \o p3 \o p4 \o p5, n1 + n2 + n3 + n4 + n5)
BY Join2, Zenon

\* A buffer that holds pieces in a row holds each in its place.
LEMMA HoldsParts2 ==
  ASSUME NEW buffer \in Seq(Byte), NEW offset \in Nat, NEW p, NEW q, NEW m, NEW n,
         Piece(p, m), Piece(q, n), Holds(buffer, offset, p \o q)
  PROVE  Holds(buffer, offset, p) /\ Holds(buffer, offset + m, q)
BY HoldsParts DEF Piece

\* Five pieces in a buffer.
LEMMA HoldsParts5 ==
  ASSUME NEW buffer \in Seq(Byte), NEW offset \in Nat,
         NEW p1, NEW p2, NEW p3, NEW p4, NEW p5,
         NEW n1, NEW n2, NEW n3, NEW n4, NEW n5,
         Piece(p1, n1), Piece(p2, n2), Piece(p3, n3), Piece(p4, n4),
         Piece(p5, n5), Holds(buffer, offset, p1 \o p2 \o p3 \o p4 \o p5)
  PROVE  /\ Holds(buffer, offset, p1) /\ Holds(buffer, offset + n1, p2)
         /\ Holds(buffer, offset + n1 + n2, p3)
         /\ Holds(buffer, offset + n1 + n2 + n3, p4)
         /\ Holds(buffer, offset + n1 + n2 + n3 + n4, p5)
<1>1. Piece(p1 \o p2, n1 + n2)
  BY Join2, Zenon
<1>2. Piece(p1 \o p2 \o p3, n1 + n2 + n3)
  BY <1>1, Join2, Zenon
<1>3. Piece(p1 \o p2 \o p3 \o p4, n1 + n2 + n3 + n4)
  BY <1>2, Join2, Zenon
<1>4. /\ Holds(buffer, offset, p1 \o p2 \o p3 \o p4)
      /\ Holds(buffer, offset + (n1 + n2 + n3 + n4), p5)
  BY <1>3, HoldsParts2, Zenon
<1>5. /\ Holds(buffer, offset, p1 \o p2 \o p3)
      /\ Holds(buffer, offset + (n1 + n2 + n3), p4)
  BY <1>2, <1>4, HoldsParts2, Zenon
<1>6. /\ Holds(buffer, offset, p1 \o p2)
      /\ Holds(buffer, offset + (n1 + n2), p3)
  BY <1>1, <1>5, HoldsParts2, Zenon
<1>7. Holds(buffer, offset, p1) /\ Holds(buffer, offset + n1, p2)
  BY <1>6, HoldsParts2, Zenon
<1>8. n1 \in Nat /\ n2 \in Nat /\ n3 \in Nat /\ n4 \in Nat
  BY DEF Piece
<1>9. /\ offset + (n1 + n2) = offset + n1 + n2
      /\ offset + (n1 + n2 + n3) = offset + n1 + n2 + n3
      /\ offset + (n1 + n2 + n3 + n4) = offset + n1 + n2 + n3 + n4
  BY <1>8
<1> QED
  BY <1>4, <1>5, <1>6, <1>7, <1>9

-----------------------------------------------------------------------------
(***************************************************************************)
(* Beginnings of messages.                                                 *)
(***************************************************************************)
Begins(p, m) == Len(p) <= Len(m) /\ p = SubSeq(m, 1, Len(p))

\* A beginning is what something else has been put behind.
LEMMA BeginsIff ==
  ASSUME NEW p \in Seq(Byte), NEW m \in Seq(Byte)
  PROVE  Begins(p, m) <=> \E rest \in Seq(Byte) : p \o rest = m
<1>1. ASSUME Begins(p, m) PROVE \E rest \in Seq(Byte) : p \o rest = m
  <2> DEFINE n == Len(p)
             rest == SubSeq(m, n + 1, Len(m))
  <2>1. n \in Nat /\ Len(m) \in Nat /\ n <= Len(m) /\ p = SubSeq(m, 1, n)
    BY <1>1 DEF Begins
  <2>2. rest \in Seq(Byte)
    BY <2>1
  <2>3. SubSeq(m, 1, n) \o SubSeq(m, n + 1, Len(m)) = SubSeq(m, 1, Len(m))
    <3>1. 1 \in 1..Len(m) + 1 /\ n \in 1 - 1..Len(m) /\ Len(m) \in n..Len(m)
      BY <2>1
    <3> QED
      BY <3>1, ConcatAdjacentSubSeq
  <2>4. SubSeq(m, 1, Len(m)) = m
    BY SubSeqFull
  <2> QED
    BY <2>1, <2>2, <2>3, <2>4
<1>2. ASSUME NEW rest \in Seq(Byte), p \o rest = m PROVE Begins(p, m)
  <2>1. /\ Len(m) = Len(p) + Len(rest)
        /\ \A i \in 1..Len(p) + Len(rest) :
             m[i] = IF i <= Len(p) THEN p[i] ELSE rest[i - Len(p)]
    BY <1>2, ConcatProperties
  <2>2. Len(p) \in Nat /\ Len(rest) \in Nat
    OBVIOUS
  <2>3. \A i \in 1..Len(p) : m[i] = p[i]
    BY <2>1, <2>2
  <2>4. Len(p) <= Len(m)
    BY <2>1, <2>2
  <2>5. /\ SubSeq(m, 1, Len(p)) \in Seq(Byte)
        /\ Len(SubSeq(m, 1, Len(p))) = Len(p)
        /\ \A i \in 1..Len(p) : SubSeq(m, 1, Len(p))[i] = m[i]
    BY <2>2, <2>4
  <2>6. p = SubSeq(m, 1, Len(p))
    BY <2>3, <2>5, SeqEqual
  <2> QED
    BY <2>4, <2>6 DEF Begins
<1> QED
  BY <1>1, <1>2

\* Putting behind is associative.
LEMMA Assoc ==
  ASSUME NEW p \in Seq(Byte), NEW q \in Seq(Byte), NEW t \in Seq(Byte),
         NEW pq, pq = p \o q, NEW qt, qt = q \o t
  PROVE  /\ pq \in Seq(Byte) /\ qt \in Seq(Byte)
         /\ pq \o t = p \o qt
<1>1. p \o q \in Seq(Byte) /\ q \o t \in Seq(Byte)
  BY Join
<1>2. (p \o q) \o t = p \o (q \o t)
  OBVIOUS
<1> QED
  BY <1>1, <1>2

\* A beginning of a beginning.
LEMMA BeginsShorter ==
  ASSUME NEW p \in Seq(Byte), NEW q \in Seq(Byte), NEW m \in Seq(Byte),
         Begins(p \o q, m)
  PROVE  Begins(p, m)
<1>1. p \o q \in Seq(Byte)
  BY Join
<1>2. PICK rest \in Seq(Byte) : (p \o q) \o rest = m
  BY <1>1, BeginsIff
<1> DEFINE pq == p \o q
           qr == q \o rest
<1>3. pq = p \o q /\ qr = q \o rest /\ pq \o rest = m
  BY <1>2
<1> HIDE DEF pq, qr
<1>4. pq \o rest = p \o qr /\ qr \in Seq(Byte)
  <2>1. pq = p \o q /\ qr = q \o rest
    BY <1>3
  <2> QED
    BY <2>1, Assoc
<1>5. p \o qr = m
  BY <1>3, <1>4, Zenon
<1> QED
  BY <1>4, <1>5, BeginsIff, Zenon

\* What recv and send take from a sequence and what they leave.
LEMMA Cut ==
  ASSUME NEW p \in Seq(Byte), NEW n \in 1..Len(p)
  PROVE  /\ SubSeq(p, 1, n) \in Seq(Byte) /\ SubSeq(p, n + 1, Len(p)) \in Seq(Byte)
         /\ Len(SubSeq(p, 1, n)) = n /\ Len(SubSeq(p, n + 1, Len(p))) = Len(p) - n
         /\ SubSeq(p, 1, n) \o SubSeq(p, n + 1, Len(p)) = p
<1>1. n \in Nat /\ Len(p) \in Nat /\ n <= Len(p)
  OBVIOUS
<1>2. /\ SubSeq(p, 1, n) \in Seq(Byte) /\ SubSeq(p, n + 1, Len(p)) \in Seq(Byte)
      /\ Len(SubSeq(p, 1, n)) = n /\ Len(SubSeq(p, n + 1, Len(p))) = Len(p) - n
  BY <1>1
<1>3. SubSeq(p, 1, n) \o SubSeq(p, n + 1, Len(p)) = SubSeq(p, 1, Len(p))
  <2>1. 1 \in 1..Len(p) + 1 /\ n \in 1 - 1..Len(p) /\ Len(p) \in n..Len(p)
    BY <1>1
  <2> QED
    BY <2>1, ConcatAdjacentSubSeq
<1> QED
  BY <1>2, <1>3, SubSeqFull

\* What a message holds, its beginnings hold as far as they go.
LEMMA HoldsInBeginning ==
  ASSUME NEW m \in Seq(Byte), NEW buffer \in Seq(Byte), Begins(buffer, m),
         NEW offset \in Nat, NEW p \in Seq(Byte), Holds(m, offset, p),
         offset + Len(p) <= Len(buffer)
  PROVE  Holds(buffer, offset, p)
<1>1. Len(buffer) \in Nat /\ Len(m) \in Nat /\ Len(p) \in Nat
  OBVIOUS
<1>2. Len(buffer) <= Len(m) /\ buffer = SubSeq(m, 1, Len(buffer))
  BY DEF Begins
<1>3. \A i \in 1..Len(buffer) : SubSeq(m, 1, Len(buffer))[i] = m[i]
  BY <1>1, <1>2
<1>4. \A i \in 1..Len(buffer) : buffer[i] = m[i]
  BY <1>2, <1>3, Zenon
<1>5. \A i \in 1..Len(p) : offset + i \in 1..Len(buffer)
  BY <1>1
<1> QED
  BY <1>4, <1>5 DEF Holds

-----------------------------------------------------------------------------
(***************************************************************************)
(* command_header_t.                                                       *)
(***************************************************************************)
LEMMA Sizes ==
  /\ U16 \in Nat /\ U32 \in Nat /\ U64 \in Nat /\ AddrSize \in Nat
  /\ U64 > 0
  /\ COMMAND_PREFIX \in Seq(Byte) /\ Len(COMMAND_PREFIX) \in Nat
  /\ HeaderSize \in Nat /\ AddressSize \in Nat /\ PeerInfoSize \in Nat
  /\ HeaderSize >= Len(COMMAND_PREFIX) /\ RegisterPadding \in Nat
BY CommandsAssumption, SMTT(30) DEF Byte, HeaderSize, AddressSize, PeerInfoSize

\* The bytes of a command header.
LEMMA HeaderBytes ==
  ASSUME NEW command \in Unsigned(U32), NEW len \in Unsigned(U64)
  PROVE  /\ command_header_serialize(command, len) \in Seq(Byte)
         /\ Len(command_header_serialize(command, len)) = HeaderSize
<1>1. command \in Nat /\ len \in Nat
  BY DEF Unsigned
<1> DEFINE x == BigEndian(command, U32)
           y == BigEndian(len, U64)
<1>2. x \in Seq(Byte) /\ Len(x) = U32 /\ y \in Seq(Byte) /\ Len(y) = U64
  BY <1>1, Sizes, BigEndianType
<1>3. command_header_serialize(command, len) = COMMAND_PREFIX \o x \o y
  BY DEF command_header_serialize, htobe64
<1> HIDE DEF x, y
<1>4. COMMAND_PREFIX \o x \in Seq(Byte) /\ Len(COMMAND_PREFIX \o x) = Len(COMMAND_PREFIX) + U32
  BY <1>2, Sizes, Join
<1> QED
  BY <1>2, <1>3, <1>4, Sizes, Join DEF HeaderSize

\* A buffer that begins with a header is understood.
LEMMA HeaderRoundTrip ==
  ASSUME NEW command \in Unsigned(U32), NEW len \in Unsigned(U64),
         NEW buffer \in Seq(Byte),
         Holds(buffer, 0, command_header_serialize(command, len))
  PROVE  /\ command_header_deserialize(buffer)
              = Success([command |-> command, command_len |-> len])
         /\ Len(buffer) >= HeaderSize
<1> DEFINE x == BigEndian(command, U32)
           y == BigEndian(len, U64)
           p == Len(COMMAND_PREFIX)
<1>1. command \in Nat /\ len \in Nat
  BY DEF Unsigned
<1>2. x \in Seq(Byte) /\ Len(x) = U32 /\ y \in Seq(Byte) /\ Len(y) = U64
  BY <1>1, Sizes, BigEndianType
<1>3. command_header_serialize(command, len) = (COMMAND_PREFIX \o x) \o y
  BY DEF command_header_serialize, htobe64
<1>4. COMMAND_PREFIX \o x \in Seq(Byte) /\ Len(COMMAND_PREFIX \o x) = p + U32
  BY <1>2, Sizes, Join, SMTT(30)
<1>5. Holds(buffer, 0, COMMAND_PREFIX \o x) /\ Holds(buffer, 0 + (p + U32), y)
  <2> HIDE DEF x, y
  <2>1. Holds(buffer, 0, (COMMAND_PREFIX \o x) \o y)
    BY <1>3
  <2> QED
    BY <1>2, <1>4, <2>1, HoldsParts
<1>6. Holds(buffer, 0, COMMAND_PREFIX) /\ Holds(buffer, 0 + p, x)
  <2> HIDE DEF x
  <2> QED
    BY <1>2, <1>5, Sizes, HoldsParts
<1>7. 0 + (p + U32) = p + U32 /\ 0 + p = p /\ p \in Nat /\ p + U32 \in Nat
  BY Sizes
<1>8. Bytes(buffer, 0, p) = COMMAND_PREFIX
  BY <1>6, Sizes, BytesHeld
<1>9. Number(buffer, p, U32) = command
  BY <1>6, <1>7, Sizes, NumberHeld
<1>10. Number(buffer, p + U32, U64) = len
  BY <1>5, <1>7, Sizes, NumberHeld
<1>11. Len(buffer) >= HeaderSize
  BY <1>2, <1>5, <1>7, Sizes DEF Holds, HeaderSize
<1> HIDE DEF x, y
<1>12. ~(Len(buffer) < p) /\ ~(Len(buffer) < HeaderSize)
  BY <1>11, Sizes
<1> QED
  BY <1>8, <1>9, <1>10, <1>11, <1>12 DEF command_header_deserialize

\* Whatever is in a buffer, the command of its header is a number.
LEMMA HeaderType ==
  ASSUME NEW buffer \in Seq(Byte),
         command_header_deserialize(buffer).code = "SUCCESS"
  PROVE  command_header_deserialize(buffer).value.command_len \in Unsigned(U64)
<1> DEFINE p == Len(COMMAND_PREFIX)
<1>1. /\ ~(Len(buffer) < p) /\ ~(Len(buffer) < HeaderSize)
      /\ command_header_deserialize(buffer).value.command_len
           = Number(buffer, p + U32, U64)
  BY DEF command_header_deserialize, TooSmall, Failure, Success
<1>2. p + U32 \in Nat /\ (p + U32) + U64 <= Len(buffer)
  BY <1>1, Sizes DEF HeaderSize
<1> QED
  BY <1>1, <1>2, Sizes, BytesType

-----------------------------------------------------------------------------
(***************************************************************************)
(* sockaddr_in6 and command_register_peer_t.                               *)
(***************************************************************************)
LEMMA AddressFields ==
  ASSUME NEW a \in Address
  PROVE  /\ a.sin6_family \in Unsigned(U16) /\ a.sin6_port \in Unsigned(U16)
         /\ a.sin6_flowinfo \in Unsigned(U32) /\ a.sin6_scope_id \in Unsigned(U32)
         /\ {a.sin6_family, a.sin6_port, a.sin6_flowinfo, a.sin6_scope_id} \subseteq Nat
         /\ a.sin6_addr \in Seq(Byte) /\ Len(a.sin6_addr) = AddrSize
<1>1. a.sin6_addr \in [1..AddrSize -> Byte]
  BY DEF Address
<1>2. a.sin6_addr \in Seq(Byte) /\ Len(a.sin6_addr) = AddrSize
  BY <1>1, Sizes
<1>3. /\ a.sin6_family \in Unsigned(U16) /\ a.sin6_port \in Unsigned(U16)
      /\ a.sin6_flowinfo \in Unsigned(U32) /\ a.sin6_scope_id \in Unsigned(U32)
  BY DEF Address
<1>4. {a.sin6_family, a.sin6_port, a.sin6_flowinfo, a.sin6_scope_id} \subseteq Nat
  BY <1>3 DEF Unsigned
<1> QED
  BY <1>2, <1>3, <1>4

\* The bytes of an address.
LEMMA AddressBytesType ==
  ASSUME NEW a \in Address
  PROVE  Piece(AddressBytes(a), AddressSize)
<1> DEFINE f == BigEndian(a.sin6_family, U16)
           p == BigEndian(a.sin6_port, U16)
           i == BigEndian(a.sin6_flowinfo, U32)
           x == a.sin6_addr
           s == BigEndian(a.sin6_scope_id, U32)
<1>1. /\ Piece(f, U16) /\ Piece(p, U16) /\ Piece(i, U32)
      /\ Piece(x, AddrSize) /\ Piece(s, U32)
  BY AddressFields, Sizes, BigEndianType DEF Piece
<1>2. AddressBytes(a) = f \o p \o i \o x \o s
  BY Zenon DEF AddressBytes
<1> HIDE DEF f, p, i, x, s
<1>3. Piece(f \o p \o i \o x \o s, U16 + U16 + U32 + AddrSize + U32)
  BY <1>1, Join5, Zenon
<1>4. U16 + U16 + U32 + AddrSize + U32 = AddressSize
  BY Sizes DEF AddressSize
<1> QED
  BY <1>2, <1>3, <1>4

\* The fields are read where they were written.
LEMMA AddressRoundTrip ==
  ASSUME NEW a \in Address, NEW buffer \in Seq(Byte), NEW offset \in Nat,
         Holds(buffer, offset, AddressBytes(a))
  PROVE  AddressAt(buffer, offset) = a
<1> DEFINE f == BigEndian(a.sin6_family, U16)
           p == BigEndian(a.sin6_port, U16)
           i == BigEndian(a.sin6_flowinfo, U32)
           x == a.sin6_addr
           s == BigEndian(a.sin6_scope_id, U32)
<1>1. /\ Piece(f, U16) /\ Piece(p, U16) /\ Piece(i, U32)
      /\ Piece(x, AddrSize) /\ Piece(s, U32)
  BY AddressFields, Sizes, BigEndianType DEF Piece
<1>2. AddressBytes(a) = f \o p \o i \o x \o s
  BY Zenon DEF AddressBytes
<1>3. /\ Holds(buffer, offset, f) /\ Holds(buffer, offset + U16, p)
      /\ Holds(buffer, offset + U16 + U16, i)
      /\ Holds(buffer, offset + U16 + U16 + U32, x)
      /\ Holds(buffer, offset + U16 + U16 + U32 + AddrSize, s)
  <2> HIDE DEF f, p, i, x, s
  <2>1. Holds(buffer, offset, f \o p \o i \o x \o s)
    BY <1>2
  <2> QED
    BY <1>1, <2>1, HoldsParts5
<1>4. /\ {offset, offset + U16, offset + 2 * U16, offset + 2 * U16 + U32,
          offset + 2 * U16 + U32 + AddrSize} \subseteq Nat
      /\ offset + U16 + U16 = offset + 2 * U16
  BY Sizes
<1>5. Number(buffer, offset, U16) = a.sin6_family
  BY <1>3, Sizes, AddressFields, NumberHeld
<1>6. Number(buffer, offset + U16, U16) = a.sin6_port
  BY <1>3, <1>4, Sizes, AddressFields, NumberHeld
<1>7. Number(buffer, offset + 2 * U16, U32) = a.sin6_flowinfo
  BY <1>3, <1>4, Sizes, AddressFields, NumberHeld
<1>8. Bytes(buffer, offset + 2 * U16 + U32, AddrSize) = a.sin6_addr
  BY <1>3, <1>4, AddressFields, BytesHeld
<1>9. Number(buffer, offset + 2 * U16 + U32 + AddrSize, U32) = a.sin6_scope_id
  BY <1>3, <1>4, Sizes, AddressFields, NumberHeld
<1>10. a = [sin6_family   |-> a.sin6_family,
            sin6_port     |-> a.sin6_port,
            sin6_flowinfo |-> a.sin6_flowinfo,
            sin6_addr     |-> a.sin6_addr,
            sin6_scope_id |-> a.sin6_scope_id]
  BY DEF Address
<1> QED
  BY <1>5, <1>6, <1>7, <1>8, <1>9, <1>10 DEF AddressAt

\* The commands as numbers.
LEMMA CommandNumbers ==
  /\ COMMAND_REGISTER_PEER \in Unsigned(U32)
  /\ COMMAND_SEND_PEER_LIST \in Unsigned(U32)
  /\ COMMAND_SEND_BLOCKCHAIN \in Unsigned(U32)
  /\ AddressSize + RegisterPadding \in Unsigned(U64)
<1>1. PICK l \in [0..U32 -> Nat] : Largest(U32) = l[U32]
  BY Sizes, LargestSteps
<1>2. Largest(U32) \in Nat
  BY <1>1, Sizes
<1> QED
  BY <1>2, WidthAssumption DEF Unsigned, COMMAND_REGISTER_PEER,
     COMMAND_SEND_PEER_LIST, COMMAND_SEND_BLOCKCHAIN

\* What the sockets of both ends agree on before the payload is read.
LEMMA HeaderIsRead ==
  ASSUME NEW command \in Unsigned(U32), NEW len \in Unsigned(U64),
         NEW buffer \in Seq(Byte),
         Holds(buffer, 0, command_header_serialize(command, len))
  PROVE  /\ CommandCode(command, buffer) = "SUCCESS"
         /\ command_header_deserialize(buffer).value.command_len = len
<1> DEFINE h == command_header_deserialize(buffer)
<1>1. h = Success([command |-> command, command_len |-> len])
  BY HeaderRoundTrip
<1>2. h.code = "SUCCESS" /\ h.value.command = command /\ h.value.command_len = len
  BY <1>1 DEF Success
<1> QED
  BY <1>2 DEF CommandCode

\* A registration is its header, the address and the padding.
LEMMA RegisterBytes ==
  ASSUME NEW a \in Address
  PROVE  \E h, p \in Seq(Byte) :
           /\ h = command_header_serialize(COMMAND_REGISTER_PEER,
                                           AddressSize + RegisterPadding)
           /\ Piece(h, HeaderSize) /\ Piece(p, RegisterPadding)
           /\ command_register_peer_serialize(a) = h \o AddressBytes(a) \o p
           /\ Piece(command_register_peer_serialize(a),
                    HeaderSize + AddressSize + RegisterPadding)
<1> DEFINE h == command_header_serialize(COMMAND_REGISTER_PEER,
                                         AddressSize + RegisterPadding)
           p == [i \in 1..RegisterPadding |-> 0]
<1>1. Piece(h, HeaderSize)
  BY CommandNumbers, HeaderBytes DEF Piece
<1>2. Piece(p, RegisterPadding)
  BY CommandsAssumption DEF Piece, Byte
<1>3. Piece(AddressBytes(a), AddressSize)
  BY AddressBytesType
<1>4. command_register_peer_serialize(a) = h \o AddressBytes(a) \o p
  BY Zenon DEF command_register_peer_serialize
<1>5. h \in Seq(Byte) /\ p \in Seq(Byte)
  BY <1>1, <1>2 DEF Piece
<1> HIDE DEF h, p
<1>6. Piece(h \o AddressBytes(a) \o p, HeaderSize + AddressSize + RegisterPadding)
  BY <1>1, <1>2, <1>3, Join2, Zenon
<1> QED
  BY <1>1, <1>2, <1>4, <1>5, <1>6 DEF h

(***************************************************************************)
(* The address that command_register_peer_deserialize returns is the one   *)
(* that command_register_peer_serialize was given.                         *)
(***************************************************************************)
THEOREM RegisterRoundTrip ==
  ASSUME NEW a \in Address, NEW m, m = command_register_peer_serialize(a)
  PROVE  command_register_peer_deserialize(m) = Success(a)
<1>1. PICK h, p \in Seq(Byte) :
           /\ h = command_header_serialize(COMMAND_REGISTER_PEER,
                                           AddressSize + RegisterPadding)
           /\ Piece(h, HeaderSize) /\ Piece(p, RegisterPadding)
           /\ m = h \o AddressBytes(a) \o p
           /\ Piece(m, HeaderSize + AddressSize + RegisterPadding)
  BY RegisterBytes
<1>2. m \in Seq(Byte) /\ Len(m) = HeaderSize + AddressSize + RegisterPadding
  BY <1>1 DEF Piece
<1>3. Holds(m, 0, (h \o AddressBytes(a)) \o p)
  BY <1>1, <1>2, HoldsItself
<1>4. Piece(AddressBytes(a), AddressSize) /\ 0 \in Nat
  BY AddressBytesType
<1>5. Piece(h \o AddressBytes(a), HeaderSize + AddressSize)
  BY <1>1, <1>4, Join2, Zenon
<1>6. Holds(m, 0, h \o AddressBytes(a))
  BY <1>1, <1>2, <1>3, <1>4, <1>5, HoldsParts2, Zenon
<1>7. Holds(m, 0, h) /\ Holds(m, 0 + HeaderSize, AddressBytes(a))
  BY <1>1, <1>2, <1>4, <1>6, HoldsParts2, Zenon
<1>8. CommandCode(COMMAND_REGISTER_PEER, m) = "SUCCESS"
  BY <1>1, <1>2, <1>7, CommandNumbers, HeaderIsRead
<1>9. AddressAt(m, HeaderSize) = a
  <2>1. 0 + HeaderSize = HeaderSize /\ HeaderSize \in Nat
    BY Sizes
  <2> QED
    BY <1>2, <1>7, <2>1, AddressRoundTrip
<1>10. ~(Len(m) < HeaderSize + AddressSize)
  BY <1>2, Sizes
<1> QED
  BY <1>8, <1>9, <1>10 DEF command_register_peer_deserialize

-----------------------------------------------------------------------------
(***************************************************************************)
(* command_send_peer_list_t and command_send_blockchain_t.                 *)
(***************************************************************************)
\* 64-bit sizes.
LEMMA WordSize ==
  /\ Largest(U64) \in Nat /\ Word \in Nat \ {0} /\ CallocLimit \in Int
  /\ CallocLimit + CallocLimit < Word
  /\ \A n \in Nat : n < Word => n \in Unsigned(U64)
  /\ \A n \in Nat : n < Word => n % Word = n
<1>1. PICK l \in [0..U64 -> Nat] : Largest(U64) = l[U64]
  BY Sizes, LargestSteps
<1>2. Largest(U64) \in Nat
  BY <1>1, Sizes
<1>3. Word \in Nat \ {0} /\ Word = Largest(U64) + 1
  BY <1>2 DEF Word
<1>4. \A n \in Nat : n < Word => n \in Unsigned(U64)
  BY <1>2, <1>3 DEF Unsigned
<1>5. \A n \in Nat : n < Word => n % Word = n
  BY <1>3
<1>6. CallocLimit \in Int /\ CallocLimit + CallocLimit < Word
  BY <1>3 DEF CallocLimit
<1> QED
  BY <1>2, <1>3, <1>4, <1>5, <1>6

\* The message is its header, the length and the data.
LEMMA DataBytes ==
  ASSUME NEW command \in Unsigned(U32), NEW data \in Seq(Byte),
         U64 + Len(data) < Word
  PROVE  \E h, l \in Seq(Byte) :
           /\ h = command_header_serialize(command, U64 + Len(data))
           /\ l = htobe64(Len(data))
           /\ Piece(h, HeaderSize) /\ Piece(l, U64)
           /\ SendData(command, data) = h \o l \o data
           /\ Piece(SendData(command, data), HeaderSize + U64 + Len(data))
<1> DEFINE h == command_header_serialize(command, U64 + Len(data))
           l == htobe64(Len(data))
<1>1. Len(data) \in Nat /\ U64 + Len(data) \in Unsigned(U64)
  BY Sizes, WordSize
<1>2. Piece(h, HeaderSize)
  BY <1>1, HeaderBytes DEF Piece
<1>3. Piece(l, U64)
  BY <1>1, Sizes, BigEndianType DEF Piece, htobe64
<1>4. Piece(data, Len(data))
  BY DEF Piece
<1>5. SendData(command, data) = h \o l \o data
  BY Zenon DEF SendData
<1>6. h \in Seq(Byte) /\ l \in Seq(Byte)
  BY <1>2, <1>3 DEF Piece
<1> HIDE DEF h, l
<1>7. Piece(h \o l \o data, HeaderSize + U64 + Len(data))
  BY <1>2, <1>3, <1>4, Join2, Zenon
<1> QED
  BY <1>2, <1>3, <1>5, <1>6, <1>7 DEF h, l

(***************************************************************************)
(* A peer list or a chain that command_send_*_serialize has framed leaves  *)
(* command_send_*_deserialize as it was, if calloc grants its size: the    *)
(* 64-bit sum of lengths in the check does not wrap around then.           *)
(***************************************************************************)
THEOREM DataRoundTrip ==
  ASSUME NEW command \in Unsigned(U32), NEW data \in Seq(Byte),
         Len(data) <= CallocLimit, NEW m, m = SendData(command, data)
  PROVE  ReceiveData(command, m) = Success(data)
<1>0. /\ U64 + Len(data) < Word /\ Len(data) \in Nat /\ Len(data) < Word
      /\ (HeaderSize + U64) + Len(data) < Word
  BY Sizes, WordSize, WidthAssumption
<1>1. PICK h, l \in Seq(Byte) :
           /\ h = command_header_serialize(command, U64 + Len(data))
           /\ l = htobe64(Len(data))
           /\ Piece(h, HeaderSize) /\ Piece(l, U64)
           /\ m = h \o l \o data
           /\ Piece(m, HeaderSize + U64 + Len(data))
  BY <1>0, DataBytes
<1>2. m \in Seq(Byte) /\ Len(m) = HeaderSize + U64 + Len(data)
  BY <1>1 DEF Piece
<1>3. Holds(m, 0, (h \o l) \o data)
  BY <1>1, <1>2, HoldsItself
<1>4. Piece(data, Len(data)) /\ 0 \in Nat
  BY DEF Piece
<1>5. Piece(h \o l, HeaderSize + U64)
  BY <1>1, Join2, Zenon
<1>6. Holds(m, 0, h \o l) /\ Holds(m, 0 + (HeaderSize + U64), data)
  BY <1>2, <1>3, <1>4, <1>5, HoldsParts2, Zenon
<1>7. Holds(m, 0, h) /\ Holds(m, 0 + HeaderSize, l)
  BY <1>1, <1>2, <1>4, <1>6, HoldsParts2, Zenon
<1>8. U64 + Len(data) \in Unsigned(U64) /\ Len(data) \in Unsigned(U64)
  BY <1>0, Sizes, WordSize
<1>9. CommandCode(command, m) = "SUCCESS"
  BY <1>1, <1>2, <1>7, <1>8, HeaderIsRead
<1>10. 0 + HeaderSize = HeaderSize /\ 0 + (HeaderSize + U64) = HeaderSize + U64
  BY Sizes
<1>11. Number(m, HeaderSize, U64) = Len(data)
  <2>1. Holds(m, HeaderSize, BigEndian(Len(data), U64))
    BY <1>1, <1>7, <1>10 DEF htobe64
  <2> QED
    BY <1>2, <1>8, <2>1, Sizes, NumberHeld
<1>12. Bytes(m, HeaderSize + U64, Len(data)) = data
  <2>1. HeaderSize + U64 \in Nat /\ Holds(m, HeaderSize + U64, data)
    BY <1>6, <1>10, Sizes
  <2> QED
    BY <1>2, <2>1, BytesHeld
<1>13. (HeaderSize + U64 + Len(data)) % Word = HeaderSize + U64 + Len(data)
  <2>1. PICK n \in Nat : n = HeaderSize + U64 + Len(data) /\ n < Word
    BY <1>0, Sizes
  <2>2. n % Word = n
    BY <2>1, WordSize, Zenon
  <2> QED
    BY <2>1, <2>2, Zenon
<1>14. /\ ~(Len(m) < HeaderSize + U64)
       /\ ~(HeaderSize + U64 + Len(data) > Len(m))
       /\ ~(Len(data) > CallocLimit)
  <2>1. HeaderSize \in Nat /\ U64 \in Nat /\ CallocLimit \in Int
    BY Sizes, WordSize
  <2> QED
    BY <1>0, <1>2, <2>1
<1> QED
  BY <1>9, <1>11, <1>12, <1>13, <1>14 DEF ReceiveData

-----------------------------------------------------------------------------
(***************************************************************************)
(* Sequences of records.                                                   *)
(***************************************************************************)
\* What FlattenSeq concatenates.
LEMMA FlattenSteps ==
  ASSUME NEW q \in Seq(Seq(Byte))
  PROVE  \E f \in [0..Len(q) -> Seq(Byte)] :
           /\ f[0] = <<>>
           /\ \A i \in 1..Len(q) : f[i] = f[i - 1] \o q[i]
           /\ FlattenSeq(q) = f[Len(q)]
<1> DEFINE n == Len(q)
           step == [i \in 1..n |-> [x \in Seq(Byte) |-> x \o q[i]]]
           equation(f) == [i \in 1..n |-> IF i = 1 THEN q[i] ELSE f[i - 1] \o q[i]]
           flatten == CHOOSE f : f = equation(f)
<1>1. n \in Nat /\ \A i \in 1..n : q[i] \in Seq(Byte)
  OBVIOUS
<1>2. step \in [1..n -> [Seq(Byte) -> Seq(Byte)]]
  BY <1>1, Join
<1>3. PICK f : Steps(f, n, Seq(Byte), <<>>, step)
  <2>1. <<>> \in Seq(Byte) /\ n \in Nat
    OBVIOUS
  <2> HIDE DEF step, n
  <2> QED
    BY <1>2, <2>1, Recursion, Zenon
<1>4. f \in [0..n -> Seq(Byte)] /\ f[0] = <<>>
  BY <1>3 DEF Steps
<1>5. \A i \in 1..n : f[i - 1] \in Seq(Byte) /\ f[i] = f[i - 1] \o q[i]
  <2> TAKE i \in 1..n
  <2>1. i - 1 \in 0..n
    BY <1>1
  <2>2. f[i - 1] \in Seq(Byte)
    BY <1>4, <2>1
  <2> QED
    BY <1>3, <2>2 DEF Steps
<1>6. CASE n = 0
  <2>1. q = <<>>
    BY <1>6
  <2>2. FlattenSeq(q) = <<>>
    BY <1>6, <2>1 DEF FlattenSeq
  <2> QED
    BY <1>4, <1>5, <1>6, <2>2
<1>7. CASE n # 0
  <2> DEFINE g == [i \in 1..n |-> f[i]]
  <2>1. 1 \in 1..n /\ f[1] = q[1]
    <3>1. 1 \in 1..n
      BY <1>1, <1>7
    <3>2. f[1] = <<>> \o q[1]
      <4>1. f[1] = f[1 - 1] \o q[1]
        BY <1>5, <3>1, Zenon
      <4>2. 1 - 1 = 0
        OBVIOUS
      <4> QED
        BY <1>4, <4>1, <4>2, Zenon
    <3>3. <<>> \o q[1] = q[1]
      BY <1>1, <3>1, ConcatEmptySeq
    <3> QED
      BY <3>1, <3>2, <3>3
  <2>2. \A i \in 1..n : i # 1 => i - 1 \in 1..n
    BY <1>1
  <2>3. g = equation(g)
    BY <1>5, <2>1, <2>2
  <2>4. flatten = equation(flatten)
    <3> HIDE DEF equation, g
    <3> QED
      BY <2>3
  <2>5. FlattenSeq(q) = flatten[n]
    BY <1>7, Zenon DEF FlattenSeq
  <2> HIDE DEF flatten
  <2> DEFINE P == {0} \cup {i \in 1..n : flatten[i] = f[i]}
  <2>6. 0 \in P
    OBVIOUS
  <2>7. \A i \in 0..n - 1 : i \in P => i + 1 \in P
    <3> SUFFICES ASSUME NEW i \in 0..n - 1, i \in P PROVE i + 1 \in P
      OBVIOUS
    <3>1. i + 1 \in 1..n /\ (i + 1) - 1 = i
      BY <1>1
    <3>2. flatten[i + 1] = IF i + 1 = 1 THEN q[i + 1] ELSE flatten[i] \o q[i + 1]
      BY <2>4, <3>1
    <3>3. CASE i = 0
      BY <2>1, <3>1, <3>2, <3>3
    <3>4. CASE i # 0
      <4>1. flatten[i] = f[i]
        BY <3>4
      <4>2. f[i + 1] = f[i] \o q[i + 1]
        BY <1>5, <3>1
      <4>3. i + 1 # 1
        BY <3>4
      <4>4. flatten[i + 1] = flatten[i] \o q[i + 1]
        BY <3>2, <4>3, Zenon
      <4>5. flatten[i + 1] = f[i + 1]
        BY <4>1, <4>2, <4>4
      <4> QED
        BY <3>1, <4>5
    <3> QED
      BY <3>3, <3>4
  <2> HIDE DEF P
  <2>8. \A i \in 0..n : i \in P
    BY <1>1, <2>6, <2>7, CountingUp
  <2>9. flatten[n] = f[n]
    BY <1>1, <1>7, <2>8 DEF P
  <2> QED
    BY <1>4, <1>5, <2>5, <2>9
<1> QED
  BY <1>6, <1>7

\* Where the records begin: f[i] bytes come before record i + 1.
Offsets(f, q) ==
  /\ f \in [0..Len(q) -> Nat]
  /\ f[0] = 0
  /\ \A i \in 1..Len(q) : f[i] = f[i - 1] + Len(q[i])

\* The records lie one behind the other.
LEMMA FlattenOffsets ==
  ASSUME NEW q \in Seq(Seq(Byte))
  PROVE  \E f : /\ Offsets(f, q)
                /\ Piece(FlattenSeq(q), f[Len(q)])
                /\ \A buffer \in Seq(Byte), offset \in Nat :
                     Holds(buffer, offset, FlattenSeq(q)) =>
                       \A i \in 1..Len(q) : Holds(buffer, offset + f[i - 1], q[i])
<1> DEFINE n == Len(q)
<1>1. n \in Nat /\ \A i \in 1..n : q[i] \in Seq(Byte)
  OBVIOUS
<1>2. PICK g \in [0..n -> Seq(Byte)] :
           /\ g[0] = <<>>
           /\ \A i \in 1..n : g[i] = g[i - 1] \o q[i]
           /\ FlattenSeq(q) = g[n]
  BY FlattenSteps, Zenon
<1> DEFINE f == [i \in 0..n |-> Len(g[i])]
<1>3. \A i \in 1..n : /\ i - 1 \in 0..n /\ i \in 0..n
                      /\ g[i - 1] \in Seq(Byte) /\ g[i] = g[i - 1] \o q[i]
                      /\ f[i - 1] = Len(g[i - 1]) /\ f[i] = Len(g[i])
  <2> TAKE i \in 1..n
  <2>1. i - 1 \in 0..n /\ i \in 0..n
    BY <1>1
  <2>2. g[i - 1] \in Seq(Byte) /\ f[i - 1] = Len(g[i - 1]) /\ f[i] = Len(g[i])
    BY <1>2, <2>1
  <2>3. g[i] = g[i - 1] \o q[i]
    BY <1>2, Zenon
  <2> QED
    BY <2>1, <2>2, <2>3
<1>4. Offsets(f, q)
  <2>1. f \in [0..n -> Nat] /\ f[0] = 0
    BY <1>1, <1>2
  <2>2. ASSUME NEW i \in 1..n PROVE f[i] = f[i - 1] + Len(q[i])
    <3>1. Len(g[i - 1] \o q[i]) = Len(g[i - 1]) + Len(q[i])
      BY <1>1, <1>3, Join
    <3> QED
      BY <1>3, <3>1
  <2> HIDE DEF f
  <2> QED
    BY <2>1, <2>2 DEF Offsets
<1>5. Piece(FlattenSeq(q), f[n])
  BY <1>1, <1>2 DEF Piece
<1>6. ASSUME NEW buffer \in Seq(Byte), NEW offset \in Nat,
             Holds(buffer, offset, FlattenSeq(q))
      PROVE  \A i \in 1..n : Holds(buffer, offset + f[i - 1], q[i])
  <2> DEFINE P == {k \in 0..n : Holds(buffer, offset, g[n - k])}
  <2>1. 0 \in P
    <3>1. n - 0 = n
      BY <1>1
    <3> QED
      BY <1>1, <1>2, <1>6, <3>1
  <2>2. ASSUME NEW i \in 1..n, Holds(buffer, offset, g[i])
        PROVE  /\ Holds(buffer, offset, g[i - 1])
               /\ Holds(buffer, offset + f[i - 1], q[i])
    <3>1. g[i - 1] \in Seq(Byte) /\ q[i] \in Seq(Byte) /\ f[i - 1] = Len(g[i - 1])
      BY <1>1, <1>3
    <3>2. Holds(buffer, offset, g[i - 1] \o q[i])
      BY <1>3, <2>2, Zenon
    <3>3. /\ Holds(buffer, offset, g[i - 1])
          /\ Holds(buffer, offset + Len(g[i - 1]), q[i])
      BY <3>1, <3>2, HoldsParts, Zenon
    <3> QED
      BY <3>1, <3>3
  <2>3. \A k \in 0..n - 1 : k \in P => k + 1 \in P
    <3> SUFFICES ASSUME NEW k \in 0..n - 1, k \in P PROVE k + 1 \in P
      OBVIOUS
    <3>1. n - k \in 1..n /\ (n - k) - 1 = n - (k + 1) /\ k + 1 \in 0..n
      BY <1>1
    <3>2. Holds(buffer, offset, g[n - k])
      OBVIOUS
    <3>3. Holds(buffer, offset, g[(n - k) - 1])
      BY <2>2, <3>1, <3>2, Zenon
    <3> QED
      BY <3>1, <3>3
  <2> HIDE DEF P
  <2>4. \A k \in 0..n : k \in P
    BY <1>1, <2>1, <2>3, CountingUp
  <2>5. ASSUME NEW i \in 1..n PROVE Holds(buffer, offset, g[i])
    <3>1. n - i \in 0..n /\ n - (n - i) = i
      BY <1>1
    <3> QED
      BY <2>4, <3>1 DEF P
  <2> QED
    BY <2>2, <2>5
<1> HIDE DEF f
<1> QED
  BY <1>4, <1>5, <1>6

\* Records of the same size.
LEMMA EqualOffsets ==
  ASSUME NEW q \in Seq(Seq(Byte)), NEW f, Offsets(f, q), NEW size \in Nat,
         \A i \in 1..Len(q) : Len(q[i]) = size
  PROVE  \A i \in 0..Len(q) : f[i] = i * size
<1> DEFINE P == {i \in 0..Len(q) : f[i] = i * size}
<1>1. Len(q) \in Nat
  OBVIOUS
<1>2. 0 \in P
  BY <1>1 DEF Offsets
<1>3. \A i \in 0..Len(q) - 1 : i \in P => i + 1 \in P
  <2> SUFFICES ASSUME NEW i \in 0..Len(q) - 1, i \in P PROVE i + 1 \in P
    OBVIOUS
  <2>1. i + 1 \in 1..Len(q) /\ (i + 1) - 1 = i /\ i + 1 \in 0..Len(q) /\ i \in Nat
    BY <1>1
  <2>2. f[i + 1] = f[i] + size /\ f[i] = i * size
    BY <2>1 DEF Offsets
  <2>3. (i + 1) * size = i * size + size
    BY <2>1
  <2> QED
    BY <2>1, <2>2, <2>3
<1> HIDE DEF P
<1>4. \A i \in 0..Len(q) : i \in P
  BY <1>1, <1>2, <1>3, CountingUp
<1> QED
  BY <1>4 DEF P

-----------------------------------------------------------------------------
(***************************************************************************)
(* The peer list.                                                          *)
(***************************************************************************)
LEMMA PeerInfoBytesType ==
  ASSUME NEW p \in PeerInfo
  PROVE  Piece(PeerInfoBytes(p), PeerInfoSize)
<1>1. p.listen_addr \in Address /\ p.last_connected \in Nat
  BY DEF PeerInfo, Unsigned
<1>2. Piece(AddressBytes(p.listen_addr), AddressSize)
  BY <1>1, AddressBytesType
<1>3. Piece(htobe64(p.last_connected), U64)
  BY <1>1, Sizes, BigEndianType DEF Piece, htobe64
<1>4. Piece(AddressBytes(p.listen_addr) \o htobe64(p.last_connected),
            AddressSize + U64)
  BY <1>2, <1>3, Join2, Zenon
<1> QED
  BY <1>4 DEF PeerInfoBytes, PeerInfoSize

\* A peer_info_t that is in a buffer is read back.
LEMMA PeerInfoRoundTrip ==
  ASSUME NEW p \in PeerInfo, NEW buffer \in Seq(Byte), NEW offset \in Nat,
         Holds(buffer, offset, PeerInfoBytes(p))
  PROVE  PeerInfoAt(buffer, offset) = p
<1>1. /\ p.listen_addr \in Address /\ p.last_connected \in Unsigned(U64)
      /\ p.last_connected \in Nat
      /\ p = [listen_addr |-> p.listen_addr, last_connected |-> p.last_connected]
  BY DEF PeerInfo, Unsigned
<1>2. Piece(AddressBytes(p.listen_addr), AddressSize)
  BY <1>1, AddressBytesType
<1>3. Piece(htobe64(p.last_connected), U64)
  BY <1>1, Sizes, BigEndianType DEF Piece, htobe64
<1>4. Holds(buffer, offset, AddressBytes(p.listen_addr) \o htobe64(p.last_connected))
  BY DEF PeerInfoBytes
<1>5. /\ Holds(buffer, offset, AddressBytes(p.listen_addr))
      /\ Holds(buffer, offset + AddressSize, htobe64(p.last_connected))
  BY <1>2, <1>3, <1>4, HoldsParts2, Zenon
<1>6. AddressAt(buffer, offset) = p.listen_addr
  BY <1>1, <1>5, AddressRoundTrip
<1>7. Number(buffer, offset + AddressSize, U64) = p.last_connected
  <2>1. offset + AddressSize \in Nat
    BY Sizes
  <2>2. Holds(buffer, offset + AddressSize, BigEndian(p.last_connected, U64))
    BY <1>5 DEF htobe64
  <2> QED
    BY <1>1, <2>1, <2>2, Sizes, NumberHeld
<1> QED
  BY <1>1, <1>6, <1>7 DEF PeerInfoAt

(***************************************************************************)
(* peer_info_list_deserialize rebuilds, in order, the list that            *)
(* peer_info_list_serialize was given, if a uint64_t can count it; the     *)
(* buffer is of the size that the serializer allocates.                    *)
(***************************************************************************)
THEOREM PeerListRoundTrip ==
  ASSUME NEW l \in Seq(PeerInfo), Len(l) \in Unsigned(U64),
         NEW m, m = peer_info_list_serialize(l)
  PROVE  /\ Piece(m, U64 + Len(l) * PeerInfoSize)
         /\ peer_info_list_deserialize(m) = Success(l)
<1> DEFINE q == [i \in 1..Len(l) |-> PeerInfoBytes(l[i])]
           n == Len(l)
<1>1. n \in Nat /\ n \in Unsigned(U64) /\ \A i \in 1..n : l[i] \in PeerInfo
  OBVIOUS
<1>2. \A i \in 1..n : /\ PeerInfoBytes(l[i]) \in Seq(Byte)
                      /\ Len(PeerInfoBytes(l[i])) = PeerInfoSize
  BY <1>1, PeerInfoBytesType DEF Piece
<1>3. q \in Seq(Seq(Byte)) /\ Len(q) = n /\ \A i \in 1..n : q[i] = PeerInfoBytes(l[i])
  BY <1>1, <1>2
<1>4. m = htobe64(n) \o FlattenSeq(q)
  BY DEF peer_info_list_serialize
<1> HIDE DEF q, n
<1>5. PICK f : /\ Offsets(f, q)
               /\ Piece(FlattenSeq(q), f[Len(q)])
               /\ \A buffer \in Seq(Byte), offset \in Nat :
                    Holds(buffer, offset, FlattenSeq(q)) =>
                      \A i \in 1..Len(q) : Holds(buffer, offset + f[i - 1], q[i])
  BY <1>3, FlattenOffsets
<1>6. \A i \in 0..n : f[i] = i * PeerInfoSize
  <2>1. \A i \in 1..Len(q) : Len(q[i]) = PeerInfoSize
    BY <1>2, <1>3
  <2>2. \A i \in 0..Len(q) : f[i] = i * PeerInfoSize
    BY <1>3, <1>5, <2>1, Sizes, EqualOffsets
  <2> QED
    BY <1>3, <2>2
<1>7. Piece(htobe64(n), U64)
  BY <1>1, Sizes, BigEndianType DEF Piece, htobe64
<1>8. Piece(FlattenSeq(q), n * PeerInfoSize)
  BY <1>1, <1>3, <1>5, <1>6
<1>9. Piece(m, U64 + n * PeerInfoSize)
  BY <1>4, <1>7, <1>8, Join2, Zenon
<1>10. m \in Seq(Byte) /\ Len(m) = U64 + n * PeerInfoSize
  BY <1>9 DEF Piece
<1>11. Holds(m, 0, htobe64(n)) /\ Holds(m, U64, FlattenSeq(q))
  <2>1. Holds(m, 0, htobe64(n) \o FlattenSeq(q))
    BY <1>4, <1>10, HoldsItself
  <2>2. 0 \in Nat /\ 0 + U64 = U64
    BY Sizes
  <2>3. Holds(m, 0, htobe64(n)) /\ Holds(m, 0 + U64, FlattenSeq(q))
    BY <1>7, <1>8, <1>10, <2>1, <2>2, HoldsParts2, Zenon
  <2> QED
    BY <2>2, <2>3
<1>12. Number(m, 0, U64) = n
  BY <1>1, <1>10, <1>11, Sizes, NumberHeld DEF htobe64
<1>13. ASSUME NEW i \in 1..n PROVE PeerInfoAt(m, U64 + (i - 1) * PeerInfoSize) = l[i]
  <2>1. i - 1 \in 0..n /\ U64 \in Nat /\ i \in 1..Len(q)
    BY <1>1, <1>3, Sizes
  <2>2. Holds(m, U64 + f[i - 1], q[i])
    BY <1>5, <1>10, <1>11, <2>1
  <2>3. Holds(m, U64 + (i - 1) * PeerInfoSize, PeerInfoBytes(l[i]))
    BY <1>3, <1>6, <2>1, <2>2
  <2>4. U64 + (i - 1) * PeerInfoSize \in Nat
    BY <2>1, Sizes
  <2> QED
    BY <1>1, <1>10, <2>3, <2>4, PeerInfoRoundTrip
<1>14. [i \in 1..n |-> PeerInfoAt(m, U64 + (i - 1) * PeerInfoSize)] = l
  BY <1>13 DEF n
<1>15. ~(Len(m) < U64) /\ ~(Len(m) < U64 + n * PeerInfoSize)
  <2>1. n * PeerInfoSize \in Nat /\ U64 \in Nat
    BY <1>1, Sizes
  <2> QED
    BY <1>10, <2>1
<1>16. peer_info_list_deserialize(m) = Success(l)
  BY <1>12, <1>14, <1>15 DEF peer_info_list_deserialize
<1> QED
  BY <1>9, <1>16 DEF n
=============================================================================
