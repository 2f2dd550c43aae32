--------------------------- MODULE MemTestsProofs ---------------------------
(***************************************************************************)
(* That the memory tests keep their types, write only where and while they *)
(* may, and report nothing that is sound, for every machine, every map of  *)
(* segments and every size of words and chunks.                            *)
(***************************************************************************)
EXTENDS MemTests, SequenceTheorems, FiniteSetTheorems, WellFoundedInduction, TLAPS

-----------------------------------------------------------------------------
(* A set of numbers has a least one: with it, what holds of 0 and of n + 1 *)
(* when it holds of n holds of every number.                               *)
LEMMA Least ==
  ASSUME NEW S \in SUBSET Nat, S # {}
  PROVE  \E k \in S : \A n \in S : k <= n
<1>1. PICK k \in S : \A n \in S : ~ (<<n, k>> \in OpToRel(<, Nat))
  BY WFMin, NatLessThanWellFounded
<1>2. \A n \in S : ~ (n < k)
  BY <1>1 DEF OpToRel
<1> QED BY <1>2
-----------------------------------------------------------------------------
-----------------------------------------------------------------------------
(* Powers of two.                                                          *)
LEMMA PowerIs ==
  ASSUME NEW S, IsFiniteSet(S)
  PROVE  2 ^ Cardinality(S) = Cardinality(SUBSET S) /\ IsFiniteSet(SUBSET S)
BY FS_SUBSET

LEMMA PowerPositive ==
  ASSUME NEW n \in Nat
  PROVE  2 ^ n \in Nat \ {0}
<1> DEFINE S == 1 .. n
           P == SUBSET S
<1>1. IsFiniteSet(S) /\ Cardinality(S) = n
  BY FS_Interval
<1>2. {} \in P
  OBVIOUS
<1>3. 2 ^ n = Cardinality(P) /\ IsFiniteSet(P)
  <2> HIDE DEF S
  <2> QED BY <1>1, PowerIs
<1> HIDE DEF P
<1>4. Cardinality(P) \in Nat /\ (Cardinality(P) = 0 <=> P = {})
  BY <1>3, FS_EmptySet, FS_CardinalityType
<1> QED BY <1>2, <1>3, <1>4

LEMMA PowerDoubles ==
  ASSUME NEW n \in Nat
  PROVE  2 ^ (n + 1) = 2 * 2 ^ n
<1> DEFINE S == 1 .. n
           b == n + 1
           T == {A \cup {b} : A \in SUBSET S}
           f == [A \in SUBSET S |-> A \cup {b}]
           U == SUBSET S
           V == SUBSET (S \cup {b})
<1>1. /\ IsFiniteSet(S) /\ Cardinality(S) = n /\ b \notin S
      /\ IsFiniteSet(S \cup {b}) /\ Cardinality(S \cup {b}) = n + 1
  <2>1. IsFiniteSet(S) /\ Cardinality(S) = n /\ b \notin S
    BY FS_Interval
  <2> HIDE DEF S, b
  <2> QED BY <2>1, FS_AddElement
<1> HIDE DEF S, b
<1>2. V = U \cup T
  <2>1. ASSUME NEW B \in V, b \in B PROVE B \in T
    <3>1. B \ {b} \in SUBSET S /\ B = (B \ {b}) \cup {b}
      BY <2>1
    <3> QED BY <3>1
  <2>2. ASSUME NEW B \in V, b \notin B PROVE B \in U
    BY <2>2
  <2>3. ASSUME NEW A \in SUBSET S PROVE A \cup {b} \in V
    BY <2>3
  <2>4. T \subseteq V
    BY <2>3
  <2>5. U \subseteq V
    OBVIOUS
  <2> HIDE DEF T, U, V
  <2>6. \A B \in V : B \in T \/ B \in U
    BY <2>1, <2>2
  <2> QED BY <2>4, <2>5, <2>6
<1>3. U \cap T = {}
  <2>1. ASSUME NEW B \in U, B \in T PROVE FALSE
    <3>1. PICK A \in SUBSET S : B = A \cup {b}
      BY <2>1
    <3>2. b \in B
      BY <3>1
    <3> QED BY <1>1, <2>1, <3>2
  <2> HIDE DEF T, U
  <2> QED BY <2>1
<1>4. f \in Bijection(U, T)
  <2>1. \A A, B \in SUBSET S : A \cup {b} = B \cup {b} => A = B
    BY <1>1
  <2>2. f \in [SUBSET S -> T] /\ \A t \in T : \E A \in SUBSET S : f[A] = t
    OBVIOUS
  <2>3. \A A, B \in SUBSET S : f[A] = f[B] => A = B
    BY <2>1
  <2> HIDE DEF f, T
  <2> QED BY <2>2, <2>3 DEF Bijection, Injection, Surjection, IsInjective
<1>5. 2 ^ n = Cardinality(U) /\ IsFiniteSet(U) /\ 2 ^ (n + 1) = Cardinality(V)
  BY <1>1, PowerIs
<1> HIDE DEF f, T, U, V
<1>6. IsFiniteSet(T) /\ Cardinality(T) = Cardinality(U)
  BY <1>4, <1>5, FS_Bijection DEF ExistsBijection
<1>7. Cardinality(V) = Cardinality(U) + Cardinality(T) - Cardinality(U \cap T)
  BY <1>2, <1>5, <1>6, FS_Union
<1>8. Cardinality(U \cap T) = 0 /\ Cardinality(U) \in Nat
  BY <1>3, <1>5, FS_EmptySet, FS_CardinalityType
<1> QED BY <1>5, <1>6, <1>7, <1>8

LEMMA PowerSum ==
  ASSUME NEW a \in Nat, NEW c \in Nat
  PROVE  2 ^ (a + c) = 2 ^ a * 2 ^ c
<1> DEFINE Bad == {m \in Nat : 2 ^ (a + m) # 2 ^ a * 2 ^ m}
<1>1. Bad = {}
  <2> SUFFICES ASSUME Bad # {} PROVE FALSE
    OBVIOUS
  <2>1. PICK m \in Bad : \A k \in Bad : m <= k
    BY Least
  <2>2. m # 0
    <3>1. 2 ^ 0 = 1 /\ 2 ^ a \in Nat /\ 2 ^ (a + 0) = 2 ^ a
      BY PowerPositive
    <3>2. 2 ^ (a + 0) = 2 ^ a * 2 ^ 0
      BY <3>1
    <3> QED BY <2>1, <3>2
  <2>3. PICK k \in Nat : m = k + 1
    <3>1. m - 1 \in Nat /\ m = (m - 1) + 1
      BY <2>2
    <3> QED BY <3>1
  <2>4. k \notin Bad
    BY <2>1, <2>3
  <2>5. 2 ^ (a + k) = 2 ^ a * 2 ^ k
    BY <2>4
  <2>6. 2 ^ (a + m) = 2 * 2 ^ (a + k)
    <3>1. a + m = (a + k) + 1
      BY <2>3
    <3> QED BY <3>1, PowerDoubles
  <2>7. 2 ^ m = 2 * 2 ^ k
    BY <2>3, PowerDoubles
  <2>8. 2 * (2 ^ a * 2 ^ k) = 2 ^ a * (2 * 2 ^ k)
    <3>1. \A x, y \in Nat : 2 * (x * y) = x * (2 * y)
      OBVIOUS
    <3> QED BY <3>1, PowerPositive
  <2> QED BY <2>1, <2>5, <2>6, <2>7, <2>8
<1> QED BY <1>1
-----------------------------------------------------------------------------
LEMMA Induction ==
  ASSUME NEW P \in SUBSET Nat, 0 \in P, \A n \in P : n + 1 \in P
  PROVE  P = Nat
<1> SUFFICES ASSUME Nat \ P # {} PROVE FALSE
  OBVIOUS
<1>1. PICK m \in Nat \ P : \A k \in Nat \ P : m <= k
  BY Least
<1>2. m - 1 \in Nat /\ (m - 1) + 1 = m
  BY <1>1
<1>3. m - 1 \in P
  BY <1>1, <1>2
<1> QED BY <1>1, <1>2, <1>3

(* A recursion up to a number has a solution.                              *)
SolvedTo(f, s, T, m) == f[0] = s /\ \A n \in 0 .. m - 1 : f[n + 1] = T[<<f[n], n>>]

Steps(S, m) == [S \X (0 .. m - 1) -> S]
Solvable(S, s, T, m) == \E f \in [0 .. m -> S] : SolvedTo(f, s, T, m)

LEMMA Recursion ==
  ASSUME NEW S, NEW s, s \in S, NEW m, m \in Nat, NEW T, T \in Steps(S, m)
  PROVE  Solvable(S, s, T, m)
<1> DEFINE P == {n \in Nat : n <= m => \E f \in [0 .. n -> S] : SolvedTo(f, s, T, n)}
<1>1. 0 \in P
  <2> DEFINE f == [i \in 0 .. 0 |-> s]
  <2>1. f \in [0 .. 0 -> S] /\ f[0] = s
    OBVIOUS
  <2>2. SolvedTo(f, s, T, 0)
    BY <2>1 DEF SolvedTo
  <2> HIDE DEF f
  <2> QED BY <2>1, <2>2
<1>2. ASSUME NEW n \in P PROVE n + 1 \in P
  <2> SUFFICES ASSUME n + 1 <= m
               PROVE  \E f \in [0 .. n + 1 -> S] : SolvedTo(f, s, T, n + 1)
    OBVIOUS
  <2>0. n \in Nat /\ n \in 0 .. m - 1
    OBVIOUS
  <2>1. PICK f \in [0 .. n -> S] : SolvedTo(f, s, T, n)
    BY <2>0
  <2> DEFINE y == T[<<f[n], n>>]
             g == [i \in 0 .. n + 1 |-> IF i = n + 1 THEN y ELSE f[i]]
  <2>2. f[n] \in S /\ y \in S
    BY <2>0, <2>1 DEF Steps
  <2> HIDE DEF y
  <2>3. g \in [0 .. n + 1 -> S]
    <3>1. ASSUME NEW i \in 0 .. n + 1 PROVE (IF i = n + 1 THEN y ELSE f[i]) \in S
      <4>1. i # n + 1 => i \in 0 .. n
        BY <2>0
      <4> QED BY <4>1, <2>1, <2>2
    <3> QED BY <3>1
  <2>4. g[0] = s
    BY <2>0, <2>1 DEF SolvedTo
  <2>5. ASSUME NEW i \in 0 .. n PROVE g[i + 1] = T[<<g[i], i>>]
    <3>1. i + 1 \in 0 .. n + 1 /\ i \in 0 .. n + 1 /\ g[i] = f[i]
      BY <2>0
    <3>2. CASE i = n
      BY <3>1, <3>2 DEF y
    <3>3. CASE i # n
      <4>1. i \in 0 .. n - 1 /\ i + 1 # n + 1
        BY <2>0, <3>3
      <4>2. f[i + 1] = T[<<f[i], i>>]
        BY <2>1, <4>1 DEF SolvedTo
      <4> QED BY <3>1, <4>1, <4>2
    <3> QED BY <3>2, <3>3
  <2> HIDE DEF g
  <2>6. SolvedTo(g, s, T, n + 1)
    <3>1. 0 .. (n + 1) - 1 = 0 .. n
      BY <2>0
    <3> QED BY <2>4, <2>5, <3>1 DEF SolvedTo
  <2> QED BY <2>3, <2>6
<1>3. P = Nat
  <2>1. P \in SUBSET Nat
    OBVIOUS
  <2> HIDE DEF P
  <2> QED BY <1>1, <1>2, <2>1, Induction
<1> QED BY <1>3 DEF Solvable
-----------------------------------------------------------------------------
(* Division, by a number that is not one the provers know.                 *)
LEMMA Division ==
  ASSUME NEW x \in Nat, NEW c \in Nat \ {0}
  PROVE  \E q \in Nat, r \in 0 .. c - 1 : q = x \div c /\ r = x % c /\ x = q * c + r
<1> DEFINE q == x \div c
           r == x % c
<1>1. q \in Nat /\ r \in 0 .. c - 1 /\ x = c * q + r
  OBVIOUS
<1>2. q = x \div c /\ r = x % c
  OBVIOUS
<1> HIDE DEF q, r
<1>3. x = q * c + r
  BY <1>1
<1> QED BY <1>1, <1>2, <1>3

LEMMA Divided ==
  ASSUME NEW c \in Nat \ {0}, NEW a \in Nat, NEW b \in 0 .. c - 1
  PROVE  (a * c + b) \div c = a /\ (a * c + b) % c = b
<1>1. a * c + b \in Nat
  OBVIOUS
<1>2. PICK q \in Nat, r \in 0 .. c - 1 :
        q = (a * c + b) \div c /\ r = (a * c + b) % c /\ a * c + b = q * c + r
  <2> DEFINE x == a * c + b
  <2> HIDE DEF x
  <2>1. \E q \in Nat, r \in 0 .. c - 1 : q = x \div c /\ r = x % c /\ x = q * c + r
    BY <1>1, Division DEF x
  <2> QED BY <2>1 DEF x
<1>3. (a - q) * c = r - b
  <2>1. (a - q) * c = a * c - q * c /\ a * c \in Int /\ q * c \in Int
    BY SMTT(30)
  <2>2. a * c + b = q * c + r
    BY <1>2, Zenon
  <2> QED BY <2>1, <2>2
<1>4. r - b < c /\ r - b > -c
  OBVIOUS
<1>5. ~(a - q >= 1)
  <2> SUFFICES ASSUME a - q >= 1 PROVE (a - q) * c >= c
    BY <1>3, <1>4
  <2> QED BY SMTT(30)
<1>6. ~(a - q <= -1)
  <2> SUFFICES ASSUME a - q <= -1 PROVE (a - q) * c <= -c
    BY <1>3, <1>4
  <2> QED BY SMTT(30)
<1>7. a = q
  BY <1>5, <1>6
<1>8. b = r
  BY <1>3, <1>7
<1>9. q = (a * c + b) \div c /\ r = (a * c + b) % c
  BY <1>2, Zenon
<1> QED BY <1>7, <1>8, <1>9, Zenon

-----------------------------------------------------------------------------
(* Words.                                                                  *)
LEMMA Sizes ==
  /\ Bits \in Nat /\ Bits >= 2 /\ Bits \div 2 \in Nat /\ Bits = Bits \div 2 + Bits \div 2
  /\ Half \in Nat \ {0} /\ 2 ^ Bits \in Nat \ {0} /\ 2 ^ Bits = Half * Half
  /\ Ones \in Nat /\ Ones = 2 ^ Bits - 1 /\ 0 \in Word /\ 1 \in Word /\ Ones \in Word
<1>1. Bits \in Nat /\ Bits >= 2 /\ Bits \div 2 \in Nat /\ Bits = Bits \div 2 + Bits \div 2
  BY WordsAssumption
<1>2. Half \in Nat \ {0} /\ 2 ^ Bits \in Nat \ {0}
  BY <1>1, PowerPositive DEF Half
<1>3. 2 ^ Bits = Half * Half
  BY <1>1, PowerSum DEF Half
<1>4. 2 ^ Bits >= 2
  <2>1. Bits - 1 \in Nat /\ Bits = (Bits - 1) + 1
    BY <1>1
  <2>2. 2 ^ Bits = 2 * 2 ^ (Bits - 1) /\ 2 ^ (Bits - 1) \in Nat \ {0}
    BY <2>1, PowerDoubles, PowerPositive
  <2> QED BY <2>2
<1>5. Ones = 2 ^ Bits - 1
  BY DEF Ones
<1> QED BY <1>1, <1>2, <1>3, <1>4, <1>5 DEF Word

LEMMA NotWord ==
  ASSUME NEW x \in Word
  PROVE  Not(x) \in Word /\ Not(Not(x)) = x
BY Sizes DEF Word, Not

LEMMA Remainders ==
  ASSUME NEW n \in Int
  PROVE  n % Bits \in 0 .. Bits - 1 /\ n % (Bits + 1) \in 0 .. Bits
BY Sizes

(* A word is two parts, and to turn it is to exchange them.                *)
LEMMA Parts ==
  ASSUME NEW x \in Word, NEW r \in 0 .. Bits
  PROVE  \E a \in 0 .. 2 ^ r - 1, b \in 0 .. 2 ^ (Bits - r) - 1 :
            x = a * 2 ^ (Bits - r) + b
<1> DEFINE c == 2 ^ (Bits - r)
           d == 2 ^ r
<1>1. c \in Nat \ {0} /\ d \in Nat \ {0} /\ 2 ^ Bits = d * c
  <2>1. r \in Nat /\ Bits - r \in Nat /\ r + (Bits - r) = Bits
    BY Sizes
  <2> QED BY <2>1, PowerPositive, PowerSum
<1>2. x \in Nat /\ x < d * c
  BY <1>1, Sizes DEF Word
<1> HIDE DEF c, d
<1>3. PICK q \in Nat, r0 \in 0 .. c - 1 : q = x \div c /\ r0 = x % c /\ x = q * c + r0
  BY <1>1, <1>2, Division
<1>4. q < d
  <2> SUFFICES ASSUME q >= d PROVE FALSE
    BY <1>1, <1>3
  <2>1. q * c >= d * c
    BY <1>1, SMTT(30)
  <2>2. d * c \in Nat /\ q * c \in Nat
    BY <1>1, <1>3
  <2> QED BY <1>2, <1>3, <2>1, <2>2
<1>5. q \in 0 .. d - 1
  BY <1>1, <1>3, <1>4
<1> QED BY <1>3, <1>5 DEF c, d

LEMMA RolParts ==
  ASSUME NEW r \in 0 .. Bits - 1, NEW a \in 0 .. 2 ^ r - 1, NEW b \in 0 .. 2 ^ (Bits - r) - 1
  PROVE  /\ Rol(a * 2 ^ (Bits - r) + b, r) = b * 2 ^ r + a
         /\ b * 2 ^ r + a \in Word
<1> DEFINE c == 2 ^ (Bits - r)
           d == 2 ^ r
           x == a * c + b
<1>1. c \in Nat \ {0} /\ d \in Nat \ {0} /\ 2 ^ Bits = d * c
  <2>1. r \in Nat /\ Bits - r \in Nat /\ r + (Bits - r) = Bits
    BY Sizes
  <2> QED BY <2>1, PowerPositive, PowerSum
<1>2. r % Bits = r
  BY Sizes
<1>3. Rol(x, r) = ((x * d) % 2 ^ Bits) + (x \div c)
  BY <1>2 DEF Rol
<1>4. a \in 0 .. d - 1 /\ b \in 0 .. c - 1
  OBVIOUS
<1>5. x \div c = a
  <2>1. c \in Nat \ {0} /\ a \in Nat /\ b \in 0 .. c - 1
    BY <1>1
  <2> HIDE DEF c
  <2> QED BY <2>1, Divided
<1> HIDE DEF c, d
<1>6. x * d = a * (d * c) + b * d
  BY <1>1, <1>4, SMTT(30) DEF x
<1>7. b * d \in 0 .. d * c - 1 /\ b * d + a \in 0 .. d * c - 1
  <2>1. \A u \in Nat, v \in Nat : u <= v => u * d <= v * d
    BY <1>1, SMTT(30)
  <2>2. b * d <= (c - 1) * d /\ b * d \in Nat
    BY <1>1, <1>4, <2>1
  <2>3. (c - 1) * d = d * c - d /\ d * c \in Nat
    BY <1>1, SMTT(30)
  <2> QED BY <1>1, <1>4, <2>2, <2>3
<1>8. (x * d) % 2 ^ Bits = b * d
  <2>1. d * c \in Nat \ {0}
    BY <1>1, Sizes
  <2>2. (a * (d * c) + b * d) % (d * c) = b * d
    BY <1>4, <1>7, <2>1, Divided
  <2> QED BY <1>1, <1>6, <2>2
<1>9. Rol(x, r) = b * d + a
  <2>1. b * d \in Nat /\ a \in Nat
    BY <1>4, <1>7
  <2> HIDE DEF x
  <2> QED BY <1>3, <1>5, <1>8, <2>1
<1> QED BY <1>1, <1>7, <1>9, Sizes DEF x, c, d, Word

LEMMA RolWord ==
  ASSUME NEW x \in Word, NEW n \in Int
  PROVE  Rol(x, n) \in Word /\ Ror(x, n) \in Word
<1>1. ASSUME NEW m \in Int PROVE Rol(x, m) \in Word
  <2> DEFINE r == m % Bits
  <2>1. r \in 0 .. Bits - 1 /\ r % Bits = r
    BY Sizes
  <2>2. Rol(x, m) = Rol(x, r)
    BY <2>1 DEF Rol
  <2> HIDE DEF r
  <2>3. PICK a \in 0 .. 2 ^ r - 1, b \in 0 .. 2 ^ (Bits - r) - 1 :
           x = a * 2 ^ (Bits - r) + b
    <3>1. r \in 0 .. Bits
      BY <2>1, Sizes
    <3> QED BY <3>1, Parts
  <2> QED BY <2>1, <2>2, <2>3, RolParts
<1>2. Bits - (n % Bits) \in Int
  BY Sizes
<1> QED BY <1>1, <1>2 DEF Ror

LEMMA PowerWord ==
  ASSUME NEW n \in 0 .. Bits - 1
  PROVE  2 ^ n \in Word /\ 2 ^ n \in Nat \ {0}
<1> DEFINE c == 2 ^ (Bits - n)
           d == 2 ^ n
<1>1. n \in Nat /\ Bits - n \in Nat /\ n + (Bits - n) = Bits
  BY Sizes
<1>2. c \in Nat \ {0} /\ d \in Nat \ {0} /\ 2 ^ Bits = d * c
  BY <1>1, PowerPositive, PowerSum
<1>3. c >= 2
  <2>1. Bits - n - 1 \in Nat /\ Bits - n = (Bits - n - 1) + 1
    BY <1>1, Sizes
  <2>2. c = 2 * 2 ^ (Bits - n - 1) /\ 2 ^ (Bits - n - 1) \in Nat \ {0}
    BY <2>1, PowerDoubles, PowerPositive
  <2> QED BY <2>2
<1> HIDE DEF c, d
<1>4. d * c >= d * 2
  BY <1>2, <1>3, SMTT(30)
<1>5. d \in 0 .. Ones
  BY <1>2, <1>4, Sizes
<1> QED BY <1>2, <1>5 DEF d, Word

LEMMA Halves ==
  ASSUME NEW x \in Word
  PROVE  x % Half \in 0 .. Half - 1 /\ x \div Half \in 0 .. Half - 1
<1>1. PICK q \in Nat, r \in 0 .. Half - 1 :
        q = x \div Half /\ r = x % Half /\ x = q * Half + r
  BY Sizes, Division DEF Word
<1>2. q * Half + r < Half * Half
  BY <1>1, Sizes DEF Word
<1>3. q < Half
  <2> SUFFICES ASSUME q >= Half PROVE FALSE
    BY Sizes
  <2>1. q * Half >= Half * Half
    BY Sizes, SMTT(30)
  <2> QED BY <1>2, <2>1, Sizes
<1>4. q \in 0 .. Half - 1
  BY <1>3, Sizes
<1> QED BY <1>1, <1>4, Zenon

LEMMA MultiplyWithCarry ==
  ASSUME NEW mul \in 0 .. Half - 1, NEW x \in Word
  PROVE  (mul * (x % Half)) + (x \div Half) \in Word
<1> DEFINE l == x % Half
           h == x \div Half
<1>1. l \in 0 .. Half - 1 /\ h \in 0 .. Half - 1
  BY Halves
<1> HIDE DEF l, h
<1>2. Half \in Nat \ {0} /\ Ones = Half * Half - 1
  BY Sizes
<1>3. mul * l \in Nat /\ mul * l <= (Half - 1) * (Half - 1)
  <2>1. mul \in Nat /\ l \in Nat /\ mul <= Half - 1 /\ l <= Half - 1 /\ Half - 1 \in Nat
    BY <1>1, <1>2
  <2>2. mul * l <= (Half - 1) * l
    BY <2>1, SMTT(30)
  <2>3. (Half - 1) * l <= (Half - 1) * (Half - 1)
    BY <2>1, SMTT(30)
  <2> QED BY <2>1, <2>2, <2>3
<1>4. (Half - 1) * (Half - 1) + (Half - 1) <= Half * Half - 1
  BY <1>2, SMTT(30)
<1>5. mul * l + h \in 0 .. Ones
  BY <1>1, <1>2, <1>3, <1>4
<1> QED BY <1>5 DEF l, h, Word

LEMMA RandWords ==
  ASSUME NEW s \in Word \X Word
  PROVE  rand(s) \in Word \X Word /\ Drawn(s) \in Word
<1>1. s[1] \in Word /\ s[2] \in Word
  OBVIOUS
<1>2. MulX \in 0 .. Half - 1 /\ MulY \in 0 .. Half - 1
  BY WordsAssumption
<1>3. rand(s) \in Word \X Word
  BY <1>1, <1>2, MultiplyWithCarry DEF rand
<1>4. Drawn(s) \in Word
  <2> DEFINE y == (s[1] * Half) + (s[2] % Half)
  <2>1. y \in Int
    <3>1. s[1] \in Int /\ s[2] % Half \in Int /\ Half \in Int
      BY <1>1, Halves, Sizes DEF Word
    <3> QED BY <3>1
  <2> HIDE DEF y
  <2>2. y % 2 ^ Bits \in 0 .. 2 ^ Bits - 1
    BY <2>1, Sizes
  <2> QED BY <2>2, Sizes DEF y, Drawn, Word
<1> QED BY <1>3, <1>4

LEMMA SeedWords ==
  ASSUME NEW s \in Word \X Word, NEW seeds \in Word \X Word
  PROVE  rand_seed(s, seeds) \in Word \X Word
BY DEF rand_seed

(* A bit of a word is changed: the words stay words.                       *)
LEMMA BitOf ==
  ASSUME NEW x \in Int, NEW b \in Nat
  PROVE  Bit(x, b) \in {0, 1}
<1> DEFINE q == x \div 2 ^ b
<1>1. q \in Int
  BY PowerPositive
<1> HIDE DEF q
<1>2. q % 2 \in {0, 1}
  BY <1>1
<1> QED BY <1>2 DEF q, Bit

LEMMA BitChanged ==
  ASSUME NEW x \in Word, NEW b \in 0 .. Bits - 1, NEW v \in {0, 1}
  PROVE  WithBit(x, b, v) \in Word
<1> DEFINE c == 2 ^ b
           d == 2 ^ (Bits - b)
           e == 2 ^ (Bits - b - 1)
<1>1. /\ b \in Nat /\ Bits - b \in Nat /\ Bits - b - 1 \in Nat
      /\ (Bits - b) + b = Bits /\ Bits - b = (Bits - b - 1) + 1
  BY Sizes
<1>2. /\ c \in Nat \ {0} /\ d \in Nat \ {0} /\ 2 ^ Bits = d * c
      /\ e \in Nat \ {0} /\ d = 2 * e
  BY <1>1, PowerPositive, PowerSum, PowerDoubles
<1> HIDE DEF c, d, e
<1>3. PICK q \in Nat, r \in 0 .. c - 1 : q = x \div c /\ r = x % c /\ x = q * c + r
  BY <1>2, Division DEF Word
<1>4. Bit(x, b) = q % 2
  BY <1>3 DEF Bit, c
<1>5. q < d
  <2> SUFFICES ASSUME q >= d PROVE FALSE
    BY <1>2
  <2>1. q * c >= d * c
    BY <1>2, SMTT(30)
  <2>2. x = q * c + r /\ x < d * c
    BY <1>2, <1>3, Sizes DEF Word
  <2> QED BY <1>2, <2>1, <2>2
<1>6. CASE v = q % 2
  BY <1>4, <1>6, Sizes, PowerPositive DEF WithBit, Word
<1>7. CASE v = 1 /\ q % 2 = 0
  <2>1. WithBit(x, b, v) = (q + 1) * c + r
    <3>1. WithBit(x, b, v) = x + 1 * c
      BY <1>4, <1>7 DEF WithBit, c
    <3>2. (q + 1) * c = q * c + c
      BY <1>2, SMTT(30)
    <3> QED BY <1>2, <1>3, <3>1, <3>2
  <2>2. q + 1 <= d - 1
    BY <1>2, <1>5, <1>7
  <2>3. (q + 1) * c <= (d - 1) * c /\ (d - 1) * c = d * c - c /\ (q + 1) * c \in Nat
    BY <1>2, <2>2, SMTT(30)
  <2> QED BY <1>2, <2>1, <2>3, Sizes DEF Word
<1>8. CASE v = 0 /\ q % 2 = 1
  <2>1. WithBit(x, b, v) = x - c
    <3>1. WithBit(x, b, v) = x + (0 - 1) * c
      BY <1>4, <1>8 DEF WithBit, c
    <3> QED BY <1>2, <3>1 DEF Word
  <2>2. q * c >= c
    <3>1. q >= 1
      BY <1>8
    <3> QED BY <1>2, <3>1, SMTT(30)
  <2>3. x >= c
    BY <1>2, <1>3, <2>2
  <2> QED BY <1>2, <2>1, <2>3, Sizes DEF Word
<1>9. q % 2 \in {0, 1}
  OBVIOUS
<1> QED BY <1>6, <1>7, <1>8, <1>9

LEMMA BlockWords_ ==
  ASSUME NEW g \in Int, NEW n
  PROVE  BlockWord(g, n) \in Word
<1> DEFINE e == IF g % (Bits + 1) = Bits THEN 0 ELSE 2 ^ (g % (Bits + 1))
<1>1. e \in Word
  <2> DEFINE r == g % (Bits + 1)
  <2>1. r \in 0 .. Bits
    BY Sizes
  <2> HIDE DEF r
  <2>2. r # Bits => r \in 0 .. Bits - 1
    BY <2>1, Sizes
  <2>3. (IF r = Bits THEN 0 ELSE 2 ^ r) \in Word
    BY <2>2, PowerWord, Sizes
  <2> QED BY <2>3 DEF r
<1> HIDE DEF e
<1>2. Not(e) \in Word
  BY <1>1, NotWord
<1> QED BY <1>1, <1>2 DEF BlockWord, e
-----------------------------------------------------------------------------
(* What a sweep works on, and what it changes it with.                     *)
Content == Word \cup {Leftover(a) : a \in Cells}
States == [mem : [Cells -> Int], errs : SUBSET Int,
           strays : SUBSET (Sweeps \X Int), rng : Word \X Word, k : Int, w : Word,
           since : SUBSET Nat]
Args == [p1 : Word, p2 : Word, iter : Nat, off : Nat, lb : Word, seeds : Word \X Word]
Places == [at : Sweeps, i : Nat, j : Nat, p : Int, pe : Int, k : Int, w : Word]
FaultInv == fault \in Faults /\ (fault.kind = "none" \/ {fault.cell, fault.other} \subseteq Cells)
InTest == here.at \notin {"call", "over"}

TypeInv ==
  /\ pat \in Pats /\ pass \in Passes /\ map \in Maps /\ FaultInv
  /\ mem \in [Cells -> Content] /\ rng \in Word \X Word
  /\ call \in 0 .. Calls /\ (call > 0 => arg \in Args) /\ (InTest => call > 0)
  /\ here \in Places /\ here.j \in 1 .. segs
  /\ bail \in BOOLEAN /\ nticks \in Nat
  /\ errs \subseteq Int /\ strays \subseteq Sweeps \X Int

(* What the definitions of the memory need of it.                          *)
Sound_ == /\ map \in Maps /\ FaultInv /\ mem \in [Cells -> Content] /\ here \in Places

LEMMA MapFacts ==
  ASSUME map \in Maps
  PROVE  /\ segs \in Nat \ {0}
         /\ \A j \in 1 .. segs :
              /\ Start(j) \in Nat /\ End(j) \in Nat /\ Start(j) < End(j)
              /\ End(j) < AddrWords /\ Trimmed(map[j])
         /\ \A j \in 1 .. segs - 1 : End(j) <= Start(j + 1)
         /\ Cells = {a \in Nat : \E j \in 1 .. segs : Start(j) <= a /\ a < End(j)}
<1>1. map \in Seq([start : Nat, end : Nat]) /\ map # <<>>
  BY MapsAssumption
<1>2. Len(map) \in Nat \ {0} /\ \A j \in 1 .. Len(map) : map[j] \in [start : Nat, end : Nat]
  BY <1>1, EmptySeq, LenProperties, ElementOfSeq
<1>3. \A j \in 1 .. Len(map) : Trimmed(map[j]) /\ map[j].start \in Nat /\ map[j].end \in Nat
  BY <1>2, MapsAssumption
<1>4. \A j \in 1 .. Len(map) : map[j].start < map[j].end /\ map[j].end < AddrWords
  BY <1>3, WordsAssumption DEF Trimmed
<1>5. \A j \in 1 .. Len(map) - 1 : map[j].end <= map[j + 1].start
  BY MapsAssumption
<1>6. Cells = {a \in Nat : \E j \in 1 .. segs : Start(j) <= a /\ a < End(j)}
  <2>1. ASSUME NEW a, NEW j \in 1 .. Len(map)
        PROVE  a \in map[j].start .. map[j].end - 1
                 <=> a \in Nat /\ map[j].start <= a /\ a < map[j].end
    BY <1>3
  <2> QED BY <2>1 DEF Cells, CellsOf, segs, Start, End
<1> QED BY <1>2, <1>3, <1>4, <1>5, <1>6 DEF segs, Start, End

LEMMA CellFacts ==
  ASSUME map \in Maps, NEW a \in Cells
  PROVE  a \in Nat /\ a < AddrWords /\ a \in Word
<1>1. PICK j \in 1 .. segs : a \in Nat /\ a < End(j) /\ End(j) < AddrWords /\ End(j) \in Nat
  BY MapFacts
<1> QED BY <1>1, Sizes, WordsAssumption DEF Word

LEMMA CellAtCell ==
  ASSUME FaultInv, NEW a \in Cells
  PROVE  CellAt(a) \in Cells
BY DEF FaultInv, CellAt

LEMMA ContentInt ==
  ASSUME map \in Maps
  PROVE  Content \subseteq Int /\ [Cells -> Content] \subseteq [Cells -> Int]
<1>1. Word \subseteq Int
  BY Sizes DEF Word
<1>2. \A a \in Cells : Leftover(a) \in Int
  BY CellFacts DEF Leftover
<1>3. Content \subseteq Int
  BY <1>1, <1>2 DEF Content
<1> HIDE DEF Content
<1> QED BY <1>3

LEMMA LoadTyped ==
  ASSUME Sound_, NEW m \in [Cells -> Content], NEW a
  PROVE  Load(m, a) \in Content
BY CellAtCell, Sizes DEF Sound_, Load, Content

LEMMA StoreContent ==
  ASSUME Sound_, NEW m \in [Cells -> Content], NEW a, NEW v \in Word
  PROVE  Store(m, a, v) \in [Cells -> Content]
<1>1. CASE a \notin Cells
  BY <1>1 DEF Store
<1>2. CASE a \in Cells
  <2> DEFINE c == CellAt(a)
             x == IF fault.kind = "stuck" /\ c = fault.cell
                  THEN WithBit(v, fault.bit, fault.value) ELSE v
             n == [m EXCEPT ![c] = x]
  <2>1. c \in Cells
    BY <1>2, CellAtCell DEF Sound_
  <2>2. fault.bit \in 0 .. Bits - 1 /\ fault.value \in {0, 1}
    BY FaultsAssumption DEF Sound_, FaultInv
  <2>3. x \in Content
    BY <2>2, BitChanged DEF Content
  <2> HIDE DEF c, x
  <2>4. n \in [Cells -> Content]
    BY <2>1, <2>3
  <2>5. ASSUME fault.kind = "couple", n[fault.cell] >= 0
        PROVE  WithBit(n[fault.cell], fault.bit, Bit(v, fault.bit)) \in Content
    <3>1. fault.cell \in Cells
      BY <2>5 DEF Sound_, FaultInv
    <3>2. n[fault.cell] \in Content
      BY <2>4, <3>1
    <3>3. \A b \in Cells : ~(Leftover(b) >= 0)
      <4>1. \A b \in Cells : b \in Nat
        BY CellFacts DEF Sound_
      <4> QED BY <4>1 DEF Leftover
    <3>4. n[fault.cell] \in Word
      BY <2>5, <3>2, <3>3 DEF Content
    <3>5. Bit(v, fault.bit) \in {0, 1}
      <4>1. v \in Int /\ fault.bit \in Nat
        BY <2>2, Sizes DEF Word
      <4> QED BY <4>1, BitOf
    <3> QED BY <2>2, <3>4, <3>5, BitChanged DEF Content
  <2> HIDE DEF n
  <2>6. Store(m, a, v) = IF fault.kind = "couple" /\ c = fault.other /\ n[fault.cell] >= 0
                         THEN [n EXCEPT ![fault.cell] = WithBit(@, fault.bit, Bit(v, fault.bit))]
                         ELSE n
    BY <1>2 DEF Store, c, x, n
  <2>7. CASE fault.kind = "couple" /\ c = fault.other /\ n[fault.cell] >= 0
    <3>1. Store(m, a, v) = [n EXCEPT ![fault.cell] = WithBit(n[fault.cell], fault.bit, Bit(v, fault.bit))]
      BY <2>6, <2>7
    <3> DEFINE y == WithBit(n[fault.cell], fault.bit, Bit(v, fault.bit))
    <3>2. y \in Content
      BY <2>5, <2>7
    <3> HIDE DEF y
    <3>3. [n EXCEPT ![fault.cell] = y] \in [Cells -> Content]
      BY <2>4, <3>2
    <3> QED BY <3>1, <3>3 DEF y
  <2>8. CASE ~(fault.kind = "couple" /\ c = fault.other /\ n[fault.cell] >= 0)
    BY <2>4, <2>6, <2>8
  <2> QED BY <2>7, <2>8
<1> QED BY <1>1, <1>2

LEMMA StoreTyped ==
  ASSUME Sound_, NEW m \in [Cells -> Int], NEW a, NEW v \in Int
  PROVE  Store(m, a, v) \in [Cells -> Int]
<1>1. CASE a \notin Cells
  BY <1>1 DEF Store
<1>2. CASE a \in Cells
  <2> DEFINE c == CellAt(a)
             x == IF fault.kind = "stuck" /\ c = fault.cell
                  THEN WithBit(v, fault.bit, fault.value) ELSE v
             n == [m EXCEPT ![c] = x]
  <2>1. c \in Cells
    BY <1>2, CellAtCell DEF Sound_
  <2>2. fault.bit \in Nat /\ fault.value \in Int
    BY FaultsAssumption, Sizes DEF Sound_, FaultInv
  <2>3. ASSUME NEW u \in Int, NEW y \in Int PROVE WithBit(u, fault.bit, y) \in Int
    <3>1. 2 ^ fault.bit \in Int /\ Bit(u, fault.bit) \in Int
      BY <2>2, PowerPositive, BitOf
    <3> QED BY <3>1 DEF WithBit
  <2>4. x \in Int
    BY <2>2, <2>3
  <2> HIDE DEF c, x
  <2>5. n \in [Cells -> Int]
    BY <2>1, <2>4
  <2> HIDE DEF n
  <2>6. Store(m, a, v) = IF fault.kind = "couple" /\ c = fault.other /\ n[fault.cell] >= 0
                         THEN [n EXCEPT ![fault.cell] = WithBit(n[fault.cell], fault.bit, Bit(v, fault.bit))]
                         ELSE n
    BY <1>2 DEF Store, c, x, n
  <2>7. CASE fault.kind = "couple"
    <3> DEFINE y == WithBit(n[fault.cell], fault.bit, Bit(v, fault.bit))
    <3>1. fault.cell \in Cells
      BY <2>7 DEF Sound_, FaultInv
    <3>2. y \in Int
      <4>1. n[fault.cell] \in Int /\ Bit(v, fault.bit) \in Int
        BY <2>2, <2>5, <3>1, BitOf
      <4> QED BY <2>3, <4>1
    <3>3. Store(m, a, v) = n \/ Store(m, a, v) = [n EXCEPT ![fault.cell] = y]
      BY <2>6
    <3> HIDE DEF y
    <3> QED BY <2>5, <3>2, <3>3
  <2>8. CASE fault.kind # "couple"
    BY <2>5, <2>6, <2>8
  <2> QED BY <2>7, <2>8
<1> QED BY <1>1, <1>2

LEMMA StateTyped ==
  ASSUME TypeInv
  PROVE  State \in States /\ Sound_
<1>1. mem \in [Cells -> Int]
  BY ContentInt DEF TypeInv
<1> QED BY <1>1 DEF TypeInv, State, States, Places, Sound_

LEMMA StateParts ==
  ASSUME NEW x \in States
  PROVE  /\ x.mem \in [Cells -> Int] /\ x.errs \subseteq Int
         /\ x.strays \subseteq Sweeps \X Int /\ x.rng \in Word \X Word
         /\ x.k \in Int /\ x.w \in Word /\ x.since \subseteq Nat
BY DEF States

(* Each change, part by part.                                              *)
LEMMA WriteIs ==
  ASSUME Sound_, NEW x \in States, NEW a, NEW v, a \in Int, v \in Int
  PROVE  /\ Write(x, a, v) \in States
         /\ Write(x, a, v).mem = Store(x.mem, a, v)
         /\ Write(x, a, v).errs = x.errs
         /\ Write(x, a, v).rng = x.rng
         /\ Write(x, a, v).k = x.k
         /\ Write(x, a, v).w = x.w
         /\ Write(x, a, v).since = {n + 1 : n \in x.since}
<1> DEFINE m == Store(x.mem, a, v)
           t == IF a \in DOMAIN mem THEN x.strays ELSE x.strays \cup {<<here.at, a>>}
           z == {n + 1 : n \in x.since}
<1>1. m \in [Cells -> Int]
  BY StoreTyped, StateParts
<1>2. t \subseteq Sweeps \X Int
  <2>1. here.at \in Sweeps
    BY DEF Sound_, Places
  <2>2. <<here.at, a>> \in Sweeps \X Int
    BY <2>1
  <2> QED BY <2>2, StateParts
<1>3. z \subseteq Nat
  BY StateParts
<1>4. Write(x, a, v) = [x EXCEPT !.mem = m, !.strays = t, !.since = z]
  BY DEF Write, States
<1> HIDE DEF m, t, z
<1>5. /\ Write(x, a, v) \in States
      /\ Write(x, a, v).mem = m /\ Write(x, a, v).errs = x.errs /\ Write(x, a, v).rng = x.rng
      /\ Write(x, a, v).k = x.k /\ Write(x, a, v).w = x.w /\ Write(x, a, v).since = z
  BY <1>1, <1>2, <1>3, <1>4 DEF States
<1> QED BY <1>5 DEF m, z

LEMMA WriteInside ==
  ASSUME Sound_, NEW x \in States, NEW a, NEW v, a \in Cells
  PROVE  Write(x, a, v).strays = x.strays
BY DEF Write, States, Sound_

LEMMA CheckIs ==
  ASSUME NEW x \in States, NEW a, NEW v, a \in Int
  PROVE  /\ Check(x, a, v) \in States
         /\ Check(x, a, v).mem = x.mem
         /\ Check(x, a, v).strays = x.strays
         /\ Check(x, a, v).rng = x.rng
         /\ Check(x, a, v).k = x.k
         /\ Check(x, a, v).w = x.w
         /\ Check(x, a, v).since \subseteq x.since \cup {0}
<1> DEFINE e == x.errs \cup {a}
           z == x.since \cup {0}
<1>1. e \subseteq Int /\ z \subseteq Nat
  BY StateParts
<1>2. Report(x, a) = [x EXCEPT !.errs = e, !.since = z]
  BY DEF Report, States
<1>3. x.since \subseteq z
  OBVIOUS
<1> HIDE DEF e
<1>4. /\ Report(x, a) \in States
      /\ Report(x, a).mem = x.mem /\ Report(x, a).strays = x.strays
      /\ Report(x, a).rng = x.rng /\ Report(x, a).k = x.k /\ Report(x, a).w = x.w
      /\ Report(x, a).since = z
  <2> HIDE DEF z
  <2> QED BY <1>1, <1>2 DEF States
<1> QED BY <1>3, <1>4 DEF Check

LEMMA CheckErrs ==
  ASSUME NEW x \in States, NEW a, NEW v, a \in Int
  PROVE  /\ Load(x.mem, a) = v => Check(x, a, v).errs = x.errs
         /\ Check(x, a, v).errs \subseteq x.errs \cup {a}
BY DEF Check, Report, States

LEMMA CheckWriteIs ==
  ASSUME Sound_, NEW x \in States, NEW a, NEW v, NEW n, a \in Int, n \in Int
  PROVE  /\ CheckWrite(x, a, v, n) \in States
         /\ CheckWrite(x, a, v, n).mem = Store(x.mem, a, n)
         /\ CheckWrite(x, a, v, n).rng = x.rng
         /\ CheckWrite(x, a, v, n).k = x.k
         /\ CheckWrite(x, a, v, n).w = x.w
<1> DEFINE y == Check(x, a, v)
<1>1. y \in States /\ y.mem = x.mem /\ y.rng = x.rng /\ y.k = x.k /\ y.w = x.w
  BY CheckIs
<1>2. CheckWrite(x, a, v, n) = Write(y, a, n)
  BY DEF CheckWrite
<1> HIDE DEF y
<1>3. /\ Write(y, a, n) \in States
      /\ Write(y, a, n).mem = Store(y.mem, a, n)
      /\ Write(y, a, n).rng = y.rng
      /\ Write(y, a, n).k = y.k
      /\ Write(y, a, n).w = y.w
  BY <1>1, WriteIs
<1> QED BY <1>1, <1>2, <1>3

LEMMA CheckWriteErrs ==
  ASSUME Sound_, NEW x \in States, NEW a, NEW v, NEW n, a \in Int, n \in Int
  PROVE  /\ Load(x.mem, a) = v => CheckWrite(x, a, v, n).errs = x.errs
         /\ CheckWrite(x, a, v, n).errs \subseteq x.errs \cup {a}
         /\ a \in Cells => CheckWrite(x, a, v, n).strays = x.strays
<1> DEFINE y == Check(x, a, v)
<1>1. y \in States /\ y.strays = x.strays
  BY CheckIs
<1>2. (Load(x.mem, a) = v => y.errs = x.errs) /\ y.errs \subseteq x.errs \cup {a}
  BY CheckErrs
<1>3. CheckWrite(x, a, v, n) = Write(y, a, n)
  BY DEF CheckWrite
<1> HIDE DEF y
<1>4. Write(y, a, n).errs = y.errs
  BY <1>1, WriteIs
<1>5. a \in Cells => Write(y, a, n).strays = y.strays
  BY <1>1, WriteInside
<1> QED BY <1>1, <1>2, <1>3, <1>4, <1>5

LEMMA TurnIs ==
  ASSUME NEW x \in States
  PROVE  /\ Turn(x) \in States /\ TurnBack(x) \in States /\ Count(x) \in States
         /\ Turn(x) = [x EXCEPT !.k = (x.k + 1) % Bits, !.w = Rol(x.w, 1)]
         /\ TurnBack(x) = [x EXCEPT !.k = (x.k - 1) % Bits, !.w = Ror(x.w, 1)]
         /\ Count(x) = [x EXCEPT !.k = IF x.k + 1 > MOD_SZ - 1 THEN 0 ELSE x.k + 1]
<1>1. x.k + 1 \in Int /\ x.k - 1 \in Int /\ x.w \in Word
  BY StateParts
<1>2. Rol(x.w, 1) \in Word /\ Ror(x.w, 1) \in Word
  BY <1>1, RolWord
<1>3. (x.k + 1) % Bits \in Int /\ (x.k - 1) % Bits \in Int
  BY <1>1, Remainders
<1>4. (IF x.k + 1 > MOD_SZ - 1 THEN 0 ELSE x.k + 1) \in Int
  BY <1>1
<1>5. /\ Turn(x) = [x EXCEPT !.k = (x.k + 1) % Bits, !.w = Rol(x.w, 1)]
      /\ TurnBack(x) = [x EXCEPT !.k = (x.k - 1) % Bits, !.w = Ror(x.w, 1)]
      /\ Count(x) = [x EXCEPT !.k = IF x.k + 1 > MOD_SZ - 1 THEN 0 ELSE x.k + 1]
  BY DEF Turn, TurnBack, Count, States
<1>6. Turn(x) \in States
  <2> DEFINE c == (x.k + 1) % Bits
             d == Rol(x.w, 1)
  <2>1. c \in Int /\ d \in Word /\ Turn(x) = [x EXCEPT !.k = c, !.w = d]
    BY <1>2, <1>3, <1>5
  <2> HIDE DEF c, d
  <2> QED BY <2>1 DEF States
<1>7. TurnBack(x) \in States
  <2> DEFINE c == (x.k - 1) % Bits
             d == Ror(x.w, 1)
  <2>1. c \in Int /\ d \in Word /\ TurnBack(x) = [x EXCEPT !.k = c, !.w = d]
    BY <1>2, <1>3, <1>5
  <2> HIDE DEF c, d
  <2> QED BY <2>1 DEF States
<1>8. Count(x) \in States
  <2> DEFINE c == IF x.k + 1 > MOD_SZ - 1 THEN 0 ELSE x.k + 1
  <2>1. c \in Int /\ Count(x) = [x EXCEPT !.k = c]
    BY <1>4, <1>5
  <2> HIDE DEF c
  <2> QED BY <2>1 DEF States
<1> QED BY <1>5, <1>6, <1>7, <1>8, Zenon

LEMMA DrawIs ==
  ASSUME NEW x \in States
  PROVE  /\ Draw(x) \in States /\ Draw(x) = [x EXCEPT !.rng = rand(x.rng)]
         /\ Drawn(Draw(x).rng) \in Word /\ Expected(Draw(x)) \in Word
         /\ Not(Expected(Draw(x))) \in Word
<1>1. x.rng \in Word \X Word
  BY StateParts
<1>2. rand(x.rng) \in Word \X Word
  BY <1>1, RandWords
<1>3. Draw(x) \in States /\ Draw(x) = [x EXCEPT !.rng = rand(x.rng)]
  BY <1>2 DEF Draw, States
<1>4. Drawn(Draw(x).rng) \in Word
  BY <1>2, <1>3, RandWords, StateParts
<1>5. Expected(Draw(x)) \in Word
  BY <1>4, NotWord DEF Expected
<1> QED BY <1>3, <1>4, <1>5, NotWord

-----------------------------------------------------------------------------
(* What a sweep visits keeps its types.                                    *)
Visited == {"own_write", "own_check", "inv_fill", "inv_up", "inv_down",
            "shift_fill", "shift_up", "shift_down", "mod_write", "mod_rest",
            "mod_check", "rand_fill", "rand_check", "block_fill",
            "block_check", "fade_fill", "fade_check"}

LEMMA VisitTyped ==
  ASSUME TypeInv, here.at \in Visited, NEW x \in States, NEW a \in Int
  PROVE  Visit(x, a) \in States
<1>1. Sound_
  BY StateTyped
<1>0. Word \subseteq Int
  BY Sizes DEF Word
<1>2. arg.p1 \in Int /\ arg.p2 \in Int
  BY <1>0 DEF TypeInv, InTest, Visited, Args
<1>3. here.w \in Int /\ x.w \in Int
  BY <1>0, StateParts DEF TypeInv, Places
<1>4. Not(x.w) \in Int
  BY <1>0, NotWord, StateParts
<1>5. CASE here.at = "own_write"
  BY <1>1, <1>5, WriteIs DEF Visit, At
<1>6. CASE here.at \in {"own_check", "mod_check", "fade_check", "block_check"}
  BY <1>1, <1>6, CheckIs DEF Visit, At
<1>7. CASE here.at \in {"inv_fill", "mod_write", "fade_fill"}
  BY <1>1, <1>2, <1>3, <1>7, WriteIs DEF Visit, At
<1>8. CASE here.at \in {"inv_up", "inv_down"}
  BY <1>1, <1>2, <1>8, CheckWriteIs DEF Visit, At
<1>9. CASE here.at = "shift_fill"
  <2>1. Write(x, a, x.w) \in States
    BY <1>1, <1>3, WriteIs
  <2> QED BY <1>9, <2>1, TurnIs DEF Visit, At
<1>10. CASE here.at = "shift_up"
  <2>1. CheckWrite(x, a, x.w, Not(x.w)) \in States
    BY <1>1, <1>4, CheckWriteIs
  <2> QED BY <1>10, <2>1, TurnIs DEF Visit, At
<1>11. CASE here.at = "shift_down"
  <2>1. CheckWrite(x, a, Not(x.w), x.w) \in States
    BY <1>1, <1>3, CheckWriteIs
  <2> QED BY <1>11, <2>1, TurnIs DEF Visit, At
<1>12. CASE here.at = "mod_rest"
  <2>1. (IF x.k # arg.off THEN Write(x, a, arg.p2) ELSE x) \in States
    BY <1>1, <1>2, WriteIs
  <2> QED BY <1>12, <2>1, TurnIs DEF Visit, At
<1>13. CASE here.at = "rand_fill"
  <2>1. Write(Draw(x), a, Drawn(Draw(x).rng)) \in States
    BY <1>0, <1>1, DrawIs, WriteIs
  <2> QED BY <1>13, <2>1 DEF Visit, At
<1>14. CASE here.at = "rand_check"
  <2>1. CheckWrite(Draw(x), a, Expected(Draw(x)), Not(Expected(Draw(x)))) \in States
    BY <1>0, <1>1, DrawIs, CheckWriteIs
  <2> QED BY <1>14, <2>1 DEF Visit, At
<1>15. CASE here.at = "block_fill"
  <2>1. a \div BlockWords \in Int /\ (here.p + a) % AddrWords \in Int
    <3>1. BlockWords \in Nat \ {0} /\ AddrWords \in Nat \ {0} /\ here.p + a \in Int
      BY WordsAssumption DEF TypeInv, Places
    <3>2. (here.p + a) % AddrWords \in Int
      BY <3>1
    <3>3. a \div BlockWords \in Int
      BY <3>1
    <3> QED BY <3>2, <3>3
  <2>2. BlockWord(a \div BlockWords, a % BlockWords) \in Word
    BY <2>1, BlockWords_
  <2> DEFINE y == BlockWord(a \div BlockWords, a % BlockWords)
             b == (here.p + a) % AddrWords
  <2>3. Visit(x, a) = Write(x, b, y)
    BY <1>15 DEF Visit, At
  <2>4. b \in Int /\ y \in Int
    BY <1>0, <2>1, <2>2
  <2> HIDE DEF b, y
  <2> QED BY <1>1, <2>3, <2>4, WriteIs
<1> QED BY <1>5, <1>6, <1>7, <1>8, <1>9, <1>10, <1>11, <1>12, <1>13, <1>14, <1>15
        DEF Visited
-----------------------------------------------------------------------------
(* A sweep is one visit after the other.                                   *)
Swept_(f, first, step, c) ==
  /\ f \in [0 .. c -> States] /\ f[0] = State /\ Sweep(first, step, c) = f[c]
  /\ \A n \in 0 .. c - 1 : f[n + 1] = Visit(f[n], first + n * step)

LEMMA SweepSteps ==
  ASSUME TypeInv, here.at \in Visited, NEW first, NEW step, NEW c,
         first \in Int, step \in Int, c \in Nat
  PROVE  \E f : Swept_(f, first, step, c)
<1> DEFINE T == [z \in States \X (0 .. c - 1) |-> Visit(z[1], first + z[2] * step)]
           Solution(g) ==
             g = [n \in 0 .. c |->
                    IF n = 0 THEN State
                    ELSE CHOOSE t \in {Visit(x, first + (n - 1) * step) : x \in {g[n - 1]}} :
                           TRUE]
           v == CHOOSE g : Solution(g)
           P == {n \in Nat : n <= c => v[n] \in States}
<1>1. State \in States
  BY StateTyped
<1>2. T \in [States \X (0 .. c - 1) -> States]
  <2>1. ASSUME NEW z \in States \X (0 .. c - 1)
        PROVE  Visit(z[1], first + z[2] * step) \in States
    <3>1. z[1] \in States /\ first + z[2] * step \in Int
      OBVIOUS
    <3> QED BY <3>1, VisitTyped
  <2> QED BY <2>1
<1>3. \A x \in States, n \in 0 .. c - 1 : T[<<x, n>>] = Visit(x, first + n * step)
  OBVIOUS
<1> HIDE DEF T
<1>3a. Solvable(States, State, T, c)
  BY <1>1, <1>2, Recursion DEF Steps
<1>4. PICK f \in [0 .. c -> States] : SolvedTo(f, State, T, c)
  BY <1>3a DEF Solvable
<1>5. ASSUME NEW n \in 0 .. c - 1 PROVE f[n + 1] = Visit(f[n], first + n * step)
  <2>1. f[n] \in States
    OBVIOUS
  <2>2. f[n + 1] = T[<<f[n], n>>]
    BY <1>4 DEF SolvedTo
  <2> QED BY <1>3, <2>1, <2>2
<1>6. ASSUME NEW g, NEW n
      PROVE  (CHOOSE t \in {Visit(x, first + (n - 1) * step) : x \in {g[n - 1]}} : TRUE)
               = Visit(g[n - 1], first + (n - 1) * step)
  <2> DEFINE y == Visit(g[n - 1], first + (n - 1) * step)
  <2>1. {Visit(x, first + (n - 1) * step) : x \in {g[n - 1]}} = {y}
    OBVIOUS
  <2> HIDE DEF y
  <2>2. (CHOOSE t \in {y} : TRUE) = y
    OBVIOUS
  <2> QED BY <2>1, <2>2 DEF y
<1>7. Solution(f)
  <2>1. ASSUME NEW n \in 0 .. c
        PROVE  f[n] = IF n = 0 THEN State
                      ELSE CHOOSE t \in {Visit(x, first + (n - 1) * step) : x \in {f[n - 1]}} :
                             TRUE
    <3>1. CASE n = 0
      BY <1>4, <3>1 DEF SolvedTo
    <3>2. CASE n # 0
      <4>1. n - 1 \in 0 .. c - 1 /\ (n - 1) + 1 = n
        BY <3>2
      <4>2. f[n] = Visit(f[n - 1], first + (n - 1) * step)
        BY <1>5, <4>1
      <4> QED BY <1>6, <3>2, <4>2
    <3> QED BY <3>1, <3>2
  <2> QED BY <2>1
<1>8. Sweep(first, step, c) = v[c]
  BY DEF Sweep, Each
<1> HIDE DEF Solution
<1>9. Solution(v)
  BY <1>7
<1> HIDE DEF v
<1>10. /\ v = [n \in 0 .. c |-> v[n]]
       /\ \A n \in 0 .. c : v[n] = IF n = 0 THEN State
                                  ELSE Visit(v[n - 1], first + (n - 1) * step)
  BY <1>6, <1>9 DEF Solution
<1>11. \A n \in 0 .. c - 1 : v[n + 1] = Visit(v[n], first + n * step)
  <2>1. ASSUME NEW n \in 0 .. c - 1 PROVE v[n + 1] = Visit(v[n], first + n * step)
    <3>1. n + 1 \in 0 .. c /\ n + 1 # 0 /\ (n + 1) - 1 = n
      OBVIOUS
    <3> QED BY <1>10, <3>1
  <2> QED BY <2>1
<1>12. v[0] = State
  <2>1. 0 \in 0 .. c
    OBVIOUS
  <2> QED BY <1>10, <2>1, Zenon
<1>13. 0 \in P
  BY <1>1, <1>12
<1>14. ASSUME NEW n \in P PROVE n + 1 \in P
  <2> SUFFICES ASSUME n + 1 <= c PROVE v[n + 1] \in States
    OBVIOUS
  <2>1. n \in Nat /\ n \in 0 .. c - 1 /\ v[n] \in States /\ first + n * step \in Int
    OBVIOUS
  <2> HIDE DEF P
  <2> QED BY <1>11, <2>1, VisitTyped
<1>15. P = Nat
  <2>1. P \in SUBSET Nat
    OBVIOUS
  <2> HIDE DEF P
  <2> QED BY <1>13, <1>14, <2>1, Induction
<1>16. v \in [0 .. c -> States]
  <2>1. \A n \in 0 .. c : v[n] \in States
    BY <1>15
  <2> QED BY <1>10, <2>1
<1>17. Swept_(v, first, step, c)
  BY <1>8, <1>11, <1>12, <1>16 DEF Swept_
<1> QED BY <1>17
-----------------------------------------------------------------------------
(* What is written after a report.  Most sweeps only write, and report     *)
(* nothing, or only check; the others write a word at each visit.          *)
Writers == {"own_write", "inv_fill", "shift_fill", "mod_write", "mod_rest",
            "rand_fill", "block_fill", "fade_fill"}
Checkers == {"own_check", "mod_check", "block_check", "fade_check"}
Within(x, n) == /\ here.at \in Writers => x.since = {}
                /\ here.at \in Checkers => x.since \subseteq {0}
                /\ \A m \in x.since : m \in 0 .. n
Brief(x) == \A m \in x.since : m <= SPINSZ + 1

LEMMA CheckWriteSince ==
  ASSUME Sound_, NEW x \in States, NEW a \in Int, NEW v, NEW y \in Int, NEW n \in Nat,
         \A m \in x.since : m \in 0 .. n
  PROVE  \A m \in CheckWrite(x, a, v, y).since : m \in 0 .. n + 1
<1> DEFINE c == Check(x, a, v)
<1>1. c \in States /\ c.since \subseteq x.since \cup {0}
  BY CheckIs
<1>2. CheckWrite(x, a, v, y) = Write(c, a, y)
  BY DEF CheckWrite
<1> HIDE DEF c
<1>3. CheckWrite(x, a, v, y).since = {m + 1 : m \in c.since}
  BY <1>1, <1>2, WriteIs
<1>4. \A m \in c.since : m \in 0 .. n
  BY <1>1
<1> QED BY <1>3, <1>4

LEMMA TurnSince ==
  ASSUME NEW x \in States
  PROVE  /\ Turn(x).since = x.since /\ TurnBack(x).since = x.since
         /\ Count(x).since = x.since /\ Draw(x).since = x.since
BY DEF Turn, TurnBack, Count, Draw, States

LEMMA WriteNone ==
  ASSUME Sound_, NEW x \in States, NEW a \in Int, NEW v \in Int, x.since = {}
  PROVE  Write(x, a, v) \in States /\ Write(x, a, v).since = {}
BY WriteIs

LEMMA VisitSince ==
  ASSUME TypeInv, here.at \in Visited, NEW x \in States, NEW a \in Int, NEW n \in Nat,
         Within(x, n)
  PROVE  Within(Visit(x, a), n + 1)
<1>1. Sound_
  BY StateTyped
<1>0. Word \subseteq Int
  BY Sizes DEF Word
<1>2. arg.p1 \in Int /\ arg.p2 \in Int
  BY <1>0 DEF TypeInv, InTest, Visited, Args
<1>3. here.w \in Int /\ x.w \in Int
  BY <1>0, StateParts DEF TypeInv, Places
<1>4. Not(x.w) \in Int
  BY <1>0, NotWord, StateParts
<1>5. \A m \in x.since : m \in 0 .. n
  BY DEF Within
<1>6. CASE here.at \in Writers
  <2>1. x.since = {} /\ here.at \notin Checkers
    BY <1>6 DEF Within, Writers, Checkers
  <2> SUFFICES Visit(x, a).since = {}
    BY <2>1 DEF Within
  <2>2. CASE here.at \in {"own_write", "inv_fill", "mod_write", "fade_fill"}
    BY <1>1, <1>2, <1>3, <2>1, <2>2, WriteNone DEF Visit, At
  <2>3. CASE here.at = "shift_fill"
    <3>1. Write(x, a, x.w) \in States /\ Write(x, a, x.w).since = {}
      BY <1>1, <1>3, <2>1, WriteNone
    <3> QED BY <2>3, <3>1, TurnSince DEF Visit, At
  <2>4. CASE here.at = "mod_rest"
    <3> DEFINE y == IF x.k # arg.off THEN Write(x, a, arg.p2) ELSE x
    <3>1. y \in States /\ y.since = {}
      BY <1>1, <1>2, <2>1, WriteNone
    <3>2. Visit(x, a) = Count(y)
      BY <2>4 DEF Visit, At
    <3> HIDE DEF y
    <3> QED BY <3>1, <3>2, TurnSince
  <2>5. CASE here.at = "rand_fill"
    <3> DEFINE d == Draw(x)
               y == Drawn(d.rng)
    <3>1. d \in States /\ y \in Int /\ d.since = {}
      BY <1>0, <2>1, DrawIs, TurnSince
    <3>2. Visit(x, a) = Write(d, a, y)
      BY <2>5 DEF Visit, At
    <3> HIDE DEF d, y
    <3> QED BY <1>1, <3>1, <3>2, WriteNone
  <2>6. CASE here.at = "block_fill"
    <3> DEFINE y == BlockWord(a \div BlockWords, a % BlockWords)
               b == (here.p + a) % AddrWords
    <3>1. BlockWords \in Nat \ {0} /\ AddrWords \in Nat \ {0} /\ here.p + a \in Int
      BY WordsAssumption DEF TypeInv, Places
    <3>2. b \in Int
      BY <3>1
    <3>3. a \div BlockWords \in Int
      BY <3>1
    <3>4. y \in Int
      BY <1>0, <3>3, BlockWords_
    <3>5. Visit(x, a) = Write(x, b, y)
      BY <2>6 DEF Visit, At
    <3> HIDE DEF b, y
    <3> QED BY <1>1, <2>1, <3>2, <3>4, <3>5, WriteNone
  <2> QED BY <1>6, <2>2, <2>3, <2>4, <2>5, <2>6 DEF Writers
<1>7. CASE here.at \in Checkers
  <2>1. x.since \subseteq {0} /\ here.at \notin Writers
    BY <1>7 DEF Within, Writers, Checkers
  <2>2. Visit(x, a).since \subseteq x.since \cup {0}
    BY <1>7, CheckIs DEF Visit, At, Checkers
  <2> QED BY <2>1, <2>2 DEF Within
<1>8. CASE here.at \in Visited \ (Writers \cup Checkers)
  <2> SUFFICES \A m \in Visit(x, a).since : m \in 0 .. n + 1
    BY <1>8 DEF Within
  <2>1. CASE here.at \in {"inv_up", "inv_down"}
    BY <1>1, <1>2, <1>5, <2>1, CheckWriteSince DEF Visit, At
  <2>2. CASE here.at = "shift_up"
    <3> DEFINE y == CheckWrite(x, a, x.w, Not(x.w))
    <3>1. y \in States /\ \A m \in y.since : m \in 0 .. n + 1
      BY <1>1, <1>4, <1>5, CheckWriteSince, CheckWriteIs
    <3>2. Visit(x, a) = Turn(y)
      BY <2>2 DEF Visit, At
    <3> HIDE DEF y
    <3> QED BY <3>1, <3>2, TurnSince
  <2>3. CASE here.at = "shift_down"
    <3> DEFINE y == CheckWrite(x, a, Not(x.w), x.w)
    <3>1. y \in States /\ \A m \in y.since : m \in 0 .. n + 1
      BY <1>1, <1>3, <1>5, CheckWriteSince, CheckWriteIs
    <3>2. Visit(x, a) = TurnBack(y)
      BY <2>3 DEF Visit, At
    <3> HIDE DEF y
    <3> QED BY <3>1, <3>2, TurnSince
  <2>4. CASE here.at = "rand_check"
    <3> DEFINE d == Draw(x)
               e == Expected(d)
    <3>1. d \in States /\ Not(e) \in Int /\ d.since = x.since
      BY <1>0, DrawIs, TurnSince
    <3>2. Visit(x, a) = CheckWrite(d, a, e, Not(e))
      BY <2>4 DEF Visit, At
    <3> HIDE DEF d, e
    <3> QED BY <1>1, <1>5, <3>1, <3>2, CheckWriteSince
  <2> QED BY <1>8, <2>1, <2>2, <2>3, <2>4 DEF Visited, Writers, Checkers
<1> QED BY <1>6, <1>7, <1>8

LEMMA SweepSince ==
  ASSUME TypeInv, here.at \in Visited, NEW first \in Int, NEW step \in Int, NEW c \in Nat
  PROVE  Within(Sweep(first, step, c), c)
<1>0. PICK f : Swept_(f, first, step, c)
  BY SweepSteps
<1>1. /\ f \in [0 .. c -> States] /\ f[0] = State /\ Sweep(first, step, c) = f[c]
      /\ \A n \in 0 .. c - 1 : f[n + 1] = Visit(f[n], first + n * step)
  BY <1>0 DEF Swept_
<1> DEFINE P == {n \in Nat : n <= c => Within(f[n], n)}
<1>2. 0 \in P
  BY <1>1 DEF State, Within
<1>3. ASSUME NEW n \in P PROVE n + 1 \in P
  <2> SUFFICES ASSUME n + 1 <= c PROVE Within(f[n + 1], n + 1)
    OBVIOUS
  <2> DEFINE a == first + n * step
  <2>1. n \in Nat /\ n \in 0 .. c - 1 /\ Within(f[n], n)
    OBVIOUS
  <2>2. a \in Int /\ f[n] \in States /\ f[n + 1] = Visit(f[n], a)
    BY <1>1, <2>1
  <2> HIDE DEF a, P
  <2> QED BY <2>1, <2>2, VisitSince
<1>4. P = Nat
  <2>1. P \in SUBSET Nat
    OBVIOUS
  <2> HIDE DEF P
  <2> QED BY <1>2, <1>3, <2>1, Induction
<1> QED BY <1>1, <1>4

(* No more words are written after a report than a chunk has.              *)
LEMMA SweepBrief ==
  ASSUME TypeInv, here.at \in Visited, NEW first \in Int, NEW step \in Int, NEW c \in Nat,
         here.at \in Writers \cup Checkers \/ c <= SPINSZ + 1
  PROVE  Brief(Sweep(first, step, c))
<1>1. Within(Sweep(first, step, c), c)
  BY SweepSince
<1>2. SPINSZ \in Nat
  BY WordsAssumption
<1> QED BY <1>1, <1>2 DEF Within, Brief

-----------------------------------------------------------------------------
(* What the tests know of the memory: the words of sound memory and those  *)
(* of the fault.  What is left to the caller: seeds that rand_seed() takes *)
(* (random.c:27), and a first segment in which the address test can begin  *)
(* (test.c:48).                                                            *)
Addresses == 0 .. AddrWords - 1
Broken    == IF fault.kind = "none" THEN {} ELSE {fault.cell, fault.other}
Healthy   == Cells \ Broken
Seeded    == \A s \in Seeds : s[1] # 0 /\ s[2] # 0
WalksFrom(m) == roundup(m[1].start, AlignWords) \in CellsOf(m)

LEMMA LoadHealthy ==
  ASSUME Sound_, NEW m, DOMAIN m = Cells, NEW a, a \in Healthy
  PROVE  Load(m, a) = m[a]
BY DEF Load, Healthy, Broken, CellAt

(* A word of sound memory changes only by its own address.                 *)
LEMMA StoreHealthy ==
  ASSUME Sound_, NEW m \in [Cells -> Int], NEW a, NEW v, v \in Int, NEW b, b \in Healthy
  PROVE  Store(m, a, v)[b] = IF b = a THEN v ELSE m[b]
<1>1. CASE a \notin Cells
  BY <1>1 DEF Store, Healthy
<1>2. CASE a \in Cells
  <2> DEFINE c == CellAt(a)
             x == IF fault.kind = "stuck" /\ c = fault.cell
                  THEN WithBit(v, fault.bit, fault.value) ELSE v
             n == [m EXCEPT ![c] = x]
  <2>1. c \in Cells
    BY <1>2, CellAtCell DEF Sound_
  <2>2. b \in Cells /\ (fault.kind # "none" => b # fault.cell /\ b # fault.other)
    BY DEF Healthy, Broken
  <2>3. c = b <=> a = b
    BY <2>2 DEF CellAt
  <2>4. a = b => x = v
    BY <2>2, <2>3
  <2>5. n[b] = IF b = a THEN v ELSE m[b]
    <3> HIDE DEF c, x
    <3> QED BY <2>1, <2>2, <2>3, <2>4
  <2>6. \/ Store(m, a, v) = n
        \/ /\ fault.kind = "couple"
           /\ Store(m, a, v) = [n EXCEPT ![fault.cell] = WithBit(n[fault.cell], fault.bit, Bit(v, fault.bit))]
    BY <1>2 DEF Store
  <2>10. n \in [Cells -> Int]
    <3>1. x \in Int
      <4>1. fault.bit \in Nat /\ fault.value \in Int
        BY FaultsAssumption, Sizes DEF Sound_, FaultInv
      <4>2. 2 ^ fault.bit \in Int /\ Bit(v, fault.bit) \in Int
        BY <4>1, PowerPositive, BitOf
      <4> QED BY <4>1, <4>2 DEF WithBit
    <3> HIDE DEF c, x
    <3> QED BY <2>1, <3>1
  <2> DEFINE y == WithBit(n[fault.cell], fault.bit, Bit(v, fault.bit))
  <2>11. \/ Store(m, a, v) = n
         \/ fault.kind = "couple" /\ Store(m, a, v) = [n EXCEPT ![fault.cell] = y]
    BY <2>6
  <2> HIDE DEF n, y
  <2>12. fault.kind = "couple" => [n EXCEPT ![fault.cell] = y][b] = n[b]
    BY <2>2, <2>10
  <2>7. Store(m, a, v)[b] = n[b]
    BY <2>11, <2>12
  <2> QED BY <2>5, <2>7
<1> QED BY <1>1, <1>2
-----------------------------------------------------------------------------
(* Remainders of sums.                                                     *)
LEMMA Divides ==
  ASSUME NEW x \in Int, NEW c \in Nat \ {0}
  PROVE  \E q \in Int, r \in 0 .. c - 1 : r = x % c /\ x = q * c + r
<1> DEFINE q == x \div c
           r == x % c
<1>1. q \in Int /\ r \in 0 .. c - 1 /\ x = c * q + r
  OBVIOUS
<1> QED BY <1>1

LEMMA OneRemainder ==
  ASSUME NEW c, NEW q, NEW r, NEW x, c \in Nat \ {0}, q \in Int, r \in 0 .. c - 1,
         x \in Int, x = q * c + r
  PROVE  x % c = r
<1>1. PICK u \in Int, v \in 0 .. c - 1 : v = x % c /\ x = u * c + v
  BY Divides
<1>2. (q - u) * c = v - r /\ v - r < c /\ v - r > -c
  BY <1>1, SMTT(30)
<1>3. ASSUME q - u >= 1 PROVE FALSE
  <2>1. (q - u) * c >= c
    <3>1. q - u - 1 \in Nat
      BY <1>3
    <3>2. (q - u - 1) * c >= 0
      BY <3>1, SMTT(30)
    <3> QED BY <3>2, SMTT(30)
  <2> QED BY <1>2, <2>1
<1>4. ASSUME u - q >= 1 PROVE FALSE
  <2>1. (u - q) * c >= c
    <3>1. u - q - 1 \in Nat
      BY <1>4
    <3>2. (u - q - 1) * c >= 0
      BY <3>1, SMTT(30)
    <3> QED BY <3>2, SMTT(30)
  <2>2. (u - q) * c = r - v
    BY <1>2, SMTT(30)
  <2> QED BY <1>2, <2>1, <2>2
<1>5. q = u
  BY <1>1, <1>3, <1>4
<1> QED BY <1>1, <1>2, <1>5

LEMMA RemainderSum ==
  ASSUME NEW c \in Nat \ {0}, NEW x \in Int, NEW y \in Int
  PROVE  /\ (x + y) % c = (x + (y % c)) % c
         /\ y % c = 0 => (x + y) % c = x % c /\ (x - y) % c = x % c
<1>1. PICK q \in Int, r \in 0 .. c - 1 : r = y % c /\ y = q * c + r
  BY Divides
<1>2. ASSUME NEW z \in Int, NEW n \in Int PROVE (z + n * c) % c = z % c
  <2>1. PICK u \in Int, v \in 0 .. c - 1 : v = z % c /\ z = u * c + v
    BY Divides
  <2>2. z + n * c = (u + n) * c + v
    BY <2>1, SMTT(30)
  <2> DEFINE w == z + n * c
             k == u + n
  <2>3. w \in Int /\ k \in Int /\ w = k * c + v
    BY <2>2
  <2> HIDE DEF w, k
  <2>4. w % c = v
    BY <2>1, <2>3, OneRemainder
  <2> QED BY <2>1, <2>4 DEF w
<1>3. x + y = (x + r) + q * c
  BY <1>1
<1>4. ((x + r) + q * c) % c = (x + r) % c
  <2>1. x + r \in Int
    BY <1>1
  <2> QED BY <1>1, <1>2, <2>1
<1>5. r = 0 => x - y = x + (-q) * c
  BY <1>1, SMTT(30)
<1>6. (x + (-q) * c) % c = x % c
  <2> DEFINE k == -q
  <2>1. k \in Int
    BY <1>1
  <2> HIDE DEF k
  <2>2. (x + k * c) % c = x % c
    BY <1>2, <2>1
  <2> QED BY <2>2 DEF k
<1>7. (x + y) % c = (x + (y % c)) % c
  <2>1. (x + y) % c = ((x + r) + q * c) % c
    BY <1>3, Zenon
  <2> QED BY <1>1, <1>4, <2>1, Zenon
<1>8. y % c = 0 => (x + y) % c = x % c /\ (x - y) % c = x % c
  <2>1. SUFFICES ASSUME y % c = 0 PROVE (x + y) % c = x % c /\ (x - y) % c = x % c
    OBVIOUS
  <2>2. r = 0 /\ x + r = x
    BY <1>1, <2>1
  <2>3. (x + y) % c = x % c
    <3>1. (x + y) % c = ((x + r) + q * c) % c
      BY <1>3, Zenon
    <3> QED BY <1>4, <2>2, <3>1, Zenon
  <2> QED BY <1>5, <1>6, <2>2, <2>3, Zenon
<1> QED BY <1>7, <1>8

-----------------------------------------------------------------------------
(* Chunks.  The last of a segment is the odd one.                          *)
Chunked(first, pe, end) ==
  \E m \in Nat : end - pe = m * SPINSZ + LastChunk(first, end)
ChunkedDown(first, pe, end) ==
  \E m \in Nat : pe - first = m * SPINSZ + LastChunk(first, end) - 1

LEMMA ChunkSize ==
  ASSUME NEW first, NEW end, first \in Nat, end \in Nat, first < end
  PROVE  /\ LastChunk(first, end) \in 0 .. SPINSZ - 1 /\ SPINSZ \in Nat \ {0}
         /\ Chunked(first, first, end) /\ ChunkedDown(first, end - 1, end)
<1>1. SPINSZ \in Nat \ {0}
  BY WordsAssumption
<1>2. end - first \in Nat
  OBVIOUS
<1>3. PICK q \in Nat, r \in 0 .. SPINSZ - 1 :
        q = (end - first) \div SPINSZ /\ r = (end - first) % SPINSZ /\ end - first = q * SPINSZ + r
  BY <1>1, <1>2, Division
<1>4. end - first = q * SPINSZ + LastChunk(first, end)
  BY <1>3 DEF LastChunk
<1>5. LastChunk(first, end) \in 0 .. SPINSZ - 1
  BY <1>3 DEF LastChunk
<1> HIDE DEF LastChunk
<1>6. (end - 1) - first = q * SPINSZ + LastChunk(first, end) - 1
  <2> DEFINE z == q * SPINSZ
  <2>1. z \in Nat
    BY <1>1
  <2>2. end - first = z + LastChunk(first, end)
    BY <1>4
  <2> HIDE DEF z
  <2>3. (end - 1) - first = z + LastChunk(first, end) - 1
    BY <1>5, <2>1, <2>2
  <2> QED BY <2>3 DEF z
<1> QED BY <1>1, <1>4, <1>5, <1>6 DEF Chunked, ChunkedDown

LEMMA NextChunk ==
  ASSUME NEW first, NEW pe, NEW end, first \in Nat, pe \in Nat, end \in Nat,
         first < end, end < AddrWords, LastChunk(first, end) >= 1, Chunked(first, pe, end)
  PROVE  /\ Limit(pe, end) \in Nat
         /\ pe < Limit(pe, end) /\ Limit(pe, end) <= end
         /\ Limit(pe, end) - pe >= LastChunk(first, end)
         /\ Limit(pe, end) < end => /\ Limit(pe, end) - pe = SPINSZ
                                    /\ Chunked(first, Limit(pe, end), end)
         /\ Limit(pe, end) = end => end - pe = LastChunk(first, end)
<1> DEFINE r == LastChunk(first, end)
<1>1. r \in 0 .. SPINSZ - 1 /\ SPINSZ \in Nat \ {0} /\ r >= 1
  BY ChunkSize
<1>2. AddrWords \in Nat /\ SPINSZ < AddrWords
  BY WordsAssumption
<1>3. PICK m \in Nat : end - pe = m * SPINSZ + r
  BY DEF Chunked
<1> DEFINE n == (pe + SPINSZ) % AddrWords
<1>4. Limit(pe, end) = IF n > pe /\ n < end THEN n ELSE end
  BY DEF Limit
<1>5. Chunked(first, pe + SPINSZ, end) <=> \E k \in Nat : end - (pe + SPINSZ) = k * SPINSZ + r
  BY DEF Chunked
<1> HIDE DEF r
<1>6. CASE m = 0
  <2>1. end - pe = r
    BY <1>1, <1>3, <1>6
  <2>2. pe + SPINSZ < AddrWords => n = pe + SPINSZ
    BY <1>1, <1>2
  <2>3. pe + SPINSZ >= AddrWords => n = pe + SPINSZ - AddrWords
    <3>1. SUFFICES ASSUME pe + SPINSZ >= AddrWords PROVE n = pe + SPINSZ - AddrWords
      OBVIOUS
    <3> DEFINE y == pe + SPINSZ
               z == pe + SPINSZ - AddrWords
               q == 1
    <3>2. z \in 0 .. AddrWords - 1 /\ y \in Int /\ y = q * AddrWords + z
          /\ AddrWords \in Nat \ {0} /\ q \in Int
      BY <1>1, <1>2, <2>1, <3>1
    <3> HIDE DEF y, z, q
    <3>3. y % AddrWords = z
      BY <3>2, OneRemainder
    <3>4. n = z
      BY <3>3, Zenon DEF y, n
    <3> QED BY <3>4, Zenon DEF z
  <2> HIDE DEF n
  <2>4. Limit(pe, end) = end
    BY <1>1, <1>2, <1>4, <2>1, <2>2, <2>3
  <2> QED BY <1>1, <2>1, <2>4 DEF r
<1>7. CASE m # 0
  <2>1. m - 1 \in Nat
    BY <1>7
  <2> DEFINE z == (m - 1) * SPINSZ
  <2>2. z \in Nat
    BY <1>1, <2>1
  <2>3. end - pe = z + SPINSZ + r
    BY <1>1, <1>3, SMTT(30)
  <2> HIDE DEF z
  <2>4. n = pe + SPINSZ
    BY <1>1, <1>2, <2>2, <2>3
  <2> HIDE DEF n
  <2>5. Limit(pe, end) = pe + SPINSZ /\ pe + SPINSZ < end
    BY <1>1, <1>4, <2>2, <2>3, <2>4
  <2>6. Chunked(first, pe + SPINSZ, end)
    <3>1. end - (pe + SPINSZ) = (m - 1) * SPINSZ + r
      <4>1. end - (pe + SPINSZ) = z + r
        BY <1>1, <2>2, <2>3
      <4> QED BY <4>1 DEF z
    <3> QED BY <1>5, <2>1, <3>1
  <2> QED BY <1>1, <2>5, <2>6 DEF r
<1> QED BY <1>6, <1>7

LEMMA NextDown ==
  ASSUME NEW first, NEW pe, NEW end, first \in Nat, pe \in Nat, end \in Nat,
         first < end, end < AddrWords, pe < end, LastChunk(first, end) >= 3,
         ChunkedDown(first, pe, end)
  PROVE  /\ LowLimit(pe, first) \in Nat
         /\ first <= LowLimit(pe, first) /\ LowLimit(pe, first) < pe - 1
         /\ LowLimit(pe, first) > first => ChunkedDown(first, LowLimit(pe, first), end)
         /\ pe - LowLimit(pe, first) <= SPINSZ
<1> DEFINE r == LastChunk(first, end)
<1>1. r \in 0 .. SPINSZ - 1 /\ SPINSZ \in Nat \ {0} /\ r >= 3
  BY ChunkSize
<1>2. AddrWords \in Nat /\ SPINSZ < AddrWords
  BY WordsAssumption
<1>3. PICK m \in Nat : pe - first = m * SPINSZ + r - 1
  BY DEF ChunkedDown
<1> DEFINE n == (pe - SPINSZ) % AddrWords
<1>4. LowLimit(pe, first) = IF n < pe /\ n > first THEN n ELSE first
  BY DEF LowLimit
<1>5. ChunkedDown(first, pe - SPINSZ, end)
        <=> \E k \in Nat : (pe - SPINSZ) - first = k * SPINSZ + r - 1
  BY DEF ChunkedDown
<1> HIDE DEF r
<1>6. CASE m = 0
  <2>1. pe - first = r - 1
    BY <1>1, <1>3, <1>6
  <2>2. pe - SPINSZ >= 0 => n = pe - SPINSZ
    BY <1>1, <1>2
  <2>3. pe - SPINSZ < 0 => n = pe - SPINSZ + AddrWords
    <3>1. SUFFICES ASSUME pe - SPINSZ < 0 PROVE n = pe - SPINSZ + AddrWords
      OBVIOUS
    <3> DEFINE y == pe - SPINSZ
               z == y + AddrWords
    <3>2. z \in 0 .. AddrWords - 1 /\ y \in Int /\ y = (-1) * AddrWords + z /\ AddrWords \in Nat \ {0}
      BY <1>1, <1>2, <3>1
    <3> HIDE DEF y, z
    <3>3. y % AddrWords = z
      BY <3>2, OneRemainder
    <3> QED BY <3>3 DEF y, z
  <2> HIDE DEF n
  <2>4. LowLimit(pe, first) = first
    BY <1>1, <1>2, <1>4, <2>1, <2>2, <2>3
  <2> QED BY <1>1, <2>1, <2>4 DEF r
<1>7. CASE m # 0
  <2>1. m - 1 \in Nat
    BY <1>7
  <2> DEFINE z == (m - 1) * SPINSZ
  <2>2. z \in Nat
    BY <1>1, <2>1
  <2>3. pe - first = z + SPINSZ + r - 1
    BY <1>1, <1>3, SMTT(30)
  <2> HIDE DEF z
  <2>4. n = pe - SPINSZ
    BY <1>1, <1>2, <2>2, <2>3
  <2> HIDE DEF n
  <2>5. LowLimit(pe, first) = pe - SPINSZ /\ pe - SPINSZ > first
    BY <1>1, <1>4, <2>2, <2>3, <2>4
  <2>6. ChunkedDown(first, pe - SPINSZ, end)
    <3>1. (pe - SPINSZ) - first = (m - 1) * SPINSZ + r - 1
      <4>1. (pe - SPINSZ) - first = z + r - 1
        BY <1>1, <2>2, <2>3
      <4> QED BY <4>1 DEF z
    <3> QED BY <1>5, <2>1, <3>1
  <2> QED BY <1>1, <2>5, <2>6
<1> QED BY <1>6, <1>7

(* Where the segments are.                                                 *)
LEMMA Ordered ==
  ASSUME map \in Maps, NEW i \in 1 .. segs, NEW j \in 1 .. segs, i < j
  PROVE  End(i) <= Start(j)
<1>1. /\ segs \in Nat \ {0}
      /\ \A n \in 1 .. segs : Start(n) \in Nat /\ End(n) \in Nat /\ Start(n) < End(n)
      /\ \A n \in 1 .. segs - 1 : End(n) <= Start(n + 1)
  BY MapFacts
<1> DEFINE P == {n \in Nat : i + 1 + n <= segs => End(i) <= Start(i + 1 + n)}
<1>2. 0 \in P
  BY <1>1
<1>3. ASSUME NEW n \in P PROVE n + 1 \in P
  <2> DEFINE k == i + 1 + n
  <2>1. SUFFICES ASSUME k + 1 <= segs PROVE End(i) <= Start(k + 1)
    OBVIOUS
  <2>2. k \in 1 .. segs - 1 /\ End(i) <= Start(k)
    BY <1>1, <2>1
  <2> HIDE DEF k
  <2>3. Start(k) < End(k) /\ End(k) <= Start(k + 1) /\ k + 1 \in 1 .. segs
    BY <1>1, <2>2
  <2> QED BY <1>1, <2>2, <2>3
<1>4. P = Nat
  <2>1. P \in SUBSET Nat
    OBVIOUS
  <2> HIDE DEF P
  <2> QED BY <1>2, <1>3, <2>1, Induction
<1> DEFINE d == j - i - 1
<1>5. d \in Nat /\ i + 1 + d = j
  OBVIOUS
<1>6. d \in P
  BY <1>4, <1>5
<1> HIDE DEF d
<1> QED BY <1>5, <1>6
-----------------------------------------------------------------------------
(* What is stored are words.                                               *)
LEMMA StoreWords ==
  ASSUME Sound_, NEW m, m \in [Cells -> Content], NEW a, a \in Cells, NEW v, v \in Word
  PROVE  /\ Store(m, a, v)[CellAt(a)] \in Word
         /\ \A d \in Cells : Store(m, a, v)[d] = m[d] \/ Store(m, a, v)[d] \in Word
<1> DEFINE c == CellAt(a)
           x == IF fault.kind = "stuck" /\ c = fault.cell
                THEN WithBit(v, fault.bit, fault.value) ELSE v
           n == [m EXCEPT ![c] = x]
           y == WithBit(n[fault.cell], fault.bit, Bit(v, fault.bit))
<1>1. c \in Cells
  BY CellAtCell DEF Sound_
<1>2. fault.bit \in 0 .. Bits - 1 /\ fault.value \in {0, 1}
  BY FaultsAssumption DEF Sound_, FaultInv
<1>3. x \in Word
  BY <1>2, BitChanged
<1>4. \/ Store(m, a, v) = n
      \/ /\ fault.kind = "couple" /\ n[fault.cell] >= 0
         /\ Store(m, a, v) = [n EXCEPT ![fault.cell] = y]
  BY DEF Store
<1>5. ASSUME NEW d \in Cells PROVE n[d] = m[d] \/ n[d] \in Word
  <2> HIDE DEF c, x
  <2> QED BY <1>1, <1>3
<1>6. n[c] \in Word /\ n \in [Cells -> Content]
  <2>1. x \in Content
    BY <1>3 DEF Content
  <2> HIDE DEF c, x
  <2> QED BY <1>1, <1>3, <2>1
<1>7. ASSUME fault.kind = "couple", n[fault.cell] >= 0
      PROVE  y \in Word /\ fault.cell \in Cells
  <2>1. fault.cell \in Cells
    BY <1>7 DEF Sound_, FaultInv
  <2> HIDE DEF n
  <2>2. n[fault.cell] \in Content
    BY <1>6, <2>1
  <2>3. \A b \in Cells : ~(Leftover(b) >= 0)
    <3>1. \A b \in Cells : b \in Nat
      BY CellFacts DEF Sound_
    <3> QED BY <3>1 DEF Leftover
  <2>4. n[fault.cell] \in Word
    BY <1>7, <2>2, <2>3 DEF Content
  <2>5. Bit(v, fault.bit) \in {0, 1}
    <3>1. v \in Int /\ fault.bit \in Nat
      BY <1>2, Sizes DEF Word
    <3> QED BY <3>1, BitOf
  <2> QED BY <1>2, <2>1, <2>4, <2>5, BitChanged
<1> HIDE DEF c, n, y
<1>8. CASE Store(m, a, v) = n
  BY <1>5, <1>6, <1>8 DEF c
<1>9. CASE /\ fault.kind = "couple" /\ n[fault.cell] >= 0
           /\ Store(m, a, v) = [n EXCEPT ![fault.cell] = y]
  <2>1. y \in Word /\ fault.cell \in Cells
    BY <1>7, <1>9
  <2>2. \A d \in Cells : Store(m, a, v)[d] = IF d = fault.cell THEN y ELSE n[d]
    BY <1>6, <1>9
  <2> QED BY <1>1, <1>5, <1>6, <2>1, <2>2 DEF c
<1> QED BY <1>4, <1>8, <1>9

LEMMA LoadStored ==
  ASSUME Sound_, NEW m, m \in [Cells -> Content], NEW a, a \in Cells, NEW v, v \in Word
  PROVE  /\ Load(Store(m, a, v), a) \in Word
         /\ \A b : Load(m, b) \in Word => Load(Store(m, a, v), b) \in Word
<1> DEFINE n == Store(m, a, v)
<1>1. n \in [Cells -> Content]
  BY StoreContent
<1>2. n[CellAt(a)] \in Word /\ \A d \in Cells : n[d] = m[d] \/ n[d] \in Word
  BY StoreWords
<1> HIDE DEF n
<1>3. Load(n, a) \in Word
  BY <1>1, <1>2 DEF Load
<1>4. ASSUME NEW b, Load(m, b) \in Word PROVE Load(n, b) \in Word
  <2>1. CASE b \in Cells
    <3>1. CellAt(b) \in Cells
      BY <2>1, CellAtCell DEF Sound_
    <3>2. Load(n, b) = n[CellAt(b)] /\ Load(m, b) = m[CellAt(b)]
      BY <1>1, <2>1 DEF Load
    <3> QED BY <1>2, <1>4, <3>1, <3>2
  <2>2. CASE b \notin Cells
    BY <1>1, <2>2, Sizes DEF Load
  <2> QED BY <2>1, <2>2
<1> QED BY <1>3, <1>4 DEF n

-----------------------------------------------------------------------------
(* The arguments of a function fit the test.                               *)
ArgInv ==
  call > 0 =>
    /\ arg \in Args /\ arg.p2 = Not(arg.p1)
    /\ pat = 2  => arg.off < Bits /\ arg.p1 = Rol(arg.lb, arg.off)
    /\ pat = 7  => arg.iter # 0
    /\ pat = 9  => arg.seeds \in Seeds
    /\ pat = 11 => arg.off < MOD_SZ

(* What a sweep keeps of the memory and of what is reported, whatever it   *)
(* finds: it writes words, and only in the segments.  The block move       *)
(* reports nothing.                                                        *)
Kept(x) ==
  /\ x \in States /\ x.mem \in [Cells -> Content]
  /\ x.errs \subseteq Addresses
  /\ x.strays = strays
  /\ here.at = "fade_check" => x.mem = mem
  /\ here.at = "block_move" => x.since = {}
Target(a) == IF here.at = "block_fill" THEN (here.p + a) % AddrWords ELSE a

LEMMA WriteKept ==
  ASSUME Sound_, NEW x, Kept(x), NEW a, a \in Cells, NEW v, v \in Word, here.at # "fade_check"
  PROVE  Kept(Write(x, a, v))
<1>1. x \in States /\ x.mem \in [Cells -> Content] /\ x.strays = strays /\ x.errs \subseteq Addresses
  BY DEF Kept
<1>2. a \in Int /\ v \in Int
  BY CellFacts, Sizes DEF Sound_, Word
<1>3. /\ Write(x, a, v) \in States
      /\ Write(x, a, v).mem = Store(x.mem, a, v)
      /\ Write(x, a, v).errs = x.errs
  BY <1>1, <1>2, WriteIs
<1>4. Write(x, a, v).strays = x.strays
  BY <1>1, WriteInside
<1>5. Store(x.mem, a, v) \in [Cells -> Content]
  BY <1>1, StoreContent
<1>6. here.at = "block_move" => Write(x, a, v).since = {}
  BY <1>1, <1>2, WriteNone DEF Kept
<1> HIDE DEF Kept
<1> QED BY <1>1, <1>3, <1>4, <1>5, <1>6 DEF Kept

LEMMA CheckKept ==
  ASSUME Sound_, NEW x, Kept(x), NEW a, a \in Cells, NEW v, here.at # "block_move"
  PROVE  Kept(Check(x, a, v))
<1>1. x \in States /\ x.mem \in [Cells -> Content] /\ x.strays = strays /\ x.errs \subseteq Addresses
      /\ (here.at = "fade_check" => x.mem = mem)
  BY DEF Kept
<1>2. a \in Int /\ a \in Addresses
  BY CellFacts, WordsAssumption DEF Sound_, Addresses
<1>3. /\ Check(x, a, v) \in States
      /\ Check(x, a, v).mem = x.mem
      /\ Check(x, a, v).strays = x.strays
  BY <1>1, <1>2, CheckIs
<1>4. Check(x, a, v).errs \subseteq x.errs \cup {a}
  BY <1>1, <1>2, CheckErrs
<1> QED BY <1>1, <1>2, <1>3, <1>4 DEF Kept

LEMMA CheckWriteKept ==
  ASSUME Sound_, NEW x, Kept(x), NEW a, a \in Cells, NEW v, NEW n, n \in Word,
         here.at \notin {"fade_check", "block_move"}
  PROVE  Kept(CheckWrite(x, a, v, n))
<1> DEFINE y == Check(x, a, v)
<1>1. Kept(y)
  BY CheckKept
<1>2. CheckWrite(x, a, v, n) = Write(y, a, n)
  BY DEF CheckWrite
<1> HIDE DEF y
<1> QED BY <1>1, <1>2, WriteKept

LEMMA TurnKept ==
  ASSUME NEW x, Kept(x)
  PROVE  Kept(Turn(x)) /\ Kept(TurnBack(x)) /\ Kept(Count(x)) /\ Kept(Draw(x))
<1>1. x \in States
  BY DEF Kept
<1>2. Turn(x) \in States /\ TurnBack(x) \in States /\ Count(x) \in States /\ Draw(x) \in States
  BY <1>1, TurnIs, DrawIs
<1>3. /\ Turn(x).mem = x.mem /\ Turn(x).errs = x.errs /\ Turn(x).strays = x.strays
      /\ TurnBack(x).mem = x.mem /\ TurnBack(x).errs = x.errs /\ TurnBack(x).strays = x.strays
      /\ Count(x).mem = x.mem /\ Count(x).errs = x.errs /\ Count(x).strays = x.strays
      /\ Draw(x).mem = x.mem /\ Draw(x).errs = x.errs /\ Draw(x).strays = x.strays
  BY <1>1 DEF Turn, TurnBack, Count, Draw, States
<1> QED BY <1>1, <1>2, <1>3, TurnSince DEF Kept

LEMMA VisitKept ==
  ASSUME TypeInv, ArgInv, here.at \in Visited, NEW x, Kept(x), NEW a, a \in Int, Target(a) \in Cells
  PROVE  Kept(Visit(x, a))
<1>1. Sound_ /\ x \in States
  BY StateTyped DEF Kept
<1>2. arg.p1 \in Word /\ arg.p2 \in Word
  BY DEF TypeInv, InTest, Visited, Args
<1>3. here.w \in Word /\ x.w \in Word
  BY <1>1, StateParts DEF TypeInv, Places
<1>4. Not(x.w) \in Word
  BY <1>3, NotWord
<1>5. here.at # "block_fill" => a \in Cells /\ a \in Word
  BY <1>1, CellFacts DEF Target, Sound_
<1>6. CASE here.at = "own_write"
  BY <1>1, <1>5, <1>6, WriteKept DEF Visit, At
<1>7. CASE here.at \in {"own_check", "mod_check", "fade_check", "block_check"}
  BY <1>1, <1>5, <1>7, CheckKept DEF Visit, At
<1>8. CASE here.at \in {"inv_fill", "mod_write", "fade_fill"}
  BY <1>1, <1>2, <1>3, <1>5, <1>8, WriteKept DEF Visit, At
<1>9. CASE here.at \in {"inv_up", "inv_down"}
  BY <1>1, <1>2, <1>5, <1>9, CheckWriteKept DEF Visit, At
<1>10. CASE here.at = "shift_fill"
  <2>1. Kept(Write(x, a, x.w))
    BY <1>1, <1>3, <1>5, <1>10, WriteKept
  <2> QED BY <1>10, <2>1, TurnKept DEF Visit, At
<1>11. CASE here.at = "shift_up"
  <2>1. Kept(CheckWrite(x, a, x.w, Not(x.w)))
    BY <1>1, <1>4, <1>5, <1>11, CheckWriteKept
  <2> QED BY <1>11, <2>1, TurnKept DEF Visit, At
<1>12. CASE here.at = "shift_down"
  <2>1. Kept(CheckWrite(x, a, Not(x.w), x.w))
    BY <1>1, <1>3, <1>5, <1>12, CheckWriteKept
  <2> QED BY <1>12, <2>1, TurnKept DEF Visit, At
<1>13. CASE here.at = "mod_rest"
  <2>1. Kept(IF x.k # arg.off THEN Write(x, a, arg.p2) ELSE x)
    BY <1>1, <1>2, <1>5, <1>13, WriteKept
  <2> QED BY <1>13, <2>1, TurnKept DEF Visit, At
<1>14. CASE here.at = "rand_fill"
  <2>1. Kept(Draw(x)) /\ Drawn(Draw(x).rng) \in Word
    BY <1>1, TurnKept, DrawIs
  <2>2. Kept(Write(Draw(x), a, Drawn(Draw(x).rng)))
    BY <1>1, <1>5, <1>14, <2>1, WriteKept
  <2> QED BY <1>14, <2>2 DEF Visit, At
<1>15. CASE here.at = "rand_check"
  <2>1. Kept(Draw(x)) /\ Not(Expected(Draw(x))) \in Word
    BY <1>1, TurnKept, DrawIs
  <2>2. Kept(CheckWrite(Draw(x), a, Expected(Draw(x)), Not(Expected(Draw(x)))))
    BY <1>1, <1>5, <1>15, <2>1, CheckWriteKept
  <2> QED BY <1>15, <2>2 DEF Visit, At
<1>16. CASE here.at = "block_fill"
  <2> DEFINE y == BlockWord(a \div BlockWords, a % BlockWords)
             b == (here.p + a) % AddrWords
  <2>1. a \div BlockWords \in Int
    <3>1. BlockWords \in Nat \ {0}
      BY WordsAssumption
    <3> QED BY <3>1
  <2>2. y \in Word
    BY <2>1, BlockWords_
  <2>3. Visit(x, a) = Write(x, b, y)
    BY <1>16 DEF Visit, At
  <2>4. b \in Cells
    BY <1>16 DEF Target
  <2> HIDE DEF b, y
  <2> QED BY <1>1, <1>16, <2>2, <2>3, <2>4, WriteKept
<1> QED BY <1>6, <1>7, <1>8, <1>9, <1>10, <1>11, <1>12, <1>13, <1>14, <1>15, <1>16
        DEF Visited

(* So does a whole sweep.                                                  *)
LEMMA StateKept ==
  ASSUME TypeInv, errs \subseteq Addresses
  PROVE  Kept(State)
<1>1. State \in States
  BY StateTyped
<1>2. State.mem = mem /\ State.errs = errs /\ State.strays = strays /\ State.since = {}
  BY DEF State
<1> QED BY <1>1, <1>2 DEF Kept, TypeInv

LEMMA SweepKept ==
  ASSUME TypeInv, ArgInv, errs \subseteq Addresses, here.at \in Visited,
         NEW first, NEW step, NEW c, first \in Int, step \in Int, c \in Nat,
         \A n \in 0 .. c - 1 : Target(first + n * step) \in Cells
  PROVE  Kept(Sweep(first, step, c))
<1>0. PICK f : Swept_(f, first, step, c)
  BY SweepSteps
<1>1. /\ f[0] = State /\ Sweep(first, step, c) = f[c]
      /\ \A n \in 0 .. c - 1 : f[n + 1] = Visit(f[n], first + n * step)
  BY <1>0 DEF Swept_
<1> DEFINE P == {n \in Nat : n <= c => Kept(f[n])}
<1>2. 0 \in P
  BY <1>1, StateKept
<1>3. ASSUME NEW n \in P PROVE n + 1 \in P
  <2> SUFFICES ASSUME n + 1 <= c PROVE Kept(f[n + 1])
    OBVIOUS
  <2> DEFINE a == first + n * step
  <2>1. n \in Nat /\ n \in 0 .. c - 1 /\ Kept(f[n])
    OBVIOUS
  <2>2. a \in Int /\ f[n + 1] = Visit(f[n], a)
    BY <1>1, <2>1
  <2>3. Target(a) \in Cells
    BY <2>1
  <2> HIDE DEF a, P
  <2> QED BY <2>1, <2>2, <2>3, VisitKept
<1>4. P = Nat
  <2>1. P \in SUBSET Nat
    OBVIOUS
  <2> HIDE DEF P
  <2> QED BY <1>2, <1>3, <2>1, Induction
<1> QED BY <1>1, <1>4
-----------------------------------------------------------------------------
(* Where the functions may be.                                             *)
Ups == {"own_write", "own_check", "inv_fill", "inv_up", "shift_fill", "shift_up",
        "mod_rest", "rand_fill", "rand_check"}
Strides == {"mod_write", "mod_check"}
Downs == {"inv_down", "shift_down"}
BlockSweeps == {"block_fill", "block_move", "block_check"}
TestsOf(sweep) ==
  CASE sweep \in {"own_write", "own_check"} -> {6}
    [] sweep \in {"inv_fill", "inv_up", "inv_down"} -> {0, 1, 10}
    [] sweep \in {"shift_fill", "shift_up", "shift_down"} -> {2}
    [] sweep \in {"mod_write", "mod_rest", "mod_check"} -> {11}
    [] sweep \in {"rand_seed", "rand_fill", "rand_check"} -> {9}
    [] sweep \in BlockSweeps -> {7}
    [] sweep \in {"fade_fill", "fade_sleep", "fade_check"} -> {8}
    [] sweep \in {"walk_global", "walk_banks"} -> {5}
    [] OTHER -> Pats

PlaceInv(h) ==
  /\ h \in Places /\ h.j \in 1 .. segs /\ pat \in TestsOf(h.at)
  /\ h.at \in Ups => /\ h.p = h.pe /\ Start(h.j) <= h.pe
                     /\ Chunked(Start(h.j), h.pe, End(h.j))
  /\ h.at \in Strides => /\ h.pe <= h.p /\ h.p < h.pe + MOD_SZ /\ Start(h.j) <= h.pe
                         /\ Chunked(Start(h.j), h.pe, End(h.j))
  /\ h.at \in Downs => /\ h.p \in {h.pe, h.pe - 1} /\ Start(h.j) <= h.pe /\ h.pe < End(h.j)
                       /\ ChunkedDown(Start(h.j), h.pe, End(h.j))
  /\ h.at \in BlockSweeps => /\ h.p = h.pe /\ BlockStart(h.j) <= h.pe
                             /\ Chunked(BlockStart(h.j), h.pe, End(h.j))

LEMMA SegmentCells ==
  ASSUME map \in Maps, NEW j, j \in 1 .. segs, NEW a, a \in Int, Start(j) <= a, a < End(j)
  PROVE  a \in Cells
BY MapFacts

(* What a segment has room for.                                            *)
LEMMA Rooms ==
  ASSUME map \in Maps, NEW j, j \in 1 .. segs
  PROVE  /\ Start(j) \in Nat /\ End(j) \in Nat /\ Start(j) < End(j) /\ End(j) < AddrWords
         /\ LastChunk(Start(j), End(j)) > MOD_SZ /\ LastChunk(Start(j), End(j)) >= 4
         /\ BlockStart(j) \in Nat /\ Start(j) <= BlockStart(j) /\ BlockStart(j) < End(j)
         /\ BlockRoom(LastChunk(BlockStart(j), End(j)))
         /\ LastChunk(BlockStart(j), End(j)) >= 4
<1>1. /\ Start(j) \in Nat /\ End(j) \in Nat /\ Start(j) < End(j) /\ End(j) < AddrWords
      /\ Trimmed(map[j])
  BY MapFacts
<1>2. /\ LastChunk(Start(j), End(j)) > MOD_SZ
      /\ BlockRoom(LastChunk(Start(j), End(j))) /\ End(j) > USB_WAR
      /\ Start(j) < USB_WAR => BlockRoom(LastChunk(USB_WAR, End(j)))
  BY <1>1 DEF Trimmed, Start, End
<1>3. BlockWords \in Nat /\ BlockWords >= 4 /\ USB_WAR \in Nat
  <2>1. BlockWords \in Nat \ {0} /\ BlockWords % 4 = 0 /\ USB_WAR \in Nat
    BY WordsAssumption
  <2> QED BY <2>1
<1>4. /\ BlockStart(j) \in Nat /\ Start(j) <= BlockStart(j) /\ BlockStart(j) < End(j)
      /\ BlockRoom(LastChunk(BlockStart(j), End(j)))
  BY <1>1, <1>2, <1>3 DEF BlockStart
<1>5. LastChunk(Start(j), End(j)) \in Nat /\ LastChunk(BlockStart(j), End(j)) \in Nat
  BY <1>1, <1>4, ChunkSize
<1>6. LastChunk(Start(j), End(j)) >= 4 /\ LastChunk(BlockStart(j), End(j)) >= 4
  BY <1>2, <1>3, <1>4, <1>5 DEF BlockRoom
<1> QED BY <1>1, <1>2, <1>4, <1>6

LEMMA UpPlace ==
  ASSUME map \in Maps, NEW sweep \in Ups, pat \in TestsOf(sweep), NEW i, NEW j, NEW k, NEW w,
         i \in Nat, j \in 1 .. segs, k \in Int, w \in Word
  PROVE  PlaceInv(Up(sweep, i, j, k, w))
<1> DEFINE h == Up(sweep, i, j, k, w)
<1>1. Start(j) \in Nat /\ End(j) \in Nat /\ Start(j) < End(j)
  BY Rooms
<1>2. Chunked(Start(j), Start(j), End(j))
  BY <1>1, ChunkSize
<1>3. /\ h.at = sweep /\ h.i = i /\ h.j = j /\ h.p = Start(j) /\ h.pe = Start(j)
      /\ h \in Places
  BY <1>1 DEF Up, Place, Places, Ups, Sweeps
<1> HIDE DEF h
<1>9. h.at \in Ups /\ h.at \notin Strides /\ h.at \notin Downs /\ h.at \notin BlockSweeps
  BY <1>3 DEF Ups, Strides, Downs, BlockSweeps
<1>10. h.j \in 1 .. segs /\ pat \in TestsOf(h.at)
  BY <1>3
<1>11. PlaceInv(h)
  BY <1>1, <1>2, <1>3, <1>9, <1>10 DEF PlaceInv
<1> QED BY <1>11 DEF h

LEMMA StridePlace ==
  ASSUME map \in Maps, NEW sweep \in Strides, pat = 11, NEW off, off \in Nat, off < MOD_SZ,
         NEW j, j \in 1 .. segs
  PROVE  PlaceInv(Place(sweep, 0, j, Start(j) + off, Start(j), 0, 0))
<1> DEFINE h == Place(sweep, 0, j, Start(j) + off, Start(j), 0, 0)
<1>1. Start(j) \in Nat /\ End(j) \in Nat /\ Start(j) < End(j)
  BY Rooms
<1>2. Chunked(Start(j), Start(j), End(j))
  BY <1>1, ChunkSize
<1>3. /\ h.at = sweep /\ h.j = j /\ h.p = Start(j) + off /\ h.pe = Start(j)
      /\ h \in Places
  <2>1. 0 \in Word /\ j \in Nat /\ sweep \in Sweeps
    BY Sizes DEF Strides, Sweeps
  <2>2. Start(j) + off \in Int
    BY <1>1
  <2> QED BY <1>1, <2>1, <2>2 DEF Place, Places
<1>4. pat \in TestsOf(sweep)
  BY DEF Strides, TestsOf, BlockSweeps
<1> HIDE DEF h
<1>9. h.at \notin Ups /\ h.at \in Strides /\ h.at \notin Downs /\ h.at \notin BlockSweeps
  BY <1>3 DEF Ups, Strides, Downs, BlockSweeps
<1>10. h.j \in 1 .. segs /\ pat \in TestsOf(h.at)
  BY <1>3, <1>4
<1>11. PlaceInv(h)
  BY <1>1, <1>2, <1>3, <1>9, <1>10, WordsAssumption DEF PlaceInv
<1> QED BY <1>11 DEF h

LEMMA EveryPlace ==
  ASSUME map \in Maps, NEW sweep \in Strides, pat = 11, arg \in Args, arg.off < MOD_SZ,
         NEW j, j \in 1 .. segs
  PROVE  PlaceInv(Every(sweep, j))
<1>1. arg.off \in Nat
  BY DEF Args
<1> QED BY <1>1, StridePlace DEF Every

LEMMA DownPlace ==
  ASSUME map \in Maps, NEW sweep \in Downs, pat \in TestsOf(sweep), NEW i, NEW j, NEW k, NEW w,
         i \in Nat, j \in 1 .. segs, k \in Int, w \in Word
  PROVE  PlaceInv(Down(sweep, i, j, k, w))
<1> DEFINE h == Down(sweep, i, j, k, w)
<1>1. Start(j) \in Nat /\ End(j) \in Nat /\ Start(j) < End(j)
  BY Rooms
<1>2. ChunkedDown(Start(j), End(j) - 1, End(j))
  BY <1>1, ChunkSize
<1>3. /\ h.at = sweep /\ h.i = i /\ h.j = j /\ h.p = End(j) - 1 /\ h.pe = End(j) - 1
      /\ h \in Places
  BY <1>1 DEF Down, Place, Places, Downs, Sweeps
<1> HIDE DEF h
<1>9. h.at \notin Ups /\ h.at \notin Strides /\ h.at \in Downs /\ h.at \notin BlockSweeps
  BY <1>3 DEF Ups, Strides, Downs, BlockSweeps
<1>10. h.j \in 1 .. segs /\ pat \in TestsOf(h.at)
  BY <1>3
<1>11. PlaceInv(h)
  BY <1>1, <1>2, <1>3, <1>9, <1>10 DEF PlaceInv
<1> QED BY <1>11 DEF h

LEMMA BlockPlace ==
  ASSUME map \in Maps, NEW sweep \in BlockSweeps, pat = 7, NEW j, j \in 1 .. segs
  PROVE  PlaceInv(BlockUp(sweep, j))
<1> DEFINE h == BlockUp(sweep, j)
<1>1. BlockStart(j) \in Nat /\ End(j) \in Nat /\ BlockStart(j) < End(j)
  BY Rooms
<1>2. Chunked(BlockStart(j), BlockStart(j), End(j))
  BY <1>1, ChunkSize
<1>3. /\ h.at = sweep /\ h.j = j /\ h.p = BlockStart(j) /\ h.pe = BlockStart(j)
      /\ h \in Places
  BY <1>1, Sizes DEF BlockUp, Place, Places, BlockSweeps, Sweeps
<1>4. pat \in TestsOf(sweep)
  BY DEF BlockSweeps, TestsOf
<1> HIDE DEF h
<1>9. h.at \notin Ups /\ h.at \notin Strides /\ h.at \notin Downs /\ h.at \in BlockSweeps
  BY <1>3 DEF Ups, Strides, Downs, BlockSweeps
<1>10. h.j \in 1 .. segs /\ pat \in TestsOf(h.at)
  BY <1>3, <1>4
<1>11. PlaceInv(h)
  BY <1>1, <1>2, <1>3, <1>9, <1>10 DEF PlaceInv
<1> QED BY <1>11 DEF h

Others == {"call", "over", "rand_seed", "fade_fill", "fade_sleep", "fade_check",
           "walk_global", "walk_banks"}
LEMMA OtherPlace ==
  ASSUME NEW h, h \in Places, h.j \in 1 .. segs, h.at \in Others, pat \in TestsOf(h.at)
  PROVE  PlaceInv(h)
BY DEF PlaceInv, Others, Ups, Strides, Downs, BlockSweeps

LEMMA EndPlaces ==
  ASSUME map \in Maps, pat \in Pats
  PROVE  /\ PlaceInv(Return) /\ Return.at = "call"
         /\ PlaceInv(Over) /\ Over.at = "over"
<1>1. /\ Return \in Places /\ Return.j = 1 /\ Return.at = "call"
      /\ Over \in Places /\ Over.j = 1 /\ Over.at = "over"
  BY Sizes DEF Return, Over, Place, Places, Sweeps
<1>2. 1 \in 1 .. segs
  BY MapFacts
<1>3. pat \in TestsOf("call") /\ pat \in TestsOf("over")
  BY DEF TestsOf, BlockSweeps
<1> QED BY <1>1, <1>2, <1>3, OtherPlace DEF Others

-----------------------------------------------------------------------------
(* The words of a chunk are in its segment.                                *)
Lim == Limit(here.pe, End(here.j))
LowLim == LowLimit(here.pe, Start(here.j))

LEMMA UpChunk ==
  ASSUME TypeInv, PlaceInv(here), here.at \in Ups
  PROVE  /\ Lim \in Nat /\ here.p \in Nat /\ Start(here.j) <= here.p
         /\ here.p < Lim /\ Lim <= End(here.j)
         /\ Visits(here.p, Lim, 1) = Lim - here.p
         /\ \A n \in 0 .. (Lim - here.p) - 1 : here.p + n * 1 \in Cells
         /\ Lim < End(here.j) => Chunked(Start(here.j), Lim, End(here.j))
         /\ Lim - here.p <= SPINSZ
<1>1. /\ here.j \in 1 .. segs /\ here.p = here.pe /\ Start(here.j) <= here.pe /\ here.pe \in Int
      /\ Chunked(Start(here.j), here.pe, End(here.j)) /\ map \in Maps
  BY DEF PlaceInv, TypeInv, Places
<1> DEFINE j == here.j
<1>2. /\ Start(j) \in Nat /\ End(j) \in Nat /\ Start(j) < End(j) /\ End(j) < AddrWords
      /\ LastChunk(Start(j), End(j)) >= 4
  BY <1>1, Rooms
<1>3. here.pe \in Nat
  BY <1>1, <1>2
<1>4. LastChunk(Start(j), End(j)) \in Nat
  BY <1>2, ChunkSize
<1>5. /\ Lim \in Nat /\ here.pe < Lim /\ Lim <= End(j)
      /\ Lim < End(j) => Chunked(Start(j), Lim, End(j))
  BY <1>1, <1>2, <1>3, <1>4, NextChunk DEF Lim
<1>6. \A n \in 0 .. (Lim - here.p) - 1 : here.p + n * 1 \in Cells
  <2>1. ASSUME NEW n \in 0 .. (Lim - here.p) - 1 PROVE here.p + n * 1 \in Cells
    <3> DEFINE a == here.p + n * 1
    <3>1. a \in Int /\ Start(j) <= a /\ a < End(j)
      BY <1>1, <1>2, <1>3, <1>5
    <3> HIDE DEF a
    <3>2. a \in Cells
      BY <1>1, <3>1, SegmentCells
    <3> QED BY <3>2 DEF a
  <2> QED BY <2>1
<1>7. Visits(here.p, Lim, 1) = Lim - here.p
  BY <1>1, <1>3, <1>5 DEF Visits
<1>8. Lim - here.p <= SPINSZ
  <2>1. /\ Lim < End(j) => Lim - here.pe = SPINSZ
        /\ Lim = End(j) => End(j) - here.pe = LastChunk(Start(j), End(j))
    BY <1>1, <1>2, <1>3, <1>4, NextChunk DEF Lim
  <2>2. SPINSZ \in Nat /\ LastChunk(Start(j), End(j)) <= SPINSZ
    BY <1>2, <1>4, ChunkSize, WordsAssumption
  <2> QED BY <1>1, <1>2, <1>3, <1>5, <2>1, <2>2
<1> QED BY <1>1, <1>3, <1>5, <1>6, <1>7, <1>8

LEMMA StrideChunk ==
  ASSUME TypeInv, PlaceInv(here), here.at \in Strides
  PROVE  /\ Lim \in Nat /\ here.p \in Nat /\ Start(here.j) <= here.p
         /\ here.p < Lim /\ Lim <= End(here.j)
         /\ Visits(here.p, Lim, MOD_SZ) \in Nat
         /\ \A n \in 0 .. Visits(here.p, Lim, MOD_SZ) - 1 : here.p + n * MOD_SZ \in Nat
         /\ \A n \in 0 .. Visits(here.p, Lim, MOD_SZ) - 1 : here.p + n * MOD_SZ < Lim
         /\ here.p + Visits(here.p, Lim, MOD_SZ) * MOD_SZ \in Lim .. Lim + MOD_SZ - 1
         /\ Lim < End(here.j) => Chunked(Start(here.j), Lim, End(here.j))
<1>1. /\ here.j \in 1 .. segs /\ here.pe <= here.p /\ here.p < here.pe + MOD_SZ
      /\ Start(here.j) <= here.pe /\ here.pe \in Int /\ here.p \in Int
      /\ Chunked(Start(here.j), here.pe, End(here.j)) /\ map \in Maps
  BY DEF PlaceInv, TypeInv, Places
<1> DEFINE j == here.j
           r == LastChunk(Start(j), End(j))
<1>2. /\ Start(j) \in Nat /\ End(j) \in Nat /\ Start(j) < End(j) /\ End(j) < AddrWords
      /\ r >= 4 /\ r > MOD_SZ
  BY <1>1, Rooms
<1>3. here.pe \in Nat /\ here.p \in Nat
  BY <1>1, <1>2
<1>4. r \in Nat /\ MOD_SZ \in Nat \ {0}
  BY <1>2, ChunkSize, WordsAssumption
<1>5. /\ Lim \in Nat /\ here.pe < Lim /\ Lim <= End(j) /\ Lim - here.pe >= r
      /\ Lim < End(j) => Chunked(Start(j), Lim, End(j))
  BY <1>1, <1>2, <1>3, <1>4, NextChunk DEF Lim
<1> HIDE DEF r
<1>6. here.p < Lim
  BY <1>1, <1>2, <1>3, <1>4, <1>5
<1> DEFINE d == Lim - here.p + MOD_SZ - 1
<1>7. d \in Nat
  BY <1>3, <1>4, <1>5, <1>6
<1>8. PICK q \in Nat, z \in 0 .. MOD_SZ - 1 :
        q = d \div MOD_SZ /\ z = d % MOD_SZ /\ d = q * MOD_SZ + z
  BY <1>4, <1>7, Division
<1>9. Visits(here.p, Lim, MOD_SZ) = q
  BY <1>6, <1>8 DEF Visits, d
<1> DEFINE y == q * MOD_SZ
<1> HIDE DEF d
<1>10. y \in Nat /\ y = d - z
  BY <1>4, <1>7, <1>8
<1>13. z \in 0 .. MOD_SZ - 1 /\ d = Lim - here.p + MOD_SZ - 1
  BY <1>8 DEF d
<1>14. Lim \in Nat /\ here.p \in Nat /\ here.p < Lim
  BY <1>3, <1>5, <1>6
<1>11. here.p + y \in Lim .. Lim + MOD_SZ - 1
  <2> HIDE DEF y
  <2> QED BY <1>4, <1>10, <1>13, <1>14
<1>12. ASSUME NEW n \in 0 .. q - 1
       PROVE  here.p + n * MOD_SZ \in Nat /\ here.p + n * MOD_SZ < Lim
  <2> DEFINE x == n * MOD_SZ
             u == (q - 1 - n) * MOD_SZ
  <2>1. x \in Nat /\ u \in Nat
    <3>1. n \in Nat /\ q - 1 - n \in Nat
      BY <1>8
    <3> QED BY <1>4, <3>1
  <2>2. y = x + u + MOD_SZ
    BY <1>4, <1>8, SMTT(30)
  <2> HIDE DEF x, y, u
  <2>3. here.p + x \in Nat /\ here.p + x < Lim
    BY <1>4, <1>10, <1>13, <1>14, <2>1, <2>2
  <2> QED BY <2>3 DEF x
<1>15. \A n \in 0 .. q - 1 : here.p + n * MOD_SZ \in Nat
  BY <1>12
<1>16. \A n \in 0 .. q - 1 : here.p + n * MOD_SZ < Lim
  BY <1>12
<1>17. here.p + q * MOD_SZ \in Lim .. Lim + MOD_SZ - 1
  BY <1>11
<1>18. Start(here.j) <= here.p
  BY <1>1, <1>2
<1> HIDE DEF y, d
<1> QED BY <1>5, <1>9, <1>14, <1>15, <1>16, <1>17, <1>18

LEMMA StrideCells ==
  ASSUME TypeInv, PlaceInv(here), here.at \in Strides
  PROVE  \A n \in 0 .. Visits(here.p, Lim, MOD_SZ) - 1 : here.p + n * MOD_SZ \in Cells
<1>1. here.j \in 1 .. segs /\ map \in Maps
  BY DEF TypeInv
<1>2. Start(here.j) \in Nat /\ End(here.j) \in Nat
  BY <1>1, Rooms
<1>3. MOD_SZ \in Nat
  BY WordsAssumption
<1>4. /\ Lim \in Nat /\ here.p \in Nat /\ Start(here.j) <= here.p /\ Lim <= End(here.j)
      /\ \A n \in 0 .. Visits(here.p, Lim, MOD_SZ) - 1 :
           here.p + n * MOD_SZ \in Nat /\ here.p + n * MOD_SZ < Lim
      /\ Visits(here.p, Lim, MOD_SZ) \in Nat
  BY StrideChunk
<1>5. ASSUME NEW n \in 0 .. Visits(here.p, Lim, MOD_SZ) - 1
      PROVE  here.p + n * MOD_SZ \in Cells
  <2> DEFINE x == n * MOD_SZ
             a == here.p + x
  <2>1. x \in Nat
    BY <1>3, <1>4
  <2>2. a \in Nat /\ a < Lim
    BY <1>4
  <2>3. Start(here.j) <= a
    <3> HIDE DEF x
    <3> QED BY <1>2, <1>4, <2>1
  <2> HIDE DEF a
  <2>4. a \in Int /\ a < End(here.j)
    BY <1>2, <1>4, <2>2
  <2>5. a \in Cells
    BY <1>1, <2>3, <2>4, SegmentCells
  <2> QED BY <2>5 DEF a
<1> QED BY <1>5

LEMMA DownChunk ==
  ASSUME TypeInv, PlaceInv(here), here.at \in Downs
  PROVE  /\ LowLim \in Nat /\ here.p \in Nat /\ Start(here.j) <= LowLim
         /\ LowLim < here.p /\ here.p < End(here.j)
         /\ \A n \in 0 .. (here.p - LowLim + 1) - 1 : here.p + n * (-1) \in Cells
         /\ LowLim > Start(here.j) => ChunkedDown(Start(here.j), LowLim, End(here.j))
         /\ here.p - LowLim <= SPINSZ
<1>1. /\ here.j \in 1 .. segs /\ here.p \in {here.pe, here.pe - 1} /\ Start(here.j) <= here.pe
      /\ here.pe \in Int /\ here.pe < End(here.j)
      /\ ChunkedDown(Start(here.j), here.pe, End(here.j)) /\ map \in Maps
  BY DEF PlaceInv, TypeInv, Places
<1> DEFINE j == here.j
<1>2. /\ Start(j) \in Nat /\ End(j) \in Nat /\ Start(j) < End(j) /\ End(j) < AddrWords
      /\ LastChunk(Start(j), End(j)) >= 4
  BY <1>1, Rooms
<1>3. here.pe \in Nat
  BY <1>1, <1>2
<1>4. LastChunk(Start(j), End(j)) >= 3
  <2>1. LastChunk(Start(j), End(j)) \in Nat
    BY <1>2, ChunkSize
  <2> QED BY <1>2, <2>1
<1>5. /\ LowLim \in Nat /\ Start(j) <= LowLim /\ LowLim < here.pe - 1
      /\ LowLim > Start(j) => ChunkedDown(Start(j), LowLim, End(j))
      /\ here.pe - LowLim <= SPINSZ
  BY <1>1, <1>2, <1>3, <1>4, NextDown DEF LowLim
<1>6. here.p \in Nat /\ LowLim < here.p /\ here.p < End(j)
  BY <1>1, <1>2, <1>3, <1>5
<1>7. \A n \in 0 .. (here.p - LowLim + 1) - 1 : here.p + n * (-1) \in Cells
  <2>1. ASSUME NEW n \in 0 .. (here.p - LowLim + 1) - 1 PROVE here.p + n * (-1) \in Cells
    <3> DEFINE a == here.p + n * (-1)
    <3>1. a \in Int /\ Start(j) <= a /\ a < End(j)
      BY <1>2, <1>5, <1>6
    <3> HIDE DEF a
    <3>2. a \in Cells
      BY <1>1, <3>1, SegmentCells
    <3> QED BY <3>2 DEF a
  <2> QED BY <2>1
<1>8. here.p - LowLim <= SPINSZ
  <2>1. SPINSZ \in Nat
    BY WordsAssumption
  <2> QED BY <1>1, <1>3, <1>5, <2>1
<1> QED BY <1>5, <1>6, <1>7, <1>8
-----------------------------------------------------------------------------
(* The invariant that the types and the writes rest on.  The words that    *)
(* the block move is to move have been written.                            *)
FillEnd(j) == End(j) - (LastChunk(BlockStart(j), End(j)) % BlockWords)
Filled(j, b) == BlockStart(j) <= b /\ b < FillEnd(j)
WordsFilled(h, m) ==
  h.at \in {"block_fill", "block_move"} =>
    \A j \in 1 .. segs, b \in Cells :
      /\ Filled(j, b)
      /\ h.at = "block_fill" => j < h.j \/ (j = h.j /\ b < h.p)
      => Load(m, b) \in Word

Stray(x) == x \in Sweeps \X Int /\ x[1] = "walk_global"
StepInv ==
  /\ TypeInv /\ ArgInv /\ PlaceInv(here) /\ WordsFilled(here, mem)
  /\ errs \subseteq Addresses /\ (\A x \in strays : Stray(x))
  /\ bail => here.at \in {"over", "fade_check"}
  /\ LateInChunk

(* A step of a function goes to another place.                             *)
LEMMA Arrived ==
  ASSUME StepInv, NEW h, NEW m, here' = h, mem' = m, PlaceInv(h), WordsFilled(h, m),
         m \in [Cells -> Content], rng' \in Word \X Word,
         h.at \in {"call", "over"} \/ call' > 0, call' \in 0 .. Calls, ArgInv',
         bail' \in BOOLEAN, bail' => h.at \in {"over", "fade_check"}, nticks' \in Nat,
         errs' \subseteq Addresses, \A x \in strays' : Stray(x), LateInChunk',
         UNCHANGED <<pat, pass, map, fault>>
  PROVE  StepInv'
<1>1. Cells' = Cells /\ Content' = Content /\ Addresses' = Addresses
  BY DEF Cells, Content, Addresses
<1>2. \A j : Start(j)' = Start(j) /\ End(j)' = End(j) /\ BlockStart(j)' = BlockStart(j)
  BY DEF Start, End, BlockStart
<1>3. segs' = segs /\ Calls' = Calls /\ FaultInv' = FaultInv
  BY DEF segs, Calls, FaultInv, c_iter, Cells
<1>4. PlaceInv(here)'
  BY <1>2, <1>3 DEF PlaceInv
<1>5. WordsFilled(here, mem)'
  <2>1. \A j, b : Filled(j, b)' <=> Filled(j, b)
    BY <1>2 DEF Filled, FillEnd
  <2>2. \A b : Load(mem, b)' = Load(m, b)
    BY DEF Load, CellAt
  <2> QED BY <1>1, <1>3, <2>1, <2>2 DEF WordsFilled
<1>7. errs' \subseteq Int /\ strays' \subseteq Sweeps \X Int
  <2>1. Addresses \subseteq Int
    BY DEF Addresses
  <2> QED BY <2>1 DEF Stray
<1>8. TypeInv'
  BY <1>1, <1>3, <1>7 DEF StepInv, TypeInv, PlaceInv, InTest, ArgInv
<1>9. (\A x \in strays : Stray(x))'
  BY DEF Stray
<1> QED BY <1>1, <1>4, <1>5, <1>8, <1>9 DEF StepInv

LEMMA Moved ==
  ASSUME StepInv, NEW h, NEW m, here' = h, mem' = m, PlaceInv(h), WordsFilled(h, m),
         m \in [Cells -> Content], rng' \in Word \X Word,
         h.at \in {"call", "over"} \/ call > 0,
         bail' \in BOOLEAN, bail' => h.at \in {"over", "fade_check"}, nticks' \in Nat,
         errs' \subseteq Addresses, \A x \in strays' : Stray(x), LateInChunk',
         UNCHANGED <<pat, pass, map, fault, call, arg>>
  PROVE  StepInv'
<1>1. ArgInv'
  BY DEF StepInv, ArgInv
<1>2. call' \in 0 .. Calls /\ (h.at \in {"call", "over"} \/ call' > 0)
  BY DEF StepInv, TypeInv
<1> QED BY <1>1, <1>2, Arrived

LEMMA Ticked ==
  ASSUME StepInv, InTest, NEW s, s \in States, s.mem \in [Cells -> Content],
         s.errs \subseteq Addresses, \A x \in s.strays : Stray(x), pat = 5 \/ Brief(s),
         NEW next, PlaceInv(next), WordsFilled(next, s.mem), Tick(s, next),
         here.at # "fade_sleep"
  PROVE  StepInv'
<1>1. /\ mem' = s.mem /\ errs' = s.errs /\ strays' = s.strays /\ rng' = s.rng
      /\ nticks' \in Nat /\ bail' \in {bail, TRUE}
      /\ here' = IF bail' THEN Over ELSE next
      /\ UNCHANGED <<pat, pass, map, fault, call, arg>>
  <2>1. nticks \in Nat
    BY DEF StepInv, TypeInv
  <2>2. nticks' = IF nticks < MaxTicks THEN nticks + 1 ELSE nticks
    BY DEF Tick
  <2>3. nticks' \in Nat
    BY <2>1, <2>2
  <2> QED BY <2>3, Zenon DEF Tick
<1>2. call > 0 /\ bail \in BOOLEAN /\ map \in Maps /\ pat \in Pats
  BY DEF StepInv, TypeInv
<1>3. s.rng \in Word \X Word
  BY StateParts
<1>4. PlaceInv(Over) /\ Over.at = "over"
  BY <1>2, EndPlaces
<1>5. WordsFilled(Over, s.mem)
  BY <1>4 DEF WordsFilled
<1>9. LateInChunk'
  <2>1. late' \in {0} \cup s.since /\ pat' = pat
    BY <1>1, Zenon DEF Tick
  <2>2. SPINSZ \in Nat
    BY WordsAssumption
  <2> QED BY <2>1, <2>2 DEF Brief, LateInChunk
<1>6. CASE bail'
  BY <1>1, <1>2, <1>3, <1>4, <1>5, <1>6, <1>9, Moved
<1>7. CASE ~bail'
  BY <1>1, <1>2, <1>3, <1>7, <1>9, Moved
<1>8. bail' \in BOOLEAN
  BY <1>1, <1>2
<1> QED BY <1>6, <1>7

LEMMA KeptTick ==
  ASSUME StepInv, InTest, NEW s, Kept(s), Brief(s), NEW next, PlaceInv(next),
         WordsFilled(next, s.mem), Tick(s, next), here.at # "fade_sleep"
  PROVE  StepInv'
<1>1. s \in States /\ s.mem \in [Cells -> Content] /\ s.errs \subseteq Addresses /\ s.strays = strays
  BY DEF Kept
<1>2. \A x \in s.strays : Stray(x)
  BY <1>1 DEF StepInv
<1> QED BY <1>1, <1>2, Ticked

(* A chunk upward, and downward.                                           *)
Swept(step) == Sweep(here.p, step, Visits(here.p, Lim, step))
UpNext(step) == [here EXCEPT !.p = @ + Visits(here.p, Lim, step) * step, !.pe = Lim,
                             !.k = Swept(step).k, !.w = Swept(step).w]
UpStep(on, step) ==
  IF here.p = Lim THEN Goto(on)
  ELSE Tick(Swept(step), IF Lim < End(here.j) THEN UpNext(step) ELSE on)
SweptDown == Sweep(here.p, -1, here.p - LowLim + 1)
DownNext == [here EXCEPT !.p = LowLim - 1, !.pe = LowLim, !.k = SweptDown.k, !.w = SweptDown.w]
DownStep(on) ==
  IF here.p = LowLim THEN Goto(on)
  ELSE Tick(SweptDown, IF LowLim > Start(here.j) THEN DownNext ELSE on)

Changed(g, p, pe, k, w) == [g EXCEPT !.p = p, !.pe = pe, !.k = k, !.w = w]
LEMMA UpSwept ==
  ASSUME StepInv, here.at \in Ups
  PROVE  /\ Kept(Swept(1)) /\ Brief(Swept(1)) /\ Swept(1) = Sweep(here.p, 1, Lim - here.p)
         /\ PlaceInv(IF Lim < End(here.j) THEN UpNext(1) ELSE here)
         /\ Lim < End(here.j) => UpNext(1).at = here.at
         /\ here.p # Lim
<1>1. TypeInv /\ ArgInv /\ PlaceInv(here) /\ errs \subseteq Addresses /\ here \in Places
      /\ here.j \in 1 .. segs
  BY DEF StepInv, PlaceInv
<1>2. /\ Lim \in Nat /\ here.p \in Nat /\ Start(here.j) <= here.p
      /\ here.p < Lim /\ Lim <= End(here.j)
      /\ Visits(here.p, Lim, 1) = Lim - here.p
      /\ \A n \in 0 .. (Lim - here.p) - 1 : here.p + n * 1 \in Cells
      /\ Lim < End(here.j) => Chunked(Start(here.j), Lim, End(here.j))
      /\ Lim - here.p <= SPINSZ
  BY <1>1, UpChunk
<1>3. here.at \in Visited /\ \A a : Target(a) = a
  BY DEF Ups, Visited, Target
<1>4. Kept(Sweep(here.p, 1, Lim - here.p)) /\ Brief(Sweep(here.p, 1, Lim - here.p))
  <2> DEFINE c == Lim - here.p
             i == 1
  <2>1. c \in Nat /\ here.p \in Int /\ i \in Int /\ c <= SPINSZ + 1
    BY <1>2, WordsAssumption
  <2>2. \A n \in 0 .. c - 1 : Target(here.p + n * i) \in Cells
    BY <1>2, <1>3
  <2> HIDE DEF c, i
  <2>3. Kept(Sweep(here.p, i, c))
    BY <1>1, <1>3, <2>1, <2>2, SweepKept
  <2>4. Brief(Sweep(here.p, i, c))
    BY <1>1, <1>3, <2>1, SweepBrief
  <2> QED BY <2>3, <2>4 DEF c, i
<1>5. Swept(1) = Sweep(here.p, 1, Lim - here.p)
  BY <1>2 DEF Swept
<1>6. Kept(Swept(1)) /\ Brief(Swept(1))
  BY <1>4, <1>5
<1>7. ASSUME Lim < End(here.j) PROVE PlaceInv(UpNext(1)) /\ UpNext(1).at = here.at
  <2> DEFINE k == Swept(1).k
             w == Swept(1).w
             h == UpNext(1)
  <2>1. k \in Int /\ w \in Word
    <3>1. Swept(1) \in States
      BY <1>6 DEF Kept
    <3> HIDE DEF Swept
    <3> QED BY <3>1, StateParts
  <2>2. here.p + Visits(here.p, Lim, 1) * 1 = Lim
    BY <1>2
  <2>3. h = Changed(here, Lim, Lim, k, w)
    BY <2>2 DEF UpNext, Changed
  <2> HIDE DEF k, w, h
  <2>4. h \in Places /\ h.at = here.at /\ h.j = here.j /\ h.p = Lim /\ h.pe = Lim
    <3>1. Lim \in Int
      BY <1>2
    <3>2. here \in Places
      BY <1>1
    <3> QED BY <2>1, <2>3, <3>1, <3>2 DEF Places, Changed
  <2>5. h.at \in Ups /\ h.at \notin Strides /\ h.at \notin Downs /\ h.at \notin BlockSweeps
    BY <2>4 DEF Ups, Strides, Downs, BlockSweeps
  <2>6. Start(h.j) <= h.pe
    <3>1. Start(here.j) \in Nat
      BY <1>1, Rooms DEF TypeInv
    <3> QED BY <1>2, <2>4, <3>1
  <2>7. pat \in TestsOf(h.at)
    BY <1>1, <2>4 DEF PlaceInv
  <2>8. PlaceInv(h)
    BY <1>1, <1>2, <1>7, <2>4, <2>5, <2>6, <2>7 DEF PlaceInv
  <2> QED BY <2>4, <2>8 DEF h
<1>8. here.p # Lim
  BY <1>2
<1> QED BY <1>1, <1>5, <1>6, <1>7, <1>8

LEMMA UpKept ==
  ASSUME StepInv, here.at \in Ups, NEW on, PlaceInv(on), on.at \notin BlockSweeps, UpStep(on, 1)
  PROVE  StepInv'
<1>1. /\ Kept(Swept(1)) /\ Brief(Swept(1)) /\ here.p # Lim
      /\ PlaceInv(IF Lim < End(here.j) THEN UpNext(1) ELSE here)
      /\ Lim < End(here.j) => UpNext(1).at = here.at
  BY UpSwept
<1> DEFINE next == IF Lim < End(here.j) THEN UpNext(1) ELSE on
<1>2. PlaceInv(next) /\ Tick(Swept(1), next)
  BY <1>1 DEF UpStep
<1>3. next.at \notin BlockSweeps
  BY <1>1 DEF Ups, BlockSweeps
<1> HIDE DEF next, Swept
<1>4. WordsFilled(next, Swept(1).mem)
  BY <1>3 DEF WordsFilled, BlockSweeps
<1>5. InTest /\ here.at # "fade_sleep"
  BY DEF InTest, Ups
<1> QED BY <1>1, <1>2, <1>4, <1>5, KeptTick

LEMMA StrideSwept ==
  ASSUME StepInv, here.at \in Strides
  PROVE  /\ Kept(Swept(MOD_SZ)) /\ Brief(Swept(MOD_SZ))
         /\ PlaceInv(IF Lim < End(here.j) THEN UpNext(MOD_SZ) ELSE here)
         /\ Lim < End(here.j) => UpNext(MOD_SZ).at = here.at
         /\ here.p # Lim
<1>1. TypeInv /\ ArgInv /\ PlaceInv(here) /\ errs \subseteq Addresses /\ here \in Places
      /\ here.j \in 1 .. segs
  BY DEF StepInv, PlaceInv
<1> DEFINE v == Visits(here.p, Lim, MOD_SZ)
<1>2. /\ Lim \in Nat /\ here.p \in Nat /\ Start(here.j) <= here.p
      /\ here.p < Lim /\ Lim <= End(here.j) /\ v \in Nat
      /\ here.p + v * MOD_SZ \in Lim .. Lim + MOD_SZ - 1
      /\ Lim < End(here.j) => Chunked(Start(here.j), Lim, End(here.j))
  BY <1>1, StrideChunk
<1>3. \A n \in 0 .. v - 1 : here.p + n * MOD_SZ \in Cells
  BY <1>1, StrideCells
<1>4. MOD_SZ \in Nat \ {0}
  BY WordsAssumption
<1>5. here.at \in Visited /\ (\A a : Target(a) = a) /\ here.at \in Writers \cup Checkers
  BY DEF Strides, Visited, Target, Writers, Checkers
<1>6. Kept(Swept(MOD_SZ)) /\ Brief(Swept(MOD_SZ))
  <2>1. \A n \in 0 .. v - 1 : Target(here.p + n * MOD_SZ) \in Cells
    BY <1>3, <1>5
  <2>2. here.p \in Int /\ MOD_SZ \in Int
    BY <1>2, <1>4
  <2> HIDE DEF v
  <2>3. Kept(Sweep(here.p, MOD_SZ, v))
    BY <1>1, <1>2, <1>5, <2>1, <2>2, SweepKept
  <2>4. Brief(Sweep(here.p, MOD_SZ, v))
    BY <1>1, <1>2, <1>5, <2>2, SweepBrief
  <2> QED BY <2>3, <2>4 DEF Swept, v
<1>7. ASSUME Lim < End(here.j) PROVE PlaceInv(UpNext(MOD_SZ)) /\ UpNext(MOD_SZ).at = here.at
  <2> DEFINE k == Swept(MOD_SZ).k
             w == Swept(MOD_SZ).w
             p == here.p + v * MOD_SZ
             h == UpNext(MOD_SZ)
  <2>1. k \in Int /\ w \in Word
    <3>1. Swept(MOD_SZ) \in States
      BY <1>6 DEF Kept
    <3> HIDE DEF Swept
    <3> QED BY <3>1, StateParts
  <2>2. h = Changed(here, p, Lim, k, w)
    BY DEF UpNext, Changed
  <2>3. p \in Lim .. Lim + MOD_SZ - 1
    BY <1>2
  <2> HIDE DEF k, w, h, p
  <2>4. h \in Places /\ h.at = here.at /\ h.j = here.j /\ h.p = p /\ h.pe = Lim
    <3>1. p \in Int /\ Lim \in Int
      BY <1>2, <2>3
    <3>2. here \in Places
      BY <1>1
    <3> QED BY <2>1, <2>2, <3>1, <3>2 DEF Places, Changed
  <2>5. h.at \notin Ups /\ h.at \in Strides /\ h.at \notin Downs /\ h.at \notin BlockSweeps
    BY <2>4 DEF Ups, Strides, Downs, BlockSweeps
  <2>6. Start(h.j) <= h.pe /\ h.pe <= h.p /\ h.p < h.pe + MOD_SZ
    <3>1. Start(here.j) \in Nat
      BY <1>1, Rooms DEF TypeInv
    <3> QED BY <1>2, <1>4, <2>3, <2>4, <3>1
  <2>7. pat \in TestsOf(h.at)
    BY <1>1, <2>4 DEF PlaceInv
  <2>8. PlaceInv(h)
    BY <1>1, <1>2, <1>7, <2>4, <2>5, <2>6, <2>7 DEF PlaceInv
  <2> QED BY <2>4, <2>8 DEF h
<1>8. here.p # Lim
  BY <1>2
<1> QED BY <1>1, <1>6, <1>7, <1>8

LEMMA StrideKept ==
  ASSUME StepInv, here.at \in Strides, NEW on, PlaceInv(on), on.at \notin BlockSweeps,
         UpStep(on, MOD_SZ)
  PROVE  StepInv'
<1>1. /\ Kept(Swept(MOD_SZ)) /\ Brief(Swept(MOD_SZ)) /\ here.p # Lim
      /\ PlaceInv(IF Lim < End(here.j) THEN UpNext(MOD_SZ) ELSE here)
      /\ Lim < End(here.j) => UpNext(MOD_SZ).at = here.at
  BY StrideSwept
<1> DEFINE next == IF Lim < End(here.j) THEN UpNext(MOD_SZ) ELSE on
<1>2. PlaceInv(next) /\ Tick(Swept(MOD_SZ), next)
  BY <1>1 DEF UpStep
<1>3. next.at \notin BlockSweeps
  BY <1>1 DEF Strides, BlockSweeps
<1> HIDE DEF next, Swept
<1>4. WordsFilled(next, Swept(MOD_SZ).mem)
  BY <1>3 DEF WordsFilled, BlockSweeps
<1>5. InTest /\ here.at # "fade_sleep"
  BY DEF InTest, Strides
<1> QED BY <1>1, <1>2, <1>4, <1>5, KeptTick

LEMMA DownSwept ==
  ASSUME StepInv, here.at \in Downs
  PROVE  /\ Kept(SweptDown) /\ Brief(SweptDown)
         /\ PlaceInv(IF LowLim > Start(here.j) THEN DownNext ELSE here)
         /\ LowLim > Start(here.j) => DownNext.at = here.at
         /\ here.p # LowLim
<1>1. TypeInv /\ ArgInv /\ PlaceInv(here) /\ errs \subseteq Addresses /\ here \in Places
      /\ here.j \in 1 .. segs
  BY DEF StepInv, PlaceInv
<1> DEFINE c == here.p - LowLim + 1
<1>2. /\ LowLim \in Nat /\ here.p \in Nat /\ Start(here.j) <= LowLim
      /\ LowLim < here.p /\ here.p < End(here.j)
      /\ \A n \in 0 .. c - 1 : here.p + n * (-1) \in Cells
      /\ LowLim > Start(here.j) => ChunkedDown(Start(here.j), LowLim, End(here.j))
      /\ here.p - LowLim <= SPINSZ
  BY <1>1, DownChunk
<1>3. here.at \in Visited /\ \A a : Target(a) = a
  BY DEF Downs, Visited, Target
<1>4. Kept(SweptDown) /\ Brief(SweptDown)
  <2> DEFINE i == -1
  <2>1. c \in Nat /\ here.p \in Int /\ i \in Int /\ c <= SPINSZ + 1
    BY <1>2, WordsAssumption
  <2>2. \A n \in 0 .. c - 1 : Target(here.p + n * i) \in Cells
    BY <1>2, <1>3
  <2> HIDE DEF c, i
  <2>3. Kept(Sweep(here.p, i, c))
    BY <1>1, <1>3, <2>1, <2>2, SweepKept
  <2>4. Brief(Sweep(here.p, i, c))
    BY <1>1, <1>3, <2>1, SweepBrief
  <2> QED BY <2>3, <2>4 DEF SweptDown, i, c
<1>5. ASSUME LowLim > Start(here.j) PROVE PlaceInv(DownNext) /\ DownNext.at = here.at
  <2> DEFINE k == SweptDown.k
             w == SweptDown.w
             h == DownNext
  <2>1. k \in Int /\ w \in Word
    <3>1. SweptDown \in States
      BY <1>4 DEF Kept
    <3> HIDE DEF SweptDown
    <3> QED BY <3>1, StateParts
  <2>2. h = Changed(here, LowLim - 1, LowLim, k, w)
    BY DEF DownNext, Changed
  <2> HIDE DEF k, w, h
  <2>3. h \in Places /\ h.at = here.at /\ h.j = here.j /\ h.p = LowLim - 1 /\ h.pe = LowLim
    <3>1. LowLim - 1 \in Int /\ LowLim \in Int
      BY <1>2
    <3>2. here \in Places
      BY <1>1
    <3> QED BY <2>1, <2>2, <3>1, <3>2 DEF Places, Changed
  <2>4. h.at \notin Ups /\ h.at \notin Strides /\ h.at \in Downs /\ h.at \notin BlockSweeps
    BY <2>3 DEF Ups, Strides, Downs, BlockSweeps
  <2>5. Start(h.j) <= h.pe /\ h.pe < End(h.j)
    <3>1. Start(here.j) \in Nat /\ End(here.j) \in Nat
      BY <1>1, Rooms DEF TypeInv
    <3> QED BY <1>2, <2>3, <3>1
  <2>6. pat \in TestsOf(h.at)
    BY <1>1, <2>3 DEF PlaceInv
  <2>7. PlaceInv(h)
    BY <1>1, <1>2, <1>5, <2>3, <2>4, <2>5, <2>6 DEF PlaceInv
  <2> QED BY <2>3, <2>7 DEF h
<1>6. here.p # LowLim
  BY <1>2
<1> QED BY <1>1, <1>4, <1>5, <1>6

LEMMA DownKept ==
  ASSUME StepInv, here.at \in Downs, NEW on, PlaceInv(on), on.at \notin BlockSweeps,
         DownStep(on)
  PROVE  StepInv'
<1>1. /\ Kept(SweptDown) /\ Brief(SweptDown) /\ here.p # LowLim
      /\ PlaceInv(IF LowLim > Start(here.j) THEN DownNext ELSE here)
      /\ LowLim > Start(here.j) => DownNext.at = here.at
  BY DownSwept
<1> DEFINE next == IF LowLim > Start(here.j) THEN DownNext ELSE on
<1>2. PlaceInv(next) /\ Tick(SweptDown, next)
  BY <1>1 DEF DownStep
<1>3. next.at \notin BlockSweeps
  BY <1>1 DEF Downs, BlockSweeps
<1> HIDE DEF next, SweptDown
<1>4. WordsFilled(next, SweptDown.mem)
  BY <1>3 DEF WordsFilled, BlockSweeps
<1>5. InTest /\ here.at # "fade_sleep"
  BY DEF InTest, Downs
<1> QED BY <1>1, <1>2, <1>4, <1>5, KeptTick
-----------------------------------------------------------------------------
(* Where a sweep goes on after a segment.                                  *)
AgainUp(i, j, k, w) == IF here.j < segs THEN Up(here.at, i, here.j + 1, k, w) ELSE j
On ==
  CASE here.at = "own_write"  -> AgainUp(0, Up("own_check", 0, 1, 0, 0), 0, 0)
    [] here.at = "own_check"  -> AgainUp(0, Return, 0, 0)
    [] here.at = "inv_fill"   -> AgainUp(0, MovInv1Again(0), 0, 0)
    [] here.at = "inv_up"     -> AgainUp(here.i, Down("inv_down", here.i, segs, 0, 0), 0, 0)
    [] here.at = "shift_fill" -> AgainUp(0, MovInv32Again(0), arg.off, arg.p1)
    [] here.at = "shift_up"   -> AgainUp(here.i, BackUp(Swept(1).k), arg.off, arg.p1)
    [] here.at = "mod_rest"   -> AgainUp(here.i, ModAgain(here.i + 1), 0, 0)
    [] here.at = "rand_fill"  -> AgainUp(0, SeedAgain(1), 0, 0)
    [] here.at = "rand_check" -> AgainUp(here.i, SeedAgain(here.i + 1), 0, 0)
    [] here.at = "mod_write"  -> IF here.j < segs THEN Every("mod_write", here.j + 1)
                                 ELSE ModAgain(0)
    [] here.at = "mod_check"  -> IF here.j < segs THEN Every("mod_check", here.j + 1)
                                 ELSE Return
    [] here.at \in Downs      ->
         IF here.j > 1 THEN Down(here.at, here.i, here.j - 1, SweptDown.k, SweptDown.w)
         ELSE IF here.at = "inv_down" THEN MovInv1Again(here.i + 1)
         ELSE MovInv32Again(here.i + 1)

LEMMA UpActions ==
  ASSUME \/ Addr2Write \/ Addr2Check \/ MovInv1Fill \/ MovInv1Up \/ MovInv32Fill
         \/ MovInv32Up \/ ModRest \/ RandFill \/ RandCheck
  PROVE  here.at \in Ups /\ UpStep(On, 1)
<1>1. CASE Addr2Write
  <2>1. here.at = "own_write"
    BY <1>1 DEF Addr2Write, ChunkUp, At
  <2>2. On = AgainUp(0, Up("own_check", 0, 1, 0, 0), 0, 0)
    BY <2>1 DEF On, Downs
  <2>3. UpStep(AgainUp(0, Up("own_check", 0, 1, 0, 0), 0, 0), 1)
    BY <1>1, <2>1 DEF Addr2Write, ChunkUp, UpStep, Swept, UpNext, Lim, AgainUp
  <2> QED BY <2>1, <2>2, <2>3 DEF Ups
<1>2. CASE Addr2Check
  <2>1. here.at = "own_check"
    BY <1>2 DEF Addr2Check, ChunkUp, At
  <2>2. On = AgainUp(0, Return, 0, 0)
    BY <2>1 DEF On, Downs
  <2>3. UpStep(AgainUp(0, Return, 0, 0), 1)
    BY <1>2, <2>1 DEF Addr2Check, ChunkUp, UpStep, Swept, UpNext, Lim, AgainUp
  <2> QED BY <2>1, <2>2, <2>3 DEF Ups
<1>3. CASE MovInv1Fill
  <2>1. here.at = "inv_fill"
    BY <1>3 DEF MovInv1Fill, ChunkUp, At
  <2>2. On = AgainUp(0, MovInv1Again(0), 0, 0)
    BY <2>1 DEF On, Downs
  <2>3. UpStep(AgainUp(0, MovInv1Again(0), 0, 0), 1)
    BY <1>3, <2>1 DEF MovInv1Fill, ChunkUp, UpStep, Swept, UpNext, Lim, AgainUp
  <2> QED BY <2>1, <2>2, <2>3 DEF Ups
<1>4. CASE MovInv1Up
  <2>1. here.at = "inv_up"
    BY <1>4 DEF MovInv1Up, ChunkUp, At
  <2>2. On = AgainUp(here.i, Down("inv_down", here.i, segs, 0, 0), 0, 0)
    BY <2>1 DEF On, Downs
  <2>3. UpStep(AgainUp(here.i, Down("inv_down", here.i, segs, 0, 0), 0, 0), 1)
    BY <1>4, <2>1 DEF MovInv1Up, ChunkUp, UpStep, Swept, UpNext, Lim, AgainUp
  <2> QED BY <2>1, <2>2, <2>3 DEF Ups
<1>5. CASE MovInv32Fill
  <2>1. here.at = "shift_fill"
    BY <1>5 DEF MovInv32Fill, ChunkUp, At
  <2>2. On = AgainUp(0, MovInv32Again(0), arg.off, arg.p1)
    BY <2>1 DEF On, Downs
  <2>3. UpStep(AgainUp(0, MovInv32Again(0), arg.off, arg.p1), 1)
    BY <1>5, <2>1 DEF MovInv32Fill, ChunkUp, UpStep, Swept, UpNext, Lim, AgainUp
  <2> QED BY <2>1, <2>2, <2>3 DEF Ups
<1>6. CASE MovInv32Up
  <2>1. here.at = "shift_up"
    BY <1>6 DEF MovInv32Up, ChunkUp, At
  <2>2. On = AgainUp(here.i, BackUp(Swept(1).k), arg.off, arg.p1)
    BY <2>1 DEF On, Downs
  <2>3. UpStep(AgainUp(here.i, BackUp(Swept(1).k), arg.off, arg.p1), 1)
    BY <1>6, <2>1 DEF MovInv32Up, ChunkUp, UpStep, Swept, UpNext, Lim, AgainUp
  <2> QED BY <2>1, <2>2, <2>3 DEF Ups
<1>7. CASE ModRest
  <2>1. here.at = "mod_rest"
    BY <1>7 DEF ModRest, ChunkUp, At
  <2>2. On = AgainUp(here.i, ModAgain(here.i + 1), 0, 0)
    BY <2>1 DEF On, Downs
  <2>3. UpStep(AgainUp(here.i, ModAgain(here.i + 1), 0, 0), 1)
    BY <1>7, <2>1 DEF ModRest, ChunkUp, UpStep, Swept, UpNext, Lim, AgainUp
  <2> QED BY <2>1, <2>2, <2>3 DEF Ups
<1>8. CASE RandFill
  <2>1. here.at = "rand_fill"
    BY <1>8 DEF RandFill, ChunkUp, At
  <2>2. On = AgainUp(0, SeedAgain(1), 0, 0)
    BY <2>1 DEF On, Downs
  <2>3. UpStep(AgainUp(0, SeedAgain(1), 0, 0), 1)
    BY <1>8, <2>1 DEF RandFill, ChunkUp, UpStep, Swept, UpNext, Lim, AgainUp
  <2> QED BY <2>1, <2>2, <2>3 DEF Ups
<1>9. CASE RandCheck
  <2>1. here.at = "rand_check"
    BY <1>9 DEF RandCheck, ChunkUp, At
  <2>2. On = AgainUp(here.i, SeedAgain(here.i + 1), 0, 0)
    BY <2>1 DEF On, Downs
  <2>3. UpStep(AgainUp(here.i, SeedAgain(here.i + 1), 0, 0), 1)
    BY <1>9, <2>1 DEF RandCheck, ChunkUp, UpStep, Swept, UpNext, Lim, AgainUp
  <2> QED BY <2>1, <2>2, <2>3 DEF Ups
<1> QED BY <1>1, <1>2, <1>3, <1>4, <1>5, <1>6, <1>7, <1>8, <1>9

LEMMA StrideActions ==
  ASSUME ModWrite \/ ModCheck
  PROVE  here.at \in Strides /\ UpStep(On, MOD_SZ)
<1>1. CASE ModWrite
  <2>1. here.at = "mod_write"
    BY <1>1 DEF ModWrite, ChunkUp, At
  <2>2. On = (IF here.j < segs THEN Every("mod_write", here.j + 1) ELSE ModAgain(0))
    BY <2>1 DEF On, Downs
  <2>3. UpStep((IF here.j < segs THEN Every("mod_write", here.j + 1) ELSE ModAgain(0)), MOD_SZ)
    BY <1>1, <2>1 DEF ModWrite, ChunkUp, UpStep, Swept, UpNext, Lim
  <2> QED BY <2>1, <2>2, <2>3 DEF Strides
<1>2. CASE ModCheck
  <2>1. here.at = "mod_check"
    BY <1>2 DEF ModCheck, ChunkUp, At
  <2>2. On = (IF here.j < segs THEN Every("mod_check", here.j + 1) ELSE Return)
    BY <2>1 DEF On, Downs
  <2>3. UpStep((IF here.j < segs THEN Every("mod_check", here.j + 1) ELSE Return), MOD_SZ)
    BY <1>2, <2>1 DEF ModCheck, ChunkUp, UpStep, Swept, UpNext, Lim
  <2> QED BY <2>1, <2>2, <2>3 DEF Strides
<1> QED BY <1>1, <1>2

LEMMA DownActions ==
  ASSUME MovInv1Down \/ MovInv32Down
  PROVE  here.at \in Downs /\ DownStep(On)
<1>1. CASE MovInv1Down
  <2>1. here.at = "inv_down"
    BY <1>1 DEF MovInv1Down, ChunkDown, At
  <2>2. On = (IF here.j > 1 THEN Down(here.at, here.i, here.j - 1, SweptDown.k, SweptDown.w) ELSE MovInv1Again(here.i + 1))
    BY <2>1 DEF On, Downs
  <2>3. DownStep((IF here.j > 1 THEN Down(here.at, here.i, here.j - 1, SweptDown.k, SweptDown.w) ELSE MovInv1Again(here.i + 1)))
    BY <1>1, <2>1 DEF MovInv1Down, ChunkDown, DownStep, SweptDown, DownNext, LowLim
  <2> QED BY <2>1, <2>2, <2>3 DEF Downs
<1>2. CASE MovInv32Down
  <2>1. here.at = "shift_down"
    BY <1>2 DEF MovInv32Down, ChunkDown, At
  <2>2. On = (IF here.j > 1 THEN Down(here.at, here.i, here.j - 1, SweptDown.k, SweptDown.w) ELSE MovInv32Again(here.i + 1))
    BY <2>1 DEF On, Downs
  <2>3. DownStep((IF here.j > 1 THEN Down(here.at, here.i, here.j - 1, SweptDown.k, SweptDown.w) ELSE MovInv32Again(here.i + 1)))
    BY <1>2, <2>1 DEF MovInv32Down, ChunkDown, DownStep, SweptDown, DownNext, LowLim
  <2> QED BY <2>1, <2>2, <2>3 DEF Downs
<1> QED BY <1>1, <1>2
-----------------------------------------------------------------------------
LEMMA InTestFacts ==
  ASSUME StepInv, InTest
  PROVE  /\ map \in Maps /\ pat \in Pats /\ here \in Places /\ here.j \in 1 .. segs
         /\ segs \in Nat \ {0} /\ 1 \in 1 .. segs /\ segs \in 1 .. segs
         /\ (here.j < segs => here.j + 1 \in 1 .. segs)
         /\ (here.j > 1 => here.j - 1 \in 1 .. segs)
         /\ here.i \in Nat /\ here.i + 1 \in Nat /\ here.k \in Int /\ here.w \in Word
         /\ call > 0 /\ arg \in Args /\ pat \in TestsOf(here.at)
         /\ arg.p1 \in Word /\ arg.p2 \in Word /\ arg.lb \in Word /\ arg.off \in Nat
         /\ 0 \in Word /\ 0 \in Int /\ 0 \in Nat
<1>1. /\ map \in Maps /\ pat \in Pats /\ here \in Places /\ here.j \in 1 .. segs
      /\ call > 0 /\ arg \in Args /\ pat \in TestsOf(here.at)
  BY DEF StepInv, TypeInv, ArgInv, PlaceInv
<1>2. segs \in Nat \ {0}
  BY <1>1, MapFacts
<1>3. here.i \in Nat /\ here.k \in Int /\ here.w \in Word
  BY <1>1 DEF Places
<1>4. arg.p1 \in Word /\ arg.p2 \in Word /\ arg.lb \in Word /\ arg.off \in Nat
  BY <1>1 DEF Args
<1>5. 0 \in Word
  BY Sizes
<1> QED BY <1>1, <1>2, <1>3, <1>4, <1>5

(* The places between the sweeps.                                          *)
LEMMA Between ==
  ASSUME StepInv, InTest, NEW i, i \in Nat, NEW k, k \in Int
  PROVE  /\ pat \in {0, 1, 10} => PlaceInv(MovInv1Again(i)) /\ MovInv1Again(i).at \notin BlockSweeps
         /\ pat = 2 => PlaceInv(MovInv32Again(i)) /\ MovInv32Again(i).at \notin BlockSweeps
         /\ pat = 2 => PlaceInv(BackUp(k)) /\ BackUp(k).at \notin BlockSweeps
         /\ pat = 9 => PlaceInv(SeedAgain(i)) /\ SeedAgain(i).at \notin BlockSweeps
<1>1. PlaceInv(Return) /\ Return.at \notin BlockSweeps
  BY InTestFacts, EndPlaces DEF BlockSweeps
<1>2. \A sweep, c, w, g :
        /\ Up(sweep, i, 1, c, w).at = sweep /\ Down(sweep, g, segs, c, w).at = sweep
        /\ Place(sweep, i, 1, 0, 0, 0, 0).at = sweep
  BY DEF Up, Down, Place
<1>3. ASSUME pat \in {0, 1, 10}
      PROVE  PlaceInv(MovInv1Again(i)) /\ MovInv1Again(i).at \notin BlockSweeps
  <2>1. pat \in TestsOf("inv_up") /\ "inv_up" \in Ups /\ "inv_up" \notin BlockSweeps
    BY <1>3 DEF TestsOf, Ups, BlockSweeps
  <2>2. PlaceInv(Up("inv_up", i, 1, 0, 0))
    BY <2>1, InTestFacts, UpPlace
  <2> QED BY <1>1, <1>2, <2>1, <2>2 DEF MovInv1Again
<1>4. ASSUME pat = 2
      PROVE  PlaceInv(MovInv32Again(i)) /\ MovInv32Again(i).at \notin BlockSweeps
  <2>1. pat \in TestsOf("shift_up") /\ "shift_up" \in Ups /\ "shift_up" \notin BlockSweeps
    BY <1>4 DEF TestsOf, Ups, BlockSweeps
  <2>2. arg.off \in Int /\ arg.p1 \in Word
    BY InTestFacts
  <2>3. PlaceInv(Up("shift_up", i, 1, arg.off, arg.p1))
    BY <2>1, <2>2, InTestFacts, UpPlace
  <2> QED BY <1>1, <1>2, <2>1, <2>3 DEF MovInv32Again
<1>5. ASSUME pat = 2 PROVE PlaceInv(BackUp(k)) /\ BackUp(k).at \notin BlockSweeps
  <2> DEFINE n == (k - 1) % Bits
             c == n + 1
             w == Rol(arg.lb, n)
  <2>1. pat \in TestsOf("shift_down") /\ "shift_down" \in Downs /\ "shift_down" \notin BlockSweeps
    BY <1>5 DEF TestsOf, Downs, BlockSweeps
  <2>2. (k - 1) % Bits \in Int
    <3>1. k - 1 \in Int
      OBVIOUS
    <3> QED BY <3>1, Remainders
  <2>3. c \in Int /\ w \in Word
    <3>1. n \in Int /\ arg.lb \in Word
      BY <2>2, InTestFacts
    <3> HIDE DEF n
    <3>2. Rol(arg.lb, n) \in Word
      BY <3>1, RolWord
    <3> QED BY <3>1, <3>2
  <2>4. BackUp(k) = Down("shift_down", here.i, segs, c, w)
    BY DEF BackUp
  <2> HIDE DEF c, w
  <2>5. PlaceInv(Down("shift_down", here.i, segs, c, w))
    BY <2>1, <2>3, InTestFacts, DownPlace
  <2> QED BY <1>2, <2>1, <2>4, <2>5
<1>6. ASSUME pat = 9 PROVE PlaceInv(SeedAgain(i)) /\ SeedAgain(i).at \notin BlockSweeps
  <2> DEFINE h == Place("rand_seed", i, 1, 0, 0, 0, 0)
  <2>1. h \in Places /\ h.at = "rand_seed" /\ h.j = 1
    BY Sizes DEF Place, Places, Sweeps
  <2>2. pat \in TestsOf("rand_seed") /\ "rand_seed" \notin BlockSweeps /\ "rand_seed" \in Others
    BY <1>6 DEF TestsOf, BlockSweeps, Others
  <2> HIDE DEF h
  <2>3. PlaceInv(h)
    BY <2>1, <2>2, InTestFacts, OtherPlace
  <2> QED BY <1>1, <2>1, <2>2, <2>3 DEF SeedAgain, h
<1> QED BY <1>3, <1>4, <1>5, <1>6

LEMMA ModBetween ==
  ASSUME StepInv, InTest, pat = 11, NEW i, i \in Nat
  PROVE  PlaceInv(ModAgain(i)) /\ ModAgain(i).at \notin BlockSweeps
<1>1. pat \in TestsOf("mod_rest") /\ "mod_rest" \in Ups /\ "mod_rest" \notin BlockSweeps
      /\ "mod_check" \in Strides /\ "mod_check" \notin BlockSweeps
  BY DEF TestsOf, Ups, Strides, BlockSweeps
<1>2. PlaceInv(Up("mod_rest", i, 1, 0, 0)) /\ Up("mod_rest", i, 1, 0, 0).at = "mod_rest"
  BY <1>1, InTestFacts, UpPlace DEF Up, Place
<1>3. arg.off < MOD_SZ
  BY InTestFacts DEF StepInv, ArgInv
<1>4. PlaceInv(Every("mod_check", 1)) /\ Every("mod_check", 1).at = "mod_check"
  BY <1>1, <1>3, InTestFacts, EveryPlace DEF Every, Place
<1> QED BY <1>1, <1>2, <1>4 DEF ModAgain

LEMMA OnUps ==
  ASSUME StepInv, here.at \in Ups
  PROVE  PlaceInv(On) /\ On.at \notin BlockSweeps
<1>1. InTest
  BY DEF InTest, Ups
<1>2. PlaceInv(Return) /\ Return.at \notin BlockSweeps
  BY <1>1, InTestFacts, EndPlaces DEF BlockSweeps
<1>3. here.at \notin BlockSweeps /\ here.at \notin Downs
  BY DEF Ups, BlockSweeps, Downs
<1>4. \A i, k, w, j : Up(here.at, i, j, k, w).at = here.at
  BY DEF Up, Place
<1>5. ASSUME NEW i, NEW j, NEW k, NEW w, i \in Nat, k \in Int, w \in Word,
             PlaceInv(j), j.at \notin BlockSweeps
      PROVE  PlaceInv(AgainUp(i, j, k, w)) /\ AgainUp(i, j, k, w).at \notin BlockSweeps
  <2>1. here.j < segs => PlaceInv(Up(here.at, i, here.j + 1, k, w))
    BY <1>1, <1>5, InTestFacts, UpPlace
  <2> QED BY <1>3, <1>4, <1>5, <2>1 DEF AgainUp
<1>6. CASE here.at = "own_write"
  <2>1. "own_check" \in Ups /\ pat \in TestsOf("own_check") /\ "own_check" \notin BlockSweeps
    BY <1>1, <1>6, InTestFacts DEF TestsOf, Ups, BlockSweeps
  <2>2. PlaceInv(Up("own_check", 0, 1, 0, 0)) /\ Up("own_check", 0, 1, 0, 0).at = "own_check"
    BY <1>1, <2>1, InTestFacts, UpPlace DEF Up, Place
  <2>3. On = AgainUp(0, Up("own_check", 0, 1, 0, 0), 0, 0)
    BY <1>6 DEF On, Downs
  <2> QED BY <1>1, <1>5, <2>1, <2>2, <2>3, InTestFacts
<1>7. CASE here.at = "own_check"
  <2>1. On = AgainUp(0, Return, 0, 0)
    BY <1>7 DEF On, Downs
  <2> QED BY <1>1, <1>2, <1>5, <2>1, InTestFacts
<1>8. CASE here.at = "inv_fill"
  <2>1. On = AgainUp(0, MovInv1Again(0), 0, 0)
    BY <1>8 DEF On, Downs
  <2>2. pat \in {0, 1, 10}
    BY <1>1, <1>8, InTestFacts DEF TestsOf, BlockSweeps
  <2>3. PlaceInv(MovInv1Again(0)) /\ MovInv1Again(0).at \notin BlockSweeps
    BY <1>1, <2>2, InTestFacts, Between
  <2> QED BY <1>1, <1>5, <2>1, <2>3, InTestFacts
<1>9. CASE here.at = "inv_up"
  <2> DEFINE d == Down("inv_down", here.i, segs, 0, 0)
  <2>1. On = AgainUp(here.i, d, 0, 0)
    BY <1>9 DEF On, Downs
  <2>2. "inv_down" \in Downs /\ pat \in TestsOf("inv_down") /\ "inv_down" \notin BlockSweeps
    BY <1>1, <1>9, InTestFacts DEF TestsOf, Downs, BlockSweeps
  <2>3. PlaceInv(d) /\ d.at \notin BlockSweeps
    BY <1>1, <2>2, InTestFacts, DownPlace DEF Down, Place
  <2> HIDE DEF d
  <2> QED BY <1>1, <1>5, <2>1, <2>3, InTestFacts
<1>10. CASE here.at = "shift_fill"
  <2>1. On = AgainUp(0, MovInv32Again(0), arg.off, arg.p1)
    BY <1>10 DEF On, Downs
  <2>2. pat = 2
    BY <1>1, <1>10, InTestFacts DEF TestsOf, BlockSweeps
  <2>3. PlaceInv(MovInv32Again(0)) /\ MovInv32Again(0).at \notin BlockSweeps
    BY <1>1, <2>2, InTestFacts, Between
  <2>4. arg.off \in Int /\ arg.p1 \in Word
    BY <1>1, InTestFacts
  <2> QED BY <1>1, <1>5, <2>1, <2>3, <2>4, InTestFacts
<1>11. CASE here.at = "shift_up"
  <2> DEFINE k == Swept(1).k
  <2>1. On = AgainUp(here.i, BackUp(k), arg.off, arg.p1)
    BY <1>11 DEF On, Downs
  <2>2. pat = 2
    BY <1>1, <1>11, InTestFacts DEF TestsOf, BlockSweeps
  <2>3. k \in Int
    <3>1. Swept(1) \in States
      BY UpSwept DEF Kept
    <3> HIDE DEF Swept
    <3> QED BY <3>1, StateParts
  <2> HIDE DEF k
  <2>4. PlaceInv(BackUp(k)) /\ BackUp(k).at \notin BlockSweeps
    BY <1>1, <2>2, <2>3, Between
  <2>5. arg.off \in Int /\ arg.p1 \in Word
    BY <1>1, InTestFacts
  <2> QED BY <1>1, <1>5, <2>1, <2>4, <2>5, InTestFacts
<1>12. CASE here.at = "mod_rest"
  <2>1. On = AgainUp(here.i, ModAgain(here.i + 1), 0, 0)
    BY <1>12 DEF On, Downs
  <2>2. pat = 11
    BY <1>1, <1>12, InTestFacts DEF TestsOf, BlockSweeps
  <2>3. PlaceInv(ModAgain(here.i + 1)) /\ ModAgain(here.i + 1).at \notin BlockSweeps
    BY <1>1, <2>2, InTestFacts, ModBetween
  <2> QED BY <1>1, <1>5, <2>1, <2>3, InTestFacts
<1>13. CASE here.at \in {"rand_fill", "rand_check"}
  <2> DEFINE i == IF here.at = "rand_fill" THEN 0 ELSE here.i
             n == i + 1
  <2>1. On = AgainUp(i, SeedAgain(n), 0, 0)
    BY <1>13 DEF On, Downs
  <2>2. pat = 9
    BY <1>1, <1>13, InTestFacts DEF TestsOf, BlockSweeps
  <2>3. i \in Nat /\ n \in Nat
    BY <1>1, InTestFacts
  <2> HIDE DEF i, n
  <2>4. PlaceInv(SeedAgain(n)) /\ SeedAgain(n).at \notin BlockSweeps
    BY <1>1, <2>2, <2>3, InTestFacts, Between
  <2> QED BY <1>1, <1>5, <2>1, <2>3, <2>4, InTestFacts
<1> QED BY <1>6, <1>7, <1>8, <1>9, <1>10, <1>11, <1>12, <1>13 DEF Ups

LEMMA OnStrides ==
  ASSUME StepInv, here.at \in Strides
  PROVE  PlaceInv(On) /\ On.at \notin BlockSweeps
<1>1. InTest /\ here.at \notin BlockSweeps
  BY DEF InTest, Strides, BlockSweeps
<1>2. PlaceInv(Return) /\ Return.at \notin BlockSweeps
  BY <1>1, InTestFacts, EndPlaces DEF BlockSweeps
<1>3. pat = 11
  BY <1>1, InTestFacts DEF TestsOf, BlockSweeps, Strides
<1>4. PlaceInv(ModAgain(0)) /\ ModAgain(0).at \notin BlockSweeps
  BY <1>1, <1>3, InTestFacts, ModBetween
<1>5. here.j < segs => PlaceInv(Every(here.at, here.j + 1))
  <2>1. arg.off < MOD_SZ
    BY <1>1, <1>3, InTestFacts DEF StepInv, ArgInv
  <2> QED BY <1>1, <1>3, <2>1, InTestFacts, EveryPlace
<1>6. Every(here.at, here.j + 1).at = here.at
  BY DEF Every, Place
<1>7. CASE here.at = "mod_write"
  <2>1. On = IF here.j < segs THEN Every(here.at, here.j + 1) ELSE ModAgain(0)
    BY <1>7 DEF On, Downs
  <2> QED BY <1>1, <1>4, <1>5, <1>6, <2>1
<1>8. CASE here.at = "mod_check"
  <2>1. On = IF here.j < segs THEN Every(here.at, here.j + 1) ELSE Return
    BY <1>8 DEF On, Downs
  <2> QED BY <1>1, <1>2, <1>5, <1>6, <2>1
<1> QED BY <1>7, <1>8 DEF Strides

LEMMA OnDowns ==
  ASSUME StepInv, here.at \in Downs
  PROVE  PlaceInv(On) /\ On.at \notin BlockSweeps
<1>1. InTest /\ here.at \notin BlockSweeps
  BY DEF InTest, Downs, BlockSweeps
<1> DEFINE k == SweptDown.k
           w == SweptDown.w
           d == Down(here.at, here.i, here.j - 1, k, w)
<1>2. k \in Int /\ w \in Word
  <2>1. SweptDown \in States
    BY DownSwept DEF Kept
  <2> HIDE DEF SweptDown
  <2> QED BY <2>1, StateParts
<1>3. d.at = here.at
  BY DEF Down, Place
<1>4. here.at = "inv_down" => On = IF here.j > 1 THEN d ELSE MovInv1Again(here.i + 1)
  BY DEF On, Downs
<1>5. here.at = "shift_down" => On = IF here.j > 1 THEN d ELSE MovInv32Again(here.i + 1)
  BY DEF On, Downs
<1> HIDE DEF k, w
<1>6. here.j > 1 => PlaceInv(d)
  BY <1>1, <1>2, InTestFacts, DownPlace
<1> HIDE DEF d
<1>7. CASE here.at = "inv_down"
  <2>1. pat \in {0, 1, 10}
    BY <1>1, <1>7, InTestFacts DEF TestsOf, BlockSweeps
  <2>2. PlaceInv(MovInv1Again(here.i + 1)) /\ MovInv1Again(here.i + 1).at \notin BlockSweeps
    BY <1>1, <2>1, InTestFacts, Between
  <2> QED BY <1>1, <1>3, <1>4, <1>6, <1>7, <2>2
<1>8. CASE here.at = "shift_down"
  <2>1. pat = 2
    BY <1>1, <1>8, InTestFacts DEF TestsOf, BlockSweeps
  <2>2. PlaceInv(MovInv32Again(here.i + 1)) /\ MovInv32Again(here.i + 1).at \notin BlockSweeps
    BY <1>1, <2>1, InTestFacts, Between
  <2> QED BY <1>1, <1>3, <1>5, <1>6, <1>8, <2>2
<1> QED BY <1>7, <1>8 DEF Downs
-----------------------------------------------------------------------------
(* The complement of a word turns with it.                                 *)
LEMMA RolNot ==
  ASSUME NEW x, x \in Word, NEW n, n \in Int
  PROVE  Rol(Not(x), n) = Not(Rol(x, n))
<1> DEFINE r == n % Bits
           c == 2 ^ (Bits - r)
           d == 2 ^ r
<1>1. r \in 0 .. Bits - 1 /\ r \in Int /\ r % Bits = r
  <2>1. r \in 0 .. Bits - 1
    BY Remainders
  <2> HIDE DEF r
  <2> QED BY <2>1, Sizes
<1>2. \A y : Rol(y, n) = Rol(y, r)
  BY <1>1 DEF Rol
<1> HIDE DEF r
<1>3. c \in Nat \ {0} /\ d \in Nat \ {0} /\ d * c = 2 ^ Bits
  <2>1. Bits - r \in Nat /\ r \in Nat /\ r + (Bits - r) = Bits
    BY <1>1, Sizes
  <2> QED BY <2>1, PowerPositive, PowerSum
<1>4. PICK a \in 0 .. d - 1, b \in 0 .. c - 1 : x = a * c + b
  <2>1. r \in 0 .. Bits
    BY <1>1, Sizes
  <2> QED BY <2>1, Parts
<1>5. Rol(a * c + b, r) = b * d + a
  BY <1>1, <1>4, RolParts
<1> DEFINE a2 == d - 1 - a
           b2 == c - 1 - b
<1>6. a2 \in 0 .. d - 1 /\ b2 \in 0 .. c - 1
  BY <1>3, <1>4
<1>7. Rol(a2 * c + b2, r) = b2 * d + a2
  <2> HIDE DEF a2, b2
  <2> QED BY <1>1, <1>6, RolParts
<1> HIDE DEF c, d
<1>8. Ones = d * c - 1
  BY <1>3, Sizes
<1>9. Not(x) = a2 * c + b2
  BY <1>3, <1>4, <1>8, SMTT(30) DEF Not
<1>10. b2 * d + a2 = Not(b * d + a)
  BY <1>3, <1>4, <1>8, SMTT(30) DEF Not
<1> QED BY <1>2, <1>4, <1>5, <1>7, <1>9, <1>10

LEMMA OneTurns ==
  ASSUME NEW k \in 0 .. Bits - 1
  PROVE  Rol(1, k) = 2 ^ k /\ Rol(Not(1), k) = Not(2 ^ k)
<1> DEFINE c == 2 ^ (Bits - k)
           d == 2 ^ k
           z == 0
           o == 1
<1>1. c \in Nat \ {0} /\ d \in Nat \ {0} /\ c >= 2
  <2>1. Bits - k \in Nat /\ k \in Nat /\ Bits - k - 1 \in Nat /\ (Bits - k - 1) + 1 = Bits - k
    BY Sizes
  <2>2. 2 ^ (Bits - k - 1) \in Nat \ {0}
    BY <2>1, PowerPositive
  <2>3. 2 ^ ((Bits - k - 1) + 1) = 2 * 2 ^ (Bits - k - 1)
    BY <2>1, PowerDoubles
  <2> QED BY <2>1, <2>2, <2>3, PowerPositive
<1>2. z \in 0 .. d - 1 /\ o \in 0 .. c - 1
  <2> HIDE DEF c, d
  <2> QED BY <1>1
<1> HIDE DEF z, o
<1>3. Rol(z * c + o, k) = o * d + z
  BY <1>2, RolParts
<1> USE DEF z, o
<1>4. z * c + o = 1 /\ o * d + z = d
  <2> HIDE DEF c, d
  <2> QED BY <1>1
<1>5. Rol(1, k) = 2 ^ k
  BY <1>3, <1>4
<1>6. Rol(Not(1), k) = Not(Rol(1, k))
  BY RolNot, Sizes
<1> QED BY <1>5, <1>6

LEMMA RepeatedWord ==
  ASSUME NEW m \in 0 .. ByteBits - 1
  PROVE  Repeated(2 ^ m) \in Word
<1> DEFINE d == 2 ^ m
           c == 2 ^ ByteBits - 1
           q == Ones \div c
<1>1. ByteBits \in Nat \ {0} /\ m \in Nat /\ ByteBits - m - 1 \in Nat
  BY WordsAssumption
<1>2. d \in Nat \ {0} /\ c \in Nat \ {0} /\ d <= c
  <2> DEFINE e == 2 ^ (ByteBits - m - 1)
  <2>1. d \in Nat \ {0} /\ e \in Nat \ {0}
    BY <1>1, PowerPositive
  <2>2. 2 ^ (m + (ByteBits - m - 1)) = d * e
    BY <1>1, PowerSum
  <2>3. 2 ^ (m + (ByteBits - m - 1) + 1) = 2 * 2 ^ (m + (ByteBits - m - 1))
    BY <1>1, PowerDoubles
  <2>4. m + (ByteBits - m - 1) + 1 = ByteBits
    BY <1>1
  <2> HIDE DEF d, e
  <2>5. 2 ^ ByteBits = 2 * (d * e)
    BY <2>2, <2>3, <2>4
  <2>6. d * e >= d
    <3>1. e - 1 \in Nat
      BY <2>1
    <3>2. d * (e - 1) >= 0 /\ d * (e - 1) = d * e - d
      BY <2>1, <3>1, SMTT(30)
    <3> QED BY <2>1, <3>2, SMTT(30)
  <2> DEFINE y == d * e
  <2>7. y \in Int /\ y >= d /\ 2 ^ ByteBits = 2 * y
    BY <2>1, <2>5, <2>6
  <2> HIDE DEF y
  <2> QED BY <2>1, <2>7
<1> HIDE DEF c, d
<1>3. Ones \in Nat
  BY Sizes
<1>4. PICK p \in Nat, r \in 0 .. c - 1 : p = Ones \div c /\ r = Ones % c /\ Ones = p * c + r
  BY <1>2, <1>3, Division
<1>5. d * p <= c * p /\ d * p \in Nat
  <2>1. c - d \in Nat
    BY <1>2
  <2>2. (c - d) * p >= 0 /\ (c - d) * p = c * p - d * p
    BY <1>2, <1>4, <2>1, SMTT(30)
  <2> QED BY <1>2, <1>4, <2>2, SMTT(30)
<1>6. d * p \in 0 .. Ones
  BY <1>2, <1>3, <1>4, <1>5, SMTT(30)
<1> QED BY <1>4, <1>6 DEF Repeated, Word, c, d
-----------------------------------------------------------------------------
(* The calls of the switch.                                                *)
LEMMA CallsCount ==
  ASSUME pat \in Pats, pass \in Passes
  PROVE  /\ pat \in {0, 1, 2} \cup 5 .. 11 /\ c_iter \in Nat /\ Calls \in Nat
         /\ pat = 7 => c_iter # 0
<1>1. pat \in {0, 1, 2} \cup 5 .. 11 /\ pat \in Pats /\ pass \in Nat
  BY TestsAssumption
<1>2. Iter[pat] \in Nat /\ (pat = 7 => Iter[pat] >= 2)
  BY <1>1, TestsAssumption
<1>3. c_iter \in Nat /\ (pat = 7 => c_iter # 0)
  BY <1>2 DEF c_iter
<1>4. MOD_SZ \in Nat \ {0} /\ ByteBits \in Nat \ {0} /\ Bits \in Nat
  BY WordsAssumption
<1> DEFINE z == 2 * MOD_SZ * c_iter
<1>5. z \in Nat
  BY <1>3, <1>4
<1> HIDE DEF z
<1>6. Calls = z \/ Calls \in {2, 2 * ByteBits, 2 * Bits, c_iter, 1}
  BY <1>1 DEF Calls, z
<1>7. Calls \in Nat
  BY <1>3, <1>4, <1>5, <1>6
<1> QED BY <1>1, <1>3, <1>7

LEMMA CallFacts ==
  ASSUME StepInv, At("call"), call < Calls
  PROVE  /\ call \in Nat /\ pat \in {0, 1, 2} \cup 5 .. 11 /\ c_iter \in Nat /\ Calls \in Nat
         /\ pat = 7 => c_iter # 0
         /\ pat = 1 => ByteBits - 1 - (call \div 2) \in 0 .. ByteBits - 1
         /\ pat = 2 => call \div 2 \in 0 .. Bits - 1
         /\ (call % (2 * MOD_SZ)) \div 2 \in 0 .. MOD_SZ - 1
         /\ call # 0 \/ call % (2 * MOD_SZ) = 0
<1>3. /\ pat \in {0, 1, 2} \cup 5 .. 11 /\ c_iter \in Nat /\ Calls \in Nat
      /\ (pat = 7 => c_iter # 0)
  BY CallsCount DEF StepInv, TypeInv
<1>4. call \in 0 .. Calls
  BY DEF StepInv, TypeInv
<1>5. MOD_SZ \in Nat \ {0} /\ ByteBits \in Nat \ {0} /\ Bits \in Nat
  BY WordsAssumption
<1>6. call \in Nat
  BY <1>4
<1>7. ASSUME pat = 1 PROVE ByteBits - 1 - (call \div 2) \in 0 .. ByteBits - 1
  <2>1. Calls = 2 * ByteBits
    BY <1>7 DEF Calls
  <2>2. call < 2 * ByteBits
    BY <2>1
  <2> QED BY <1>5, <1>6, <2>2
<1>8. ASSUME pat = 2 PROVE call \div 2 \in 0 .. Bits - 1
  <2>1. Calls = 2 * Bits
    BY <1>8 DEF Calls
  <2>2. call < 2 * Bits
    BY <2>1
  <2> QED BY <1>5, <1>6, <2>2
<1> DEFINE c == 2 * MOD_SZ
           n == call % c
<1>9. c \in Nat \ {0} /\ n \in 0 .. c - 1 /\ (call = 0 => n = 0)
  <2>1. c \in Nat \ {0}
    BY <1>5
  <2> HIDE DEF c
  <2> QED BY <1>6, <2>1
<1>10. n \div 2 \in 0 .. MOD_SZ - 1
  <2>1. n \in 0 .. 2 * MOD_SZ - 1
    BY <1>9
  <2> HIDE DEF n
  <2> QED BY <1>5, <2>1
<1> QED BY <1>3, <1>6, <1>7, <1>8, <1>9, <1>10

LEMMA PatternWord ==
  ASSUME NEW p, p \in Word, NEW n
  PROVE  Pattern(p, n) \in Word
BY NotWord DEF Pattern

LEMMA ArgumentsFit ==
  ASSUME StepInv, At("call"), call < Calls, NEW seeds, seeds \in Word \X Word,
         pat = 9 => seeds \in Seeds
  PROVE  /\ Arguments(call, seeds) \in Args
         /\ Arguments(call, seeds).p2 = Not(Arguments(call, seeds).p1)
         /\ Arguments(call, seeds).seeds = seeds
         /\ pat = 2 => /\ Arguments(call, seeds).off < Bits
                       /\ Arguments(call, seeds).p1
                            = Rol(Arguments(call, seeds).lb, Arguments(call, seeds).off)
         /\ pat = 7 => Arguments(call, seeds).iter # 0
         /\ pat = 11 => Arguments(call, seeds).off < MOD_SZ
<1> DEFINE n == call
           off == CASE pat = 2 -> n \div 2
                    [] pat = 11 -> (n % (2 * MOD_SZ)) \div 2
                    [] OTHER -> 0
           p1 == FirstOf(n)
           lb == Pattern(1, n)
           iter == IF pat \in {10, 11} THEN 2 ELSE c_iter
<1>1. /\ call \in Nat /\ pat \in {0, 1, 2} \cup 5 .. 11 /\ c_iter \in Nat
      /\ pat = 7 => c_iter # 0
      /\ pat = 1 => ByteBits - 1 - (call \div 2) \in 0 .. ByteBits - 1
      /\ pat = 2 => call \div 2 \in 0 .. Bits - 1
      /\ (call % (2 * MOD_SZ)) \div 2 \in 0 .. MOD_SZ - 1
      /\ call # 0 \/ call % (2 * MOD_SZ) = 0
  BY CallFacts
<1>2. rng \in Word \X Word
  BY DEF StepInv, TypeInv
<1>3. Drawn(rand(rng)) \in Word
  BY <1>2, RandWords
<1>4. p1 \in Word
  <2>1. CASE pat = 1
    <3> DEFINE m == ByteBits - 1 - (n \div 2)
    <3>1. FirstOf(n) = Pattern(Repeated(2 ^ m), n)
      BY <2>1 DEF FirstOf
    <3>2. m \in 0 .. ByteBits - 1
      BY <1>1, <2>1
    <3> HIDE DEF m
    <3> QED BY <3>1, <3>2, RepeatedWord, PatternWord
  <2>2. CASE pat = 2
    <3> DEFINE m == n \div 2
    <3>1. FirstOf(n) = Pattern(2 ^ m, n)
      BY <2>2 DEF FirstOf
    <3>2. m \in 0 .. Bits - 1
      BY <1>1, <2>2
    <3> HIDE DEF m
    <3> QED BY <3>1, <3>2, PowerWord, PatternWord
  <2>3. CASE pat = 10
    BY <1>3, <2>3 DEF FirstOf
  <2>4. CASE pat = 11
    <3>1. FirstOf(n) = IF n % (2 * MOD_SZ) = 0 THEN Drawn(rand(rng)) ELSE Pattern(arg.p1, n)
      BY <2>4 DEF FirstOf
    <3>2. n % (2 * MOD_SZ) # 0 => arg.p1 \in Word
      BY <1>1 DEF StepInv, ArgInv, Args
    <3> QED BY <1>3, <3>1, <3>2, PatternWord
  <2>5. CASE pat \notin {1, 2, 10, 11}
    <3>1. FirstOf(n) = Pattern(0, n)
      BY <2>5 DEF FirstOf
    <3> QED BY <3>1, Sizes, PatternWord
  <2> QED BY <2>1, <2>2, <2>3, <2>4, <2>5
<1>5. off \in Nat /\ (pat = 2 => off = n \div 2) /\ (pat = 11 => off < MOD_SZ)
  <2>1. CASE pat = 2
    BY <1>1, <2>1
  <2>2. CASE pat = 11
    <3>1. off = (n % (2 * MOD_SZ)) \div 2
      BY <2>2
    <3>2. MOD_SZ \in Nat
      BY WordsAssumption
    <3> HIDE DEF off
    <3> QED BY <1>1, <2>2, <3>1, <3>2
  <2>3. CASE pat \notin {2, 11}
    BY <2>3
  <2> QED BY <2>1, <2>2, <2>3
<1>6. lb \in Word /\ Not(p1) \in Word /\ iter \in Nat /\ (pat = 7 => iter # 0)
  <2>1. iter \in Nat /\ (pat = 7 => iter # 0)
    BY <1>1
  <2>2. lb \in Word
    BY Sizes, PatternWord
  <2>3. Not(p1) \in Word
    <3> HIDE DEF p1
    <3> QED BY <1>4, NotWord
  <2> QED BY <2>1, <2>2, <2>3
<1>7. ASSUME pat = 2 PROVE off < Bits /\ p1 = Rol(lb, off)
  <2> DEFINE k == n \div 2
  <2>1. off = k /\ k \in 0 .. Bits - 1 /\ p1 = Pattern(2 ^ k, n)
    BY <1>1, <1>5, <1>7 DEF FirstOf
  <2> HIDE DEF k, off, p1
  <2>2. Rol(1, k) = 2 ^ k /\ Rol(Not(1), k) = Not(2 ^ k)
    BY <2>1, OneTurns
  <2>3. p1 = Rol(lb, k)
    BY <2>1, <2>2 DEF Pattern
  <2> QED BY <2>1, <2>3, Sizes
<1>8. Arguments(call, seeds) = [p1 |-> p1, p2 |-> Not(p1), iter |-> iter, off |-> off,
                                lb |-> lb, seeds |-> seeds]
  BY DEF Arguments
<1> HIDE DEF off, p1, lb, iter
<1> QED BY <1>4, <1>5, <1>6, <1>7, <1>8 DEF Args

(* A sweep that has not begun has written nothing.                         *)
LEMMA FillBegins ==
  ASSUME NEW j, j = 1, NEW m, map \in Maps
  PROVE  WordsFilled(BlockUp("block_fill", j), m)
<1> DEFINE h == BlockUp("block_fill", j)
<1>1. h.at = "block_fill" /\ h.j = 1 /\ h.p = BlockStart(1)
  BY DEF BlockUp, Place
<1>2. BlockStart(1) \in Nat
  BY MapFacts, Rooms
<1> HIDE DEF h
<1>3. ASSUME NEW i \in 1 .. segs, NEW b \in Cells, Filled(i, b),
             i < h.j \/ (i = h.j /\ b < h.p)
      PROVE  FALSE
  <2>1. b \in Nat /\ i = 1
    BY <1>1, <1>3, CellFacts
  <2> QED BY <1>1, <1>2, <1>3, <2>1 DEF Filled
<1>4. WordsFilled(h, m)
  BY <1>1, <1>3 DEF WordsFilled
<1> QED BY <1>4 DEF h

LEMMA EntryPlace ==
  ASSUME StepInv, NEW a, a \in Args, pat \in {0, 1, 2} \cup 5 .. 11, pat = 11 => a.off < MOD_SZ
  PROVE  PlaceInv(Entry(a)) /\ WordsFilled(Entry(a), mem)
<1>1. map \in Maps /\ 1 \in 1 .. segs
  BY MapFacts DEF StepInv, TypeInv
<1>2. 0 \in Word /\ 0 \in Int /\ 0 \in Nat /\ a.off \in Int /\ a.off \in Nat /\ a.p1 \in Word
  BY Sizes DEF Args
<1>3. \A sweep, i, j, p, pe, k, w : Place(sweep, i, j, p, pe, k, w).at = sweep
  BY DEF Place
<1>4. ASSUME NEW h, h.at \notin BlockSweeps PROVE WordsFilled(h, mem)
  BY <1>4 DEF WordsFilled, BlockSweeps
<1>5. \A sweep \in Ups : sweep \notin BlockSweeps
  BY DEF Ups, BlockSweeps
<1>6. ASSUME NEW sweep \in Ups, NEW k, NEW w, k \in Int, w \in Word, pat \in TestsOf(sweep)
      PROVE  PlaceInv(Up(sweep, 0, 1, k, w)) /\ WordsFilled(Up(sweep, 0, 1, k, w), mem)
  <2>1. PlaceInv(Up(sweep, 0, 1, k, w))
    BY <1>1, <1>2, <1>6, UpPlace
  <2>2. Up(sweep, 0, 1, k, w).at = sweep
    BY DEF Up, Place
  <2> QED BY <1>4, <1>5, <2>1, <2>2
<1>7. ASSUME NEW sweep \in Others, NEW w, w \in Word, pat \in TestsOf(sweep)
      PROVE  PlaceInv(Up(sweep, 0, 1, 0, w)) /\ WordsFilled(Up(sweep, 0, 1, 0, w), mem)
  <2> DEFINE h == Up(sweep, 0, 1, 0, w)
  <2>1. h \in Places /\ h.at = sweep /\ h.j = 1
    <3>1. Start(1) \in Int
      BY <1>1, Rooms
    <3> QED BY <1>2, <1>7, <3>1 DEF Up, Place, Places, Others, Sweeps
  <2> HIDE DEF h
  <2>2. PlaceInv(h)
    BY <1>1, <1>7, <2>1, OtherPlace
  <2>3. h.at \notin BlockSweeps
    BY <2>1 DEF Others, BlockSweeps
  <2>4. WordsFilled(h, mem)
    BY <1>4, <2>3
  <2> QED BY <2>2, <2>4 DEF h
<1>8. CASE pat \in {0, 1, 10}
  <2>1. pat \in TestsOf("inv_fill") /\ "inv_fill" \in Ups
    BY <1>8 DEF TestsOf, Ups, BlockSweeps
  <2>2. Entry(a) = Up("inv_fill", 0, 1, 0, 0)
    BY <1>8 DEF Entry
  <2> QED BY <1>2, <1>6, <2>1, <2>2
<1>9. CASE pat = 2
  <2>1. pat \in TestsOf("shift_fill") /\ "shift_fill" \in Ups
    BY <1>9 DEF TestsOf, Ups, BlockSweeps
  <2>2. Entry(a) = Up("shift_fill", 0, 1, a.off, a.p1)
    BY <1>9 DEF Entry
  <2> QED BY <1>2, <1>6, <2>1, <2>2
<1>10. CASE pat = 5
  <2>1. pat \in TestsOf("walk_global") /\ "walk_global" \in Others
    BY <1>10 DEF TestsOf, Others, BlockSweeps
  <2>2. Entry(a) = Up("walk_global", 0, 1, 0, 0)
    BY <1>10 DEF Entry
  <2> QED BY <1>2, <1>7, <2>1, <2>2
<1>11. CASE pat = 6
  <2>1. pat \in TestsOf("own_write") /\ "own_write" \in Ups
    BY <1>11 DEF TestsOf, Ups, BlockSweeps
  <2>2. Entry(a) = Up("own_write", 0, 1, 0, 0)
    BY <1>11 DEF Entry
  <2> QED BY <1>2, <1>6, <2>1, <2>2
<1>12. CASE pat = 7
  <2>1. Entry(a) = BlockUp("block_fill", 1)
    BY <1>12 DEF Entry
  <2>2. PlaceInv(BlockUp("block_fill", 1))
    BY <1>1, <1>12, BlockPlace DEF BlockSweeps
  <2> QED BY <1>1, <2>1, <2>2, FillBegins
<1>13. CASE pat = 8
  <2>1. pat \in TestsOf("fade_fill") /\ "fade_fill" \in Others
    BY <1>13 DEF TestsOf, Others, BlockSweeps
  <2>2. Entry(a) = Up("fade_fill", 0, 1, 0, 0)
    BY <1>13 DEF Entry
  <2> QED BY <1>2, <1>7, <2>1, <2>2
<1>14. CASE pat = 9
  <2> DEFINE h == Place("rand_seed", 0, 1, 0, 0, 0, 0)
  <2>1. Entry(a) = h
    <3>1. Entry(a) = SeedAgain(0)
      BY <1>14 DEF Entry
    <3> QED BY <3>1 DEF SeedAgain
  <2>2. h \in Places /\ h.at = "rand_seed" /\ h.j = 1
    BY <1>2 DEF Place, Places, Sweeps
  <2>3. pat \in TestsOf("rand_seed") /\ "rand_seed" \in Others /\ "rand_seed" \notin BlockSweeps
    BY <1>14 DEF TestsOf, Others, BlockSweeps
  <2> HIDE DEF h
  <2> QED BY <1>1, <1>4, <2>1, <2>2, <2>3, OtherPlace
<1>15. CASE pat = 11
  <2> DEFINE h == Place("mod_write", 0, 1, Start(1) + a.off, Start(1), 0, 0)
  <2>1. Entry(a) = h
    BY <1>15 DEF Entry
  <2>2. PlaceInv(h)
    BY <1>1, <1>2, <1>15, StridePlace DEF Strides
  <2>3. h.at = "mod_write" /\ "mod_write" \notin BlockSweeps
    BY <1>3 DEF BlockSweeps
  <2> HIDE DEF h
  <2> QED BY <1>4, <2>1, <2>2, <2>3
<1> QED BY <1>8, <1>9, <1>10, <1>11, <1>12, <1>13, <1>14, <1>15

LEMMA SwitchKept ==
  ASSUME StepInv, Switch
  PROVE  StepInv'
<1>1. At("call") /\ call < Calls
  BY DEF Switch
<1>2. PICK seeds : /\ pat = 9 => seeds \in Seeds
                   /\ pat # 9 => seeds = <<0, 0>>
                   /\ arg' = Arguments(call, seeds)
                   /\ here' = Entry(Arguments(call, seeds))
  BY DEF Switch
<1>3. seeds \in Word \X Word
  <2>1. Seeds \subseteq Word \X Word /\ 0 \in Word
    BY WordsAssumption, Sizes
  <2> QED BY <1>2, <2>1
<1> DEFINE a == Arguments(call, seeds)
<1>4. /\ a \in Args /\ a.p2 = Not(a.p1) /\ a.seeds = seeds
      /\ pat = 2 => a.off < Bits /\ a.p1 = Rol(a.lb, a.off)
      /\ pat = 7 => a.iter # 0
      /\ pat = 11 => a.off < MOD_SZ
  BY <1>1, <1>2, <1>3, ArgumentsFit
<1>5. call \in Nat /\ Calls \in Nat /\ pat \in {0, 1, 2} \cup 5 .. 11
  BY <1>1, CallFacts
<1> HIDE DEF a
<1>6. PlaceInv(Entry(a)) /\ WordsFilled(Entry(a), mem)
  BY <1>4, <1>5, EntryPlace
<1>7. /\ call' = call + 1 /\ UNCHANGED <<pat, pass, map, fault, mem, bail, nticks, errs, strays, late>>
      /\ rng' = IF Draws(call) THEN rand(rng) ELSE rng
  BY DEF Switch
<1>8. arg' = a /\ here' = Entry(a)
  BY <1>2 DEF a
<1>9. ArgInv'
  BY <1>2, <1>4, <1>7, <1>8 DEF ArgInv
<1>10. call' \in 0 .. Calls /\ call' > 0
  <2>1. call \in 0 .. Calls
    BY DEF StepInv, TypeInv
  <2> QED BY <1>1, <1>5, <1>7, <2>1
<1>11. rng' \in Word \X Word
  <2>1. rng \in Word \X Word
    BY DEF StepInv, TypeInv
  <2> QED BY <1>7, <2>1, RandWords
<1>12. ~bail /\ bail' \in BOOLEAN /\ nticks' \in Nat
  BY <1>1, <1>7 DEF StepInv, TypeInv, At
<1>13. errs' \subseteq Addresses /\ (\A x \in strays' : Stray(x)) /\ mem \in [Cells -> Content]
       /\ LateInChunk'
  BY <1>7 DEF StepInv, TypeInv, LateInChunk
<1> QED BY <1>6, <1>7, <1>8, <1>9, <1>10, <1>11, <1>12, <1>13, Arrived
-----------------------------------------------------------------------------
(* The steps between the sweeps, and the bit fade test.                    *)
LEMMA OtherFilled ==
  ASSUME NEW h, h.at \notin BlockSweeps, NEW m
  PROVE  WordsFilled(h, m)
BY DEF WordsFilled, BlockSweeps

LEMMA PlainSteps ==
  ASSUME StepInv, TestDone \/ Finished \/ RandSeed \/ sleep
  PROVE  StepInv'
<1>1. /\ map \in Maps /\ pat \in Pats /\ mem \in [Cells -> Content] /\ rng \in Word \X Word
      /\ bail \in BOOLEAN /\ nticks \in Nat /\ errs \subseteq Addresses
      /\ (\A x \in strays : Stray(x)) /\ call \in 0 .. Calls /\ here \in Places
      /\ here.j \in 1 .. segs /\ PlaceInv(here)
      /\ bail => here.at \in {"over", "fade_check"}
      /\ (UNCHANGED <<pat, late>> => LateInChunk')
  BY DEF StepInv, TypeInv, LateInChunk
<1>2. CASE TestDone
  <2>1. here' = Over /\ UNCHANGED <<pat, pass, map, fault, mem, rng, call, arg, bail, nticks,
                                    errs, strays, late>>
    BY <1>2 DEF TestDone, Goto
  <2>2. PlaceInv(Over) /\ Over.at = "over"
    BY <1>1, EndPlaces
  <2>3. WordsFilled(Over, mem)
    BY <2>2, OtherFilled DEF BlockSweeps
  <2> QED BY <1>1, <2>1, <2>2, <2>3, Moved
<1>3. CASE Finished
  <2>1. here.at = "over" /\ UNCHANGED vars
    BY <1>3 DEF Finished, At
  <2>2. UNCHANGED <<pat, pass, map, fault, mem, rng, call, arg, here, bail, nticks, errs, strays, late>>
    BY <2>1 DEF vars
  <2>3. WordsFilled(here, mem)
    BY DEF StepInv
  <2> QED BY <1>1, <2>1, <2>2, <2>3, Moved
<1>4. CASE RandSeed
  <2> DEFINE sweep == IF here.i = 0 THEN "rand_fill" ELSE "rand_check"
             h == Up(sweep, here.i, 1, 0, 0)
  <2>1. /\ here.at = "rand_seed" /\ rng' = rand_seed(rng, arg.seeds) /\ here' = h
        /\ UNCHANGED <<pat, pass, map, fault, mem, call, arg, bail, nticks, errs, strays, late>>
    BY <1>4 DEF RandSeed, At
  <2>2. InTest /\ ~bail
    BY <1>1, <2>1 DEF InTest
  <2>3. sweep \in Ups /\ pat \in TestsOf(sweep) /\ sweep \notin BlockSweeps
    <3>1. pat = 9
      BY <2>1, <2>2, InTestFacts DEF TestsOf, BlockSweeps
    <3> QED BY <3>1 DEF Ups, TestsOf, BlockSweeps
  <2> HIDE DEF sweep
  <2>4. PlaceInv(h) /\ h.at = sweep
    BY <2>2, <2>3, InTestFacts, UpPlace DEF Up, Place
  <2>5. rng' \in Word \X Word
    <3>1. arg.seeds \in Word \X Word
      BY <2>2, InTestFacts DEF Args
    <3> QED BY <1>1, <2>1, <3>1, SeedWords
  <2> HIDE DEF h
  <2>6. WordsFilled(h, mem)
    BY <2>3, <2>4, OtherFilled
  <2>7. h.at \in {"call", "over"} \/ call > 0
    BY <2>2, InTestFacts
  <2>8. bail' => h.at \in {"over", "fade_check"}
    BY <2>1, <2>2
  <2> QED BY <1>1, <2>1, <2>4, <2>5, <2>6, <2>7, <2>8, Moved
<1>5. CASE sleep
  <2> DEFINE h == [here EXCEPT !.at = "fade_check", !.j = 1]
  <2>1. /\ here.at = "fade_sleep" /\ bail' \in BOOLEAN /\ here' = h
        /\ UNCHANGED <<pat, pass, map, fault, mem, rng, call, arg, nticks, errs, strays, late>>
    BY <1>5 DEF sleep, At
  <2>2. InTest
    BY <1>1, <2>1 DEF InTest
  <2>3. h.at = "fade_check" /\ h.j = 1 /\ h \in Places
    BY <1>1 DEF Places, Sweeps
  <2>4. pat \in TestsOf("fade_check") /\ "fade_check" \in Others /\ "fade_check" \notin BlockSweeps
    <3>1. pat = 8
      BY <2>1, <2>2, InTestFacts DEF TestsOf, BlockSweeps
    <3> QED BY <3>1 DEF Others, TestsOf, BlockSweeps
  <2> HIDE DEF h
  <2>5. PlaceInv(h)
    BY <2>2, <2>3, <2>4, InTestFacts, OtherPlace
  <2>6. WordsFilled(h, mem)
    BY <2>3, <2>4, OtherFilled
  <2>7. h.at \in {"call", "over"} \/ call > 0
    BY <2>2, InTestFacts
  <2> QED BY <1>1, <2>1, <2>3, <2>5, <2>6, <2>7, Moved
<1> QED BY <1>2, <1>3, <1>4, <1>5

FadeSweeps == {"fade_fill", "fade_check"}
LEMMA SegmentKept ==
  ASSUME StepInv, here.at \in FadeSweeps
  PROVE  Kept(OverSegment) /\ Brief(OverSegment)
<1> DEFINE first == Start(here.j)
           c == End(here.j) - first
           i == 1
<1>1. TypeInv /\ ArgInv /\ errs \subseteq Addresses /\ map \in Maps /\ here.j \in 1 .. segs
  BY DEF StepInv, TypeInv
<1>2. first \in Int /\ c \in Nat /\ End(here.j) \in Nat /\ first \in Nat
  BY <1>1, Rooms
<1>3. here.at \in Visited /\ (\A a : Target(a) = a) /\ here.at \in Writers \cup Checkers
  BY DEF FadeSweeps, Visited, Target, Writers, Checkers
<1>4. \A n \in 0 .. c - 1 : Target(first + n * i) \in Cells
  <2>1. ASSUME NEW n \in 0 .. c - 1 PROVE first + n * i \in Cells
    <3> DEFINE a == first + n * i
    <3>1. a \in Int /\ Start(here.j) <= a /\ a < End(here.j)
      BY <1>2
    <3> HIDE DEF a
    <3>2. a \in Cells
      BY <1>1, <3>1, SegmentCells
    <3> QED BY <3>2 DEF a
  <2> QED BY <1>3, <2>1
<1>5. i \in Int
  OBVIOUS
<1>6. OverSegment = Sweep(first, i, c)
  BY DEF OverSegment
<1> HIDE DEF first, c, i
<1>7. Kept(Sweep(first, i, c))
  BY <1>1, <1>2, <1>3, <1>4, <1>5, SweepKept
<1>8. Brief(Sweep(first, i, c))
  BY <1>1, <1>2, <1>3, <1>5, SweepBrief
<1> QED BY <1>6, <1>7, <1>8

(* Where the bit fade test goes on.                                        *)
FadeOn ==
  IF here.j < segs THEN [here EXCEPT !.j = @ + 1]
  ELSE IF here.at = "fade_fill" THEN [here EXCEPT !.at = "fade_sleep"]
  ELSE IF here.w = 0 THEN Up("fade_fill", 0, 1, 0, Ones)
  ELSE Return

LEMMA FadeActions ==
  ASSUME FadeFill \/ FadeCheck
  PROVE  here.at \in FadeSweeps /\ Tick(OverSegment, FadeOn)
<1>1. CASE FadeFill
  <2>1. here.at = "fade_fill"
    BY <1>1 DEF FadeFill, At
  <2>2. FadeOn = IF here.j < segs THEN [here EXCEPT !.j = @ + 1]
                 ELSE [here EXCEPT !.at = "fade_sleep"]
    BY <2>1 DEF FadeOn
  <2> QED BY <1>1, <2>1, <2>2 DEF FadeFill, FadeSweeps
<1>2. CASE FadeCheck
  <2>1. here.at = "fade_check"
    BY <1>2 DEF FadeCheck, At
  <2>2. FadeOn = IF here.j < segs THEN [here EXCEPT !.j = @ + 1]
                 ELSE IF here.w = 0 THEN Up("fade_fill", 0, 1, 0, Ones) ELSE Return
    BY <2>1 DEF FadeOn
  <2> QED BY <1>2, <2>1, <2>2 DEF FadeCheck, FadeSweeps
<1> QED BY <1>1, <1>2

LEMMA FadeKept ==
  ASSUME StepInv, FadeFill \/ FadeCheck
  PROVE  StepInv'
<1>1. here.at \in FadeSweeps /\ Tick(OverSegment, FadeOn)
  BY FadeActions
<1>2. Kept(OverSegment) /\ Brief(OverSegment)
  BY <1>1, SegmentKept
<1>3. InTest /\ here.at # "fade_sleep"
  BY <1>1 DEF InTest, FadeSweeps
<1>4. pat = 8
  BY <1>1, <1>3, InTestFacts DEF TestsOf, BlockSweeps, FadeSweeps
<1>5. /\ map \in Maps /\ pat \in Pats /\ here \in Places /\ here.j \in 1 .. segs
      /\ segs \in Nat \ {0} /\ 1 \in 1 .. segs /\ (here.j < segs => here.j + 1 \in 1 .. segs)
  BY <1>3, InTestFacts
<1>6. /\ \A s \in {"fade_fill", "fade_check", "fade_sleep"} :
           pat \in TestsOf(s) /\ s \in Others /\ s \notin BlockSweeps
  BY <1>4 DEF TestsOf, BlockSweeps, Others
<1>7. ASSUME NEW h, h \in Places, h.j \in 1 .. segs,
             h.at \in {"fade_fill", "fade_check", "fade_sleep"}
      PROVE  PlaceInv(h) /\ h.at \notin BlockSweeps
  BY <1>6, <1>7, OtherPlace
<1>8. PlaceInv(FadeOn) /\ FadeOn.at \notin BlockSweeps
  <2>1. CASE here.j < segs
    <3> DEFINE h == [here EXCEPT !.j = @ + 1]
    <3>1. h \in Places /\ h.j = here.j + 1 /\ h.at = here.at
      BY <1>5, <2>1 DEF Places
    <3>2. FadeOn = h
      BY <2>1 DEF FadeOn
    <3> HIDE DEF h
    <3> QED BY <1>1, <1>5, <1>7, <2>1, <3>1, <3>2 DEF FadeSweeps
  <2>2. CASE ~(here.j < segs) /\ here.at = "fade_fill"
    <3> DEFINE h == [here EXCEPT !.at = "fade_sleep"]
    <3>1. h \in Places /\ h.j = here.j /\ h.at = "fade_sleep"
      BY <1>5 DEF Places, Sweeps
    <3>2. FadeOn = h
      BY <2>2 DEF FadeOn
    <3> HIDE DEF h
    <3> QED BY <1>5, <1>7, <3>1, <3>2
  <2>3. CASE ~(here.j < segs) /\ here.at # "fade_fill" /\ here.w = 0
    <3> DEFINE h == Up("fade_fill", 0, 1, 0, Ones)
    <3>1. h \in Places /\ h.j = 1 /\ h.at = "fade_fill"
      <4>1. Start(1) \in Int /\ Ones \in Word
        BY <1>5, Rooms, Sizes
      <4> QED BY <4>1 DEF Up, Place, Places, Sweeps
    <3>2. FadeOn = h
      BY <2>3 DEF FadeOn
    <3> HIDE DEF h
    <3> QED BY <1>5, <1>7, <3>1, <3>2
  <2>4. CASE ~(here.j < segs) /\ here.at # "fade_fill" /\ here.w # 0
    <3>1. FadeOn = Return
      BY <2>4 DEF FadeOn
    <3> QED BY <1>5, <3>1, EndPlaces DEF BlockSweeps
  <2> QED BY <2>1, <2>2, <2>3, <2>4
<1>9. WordsFilled(FadeOn, OverSegment.mem)
  BY <1>8, OtherFilled
<1> QED BY <1>1, <1>2, <1>3, <1>8, <1>9, KeptTick
-----------------------------------------------------------------------------
(* The block move: a word at a time.                                       *)
LEMMA MoveWordTyped ==
  ASSUME Sound_, NEW x, x \in States, NEW from, NEW to, NEW n, to \in Int, n \in Int
  PROVE  MoveWord(x, from, to, n) \in States
<1>1. x.mem \in [Cells -> Int]
  BY StateParts
<1>2. Load(x.mem, from + n) \in Int
  <2>1. ASSUME NEW a PROVE Load(x.mem, a) \in Int
    BY <1>1, CellAtCell, Sizes DEF Load, Sound_
  <2> QED BY <2>1
<1>3. to + n \in Int
  OBVIOUS
<1> QED BY <1>2, <1>3, WriteIs DEF MoveWord

Moves(v, s, from, to, c) ==
  /\ v[0] = s /\ Move(s, from, to, c) = v[c]
  /\ \A n \in 0 .. c - 1 : v[n + 1] = MoveWord(v[n], from, to, n)

LEMMA MoveSteps ==
  ASSUME Sound_, NEW s, s \in States, NEW from, NEW to, NEW c,
         from \in Int, to \in Int, c \in Nat
  PROVE  \E v : Moves(v, s, from, to, c)
<1> DEFINE T == [z \in States \X (0 .. c - 1) |-> MoveWord(z[1], from, to, z[2])]
           Solution(g) ==
             g = [n \in 0 .. c |->
                    IF n = 0 THEN s
                    ELSE CHOOSE t \in {MoveWord(x, from, to, 0 + (n - 1) * 1) : x \in {g[n - 1]}} :
                           TRUE]
           v == CHOOSE g : Solution(g)
<1>1. T \in [States \X (0 .. c - 1) -> States]
  <2>1. ASSUME NEW z \in States \X (0 .. c - 1) PROVE MoveWord(z[1], from, to, z[2]) \in States
    BY MoveWordTyped
  <2> QED BY <2>1
<1>2. \A x \in States, n \in 0 .. c - 1 : T[<<x, n>>] = MoveWord(x, from, to, n)
  OBVIOUS
<1> HIDE DEF T
<1>3. PICK f \in [0 .. c -> States] : SolvedTo(f, s, T, c)
  <2>1. Solvable(States, s, T, c)
    BY <1>1, Recursion DEF Steps
  <2> QED BY <2>1 DEF Solvable
<1>4. ASSUME NEW n \in 0 .. c - 1 PROVE f[n + 1] = MoveWord(f[n], from, to, n)
  <2>1. f[n] \in States
    OBVIOUS
  <2>2. f[n + 1] = T[<<f[n], n>>]
    BY <1>3 DEF SolvedTo
  <2> QED BY <1>2, <2>1, <2>2
<1>5. ASSUME NEW g, NEW n \in Nat
      PROVE  (CHOOSE t \in {MoveWord(x, from, to, 0 + (n - 1) * 1) : x \in {g[n - 1]}} : TRUE)
               = MoveWord(g[n - 1], from, to, n - 1)
  <2> DEFINE y == MoveWord(g[n - 1], from, to, 0 + (n - 1) * 1)
  <2>1. {MoveWord(x, from, to, 0 + (n - 1) * 1) : x \in {g[n - 1]}} = {y}
    OBVIOUS
  <2>2. 0 + (n - 1) * 1 = n - 1
    OBVIOUS
  <2>3. y = MoveWord(g[n - 1], from, to, n - 1)
    BY <2>2
  <2> HIDE DEF y
  <2>4. (CHOOSE t \in {y} : TRUE) = y
    OBVIOUS
  <2> QED BY <2>1, <2>3, <2>4
<1>6. Solution(f)
  <2>1. ASSUME NEW n \in 0 .. c
        PROVE  f[n] = IF n = 0 THEN s
                      ELSE CHOOSE t \in {MoveWord(x, from, to, 0 + (n - 1) * 1) : x \in {f[n - 1]}} :
                             TRUE
    <3>1. CASE n = 0
      BY <1>3, <3>1 DEF SolvedTo
    <3>2. CASE n # 0
      <4>1. n - 1 \in 0 .. c - 1 /\ (n - 1) + 1 = n /\ n \in Nat
        BY <3>2
      <4>2. f[n] = MoveWord(f[n - 1], from, to, n - 1)
        BY <1>4, <4>1
      <4> QED BY <1>5, <3>2, <4>1, <4>2
    <3> QED BY <3>1, <3>2
  <2> QED BY <2>1
<1>7. Move(s, from, to, c) = v[c]
  BY DEF Move, Each
<1> HIDE DEF Solution
<1>8. Solution(v)
  BY <1>6
<1> HIDE DEF v
<1>9. \A n \in 0 .. c : v[n] = IF n = 0 THEN s ELSE MoveWord(v[n - 1], from, to, n - 1)
  BY <1>5, <1>8 DEF Solution
<1>10. \A n \in 0 .. c - 1 : v[n + 1] = MoveWord(v[n], from, to, n)
  <2>1. ASSUME NEW n \in 0 .. c - 1 PROVE v[n + 1] = MoveWord(v[n], from, to, n)
    <3>1. n + 1 \in 0 .. c /\ n + 1 # 0 /\ (n + 1) - 1 = n
      OBVIOUS
    <3> QED BY <1>9, <3>1
  <2> QED BY <2>1
<1>11. v[0] = s
  BY <1>9
<1>12. Moves(v, s, from, to, c)
  BY <1>7, <1>10, <1>11 DEF Moves
<1> QED BY <1>12

(* What is read are words, so what is written are.                         *)
LEMMA MoveKept ==
  ASSUME Sound_, here.at # "fade_check", NEW s, Kept(s), NEW from, NEW to, NEW c,
         from \in Int, to \in Int, c \in Nat,
         \A n \in 0 .. c - 1 : Load(s.mem, from + n) \in Word /\ to + n \in Cells
  PROVE  /\ Kept(Move(s, from, to, c))
         /\ \A b : Load(s.mem, b) \in Word => Load(Move(s, from, to, c).mem, b) \in Word
         /\ \A n \in 0 .. c - 1 : Load(Move(s, from, to, c).mem, to + n) \in Word
<1>1. s \in States
  BY DEF Kept
<1>0. PICK v : Moves(v, s, from, to, c)
  BY <1>1, MoveSteps
<1>2. /\ v[0] = s /\ Move(s, from, to, c) = v[c]
      /\ \A n \in 0 .. c - 1 : v[n + 1] = MoveWord(v[n], from, to, n)
  BY <1>0 DEF Moves
<1> DEFINE Fine(n) == /\ Kept(v[n])
                      /\ \A b : Load(s.mem, b) \in Word => Load(v[n].mem, b) \in Word
                      /\ \A x \in 0 .. n - 1 : Load(v[n].mem, to + x) \in Word
           P == {n \in Nat : n <= c => Fine(n)}
<1>3. 0 \in P
  BY <1>2
<1>4. ASSUME NEW n \in P PROVE n + 1 \in P
  <2> SUFFICES ASSUME n + 1 <= c PROVE Fine(n + 1)
    OBVIOUS
  <2> DEFINE y == Load(v[n].mem, from + n)
             a == to + n
  <2>1. n \in Nat /\ n \in 0 .. c - 1 /\ Fine(n)
    OBVIOUS
  <2>2. v[n + 1] = Write(v[n], a, y)
    BY <1>2, <2>1 DEF MoveWord
  <2>3. y \in Word /\ a \in Cells
    BY <2>1
  <2>4. Kept(v[n]) /\ v[n] \in States /\ v[n].mem \in [Cells -> Content]
    BY <2>1 DEF Kept
  <2> HIDE DEF y
  <2>5. Kept(v[n + 1])
    <3> HIDE DEF a, Fine
    <3> QED BY <2>2, <2>3, <2>4, WriteKept
  <2>6. v[n + 1].mem = Store(v[n].mem, a, y)
    <3>1. a \in Int /\ y \in Int
      BY <2>3, Sizes DEF Word
    <3> HIDE DEF a, Fine
    <3> QED BY <2>2, <2>4, <3>1, WriteIs
  <2>7. /\ Load(v[n + 1].mem, a) \in Word
        /\ \A b : Load(v[n].mem, b) \in Word => Load(v[n + 1].mem, b) \in Word
    <3> HIDE DEF a, Fine
    <3> QED BY <2>3, <2>4, <2>6, LoadStored
  <2>8. \A x \in 0 .. (n + 1) - 1 : Load(v[n + 1].mem, to + x) \in Word
    <3>1. ASSUME NEW x \in 0 .. (n + 1) - 1 PROVE Load(v[n + 1].mem, to + x) \in Word
      <4>1. x = n \/ x \in 0 .. n - 1
        BY <2>1
      <4> QED BY <2>1, <2>7, <4>1
    <3> QED BY <3>1
  <2> QED BY <2>1, <2>5, <2>7, <2>8
<1>5. P = Nat
  <2>1. P \in SUBSET Nat
    OBVIOUS
  <2> HIDE DEF P
  <2> QED BY <1>3, <1>4, <2>1, Induction
<1>6. Fine(c)
  <2> HIDE DEF Fine
  <2> QED BY <1>5
<1> QED BY <1>2, <1>6
-----------------------------------------------------------------------------
(* A chunk of the block move has room for whole blocks and two halves.     *)
BlockSizes ==
  /\ BlockWords \in Nat \ {0} /\ BlockWords >= 4 /\ ShiftWords \in Nat
  /\ BlockWords = ShiftWords + ShiftWords
  /\ SPINSZ \in Nat /\ SPINSZ >= BlockWords /\ SPINSZ % 2 = 0 /\ SPINSZ % BlockWords = 0
LEMMA BlocksFit == BlockSizes
<1>1. /\ BlockWords \in Nat \ {0} /\ BlockWords % 4 = 0 /\ ShiftWords \in Nat
      /\ 2 * ShiftWords = BlockWords /\ SPINSZ \in Nat \ {0} /\ SPINSZ % BlockWords = 0
  BY WordsAssumption
<1>2. BlockWords >= 4 /\ BlockWords = ShiftWords + ShiftWords
  BY <1>1
<1>3. PICK q \in Nat, r \in 0 .. BlockWords - 1 :
        q = SPINSZ \div BlockWords /\ r = SPINSZ % BlockWords /\ SPINSZ = q * BlockWords + r
  BY <1>1, Division
<1> DEFINE z == q * BlockWords
           y == q * ShiftWords
<1>4. z \in Nat /\ y \in Nat /\ SPINSZ = z
  BY <1>1, <1>3
<1>5. z = 2 * y
  BY <1>1, <1>2, SMTT(30)
<1>6. q # 0
  BY <1>1, <1>3
<1>7. z >= BlockWords
  <2> DEFINE u == (q - 1) * BlockWords
  <2>1. u \in Nat
    <3>1. q - 1 \in Nat
      BY <1>6
    <3> QED BY <1>1, <3>1
  <2>2. z = u + BlockWords
    BY <1>1, <1>3, SMTT(30)
  <2> HIDE DEF z, u
  <2> QED BY <1>1, <1>4, <2>1, <2>2
<1>8. SPINSZ % 2 = 0
  <2> HIDE DEF z, y
  <2> QED BY <1>4, <1>5
<1> QED BY <1>1, <1>2, <1>4, <1>7, <1>8 DEF BlockSizes

(* The room of a chunk of n words.                                         *)
ChunkRoom(n, end) ==
  /\ n \in Nat /\ n >= BlockWords /\ n >= 2 * (n % BlockWords)
  /\ n % BlockWords \in 0 .. BlockWords - 1
  /\ ~end => n % BlockWords = 0 /\ n % 2 = 0
LEMMA BlockChunk ==
  ASSUME TypeInv, PlaceInv(here), here.at \in BlockSweeps
  PROVE  /\ Lim \in Nat /\ here.p \in Nat /\ BlockStart(here.j) <= here.p
         /\ Start(here.j) <= here.p /\ here.p = here.pe
         /\ here.p < Lim /\ Lim <= End(here.j) /\ End(here.j) < AddrWords
         /\ ChunkRoom(Lim - here.p, Lim = End(here.j))
         /\ Lim <= FillEnd(here.j) \/ Lim = End(here.j)
         /\ FillEnd(here.j) = End(here.j) - (LastChunk(BlockStart(here.j), End(here.j)) % BlockWords)
         /\ Lim = End(here.j) => Lim - here.p = LastChunk(BlockStart(here.j), End(here.j))
         /\ Lim < End(here.j) => Chunked(BlockStart(here.j), Lim, End(here.j))
<1> DEFINE j == here.j
           first == BlockStart(j)
           end == End(j)
           r == LastChunk(first, end)
<1>1. /\ j \in 1 .. segs /\ map \in Maps /\ here.p = here.pe /\ here.p \in Int
      /\ first <= here.pe /\ Chunked(first, here.pe, end)
  BY DEF PlaceInv, TypeInv, Places
<1>2. /\ first \in Nat /\ end \in Nat /\ first < end /\ end < AddrWords /\ Start(j) \in Nat
      /\ Start(j) <= first /\ BlockRoom(r) /\ r >= 4
  BY <1>1, Rooms
<1>3. r \in Nat /\ r < SPINSZ
  BY <1>2, ChunkSize
<1>4. here.p \in Nat /\ Start(j) <= here.p
  BY <1>1, <1>2
<1>5. /\ Lim \in Nat /\ here.p < Lim /\ Lim <= end
      /\ Lim < end => Lim - here.p = SPINSZ /\ Chunked(first, Lim, end)
      /\ Lim = end => end - here.p = r
  <2>1. r >= 1
    BY <1>2, <1>3
  <2> QED BY <1>1, <1>2, <1>4, <2>1, NextChunk DEF Lim
<1>6. BlockSizes
  BY BlocksFit
<1>7. r >= BlockWords /\ r >= 2 * (r % BlockWords)
  BY <1>2 DEF BlockRoom
<1> DEFINE y == r % BlockWords
<1>8. y \in 0 .. BlockWords - 1 /\ y <= r
  <2>1. r \in Nat /\ BlockWords \in Nat \ {0}
    BY <1>3, <1>6 DEF BlockSizes
  <2> HIDE DEF r
  <2> QED BY <1>7, <2>1
<1>9. ASSUME Lim < end PROVE Lim <= end - y
  <2>1. PICK m \in Nat : end - Lim = m * SPINSZ + r
    BY <1>5, <1>9 DEF Chunked
  <2> DEFINE z == m * SPINSZ
  <2>2. z \in Nat
    BY <1>6 DEF BlockSizes
  <2>3. end - Lim = z + r
    BY <2>1
  <2> HIDE DEF z, r, y, end
  <2> QED BY <1>2, <1>3, <1>5, <1>8, <2>2, <2>3
<1>10. FillEnd(j) = end - y
  BY DEF FillEnd
<1>11. ChunkRoom(Lim - here.p, Lim = end)
  <2>1. CASE Lim = end
    <3>1. Lim - here.p = r
      BY <1>5, <2>1
    <3>2. r \in Nat /\ r >= BlockWords /\ r >= 2 * (r % BlockWords) /\ r % BlockWords \in 0 .. BlockWords - 1
      BY <1>3, <1>7, <1>8
    <3> HIDE DEF r
    <3> QED BY <2>1, <3>1, <3>2 DEF ChunkRoom
  <2>2. CASE Lim # end
    <3>1. Lim - here.p = SPINSZ
      BY <1>2, <1>5, <2>2
    <3> QED BY <1>6, <3>1 DEF ChunkRoom, BlockSizes
  <2> QED BY <2>1, <2>2
<1>12. Lim <= FillEnd(j) \/ Lim = end
  BY <1>2, <1>5, <1>9, <1>10
<1> HIDE DEF first, end, r, y, j
<1> QED BY <1>1, <1>2, <1>4, <1>5, <1>10, <1>11, <1>12 DEF j, first, end, r, y

LEMMA FilledHere ==
  ASSUME TypeInv, PlaceInv(here), here.at \in BlockSweeps, NEW b, b \in Int,
         here.p <= b, b < Lim, b < FillEnd(here.j)
  PROVE  Filled(here.j, b) /\ b \in Cells /\ b \in Nat
<1>1. /\ Lim \in Nat /\ here.p \in Nat /\ BlockStart(here.j) <= here.p
      /\ Start(here.j) <= here.p /\ Lim <= End(here.j) /\ here.j \in 1 .. segs /\ map \in Maps
  BY BlockChunk DEF TypeInv
<1>2. BlockStart(here.j) \in Nat /\ Start(here.j) \in Nat /\ End(here.j) \in Nat
  BY <1>1, Rooms
<1>3. BlockStart(here.j) <= b /\ Start(here.j) <= b /\ b < End(here.j) /\ b \in Nat
  BY <1>1, <1>2
<1> QED BY <1>1, <1>3, SegmentCells DEF Filled

(* The part of the memory that a fill fills.                               *)
BlockEnd == here.p + Blocks(here.p, Lim) * BlockWords
LEMMA FillChunk ==
  ASSUME TypeInv, PlaceInv(here), here.at \in BlockSweeps
  PROVE  /\ Blocks(here.p, Lim) * BlockWords \in Nat
         /\ BlockEnd <= Lim
         /\ Lim < End(here.j) => BlockEnd = Lim
         /\ Lim = End(here.j) => BlockEnd = FillEnd(here.j)
         /\ \A n \in 0 .. Blocks(here.p, Lim) * BlockWords - 1 :
              (here.p + n) % AddrWords = here.p + n /\ here.p + n \in Cells
<1>1. /\ Lim \in Nat /\ here.p \in Nat /\ Start(here.j) <= here.p
      /\ here.p < Lim /\ Lim <= End(here.j) /\ End(here.j) < AddrWords
      /\ ChunkRoom(Lim - here.p, Lim = End(here.j))
      /\ FillEnd(here.j) = End(here.j) - (LastChunk(BlockStart(here.j), End(here.j)) % BlockWords)
      /\ Lim = End(here.j) => Lim - here.p = LastChunk(BlockStart(here.j), End(here.j))
      /\ here.j \in 1 .. segs /\ map \in Maps
  BY BlockChunk DEF TypeInv
<1>2. End(here.j) \in Nat /\ AddrWords \in Nat /\ Start(here.j) \in Nat
  BY <1>1, Rooms, WordsAssumption
<1>3. BlockWords \in Nat \ {0}
  BY WordsAssumption
<1> DEFINE n == Lim - here.p
<1>4. n \in Nat /\ n >= BlockWords
  BY <1>1 DEF ChunkRoom
<1>5. PICK q \in Nat, y \in 0 .. BlockWords - 1 :
        q = n \div BlockWords /\ y = n % BlockWords /\ n = q * BlockWords + y
  BY <1>3, <1>4, Division
<1>6. q # 0
  <2> HIDE DEF n
  <2> QED BY <1>3, <1>4, <1>5
<1>7. Blocks(here.p, Lim) = q
  BY <1>5, <1>6 DEF Blocks
<1> DEFINE z == q * BlockWords
<1>8. z \in Nat
  <2>1. q \in Nat /\ BlockWords \in Nat
    BY <1>3
  <2> QED BY <2>1
<1>9. n = z + y
  BY <1>5
<1>15. y = n % BlockWords
  BY <1>5
<1>10. Blocks(here.p, Lim) * BlockWords = z /\ BlockEnd = here.p + z
  BY <1>7 DEF BlockEnd
<1>11. Lim = here.p + n
  BY <1>1
<1> HIDE DEF z
<1>12. here.p + z <= Lim /\ (Lim < End(here.j) => here.p + z = Lim)
  <2>1. Lim < End(here.j) => y = 0
    BY <1>1, <1>2, <1>15 DEF ChunkRoom
  <2> HIDE DEF n
  <2> QED BY <1>1, <1>3, <1>4, <1>8, <1>9, <1>11, <2>1
<1>13. Lim = End(here.j) => here.p + z = FillEnd(here.j)
  <2> SUFFICES ASSUME Lim = End(here.j) PROVE here.p + z = FillEnd(here.j)
    OBVIOUS
  <2>1. FillEnd(here.j) = End(here.j) - y
    BY <1>1, <1>15
  <2> HIDE DEF n
  <2> QED BY <1>1, <1>3, <1>4, <1>8, <1>9, <1>11, <2>1
<1>14. ASSUME NEW x \in 0 .. z - 1
       PROVE  (here.p + x) % AddrWords = here.p + x /\ here.p + x \in Cells
  <2> DEFINE a == here.p + x
  <2>1. a \in Nat /\ Start(here.j) <= a /\ a < End(here.j) /\ a < AddrWords
    BY <1>1, <1>2, <1>8, <1>12
  <2> HIDE DEF a
  <2>2. a \in Cells
    BY <1>1, <2>1, SegmentCells
  <2>3. a % AddrWords = a
    BY <1>2, <2>1
  <2> QED BY <2>2, <2>3 DEF a
<1> QED BY <1>8, <1>10, <1>12, <1>13, <1>14
-----------------------------------------------------------------------------
(* The fill writes words.                                                  *)
FillCount == Blocks(here.p, Lim) * BlockWords
FillSweep == Sweep(0, 1, FillCount)
LEMMA FillSwept ==
  ASSUME StepInv, here.at = "block_fill"
  PROVE  /\ Kept(FillSweep) /\ Brief(FillSweep)
         /\ \A b : Load(mem, b) \in Word => Load(FillSweep.mem, b) \in Word
         /\ \A n \in 0 .. FillCount - 1 : Load(FillSweep.mem, here.p + n) \in Word
<1>1. TypeInv /\ ArgInv /\ errs \subseteq Addresses /\ PlaceInv(here) /\ Sound_
  BY StateTyped DEF StepInv
<1>2. here.at \in Visited /\ here.at \in BlockSweeps /\ here.at # "fade_check"
      /\ here.at \in Writers
  BY DEF Visited, BlockSweeps, Writers
<1>3. /\ FillCount \in Nat
      /\ \A n \in 0 .. FillCount - 1 : (here.p + n) % AddrWords = here.p + n /\ here.p + n \in Cells
  BY <1>1, <1>2, FillChunk DEF FillCount
<1> DEFINE c == FillCount
           zero == 0
           one == 1
<1>4. zero \in Int /\ one \in Int /\ (\A n \in Nat : zero + n * one = n) /\ FillSweep = Sweep(zero, one, c)
  BY DEF FillSweep
<1> HIDE DEF zero, one
<1>0. PICK f : Swept_(f, zero, one, c)
  BY <1>1, <1>2, <1>3, <1>4, SweepSteps
<1>5. /\ f[0] = State /\ Sweep(zero, one, c) = f[c]
      /\ \A n \in 0 .. c - 1 : f[n + 1] = Visit(f[n], zero + n * one)
  BY <1>0 DEF Swept_
<1> DEFINE Fine(n) == /\ Kept(f[n])
                      /\ \A b : Load(mem, b) \in Word => Load(f[n].mem, b) \in Word
                      /\ \A x \in 0 .. n - 1 : Load(f[n].mem, here.p + x) \in Word
           P == {n \in Nat : n <= c => Fine(n)}
<1>6. 0 \in P
  <2>1. Kept(State) /\ State.mem = mem
    BY <1>1, StateKept DEF State
  <2> QED BY <1>5, <2>1
<1>7. ASSUME NEW n \in P PROVE n + 1 \in P
  <2> SUFFICES ASSUME n + 1 <= c PROVE Fine(n + 1)
    OBVIOUS
  <2> DEFINE y == BlockWord(n \div BlockWords, n % BlockWords)
             a == here.p + n
  <2>1. n \in Nat /\ n \in 0 .. c - 1 /\ Fine(n)
    BY <1>3
  <2>2. f[n + 1] = Visit(f[n], n)
    BY <1>4, <1>5, <2>1
  <2>3. Visit(f[n], n) = Write(f[n], (here.p + n) % AddrWords, y)
    BY DEF Visit, At
  <2>4. (here.p + n) % AddrWords = a /\ a \in Cells
    BY <1>3, <2>1
  <2>5. y \in Word
    <3>1. n \div BlockWords \in Int
      <4>1. BlockWords \in Nat \ {0}
        BY WordsAssumption
      <4> QED BY <2>1, <4>1
    <3> QED BY <3>1, BlockWords_
  <2>6. Kept(f[n]) /\ f[n] \in States /\ f[n].mem \in [Cells -> Content]
    BY <2>1 DEF Kept
  <2> HIDE DEF y
  <2>7. f[n + 1] = Write(f[n], a, y)
    BY <2>2, <2>3, <2>4
  <2>8. Kept(f[n + 1])
    <3> HIDE DEF a, Fine
    <3> QED BY <1>1, <1>2, <2>4, <2>5, <2>6, <2>7, WriteKept
  <2>9. f[n + 1].mem = Store(f[n].mem, a, y)
    <3>1. a \in Int /\ y \in Int
      BY <1>1, <2>4, <2>5, CellFacts, Sizes DEF Word, TypeInv
    <3> HIDE DEF a, Fine
    <3> QED BY <1>1, <2>6, <2>7, <3>1, WriteIs
  <2>10. /\ Load(f[n + 1].mem, a) \in Word
         /\ \A b : Load(f[n].mem, b) \in Word => Load(f[n + 1].mem, b) \in Word
    <3> HIDE DEF a, Fine
    <3> QED BY <1>1, <2>4, <2>5, <2>6, <2>9, LoadStored
  <2>11. \A x \in 0 .. (n + 1) - 1 : Load(f[n + 1].mem, here.p + x) \in Word
    <3>1. ASSUME NEW x \in 0 .. (n + 1) - 1 PROVE Load(f[n + 1].mem, here.p + x) \in Word
      <4>1. x = n \/ x \in 0 .. n - 1
        BY <2>1
      <4> QED BY <2>1, <2>10, <4>1
    <3> QED BY <3>1
  <2>12. \A b : Load(mem, b) \in Word => Load(f[n + 1].mem, b) \in Word
    BY <2>1, <2>10
  <2> QED BY <2>1, <2>8, <2>11, <2>12
<1>8. P = Nat
  <2>1. P \in SUBSET Nat
    OBVIOUS
  <2> HIDE DEF P
  <2> QED BY <1>6, <1>7, <2>1, Induction
<1>9. Fine(c)
  <2>1. c \in P
    BY <1>3, <1>8
  <2>2. c <= c
    BY <1>3
  <2> HIDE DEF Fine
  <2> QED BY <2>1, <2>2
<1>10. FillSweep = f[c]
  BY <1>3, <1>4, <1>5
<1>11. Brief(FillSweep)
  BY <1>1, <1>2, <1>3, <1>4, SweepBrief
<1> QED BY <1>9, <1>10, <1>11

(* Where the fill goes on.                                                 *)
BlockOn(sweep, after) ==
  IF Lim < End(here.j) THEN [here EXCEPT !.p = BlockEnd, !.pe = Lim]
  ELSE IF here.j < segs THEN BlockUp(sweep, here.j + 1) ELSE after
LEMMA FillPlace ==
  ASSUME StepInv, here.at \in {"block_fill", "block_check"}, NEW after, PlaceInv(after), NEW p,
         p \in Int, Lim < End(here.j) => p = Lim
  PROVE  PlaceInv(IF Lim < End(here.j) THEN [here EXCEPT !.p = p, !.pe = Lim]
                  ELSE IF here.j < segs THEN BlockUp(here.at, here.j + 1) ELSE after)
<1>1. here.at \in BlockSweeps /\ InTest
  BY DEF BlockSweeps, InTest
<1>2. /\ TypeInv /\ PlaceInv(here) /\ map \in Maps /\ pat = 7 /\ here \in Places
      /\ here.j \in 1 .. segs /\ (here.j < segs => here.j + 1 \in 1 .. segs)
  BY <1>1, InTestFacts DEF StepInv, TestsOf
<1>3. /\ Lim \in Nat /\ BlockStart(here.j) <= here.p /\ here.p < Lim /\ here.p \in Nat
      /\ Lim < End(here.j) => Chunked(BlockStart(here.j), Lim, End(here.j))
      /\ BlockStart(here.j) \in Nat
  BY <1>1, <1>2, BlockChunk, Rooms
<1>4. CASE Lim < End(here.j)
  <2> DEFINE h == [here EXCEPT !.p = p, !.pe = Lim]
  <2>1. h \in Places /\ h.at = here.at /\ h.j = here.j /\ h.p = Lim /\ h.pe = Lim
    BY <1>2, <1>3, <1>4 DEF Places
  <2> HIDE DEF h
  <2>2. h.at \notin Ups /\ h.at \notin Strides /\ h.at \notin Downs /\ h.at \in BlockSweeps
    BY <1>1, <2>1 DEF Ups, Strides, Downs, BlockSweeps
  <2>3. BlockStart(h.j) <= h.pe /\ pat \in TestsOf(h.at)
    <3>1. BlockStart(here.j) <= Lim
      BY <1>3
    <3> QED BY <1>2, <2>1, <3>1 DEF PlaceInv
  <2>4. PlaceInv(h)
    BY <1>2, <1>3, <1>4, <2>1, <2>2, <2>3 DEF PlaceInv
  <2> QED BY <1>4, <2>4 DEF h
<1>5. CASE ~(Lim < End(here.j))
  <2>1. here.j < segs => PlaceInv(BlockUp(here.at, here.j + 1))
    BY <1>1, <1>2, BlockPlace
  <2> QED BY <1>5, <2>1
<1> QED BY <1>4, <1>5

LEMMA FillWords ==
  ASSUME StepInv, here.at = "block_fill"
  PROVE  WordsFilled(BlockOn("block_fill", BlockUp("block_move", 1)), FillSweep.mem)
<1>1. here.at \in BlockSweeps
  BY DEF BlockSweeps
<1>2. /\ TypeInv /\ PlaceInv(here) /\ WordsFilled(here, mem) /\ map \in Maps
      /\ here.j \in 1 .. segs /\ segs \in Nat \ {0}
  BY MapFacts DEF StepInv, TypeInv
<1>3. /\ FillCount \in Nat /\ BlockEnd = here.p + FillCount /\ here.p \in Nat
      /\ Lim < End(here.j) => BlockEnd = Lim
      /\ Lim = End(here.j) => BlockEnd = FillEnd(here.j)
      /\ Lim \in Nat /\ Lim <= End(here.j) /\ End(here.j) \in Nat
  BY <1>1, <1>2, FillChunk, BlockChunk, Rooms DEF FillCount, BlockEnd
<1>4. /\ \A b : Load(mem, b) \in Word => Load(FillSweep.mem, b) \in Word
      /\ \A n \in 0 .. FillCount - 1 : Load(FillSweep.mem, here.p + n) \in Word
  BY FillSwept
<1> DEFINE h == BlockOn("block_fill", BlockUp("block_move", 1))
<1>5. ASSUME NEW b, b \in Nat, here.p <= b, b < BlockEnd PROVE Load(FillSweep.mem, b) \in Word
  <2>1. b - here.p \in 0 .. FillCount - 1 /\ here.p + (b - here.p) = b
    BY <1>3, <1>5
  <2> QED BY <1>4, <2>1
<1>6. ASSUME NEW j \in 1 .. segs, NEW b \in Cells, Filled(j, b),
             j < here.j \/ (j = here.j /\ b < BlockEnd)
      PROVE  Load(FillSweep.mem, b) \in Word
  <2>1. b \in Nat
    BY <1>2, CellFacts
  <2>2. CASE j < here.j \/ (j = here.j /\ b < here.p)
    BY <1>2, <1>4, <1>6, <2>2 DEF WordsFilled
  <2>3. CASE ~(j < here.j \/ (j = here.j /\ b < here.p))
    BY <1>3, <1>5, <1>6, <2>1, <2>3
  <2> QED BY <2>2, <2>3
<1>7. CASE Lim < End(here.j)
  <2>1. h.at = "block_fill" /\ h.j = here.j /\ h.p = BlockEnd
    BY <1>2, <1>7 DEF BlockOn, TypeInv, Places
  <2> HIDE DEF h
  <2>2. WordsFilled(h, FillSweep.mem)
    BY <1>6, <2>1 DEF WordsFilled
  <2> QED BY <2>2 DEF h
<1>8. CASE ~(Lim < End(here.j))
  <2>1. BlockEnd = FillEnd(here.j)
    BY <1>3, <1>8
  <2>2. \A sweep, j : BlockUp(sweep, j).at = sweep /\ BlockUp(sweep, j).j = j
                      /\ BlockUp(sweep, j).p = BlockStart(j)
    BY DEF BlockUp, Place
  <2>3. ASSUME NEW j \in 1 .. segs, NEW b \in Cells, Filled(j, b), j <= here.j
        PROVE  Load(FillSweep.mem, b) \in Word
    <3>1. j < here.j \/ (j = here.j /\ b < BlockEnd)
      BY <1>2, <2>1, <2>3 DEF Filled
    <3> QED BY <1>6, <2>3, <3>1
  <2>4. CASE here.j < segs
    <3>1. h = BlockUp("block_fill", here.j + 1)
      BY <1>8, <2>4 DEF BlockOn
    <3>2. h.at = "block_fill" /\ h.j = here.j + 1 /\ h.p = BlockStart(here.j + 1)
      BY <2>2, <3>1
    <3> HIDE DEF h
    <3>3. ASSUME NEW j \in 1 .. segs, NEW b \in Cells, Filled(j, b),
                 j < h.j \/ (j = h.j /\ b < h.p)
          PROVE  Load(FillSweep.mem, b) \in Word
      <4>1. here.j + 1 \in 1 .. segs
        BY <1>2, <2>4
      <4>2. BlockStart(here.j + 1) \in Nat /\ b \in Nat
        BY <1>2, <4>1, Rooms, CellFacts
      <4>3. j <= here.j
        BY <1>2, <3>2, <3>3, <4>2 DEF Filled
      <4> QED BY <2>3, <3>3, <4>3
    <3>4. WordsFilled(h, FillSweep.mem)
      BY <3>2, <3>3 DEF WordsFilled
    <3> QED BY <3>4 DEF h
  <2>5. CASE ~(here.j < segs)
    <3>1. h = BlockUp("block_move", 1)
      BY <1>8, <2>5 DEF BlockOn
    <3>2. h.at = "block_move"
      BY <2>2, <3>1
    <3> HIDE DEF h
    <3>3. \A j \in 1 .. segs : j <= here.j
      BY <1>2, <2>5
    <3>4. WordsFilled(h, FillSweep.mem)
      BY <2>3, <3>2, <3>3 DEF WordsFilled
    <3> QED BY <3>4 DEF h
  <2> QED BY <2>4, <2>5
<1> QED BY <1>7, <1>8

LEMMA FillKept ==
  ASSUME StepInv, BlockFill
  PROVE  StepInv'
<1>1. here.at = "block_fill"
  BY DEF BlockFill, At
<1>2. here.at \in BlockSweeps /\ InTest /\ here.at # "fade_sleep"
  BY <1>1 DEF BlockSweeps, InTest
<1>3. TypeInv /\ PlaceInv(here) /\ map \in Maps /\ pat = 7 /\ 1 \in 1 .. segs
  BY <1>1, <1>2, InTestFacts DEF StepInv, TestsOf
<1>4. Lim \in Nat /\ here.p \in Nat /\ here.p < Lim
  BY <1>2, <1>3, BlockChunk
<1> DEFINE next == BlockOn("block_fill", BlockUp("block_move", 1))
<1>5. Tick(FillSweep, next)
  BY <1>4 DEF BlockFill, BlockOn, FillSweep, FillCount, BlockEnd, Lim
<1>6. PlaceInv(BlockUp("block_move", 1))
  BY <1>3, BlockPlace DEF BlockSweeps
<1>7. BlockEnd \in Int /\ (Lim < End(here.j) => BlockEnd = Lim)
  BY <1>2, <1>3, <1>4, FillChunk DEF BlockEnd
<1>8. PlaceInv(next)
  BY <1>1, <1>6, <1>7, FillPlace DEF BlockOn
<1>9. WordsFilled(next, FillSweep.mem) /\ Kept(FillSweep) /\ Brief(FillSweep)
  BY <1>1, FillWords, FillSwept
<1> HIDE DEF next
<1> QED BY <1>2, <1>5, <1>8, <1>9, KeptTick
-----------------------------------------------------------------------------
(* A turn of the block move: all it reads has been filled.                 *)
LEMMA TurnMoves ==
  ASSUME StepInv, here.at = "block_move"
  PROVE  /\ Kept(MoveOnce(State, here.p, Lim))
         /\ \A b : Load(mem, b) \in Word => Load(MoveOnce(State, here.p, Lim).mem, b) \in Word
<1>1. /\ TypeInv /\ PlaceInv(here) /\ WordsFilled(here, mem) /\ Sound_ /\ errs \subseteq Addresses
      /\ here.at \in BlockSweeps /\ here.at # "fade_check" /\ map \in Maps
      /\ here.j \in 1 .. segs
  BY StateTyped DEF StepInv, BlockSweeps, TypeInv
<1> DEFINE p == here.p
           n == Lim - p
           len == n \div 2
           pp == p + len
           sh == ShiftWords
<1>2. /\ Lim \in Nat /\ p \in Nat /\ p < Lim /\ Lim <= End(here.j)
      /\ ChunkRoom(n, Lim = End(here.j)) /\ Start(here.j) <= p
      /\ Lim <= FillEnd(here.j) \/ Lim = End(here.j)
      /\ FillEnd(here.j) = End(here.j) - (LastChunk(BlockStart(here.j), End(here.j)) % BlockWords)
      /\ Lim = End(here.j) => n = LastChunk(BlockStart(here.j), End(here.j))
  BY <1>1, BlockChunk
<1>3. BlockWords \in Nat /\ sh \in Nat /\ BlockWords = sh + sh
  BY BlocksFit DEF BlockSizes
<1>4. /\ n \in Nat /\ n >= BlockWords /\ n >= 2 * (n % BlockWords)
      /\ n % BlockWords \in 0 .. BlockWords - 1
  BY <1>2 DEF ChunkRoom
<1>5. len \in Nat /\ sh <= len /\ len + len <= n
  <2> HIDE DEF n, sh
  <2> QED BY <1>3, <1>4
<1>0. FillEnd(here.j) \in Int
  <2> DEFINE z == LastChunk(BlockStart(here.j), End(here.j))
  <2>1. BlockStart(here.j) \in Nat /\ End(here.j) \in Nat /\ BlockStart(here.j) < End(here.j)
    BY <1>1, Rooms
  <2>2. z \in Int
    BY <2>1, ChunkSize
  <2>3. BlockWords \in Nat \ {0}
    BY WordsAssumption
  <2> HIDE DEF z
  <2>4. z % BlockWords \in Int
    BY <2>2, <2>3
  <2> QED BY <2>1, <2>4 DEF FillEnd, z
<1>6. pp <= FillEnd(here.j)
  <2> DEFINE y == n % BlockWords
  <2>1. y \in Nat /\ n >= 2 * y
    BY <1>4
  <2>2. Lim = End(here.j) => FillEnd(here.j) = Lim - y
    BY <1>2
  <2>3. Lim = p + n
    BY <1>2
  <2> HIDE DEF y
  <2>4. len <= n - y
    <3> HIDE DEF n
    <3> QED BY <1>4, <2>1
  <2>5. /\ Lim \in Nat /\ p \in Nat /\ p < Lim /\ n \in Nat
        /\ Lim <= FillEnd(here.j) \/ Lim = End(here.j)
    BY <1>2, <1>4
  <2> HIDE DEF n, len
  <2> QED BY <1>0, <1>5, <2>1, <2>2, <2>3, <2>4, <2>5
<1>7. Lim = p + n
  BY <1>2
<1>8. End(here.j) \in Nat /\ Start(here.j) \in Nat
  BY <1>1, Rooms
<1> HIDE DEF n, len, sh
<1>9. ASSUME NEW a, a \in Int, p <= a, a < p + n PROVE a \in Cells
  <2>1. Start(here.j) <= a /\ a < End(here.j)
    BY <1>2, <1>4, <1>7, <1>8, <1>9
  <2> QED BY <1>1, <1>9, <2>1, SegmentCells
<1>10. ASSUME NEW b, b \in Int, p <= b, b < pp PROVE Load(mem, b) \in Word
  <2>1. b < Lim /\ b < FillEnd(here.j)
    <3> QED BY <1>0, <1>2, <1>4, <1>5, <1>6, <1>7, <1>10
  <2>2. Filled(here.j, b) /\ b \in Cells
    BY <1>1, <1>10, <2>1, FilledHere
  <2> QED BY <1>1, <2>2 DEF WordsFilled
<1> DEFINE s1 == Move(State, p, pp, len)
           s2 == Move(s1, pp, p + sh, len - sh)
           s3 == Move(s2, pp + len - sh, p, sh)
<1>11. MoveOnce(State, here.p, Lim) = s3
  BY DEF MoveOnce, n, len, sh
<1>12. Kept(State) /\ State.mem = mem
  BY <1>1, StateKept DEF State
<1>13. /\ Kept(s1)
       /\ \A b : Load(mem, b) \in Word => Load(s1.mem, b) \in Word
       /\ \A x \in 0 .. len - 1 : Load(s1.mem, pp + x) \in Word
  <2>1. ASSUME NEW x \in 0 .. len - 1 PROVE Load(State.mem, p + x) \in Word /\ pp + x \in Cells
    <3>1. p + x \in Int /\ p <= p + x /\ p + x < pp
      BY <1>2, <1>5
    <3>2. pp + x \in Int /\ p <= pp + x /\ pp + x < p + n
      BY <1>2, <1>4, <1>5
    <3> QED BY <1>9, <1>10, <1>12, <3>1, <3>2
  <2>2. p \in Int /\ pp \in Int
    BY <1>2, <1>5
  <2> HIDE DEF p, pp
  <2>3. /\ Kept(Move(State, p, pp, len))
        /\ \A b : Load(State.mem, b) \in Word => Load(Move(State, p, pp, len).mem, b) \in Word
        /\ \A x \in 0 .. len - 1 : Load(Move(State, p, pp, len).mem, pp + x) \in Word
    BY <1>1, <1>5, <1>12, <2>1, <2>2, MoveKept
  <2> QED BY <1>12, <2>3
<1> HIDE DEF s1
<1>14. /\ Kept(s2)
       /\ \A b : Load(s1.mem, b) \in Word => Load(s2.mem, b) \in Word
  <2> DEFINE to == p + sh
             c == len - sh
  <2>1. ASSUME NEW x \in 0 .. c - 1 PROVE Load(s1.mem, pp + x) \in Word /\ to + x \in Cells
    <3>1. x \in 0 .. len - 1
      BY <1>3, <1>5
    <3>2. to + x \in Int /\ p <= to + x /\ to + x < p + n
      BY <1>2, <1>3, <1>4, <1>5
    <3> QED BY <1>9, <1>13, <3>1, <3>2
  <2>2. pp \in Int /\ to \in Int /\ c \in Nat
    BY <1>2, <1>3, <1>5
  <2> HIDE DEF pp, to, c
  <2>3. /\ Kept(Move(s1, pp, to, c))
        /\ \A b : Load(s1.mem, b) \in Word => Load(Move(s1, pp, to, c).mem, b) \in Word
    BY <1>1, <1>13, <2>1, <2>2, MoveKept
  <2> QED BY <2>3 DEF to, c
<1> HIDE DEF s2
<1>15. /\ Kept(s3)
       /\ \A b : Load(s2.mem, b) \in Word => Load(s3.mem, b) \in Word
  <2> DEFINE from == pp + len - sh
  <2>1. ASSUME NEW x \in 0 .. sh - 1 PROVE Load(s2.mem, from + x) \in Word /\ p + x \in Cells
    <3>1. len - sh + x \in 0 .. len - 1 /\ from + x = pp + (len - sh + x)
      BY <1>2, <1>3, <1>5
    <3>2. p + x \in Int /\ p <= p + x /\ p + x < p + n
      BY <1>2, <1>3, <1>4, <1>5
    <3>3. Load(s1.mem, from + x) \in Word
      <4> HIDE DEF from, pp
      <4> QED BY <1>13, <3>1
    <3> HIDE DEF from
    <3> QED BY <1>9, <1>14, <3>2, <3>3
  <2>2. p \in Int /\ from \in Int /\ sh \in Nat
    BY <1>2, <1>3, <1>5
  <2> HIDE DEF p, from
  <2>3. /\ Kept(Move(s2, from, p, sh))
        /\ \A b : Load(s2.mem, b) \in Word => Load(Move(s2, from, p, sh).mem, b) \in Word
    BY <1>1, <1>14, <2>1, <2>2, MoveKept
  <2> QED BY <2>3 DEF from
<1> HIDE DEF s3
<1>16. \A b : Load(mem, b) \in Word => Load(s3.mem, b) \in Word
  BY <1>13, <1>14, <1>15
<1> QED BY <1>11, <1>15, <1>16

LEMMA MovesKept ==
  ASSUME StepInv, BlockMove
  PROVE  StepInv'
<1>1. here.at = "block_move"
  BY DEF BlockMove, At
<1>2. here.at \in BlockSweeps /\ InTest /\ here.at # "fade_sleep"
  BY <1>1 DEF BlockSweeps, InTest
<1>3. /\ TypeInv /\ PlaceInv(here) /\ map \in Maps /\ pat = 7 /\ 1 \in 1 .. segs
      /\ here \in Places /\ here.i \in Nat /\ here.j \in 1 .. segs
      /\ (here.j < segs => here.j + 1 \in 1 .. segs) /\ 0 \in Word
  BY <1>1, <1>2, InTestFacts DEF StepInv, TestsOf
<1>4. /\ Lim \in Nat /\ here.p \in Nat /\ here.p < Lim /\ BlockStart(here.j) <= here.p
      /\ Lim < End(here.j) => Chunked(BlockStart(here.j), Lim, End(here.j))
      /\ BlockStart(here.j) \in Nat
  BY <1>2, <1>3, BlockChunk, Rooms
<1>5. arg.iter # 0
  BY <1>2, <1>3, InTestFacts DEF StepInv, ArgInv
<1> DEFINE on == IF Lim < End(here.j)
                 THEN Place("block_move", 0, here.j, Lim, Lim, 0, 0)
                 ELSE IF here.j < segs THEN BlockUp("block_move", here.j + 1)
                 ELSE BlockUp("block_check", 1)
           next == IF here.i + 1 < arg.iter THEN [here EXCEPT !.i = @ + 1] ELSE on
           s == MoveOnce(State, here.p, Lim)
<1>6. Tick(s, next)
  BY <1>4, <1>5 DEF BlockMove, Lim
<1>7. ASSUME NEW h, h \in Places, h.at = "block_move", h.j = here.j, h.p = h.pe,
             h.pe = here.p \/ (h.pe = Lim /\ Lim < End(here.j))
      PROVE  PlaceInv(h)
  <2>1. h.at \notin Ups /\ h.at \notin Strides /\ h.at \notin Downs /\ h.at \in BlockSweeps
    BY <1>7 DEF Ups, Strides, Downs, BlockSweeps
  <2>2. pat \in TestsOf(h.at)
    BY <1>1, <1>3, <1>7 DEF PlaceInv
  <2>3. BlockStart(h.j) <= h.pe /\ Chunked(BlockStart(h.j), h.pe, End(h.j))
    <3>1. here.p = here.pe /\ Chunked(BlockStart(here.j), here.pe, End(here.j))
      BY <1>2, <1>3 DEF PlaceInv
    <3>2. BlockStart(here.j) <= Lim
      BY <1>4
    <3> QED BY <1>4, <1>7, <3>1, <3>2
  <2> QED BY <1>3, <1>7, <2>1, <2>2, <2>3 DEF PlaceInv
<1>8. PlaceInv(on)
  <2>1. CASE Lim < End(here.j)
    <3> DEFINE h == Place("block_move", 0, here.j, Lim, Lim, 0, 0)
    <3>1. h \in Places /\ h.at = "block_move" /\ h.j = here.j /\ h.p = Lim /\ h.pe = Lim
      <4>1. here.j \in Nat /\ Lim \in Int
        BY <1>3, <1>4
      <4> QED BY <1>3, <4>1 DEF Place, Places, Sweeps
    <3> HIDE DEF h
    <3>2. PlaceInv(h)
      BY <1>7, <2>1, <3>1
    <3> QED BY <2>1, <3>2 DEF h
  <2>2. CASE ~(Lim < End(here.j))
    <3>1. /\ here.j < segs => PlaceInv(BlockUp("block_move", here.j + 1))
          /\ PlaceInv(BlockUp("block_check", 1))
      BY <1>3, BlockPlace DEF BlockSweeps
    <3> QED BY <2>2, <3>1
  <2> QED BY <2>1, <2>2
<1>9. PlaceInv(next)
  <2> DEFINE h == [here EXCEPT !.i = @ + 1]
  <2>1. h \in Places /\ h.at = "block_move" /\ h.j = here.j /\ h.p = here.p /\ h.pe = here.pe
    <3>1. here.i + 1 \in Nat
      BY <1>3
    <3> QED BY <1>1, <1>3, <3>1 DEF Places
  <2>2. here.p = here.pe
    BY <1>2, <1>3 DEF PlaceInv
  <2> HIDE DEF h, on
  <2>3. PlaceInv(h)
    BY <1>7, <2>1, <2>2
  <2> QED BY <1>8, <2>3 DEF h
<1>10. next.at \in {"block_move", "block_check"}
  BY <1>1, <1>3 DEF BlockUp, Place, Places
<1>11. /\ Kept(s)
       /\ \A b : Load(mem, b) \in Word => Load(s.mem, b) \in Word
  BY <1>1, TurnMoves
<1> HIDE DEF next, s
<1>12. WordsFilled(next, s.mem)
  <2>1. WordsFilled(here, mem)
    BY DEF StepInv
  <2> QED BY <1>1, <1>10, <1>11, <2>1 DEF WordsFilled
<1>13. Brief(s)
  BY <1>1, <1>11 DEF Kept, Brief
<1> QED BY <1>2, <1>6, <1>9, <1>11, <1>12, <1>13, KeptTick

(* The check, two words at a time.                                         *)
PairSweep == Sweep(here.p, 2, Visits(here.p, Lim, 2))
LEMMA PairsKept ==
  ASSUME StepInv, here.at = "block_check"
  PROVE  /\ Kept(PairSweep) /\ Brief(PairSweep)
         /\ here.p + (Visits(here.p, Lim, 2) * 2) \in Int
         /\ Lim < End(here.j) => here.p + (Visits(here.p, Lim, 2) * 2) = Lim
<1>1. /\ TypeInv /\ ArgInv /\ PlaceInv(here) /\ errs \subseteq Addresses
      /\ here.at \in BlockSweeps /\ here.at \in Visited /\ map \in Maps
      /\ here.j \in 1 .. segs /\ (\A a : Target(a) = a) /\ here.at \in Checkers
  BY DEF StepInv, BlockSweeps, Visited, TypeInv, Target, Checkers
<1>2. /\ Lim \in Nat /\ here.p \in Nat /\ Start(here.j) <= here.p
      /\ here.p < Lim /\ Lim <= End(here.j) /\ ChunkRoom(Lim - here.p, Lim = End(here.j))
  BY <1>1, BlockChunk
<1>3. Start(here.j) \in Nat /\ End(here.j) \in Nat
  BY <1>1, Rooms
<1> DEFINE c == Visits(here.p, Lim, 2)
           two == 2
<1>4. c \in Nat /\ (\A n \in 0 .. c - 1 : here.p + n * two \in Int /\ here.p <= here.p + n * two
                                         /\ here.p + n * two < Lim)
      /\ here.p + (c * 2) \in Int
  BY <1>2 DEF Visits
<1>5. Lim < End(here.j) => here.p + (c * 2) = Lim
  <2>1. Lim < End(here.j) => (Lim - here.p) % 2 = 0
    BY <1>2, <1>3 DEF ChunkRoom
  <2> QED BY <1>2, <2>1 DEF Visits
<1>6. \A n \in 0 .. c - 1 : Target(here.p + n * two) \in Cells
  <2>1. ASSUME NEW n \in 0 .. c - 1 PROVE here.p + n * two \in Cells
    <3> DEFINE a == here.p + n * two
    <3>1. a \in Int /\ here.p <= a /\ a < Lim
      BY <1>4
    <3> HIDE DEF a
    <3>2. a \in Cells
      <4>1. Start(here.j) <= a /\ a < End(here.j)
        BY <1>2, <1>3, <3>1
      <4> QED BY <1>1, <3>1, <4>1, SegmentCells
    <3> QED BY <3>2 DEF a
  <2> QED BY <1>1, <2>1
<1>7. two \in Int /\ here.p \in Int
  BY <1>2
<1>8. PairSweep = Sweep(here.p, two, c)
  BY DEF PairSweep
<1>9. Kept(PairSweep) /\ Brief(PairSweep)
  <2> HIDE DEF c, two
  <2>1. Kept(PairSweep)
    BY <1>1, <1>4, <1>6, <1>7, <1>8, SweepKept
  <2>2. Brief(PairSweep)
    BY <1>1, <1>4, <1>7, <1>8, SweepBrief
  <2> QED BY <2>1, <2>2
<1> QED BY <1>4, <1>5, <1>9

LEMMA BlockCheckKept ==
  ASSUME StepInv, BlockCheck
  PROVE  StepInv'
<1>1. here.at = "block_check"
  BY DEF BlockCheck, At
<1>2. here.at \in BlockSweeps /\ InTest /\ here.at # "fade_sleep"
  BY <1>1 DEF BlockSweeps, InTest
<1>3. TypeInv /\ PlaceInv(here) /\ map \in Maps /\ pat \in Pats
  BY <1>1, <1>2, InTestFacts DEF StepInv
<1>4. Lim \in Nat /\ here.p \in Nat /\ here.p < Lim
  BY <1>2, <1>3, BlockChunk
<1> DEFINE p == here.p + (Visits(here.p, Lim, 2) * 2)
           next == IF Lim < End(here.j) THEN [here EXCEPT !.p = p, !.pe = Lim]
                   ELSE IF here.j < segs THEN BlockUp(here.at, here.j + 1) ELSE Return
<1>5. Tick(PairSweep, next)
  BY <1>1, <1>4 DEF BlockCheck, PairSweep, Lim
<1>6. /\ Kept(PairSweep) /\ Brief(PairSweep) /\ p \in Int
      /\ Lim < End(here.j) => p = Lim
  BY <1>1, PairsKept
<1>7. PlaceInv(Return) /\ Return.at = "call"
  BY <1>3, EndPlaces
<1> HIDE DEF p
<1>8. PlaceInv(next)
  BY <1>1, <1>6, <1>7, FillPlace
<1>9. next.at \notin {"block_fill", "block_move"}
  BY <1>1, <1>3, <1>7 DEF BlockUp, Place, TypeInv, Places
<1> HIDE DEF next
<1>10. WordsFilled(next, PairSweep.mem)
  BY <1>9 DEF WordsFilled
<1> QED BY <1>2, <1>5, <1>6, <1>8, <1>10, KeptTick
-----------------------------------------------------------------------------
(* Loops: what each turn keeps, the loop keeps.                            *)
(* The loops of the address test.                                          *)
Repeated_(s, from, base, end, p1) ==
  Each(LAMBDA t, i : IF t.errs # from.errs THEN t ELSE Touches(t, base, end, p1),
       s, 1, 1, Repeats)
BankCount(j) == IF Bank(j) >= End(j) THEN 0
                ELSE (End(j) - Bank(j) + BankWords - 1) \div BankWords
AllBanks(s) == Each(Banks, s, 1, 1, segs)

LEMMA TouchesIn ==
  ASSUME NEW base, NEW end, NEW p1, NEW S, S \in SUBSET States, NEW s, s \in S,
         \A x \in States, n \in 0 .. Bits - 1 : Touch(x, base, end, p1, n) \in States,
         \A x \in S, n \in 0 .. Bits - 1 : Touch(x, base, end, p1, n) \in S,
         Bits \in Nat
  PROVE  Touches(s, base, end, p1) \in S
<1> DEFINE T == [z \in States \X (0 .. Bits - 1) |-> Touch(z[1], base, end, p1, z[2])]
           Solution(g) ==
             g = [n \in 0 .. Bits |->
                    IF n = 0 THEN s
                    ELSE CHOOSE t \in {Touch(x, base, end, p1, 0 + (n - 1) * 1) : x \in {g[n - 1]}} : TRUE]
           v == CHOOSE g : Solution(g)
           P == {n \in Nat : n <= Bits => v[n] \in S}
<1>1. T \in [States \X (0 .. Bits - 1) -> States]
  <2>1. ASSUME NEW z \in States \X (0 .. Bits - 1) PROVE Touch(z[1], base, end, p1, z[2]) \in States
    <3>1. z[1] \in States /\ z[2] \in 0 .. Bits - 1
      OBVIOUS
    <3> QED BY <3>1
  <2> QED BY <2>1
<1>2. \A x \in States, n \in 0 .. Bits - 1 : T[<<x, n>>] = Touch(x, base, end, p1, n)
  OBVIOUS
<1> HIDE DEF T
<1>3. PICK f \in [0 .. Bits -> States] : SolvedTo(f, s, T, Bits)
  <2>1. s \in States
    OBVIOUS
  <2>2. Solvable(States, s, T, Bits)
    BY <1>1, <2>1, Recursion DEF Steps
  <2> QED BY <2>2 DEF Solvable
<1>4. ASSUME NEW n \in 0 .. Bits - 1 PROVE f[n + 1] = Touch(f[n], base, end, p1, n)
  <2>1. f[n] \in States
    OBVIOUS
  <2>2. f[n + 1] = T[<<f[n], n>>]
    BY <1>3 DEF SolvedTo
  <2> QED BY <1>2, <2>1, <2>2
<1>5. ASSUME NEW g, NEW n \in Nat
      PROVE  (CHOOSE t \in {Touch(x, base, end, p1, 0 + (n - 1) * 1) : x \in {g[n - 1]}} : TRUE)
               = Touch(g[n - 1], base, end, p1, n - 1)
  <2> DEFINE y == Touch(g[n - 1], base, end, p1, 0 + (n - 1) * 1)
  <2>1. {Touch(x, base, end, p1, 0 + (n - 1) * 1) : x \in {g[n - 1]}} = {y}
    OBVIOUS
  <2>2. 0 + (n - 1) * 1 = n - 1
    OBVIOUS
  <2>3. y = Touch(g[n - 1], base, end, p1, n - 1)
    BY <2>2
  <2> HIDE DEF y
  <2>4. (CHOOSE t \in {y} : TRUE) = y
    OBVIOUS
  <2> QED BY <2>1, <2>3, <2>4
<1>6. Solution(f)
  <2>1. ASSUME NEW n \in 0 .. Bits
        PROVE  f[n] = IF n = 0 THEN s
                      ELSE CHOOSE t \in {Touch(x, base, end, p1, 0 + (n - 1) * 1) : x \in {f[n - 1]}} : TRUE
    <3>1. CASE n = 0
      BY <1>3, <3>1 DEF SolvedTo
    <3>2. CASE n # 0
      <4>1. n - 1 \in 0 .. Bits - 1 /\ (n - 1) + 1 = n /\ n \in Nat
        BY <3>2
      <4>2. f[n] = Touch(f[n - 1], base, end, p1, n - 1)
        BY <1>4, <4>1
      <4> QED BY <1>5, <3>2, <4>1, <4>2
    <3> QED BY <3>1, <3>2
  <2> QED BY <2>1
<1>7. Touches(s, base, end, p1) = v[Bits]
  BY DEF Touches, Each
<1> HIDE DEF Solution
<1>8. Solution(v)
  BY <1>6
<1> HIDE DEF v
<1>9. \A n \in 0 .. Bits : v[n] = IF n = 0 THEN s ELSE Touch(v[n - 1], base, end, p1, n - 1)
  BY <1>5, <1>8 DEF Solution
<1>10. 0 \in P
  BY <1>9
<1>11. ASSUME NEW n \in P PROVE n + 1 \in P
  <2> SUFFICES ASSUME n + 1 <= Bits PROVE v[n + 1] \in S
    OBVIOUS
  <2>1. n \in Nat /\ n + 1 \in 0 .. Bits /\ n + 1 # 0 /\ (n + 1) - 1 = n /\ n \in 0 .. Bits - 1
        /\ v[n] \in S
    OBVIOUS
  <2>2. v[n + 1] = Touch(v[n], base, end, p1, n)
    BY <1>9, <2>1
  <2> HIDE DEF P
  <2> QED BY <2>1, <2>2
<1>12. P = Nat
  <2>1. P \in SUBSET Nat
    OBVIOUS
  <2> HIDE DEF P
  <2> QED BY <1>10, <1>11, <2>1, Induction
<1> QED BY <1>7, <1>12

LEMMA WalkIn ==
  ASSUME NEW base, NEW end, NEW p1, NEW from, NEW S, S \in SUBSET States, NEW s, s \in S,
         \A x \in States, n \in 0 .. Repeats - 1 : (IF x.errs # from.errs THEN x ELSE Touches(x, base, end, p1)) \in States,
         \A x \in S, n \in 0 .. Repeats - 1 : (IF x.errs # from.errs THEN x ELSE Touches(x, base, end, p1)) \in S,
         Repeats \in Nat
  PROVE  Repeated_(s, from, base, end, p1) \in S
<1> DEFINE T == [z \in States \X (0 .. Repeats - 1) |-> (IF z[1].errs # from.errs THEN z[1] ELSE Touches(z[1], base, end, p1))]
           Solution(g) ==
             g = [n \in 0 .. Repeats |->
                    IF n = 0 THEN s
                    ELSE CHOOSE t \in {(IF x.errs # from.errs THEN x ELSE Touches(x, base, end, p1)) : x \in {g[n - 1]}} : TRUE]
           v == CHOOSE g : Solution(g)
           P == {n \in Nat : n <= Repeats => v[n] \in S}
<1>1. T \in [States \X (0 .. Repeats - 1) -> States]
  <2>1. ASSUME NEW z \in States \X (0 .. Repeats - 1) PROVE (IF z[1].errs # from.errs THEN z[1] ELSE Touches(z[1], base, end, p1)) \in States
    <3>1. z[1] \in States /\ z[2] \in 0 .. Repeats - 1
      OBVIOUS
    <3> QED BY <3>1
  <2> QED BY <2>1
<1>2. \A x \in States, n \in 0 .. Repeats - 1 : T[<<x, n>>] = (IF x.errs # from.errs THEN x ELSE Touches(x, base, end, p1))
  OBVIOUS
<1> HIDE DEF T
<1>3. PICK f \in [0 .. Repeats -> States] : SolvedTo(f, s, T, Repeats)
  <2>1. s \in States
    OBVIOUS
  <2>2. Solvable(States, s, T, Repeats)
    BY <1>1, <2>1, Recursion DEF Steps
  <2> QED BY <2>2 DEF Solvable
<1>4. ASSUME NEW n \in 0 .. Repeats - 1 PROVE f[n + 1] = (IF f[n].errs # from.errs THEN f[n] ELSE Touches(f[n], base, end, p1))
  <2>1. f[n] \in States
    OBVIOUS
  <2>2. f[n + 1] = T[<<f[n], n>>]
    BY <1>3 DEF SolvedTo
  <2> QED BY <1>2, <2>1, <2>2
<1>5. ASSUME NEW g, NEW n \in Nat
      PROVE  (CHOOSE t \in {(IF x.errs # from.errs THEN x ELSE Touches(x, base, end, p1)) : x \in {g[n - 1]}} : TRUE)
               = (IF g[n - 1].errs # from.errs THEN g[n - 1] ELSE Touches(g[n - 1], base, end, p1))
  <2> DEFINE y == (IF g[n - 1].errs # from.errs THEN g[n - 1] ELSE Touches(g[n - 1], base, end, p1))
  <2>1. {(IF x.errs # from.errs THEN x ELSE Touches(x, base, end, p1)) : x \in {g[n - 1]}} = {y}
    OBVIOUS
  <2> HIDE DEF y
  <2>2. (CHOOSE t \in {y} : TRUE) = y
    OBVIOUS
  <2> QED BY <2>1, <2>2 DEF y
<1>6. Solution(f)
  <2>1. ASSUME NEW n \in 0 .. Repeats
        PROVE  f[n] = IF n = 0 THEN s
                      ELSE CHOOSE t \in {(IF x.errs # from.errs THEN x ELSE Touches(x, base, end, p1)) : x \in {f[n - 1]}} : TRUE
    <3>1. CASE n = 0
      BY <1>3, <3>1 DEF SolvedTo
    <3>2. CASE n # 0
      <4>1. n - 1 \in 0 .. Repeats - 1 /\ (n - 1) + 1 = n /\ n \in Nat
        BY <3>2
      <4>2. f[n] = (IF f[n - 1].errs # from.errs THEN f[n - 1] ELSE Touches(f[n - 1], base, end, p1))
        BY <1>4, <4>1
      <4> QED BY <1>5, <3>2, <4>1, <4>2
    <3> QED BY <3>1, <3>2
  <2> QED BY <2>1
<1>7. Repeated_(s, from, base, end, p1) = v[Repeats]
  BY DEF Repeated_, Each
<1> HIDE DEF Solution
<1>8. Solution(v)
  BY <1>6
<1> HIDE DEF v
<1>9. \A n \in 0 .. Repeats : v[n] = IF n = 0 THEN s ELSE (IF v[n - 1].errs # from.errs THEN v[n - 1] ELSE Touches(v[n - 1], base, end, p1))
  BY <1>5, <1>8 DEF Solution
<1>10. 0 \in P
  BY <1>9
<1>11. ASSUME NEW n \in P PROVE n + 1 \in P
  <2> SUFFICES ASSUME n + 1 <= Repeats PROVE v[n + 1] \in S
    OBVIOUS
  <2>1. n \in Nat /\ n + 1 \in 0 .. Repeats /\ n + 1 # 0 /\ (n + 1) - 1 = n /\ n \in 0 .. Repeats - 1
        /\ v[n] \in S
    OBVIOUS
  <2>2. v[n + 1] = (IF v[n].errs # from.errs THEN v[n] ELSE Touches(v[n], base, end, p1))
    BY <1>9, <2>1
  <2> HIDE DEF P
  <2> QED BY <2>1, <2>2
<1>12. P = Nat
  <2>1. P \in SUBSET Nat
    OBVIOUS
  <2> HIDE DEF P
  <2> QED BY <1>10, <1>11, <2>1, Induction
<1> QED BY <1>7, <1>12

LEMMA BanksIn ==
  ASSUME NEW j, NEW S, S \in SUBSET States, NEW s, s \in S,
         \A x \in States, n \in 0 .. BankCount(j) - 1 : Walk(x, Bank(j) + (n) * BankWords, End(j), here.w) \in States,
         \A x \in S, n \in 0 .. BankCount(j) - 1 : Walk(x, Bank(j) + (n) * BankWords, End(j), here.w) \in S,
         BankCount(j) \in Nat
  PROVE  Banks(s, j) \in S
<1> DEFINE T == [z \in States \X (0 .. BankCount(j) - 1) |-> Walk(z[1], Bank(j) + (z[2]) * BankWords, End(j), here.w)]
           Solution(g) ==
             g = [n \in 0 .. BankCount(j) |->
                    IF n = 0 THEN s
                    ELSE CHOOSE t \in {Walk(x, Bank(j) + (n - 1) * BankWords, End(j), here.w) : x \in {g[n - 1]}} : TRUE]
           v == CHOOSE g : Solution(g)
           P == {n \in Nat : n <= BankCount(j) => v[n] \in S}
<1>1. T \in [States \X (0 .. BankCount(j) - 1) -> States]
  <2>1. ASSUME NEW z \in States \X (0 .. BankCount(j) - 1) PROVE Walk(z[1], Bank(j) + (z[2]) * BankWords, End(j), here.w) \in States
    <3>1. z[1] \in States /\ z[2] \in 0 .. BankCount(j) - 1
      OBVIOUS
    <3> QED BY <3>1
  <2> QED BY <2>1
<1>2. \A x \in States, n \in 0 .. BankCount(j) - 1 : T[<<x, n>>] = Walk(x, Bank(j) + (n) * BankWords, End(j), here.w)
  OBVIOUS
<1> HIDE DEF T
<1>3. PICK f \in [0 .. BankCount(j) -> States] : SolvedTo(f, s, T, BankCount(j))
  <2>1. s \in States
    OBVIOUS
  <2>2. Solvable(States, s, T, BankCount(j))
    BY <1>1, <2>1, Recursion DEF Steps
  <2> QED BY <2>2 DEF Solvable
<1>4. ASSUME NEW n \in 0 .. BankCount(j) - 1 PROVE f[n + 1] = Walk(f[n], Bank(j) + (n) * BankWords, End(j), here.w)
  <2>1. f[n] \in States
    OBVIOUS
  <2>2. f[n + 1] = T[<<f[n], n>>]
    BY <1>3 DEF SolvedTo
  <2> QED BY <1>2, <2>1, <2>2
<1>5. ASSUME NEW g, NEW n \in Nat
      PROVE  (CHOOSE t \in {Walk(x, Bank(j) + (n - 1) * BankWords, End(j), here.w) : x \in {g[n - 1]}} : TRUE)
               = Walk(g[n - 1], Bank(j) + (n - 1) * BankWords, End(j), here.w)
  <2> DEFINE y == Walk(g[n - 1], Bank(j) + (n - 1) * BankWords, End(j), here.w)
  <2>1. {Walk(x, Bank(j) + (n - 1) * BankWords, End(j), here.w) : x \in {g[n - 1]}} = {y}
    OBVIOUS
  <2> HIDE DEF y
  <2>2. (CHOOSE t \in {y} : TRUE) = y
    OBVIOUS
  <2> QED BY <2>1, <2>2 DEF y
<1>6. Solution(f)
  <2>1. ASSUME NEW n \in 0 .. BankCount(j)
        PROVE  f[n] = IF n = 0 THEN s
                      ELSE CHOOSE t \in {Walk(x, Bank(j) + (n - 1) * BankWords, End(j), here.w) : x \in {f[n - 1]}} : TRUE
    <3>1. CASE n = 0
      BY <1>3, <3>1 DEF SolvedTo
    <3>2. CASE n # 0
      <4>1. n - 1 \in 0 .. BankCount(j) - 1 /\ (n - 1) + 1 = n /\ n \in Nat
        BY <3>2
      <4>2. f[n] = Walk(f[n - 1], Bank(j) + (n - 1) * BankWords, End(j), here.w)
        BY <1>4, <4>1
      <4> QED BY <1>5, <3>2, <4>1, <4>2
    <3> QED BY <3>1, <3>2
  <2> QED BY <2>1
<1>7. Banks(s, j) = v[BankCount(j)]
  BY DEF Banks, BankCount, Each
<1> HIDE DEF Solution
<1>8. Solution(v)
  BY <1>6
<1> HIDE DEF v
<1>9. \A n \in 0 .. BankCount(j) : v[n] = IF n = 0 THEN s ELSE Walk(v[n - 1], Bank(j) + (n - 1) * BankWords, End(j), here.w)
  BY <1>5, <1>8 DEF Solution
<1>10. 0 \in P
  BY <1>9
<1>11. ASSUME NEW n \in P PROVE n + 1 \in P
  <2> SUFFICES ASSUME n + 1 <= BankCount(j) PROVE v[n + 1] \in S
    OBVIOUS
  <2>1. n \in Nat /\ n + 1 \in 0 .. BankCount(j) /\ n + 1 # 0 /\ (n + 1) - 1 = n /\ n \in 0 .. BankCount(j) - 1
        /\ v[n] \in S
    OBVIOUS
  <2>2. v[n + 1] = Walk(v[n], Bank(j) + (n) * BankWords, End(j), here.w)
    BY <1>9, <2>1
  <2> HIDE DEF P
  <2> QED BY <2>1, <2>2
<1>12. P = Nat
  <2>1. P \in SUBSET Nat
    OBVIOUS
  <2> HIDE DEF P
  <2> QED BY <1>10, <1>11, <2>1, Induction
<1> QED BY <1>7, <1>12

LEMMA AllBanksIn ==
  ASSUME NEW S, S \in SUBSET States, NEW s, s \in S,
         \A x \in States, n \in 0 .. segs - 1 : Banks(x, 1 + (n)) \in States,
         \A x \in S, n \in 0 .. segs - 1 : Banks(x, 1 + (n)) \in S,
         segs \in Nat
  PROVE  AllBanks(s) \in S
<1> DEFINE T == [z \in States \X (0 .. segs - 1) |-> Banks(z[1], 1 + (z[2]))]
           Solution(g) ==
             g = [n \in 0 .. segs |->
                    IF n = 0 THEN s
                    ELSE CHOOSE t \in {Banks(x, 1 + (n - 1) * 1) : x \in {g[n - 1]}} : TRUE]
           v == CHOOSE g : Solution(g)
           P == {n \in Nat : n <= segs => v[n] \in S}
<1>1. T \in [States \X (0 .. segs - 1) -> States]
  <2>1. ASSUME NEW z \in States \X (0 .. segs - 1) PROVE Banks(z[1], 1 + (z[2])) \in States
    <3>1. z[1] \in States /\ z[2] \in 0 .. segs - 1
      OBVIOUS
    <3> QED BY <3>1
  <2> QED BY <2>1
<1>2. \A x \in States, n \in 0 .. segs - 1 : T[<<x, n>>] = Banks(x, 1 + (n))
  OBVIOUS
<1> HIDE DEF T
<1>3. PICK f \in [0 .. segs -> States] : SolvedTo(f, s, T, segs)
  <2>1. s \in States
    OBVIOUS
  <2>2. Solvable(States, s, T, segs)
    BY <1>1, <2>1, Recursion DEF Steps
  <2> QED BY <2>2 DEF Solvable
<1>4. ASSUME NEW n \in 0 .. segs - 1 PROVE f[n + 1] = Banks(f[n], 1 + (n))
  <2>1. f[n] \in States
    OBVIOUS
  <2>2. f[n + 1] = T[<<f[n], n>>]
    BY <1>3 DEF SolvedTo
  <2> QED BY <1>2, <2>1, <2>2
<1>5. ASSUME NEW g, NEW n \in Nat
      PROVE  (CHOOSE t \in {Banks(x, 1 + (n - 1) * 1) : x \in {g[n - 1]}} : TRUE)
               = Banks(g[n - 1], 1 + (n - 1))
  <2> DEFINE y == Banks(g[n - 1], 1 + (n - 1) * 1)
  <2>1. {Banks(x, 1 + (n - 1) * 1) : x \in {g[n - 1]}} = {y}
    OBVIOUS
  <2>2. 1 + (n - 1) * 1 = 1 + (n - 1)
    OBVIOUS
  <2>3. y = Banks(g[n - 1], 1 + (n - 1))
    BY <2>2
  <2> HIDE DEF y
  <2>4. (CHOOSE t \in {y} : TRUE) = y
    OBVIOUS
  <2> QED BY <2>1, <2>3, <2>4
<1>6. Solution(f)
  <2>1. ASSUME NEW n \in 0 .. segs
        PROVE  f[n] = IF n = 0 THEN s
                      ELSE CHOOSE t \in {Banks(x, 1 + (n - 1) * 1) : x \in {f[n - 1]}} : TRUE
    <3>1. CASE n = 0
      BY <1>3, <3>1 DEF SolvedTo
    <3>2. CASE n # 0
      <4>1. n - 1 \in 0 .. segs - 1 /\ (n - 1) + 1 = n /\ n \in Nat
        BY <3>2
      <4>2. f[n] = Banks(f[n - 1], 1 + (n - 1))
        BY <1>4, <4>1
      <4> QED BY <1>5, <3>2, <4>1, <4>2
    <3> QED BY <3>1, <3>2
  <2> QED BY <2>1
<1>7. AllBanks(s) = v[segs]
  BY DEF AllBanks, Each
<1> HIDE DEF Solution
<1>8. Solution(v)
  BY <1>6
<1> HIDE DEF v
<1>9. \A n \in 0 .. segs : v[n] = IF n = 0 THEN s ELSE Banks(v[n - 1], 1 + (n - 1))
  BY <1>5, <1>8 DEF Solution
<1>10. 0 \in P
  BY <1>9
<1>11. ASSUME NEW n \in P PROVE n + 1 \in P
  <2> SUFFICES ASSUME n + 1 <= segs PROVE v[n + 1] \in S
    OBVIOUS
  <2>1. n \in Nat /\ n + 1 \in 0 .. segs /\ n + 1 # 0 /\ (n + 1) - 1 = n /\ n \in 0 .. segs - 1
        /\ v[n] \in S
    OBVIOUS
  <2>2. v[n + 1] = Banks(v[n], 1 + (n))
    BY <1>9, <2>1
  <2> HIDE DEF P
  <2> QED BY <2>1, <2>2
<1>12. P = Nat
  <2>1. P \in SUBSET Nat
    OBVIOUS
  <2> HIDE DEF P
  <2> QED BY <1>10, <1>11, <2>1, Induction
<1> QED BY <1>7, <1>12
-----------------------------------------------------------------------------
(* What the address test keeps: it writes words, outside the segments only *)
(* in its first part.                                                      *)
KeptWalk(x) ==
  /\ x \in States /\ x.mem \in [Cells -> Content]
  /\ x.errs \subseteq Addresses
  /\ \A z \in x.strays : Stray(z)
WalkKept == {x \in States : KeptWalk(x)}
Writable(a) == a \in Int /\ (here.at # "walk_global" => a \in Cells)

LEMMA WalkWrite ==
  ASSUME Sound_, NEW x, KeptWalk(x), NEW a, Writable(a), NEW v, v \in Word
  PROVE  KeptWalk(Write(x, a, v))
<1>1. x \in States /\ x.mem \in [Cells -> Content] /\ x.errs \subseteq Addresses
  BY DEF KeptWalk
<1>2. a \in Int /\ v \in Int
  BY Sizes DEF Word, Writable
<1>3. /\ Write(x, a, v) \in States
      /\ Write(x, a, v).mem = Store(x.mem, a, v)
      /\ Write(x, a, v).errs = x.errs
  BY <1>1, <1>2, WriteIs
<1>4. Store(x.mem, a, v) \in [Cells -> Content]
  BY <1>1, StoreContent
<1>5. \A z \in Write(x, a, v).strays : Stray(z)
  <2>1. CASE a \in Cells
    BY <1>1, <2>1, WriteInside DEF KeptWalk
  <2>2. CASE a \notin Cells
    <3>1. here.at = "walk_global" /\ here.at \in Sweeps
      BY <2>2 DEF Writable, Sound_, Places
    <3>2. Write(x, a, v).strays \subseteq x.strays \cup {<<here.at, a>>}
      BY <1>1 DEF Write, States
    <3>3. Stray(<<here.at, a>>)
      BY <1>2, <3>1 DEF Stray
    <3> QED BY <3>2, <3>3 DEF KeptWalk
  <2> QED BY <2>1, <2>2
<1> QED BY <1>1, <1>3, <1>4, <1>5 DEF KeptWalk

LEMMA WalkCheck ==
  ASSUME NEW x, KeptWalk(x), NEW a, a \in Addresses, NEW v
  PROVE  KeptWalk(Check(x, a, v))
<1>1. x \in States /\ x.mem \in [Cells -> Content] /\ x.errs \subseteq Addresses
      /\ \A z \in x.strays : Stray(z)
  BY DEF KeptWalk
<1>2. a \in Int
  BY DEF Addresses
<1>3. /\ Check(x, a, v) \in States
      /\ Check(x, a, v).mem = x.mem
      /\ Check(x, a, v).strays = x.strays
      /\ Check(x, a, v).errs \subseteq x.errs \cup {a}
  BY <1>1, <1>2, CheckIs, CheckErrs
<1> QED BY <1>1, <1>3 DEF KeptWalk

(* From a base a test may begin at.                                        *)
Based(base, end) ==
  /\ base \in Addresses
  /\ here.at # "walk_global" =>
       \E j \in 1 .. segs : end = End(j) /\ Start(j) <= base /\ base < end
LEMMA PointFacts ==
  ASSUME NEW base, base \in Int, NEW n, n \in Nat
  PROVE  Point(base, n) \in Int /\ Point(base, n) >= base
<1>1. 2 ^ n \in Nat
  BY PowerPositive
<1> QED BY <1>1 DEF Point

LEMMA TouchTyped ==
  ASSUME Sound_, NEW x, x \in States, NEW base, base \in Int, NEW end, NEW p1, p1 \in Word,
         NEW n, n \in Nat
  PROVE  Touch(x, base, end, p1, n) \in States
<1> DEFINE a == Point(base, n)
<1>1. a \in Int
  BY PointFacts
<1>2. Not(p1) \in Int
  BY NotWord, Sizes DEF Word
<1> HIDE DEF a
<1>3. Write(x, a, Not(p1)) \in States
  BY <1>1, <1>2, WriteIs
<1>4. Check(Write(x, a, Not(p1)), base, p1) \in States
  BY <1>3, CheckIs
<1> QED BY <1>4 DEF Touch, a

LEMMA TouchKept ==
  ASSUME Sound_, NEW x, KeptWalk(x), NEW base, NEW end, Based(base, end),
         NEW p1, p1 \in Word, NEW n, n \in Nat
  PROVE  KeptWalk(Touch(x, base, end, p1, n))
<1> DEFINE a == Point(base, n)
<1>1. base \in Int /\ base \in Addresses
  BY DEF Based, Addresses
<1>2. a \in Int /\ a >= base
  BY <1>1, PointFacts
<1>3. Not(p1) \in Word
  BY NotWord
<1> HIDE DEF a
<1>4. CASE a = base \/ a >= end
  BY <1>4 DEF Touch, a
<1>5. CASE ~(a = base \/ a >= end)
  <2>1. here.at # "walk_global" => a \in Cells
    <3> SUFFICES ASSUME here.at # "walk_global" PROVE a \in Cells
      OBVIOUS
    <3>1. PICK j \in 1 .. segs : end = End(j) /\ Start(j) <= base /\ base < end
      BY DEF Based
    <3>2. map \in Maps
      BY DEF Sound_
    <3>3. Start(j) \in Nat /\ End(j) \in Nat
      BY <3>2, Rooms
    <3>4. Start(j) <= a /\ a < End(j)
      BY <1>1, <1>2, <1>5, <3>1, <3>3
    <3> QED BY <1>2, <3>2, <3>4, SegmentCells
  <2>2. Writable(a)
    BY <1>2, <2>1 DEF Writable
  <2>3. KeptWalk(Write(x, a, Not(p1)))
    BY <1>3, <2>2, WalkWrite
  <2>4. KeptWalk(Check(Write(x, a, Not(p1)), base, p1))
    BY <1>1, <2>3, WalkCheck
  <2>5. Touch(x, base, end, p1, n) = Check(Write(x, a, Not(p1)), base, p1)
    BY <1>5 DEF Touch, a
  <2> QED BY <2>4, <2>5
<1> QED BY <1>4, <1>5

(* The loops: what they take they give.                                    *)
LEMMA WalkTyped ==
  ASSUME Sound_, NEW base, base \in Int, NEW end, NEW p1, p1 \in Word
  PROVE  /\ \A x \in States : Touches(x, base, end, p1) \in States
         /\ \A x \in States : Walk(x, base, end, p1) \in States
<1>1. \A x \in States, n \in Nat : Touch(x, base, end, p1, n) \in States
  BY TouchTyped
<1>2. Bits \in Nat /\ Repeats \in Nat /\ p1 \in Int
  BY Sizes, WordsAssumption DEF Word
<1>3. ASSUME NEW x, x \in States PROVE Touches(x, base, end, p1) \in States
  <2>1. \A y \in States, n \in 0 .. Bits - 1 : Touch(y, base, end, p1, n) \in States
    BY <1>1, <1>2
  <2> QED BY <1>1, <1>2, <1>3, <2>1, TouchesIn
<1>4. ASSUME NEW x, x \in States PROVE Walk(x, base, end, p1) \in States
  <2> DEFINE y == Write(x, base, p1)
  <2>1. y \in States
    BY <1>2, <1>4, WriteIs
  <2>2. Walk(x, base, end, p1) = Repeated_(y, x, base, end, p1)
    BY DEF Walk, Repeated_
  <2> HIDE DEF y
  <2>3. \A z \in States, n \in Nat :
          (IF z.errs # x.errs THEN z ELSE Touches(z, base, end, p1)) \in States
    BY <1>3
  <2>4. \A z \in States, n \in 0 .. Repeats - 1 :
          (IF z.errs # x.errs THEN z ELSE Touches(z, base, end, p1)) \in States
    BY <1>3
  <2>5. Repeated_(y, x, base, end, p1) \in States
    BY <1>2, <2>1, <2>3, <2>4, WalkIn
  <2> QED BY <2>2, <2>5
<1> QED BY <1>3, <1>4

LEMMA WalkKeeps ==
  ASSUME Sound_, NEW x, KeptWalk(x), NEW base, NEW end, Based(base, end), NEW p1, p1 \in Word
  PROVE  KeptWalk(Walk(x, base, end, p1))
<1>1. base \in Int /\ base \in Addresses
  BY DEF Based, Addresses
<1>2. Bits \in Nat /\ Repeats \in Nat
  BY Sizes, WordsAssumption
<1>3. WalkKept \in SUBSET States /\ \A y : y \in WalkKept <=> KeptWalk(y)
  BY DEF WalkKept, KeptWalk
<1>4. /\ \A y \in States : Touches(y, base, end, p1) \in States
      /\ \A y \in States, n \in Nat : Touch(y, base, end, p1, n) \in States
  BY <1>1, WalkTyped, TouchTyped
<1>5. ASSUME NEW y, y \in WalkKept PROVE Touches(y, base, end, p1) \in WalkKept
  <2>1. \A z \in WalkKept, n \in 0 .. Bits - 1 : Touch(z, base, end, p1, n) \in WalkKept
    BY <1>2, <1>3, TouchKept
  <2>2. \A z \in States, n \in 0 .. Bits - 1 : Touch(z, base, end, p1, n) \in States
    BY <1>2, <1>4
  <2> QED BY <1>2, <1>3, <1>5, <2>1, <2>2, TouchesIn
<1> DEFINE y == Write(x, base, p1)
<1>6. y \in WalkKept
  <2>1. Writable(base)
    <3>1. ASSUME here.at # "walk_global" PROVE base \in Cells
      <4>1. PICK j \in 1 .. segs : end = End(j) /\ Start(j) <= base /\ base < end
        BY <3>1 DEF Based
      <4> QED BY <1>1, <4>1, SegmentCells DEF Sound_
    <3> QED BY <1>1, <3>1 DEF Writable
  <2> QED BY <1>3, <2>1, WalkWrite
<1>7. Walk(x, base, end, p1) = Repeated_(y, x, base, end, p1)
  BY DEF Walk, Repeated_
<1> HIDE DEF y
<1>8. \A z \in States, n \in 0 .. Repeats - 1 :
        (IF z.errs # x.errs THEN z ELSE Touches(z, base, end, p1)) \in States
  BY <1>4
<1>9. \A z \in WalkKept, n \in 0 .. Repeats - 1 :
        (IF z.errs # x.errs THEN z ELSE Touches(z, base, end, p1)) \in WalkKept
  BY <1>5
<1>10. Repeated_(y, x, base, end, p1) \in WalkKept
  BY <1>2, <1>3, <1>6, <1>8, <1>9, WalkIn
<1> QED BY <1>3, <1>7, <1>10
-----------------------------------------------------------------------------
(* Where the walks begin.                                                  *)
LEMMA RoundedUp ==
  ASSUME NEW a, a \in Nat, NEW n, n \in Nat \ {0}
  PROVE  roundup(a, n) \in Addresses
<1> DEFINE x == (a + n - 1) % AddrWords
<1>1. AddrWords \in Nat \ {0}
  BY WordsAssumption
<1>2. x \in 0 .. AddrWords - 1
  BY <1>1
<1> HIDE DEF x
<1>3. PICK q \in Nat, z \in 0 .. n - 1 : q = x \div n /\ z = x % n /\ x = q * n + z
  BY <1>2, Division
<1> DEFINE y == q * n
<1>4. y \in Int
  BY <1>3
<1>5. y >= 0
  BY <1>3, SMTT(30)
<1>6. x = y + z
  BY <1>3
<1>7. roundup(a, n) = y
  BY <1>3 DEF roundup, x
<1> HIDE DEF y
<1> QED BY <1>1, <1>2, <1>3, <1>4, <1>5, <1>6, <1>7 DEF Addresses

(* No bank of a segment wraps around the end of the address space.         *)
BanksInOrder(m) == \A n \in 1 .. Len(m) : roundup(m[n].start, BankWords) >= m[n].start

LEMMA BankFacts ==
  ASSUME map \in Maps, BanksInOrder(map), NEW j, j \in 1 .. segs
  PROVE  /\ BankCount(j) \in Nat
         /\ \A n \in 0 .. BankCount(j) - 1 :
              /\ Bank(j) + n * BankWords \in Addresses
              /\ Start(j) <= Bank(j) + n * BankWords
              /\ Bank(j) + n * BankWords < End(j)
<1>1. Start(j) \in Nat /\ End(j) \in Nat /\ End(j) < AddrWords
  BY Rooms
<1>2. BankWords \in Nat \ {0} /\ AddrWords \in Nat
  BY WordsAssumption
<1>3. Bank(j) \in Nat /\ Start(j) <= Bank(j)
  <2>1. Bank(j) \in Addresses
    BY <1>1, <1>2, RoundedUp DEF Bank
  <2>2. Bank(j) >= Start(j)
    BY DEF BanksInOrder, Bank, Start, segs
  <2> QED BY <1>1, <1>2, <2>1, <2>2 DEF Addresses
<1>4. CASE Bank(j) >= End(j)
  BY <1>4 DEF BankCount
<1>5. CASE ~(Bank(j) >= End(j))
  <2> DEFINE d == End(j) - Bank(j) + BankWords - 1
  <2>1. d \in Nat
    BY <1>1, <1>2, <1>3, <1>5
  <2>2. PICK q \in Nat, z \in 0 .. BankWords - 1 :
          q = d \div BankWords /\ z = d % BankWords /\ d = q * BankWords + z
    BY <1>2, <2>1, Division
  <2>3. BankCount(j) = q
    BY <1>5, <2>2 DEF BankCount
  <2> DEFINE y == q * BankWords
  <2>5. d = End(j) - Bank(j) + BankWords - 1 /\ z \in 0 .. BankWords - 1
    BY <2>2
  <2> HIDE DEF d
  <2>4. y \in Int /\ y = d - z
    BY <1>2, <2>1, <2>2
  <2>6. ASSUME NEW n \in 0 .. q - 1
        PROVE  /\ Bank(j) + n * BankWords \in Addresses
               /\ Start(j) <= Bank(j) + n * BankWords
               /\ Bank(j) + n * BankWords < End(j)
    <3> DEFINE x == n * BankWords
               u == (q - 1 - n) * BankWords
    <3>1. x \in Nat /\ u \in Nat
      <4>1. n \in Nat /\ q - 1 - n \in Nat
        BY <2>2
      <4> QED BY <1>2, <4>1
    <3>2. y = x + u + BankWords
      BY <1>2, <2>2, SMTT(30)
    <3> HIDE DEF x, y, u
    <3>3. Bank(j) + x \in Addresses /\ Start(j) <= Bank(j) + x /\ Bank(j) + x < End(j)
      BY <1>1, <1>2, <1>3, <2>4, <2>5, <3>1, <3>2 DEF Addresses
    <3> QED BY <3>3 DEF x
  <2> QED BY <2>2, <2>3, <2>6
<1> QED BY <1>4, <1>5

-----------------------------------------------------------------------------
(* The two parts of the address test.                                      *)
LEMMA StateWalk ==
  ASSUME StepInv
  PROVE  KeptWalk(State) /\ Sound_ /\ State \in WalkKept
<1>1. State \in States /\ Sound_
  BY StateTyped DEF StepInv
<1>2. State.mem = mem /\ State.errs = errs /\ State.strays = strays
  BY DEF State
<1>3. KeptWalk(State)
  BY <1>1, <1>2 DEF KeptWalk, StepInv, TypeInv
<1> QED BY <1>1, <1>3 DEF WalkKept, KeptWalk

LEMMA Again ==
  ASSUME StepInv, here.at \in {"walk_global", "walk_banks"}
  PROVE  LET h == [here EXCEPT !.i = 1, !.w = Not(@)]
         IN  PlaceInv(h) /\ h.at \notin BlockSweeps
<1> DEFINE h == [here EXCEPT !.i = 1, !.w = Not(@)]
<1>1. InTest
  BY DEF InTest
<1>2. Not(here.w) \in Word /\ here \in Places /\ here.j \in 1 .. segs /\ pat \in TestsOf(here.at)
  BY <1>1, InTestFacts, NotWord
<1>3. h \in Places /\ h.j = here.j /\ h.at = here.at
  <2>1. Not(here.w) \in Int
    BY <1>2, Sizes DEF Word
  <2> QED BY <1>2, <2>1 DEF Places
<1> HIDE DEF h
<1>4. PlaceInv(h)
  BY <1>2, <1>3, OtherPlace DEF Others
<1>5. h.at \notin BlockSweeps
  BY <1>3 DEF BlockSweeps
<1> QED BY <1>4, <1>5 DEF h

LEMMA WalkTick ==
  ASSUME StepInv, here.at \in {"walk_global", "walk_banks"}, NEW s, KeptWalk(s),
         NEW next, PlaceInv(next), next.at \notin BlockSweeps, Tick(s, next)
  PROVE  StepInv'
<1>1. InTest /\ here.at # "fade_sleep"
  BY DEF InTest
<1>2. WordsFilled(next, s.mem)
  BY OtherFilled
<1>3. /\ s \in States /\ s.mem \in [Cells -> Content] /\ s.errs \subseteq Addresses
      /\ \A x \in s.strays : Stray(x)
  BY DEF KeptWalk
<1>4. pat = 5
  BY <1>1, InTestFacts DEF TestsOf, BlockSweeps
<1> HIDE DEF KeptWalk
<1> QED BY <1>1, <1>2, <1>3, <1>4, Ticked

LEMMA GlobalKept ==
  ASSUME StepInv, Addr1Global
  PROVE  StepInv'
<1> DEFINE base == roundup(Start(1), AlignWords)
           s == Walk(State, base, End(segs), here.w)
           again == [here EXCEPT !.i = 1, !.w = Not(@)]
           banks == Up("walk_banks", 0, 1, 0, 0)
           next == IF here.i = 0 THEN again ELSE banks
<1>1. here.at = "walk_global" /\ Tick(s, next)
  BY DEF Addr1Global, At
<1>2. InTest
  BY <1>1 DEF InTest
<1>3. /\ map \in Maps /\ here.w \in Word /\ 1 \in 1 .. segs /\ pat \in TestsOf(here.at)
      /\ 0 \in Word /\ 0 \in Int /\ 0 \in Nat
  BY <1>2, InTestFacts
<1>4. base \in Addresses
  <2>1. Start(1) \in Nat /\ AlignWords \in Nat \ {0}
    BY <1>3, Rooms, WordsAssumption
  <2> QED BY <2>1, RoundedUp
<1>5. Based(base, End(segs))
  BY <1>1, <1>4 DEF Based
<1>6. KeptWalk(s)
  <2> HIDE DEF base
  <2> QED BY <1>3, <1>5, StateWalk, WalkKeeps
<1>7. PlaceInv(again) /\ again.at \notin BlockSweeps
  BY <1>1, Again
<1>8. PlaceInv(banks) /\ banks.at \notin BlockSweeps
  <2>1. Start(1) \in Int
    BY <1>3, Rooms
  <2>2. banks \in Places /\ banks.j = 1 /\ banks.at = "walk_banks"
    BY <1>3, <2>1 DEF Up, Place, Places, Sweeps
  <2>3. pat \in TestsOf("walk_banks") /\ "walk_banks" \in Others /\ "walk_banks" \notin BlockSweeps
    BY <1>1, <1>3 DEF TestsOf, BlockSweeps, Others
  <2> HIDE DEF banks
  <2> QED BY <1>3, <2>2, <2>3, OtherPlace
<1> HIDE DEF s, again, banks
<1>9. PlaceInv(next) /\ next.at \notin BlockSweeps
  BY <1>7, <1>8
<1> HIDE DEF next
<1> QED BY <1>1, <1>6, <1>9, WalkTick

LEMMA BanksKept ==
  ASSUME StepInv, BanksInOrder(map), Addr1Banks
  PROVE  StepInv'
<1> DEFINE again == [here EXCEPT !.i = 1, !.w = Not(@)]
           next == IF here.i = 0 THEN again ELSE Return
           s == AllBanks(State)
<1>1. here.at = "walk_banks" /\ Tick(s, next)
  BY DEF Addr1Banks, At, AllBanks
<1>2. InTest
  BY <1>1 DEF InTest
<1>3. map \in Maps /\ pat \in Pats /\ here.w \in Word /\ segs \in Nat
  BY <1>2, InTestFacts
<1>4. Sound_ /\ State \in WalkKept
  BY StateWalk
<1>5. WalkKept \in SUBSET States /\ \A y : y \in WalkKept <=> KeptWalk(y)
  BY DEF WalkKept, KeptWalk
<1>6. ASSUME NEW j, j \in 1 .. segs
      PROVE  /\ \A x \in States : Banks(x, j) \in States
             /\ \A x \in WalkKept : Banks(x, j) \in WalkKept
  <2>1. /\ BankCount(j) \in Nat
        /\ \A n \in 0 .. BankCount(j) - 1 :
             /\ Bank(j) + n * BankWords \in Addresses
             /\ Start(j) <= Bank(j) + n * BankWords
             /\ Bank(j) + n * BankWords < End(j)
    BY <1>3, <1>6, BankFacts
  <2>2. ASSUME NEW x, x \in States, NEW n \in 0 .. BankCount(j) - 1
        PROVE  Walk(x, Bank(j) + (n) * BankWords, End(j), here.w) \in States
    <3> DEFINE b == Bank(j) + n * BankWords
    <3>1. b \in Int
      BY <2>1, <2>2 DEF Addresses
    <3> HIDE DEF b
    <3>2. Walk(x, b, End(j), here.w) \in States
      BY <1>3, <1>4, <2>2, <3>1, WalkTyped
    <3> QED BY <3>2 DEF b
  <2>3. ASSUME NEW x, x \in WalkKept, NEW n \in 0 .. BankCount(j) - 1
        PROVE  Walk(x, Bank(j) + (n) * BankWords, End(j), here.w) \in WalkKept
    <3> DEFINE b == Bank(j) + n * BankWords
    <3>1. b \in Addresses /\ Start(j) <= b /\ b < End(j)
      BY <2>1, <2>3
    <3> HIDE DEF b
    <3>2. Based(b, End(j))
      BY <1>6, <3>1 DEF Based
    <3>3. KeptWalk(Walk(x, b, End(j), here.w))
      BY <1>3, <1>4, <1>5, <2>3, <3>2, WalkKeeps
    <3> QED BY <1>5, <3>3 DEF b
  <2>4. States \in SUBSET States
    OBVIOUS
  <2>5. \A x \in States, n \in 0 .. BankCount(j) - 1 :
          Walk(x, Bank(j) + (n) * BankWords, End(j), here.w) \in States
    BY <2>2
  <2>6. \A x \in WalkKept, n \in 0 .. BankCount(j) - 1 :
          Walk(x, Bank(j) + (n) * BankWords, End(j), here.w) \in WalkKept
    BY <2>3
  <2>7. ASSUME NEW x, x \in States PROVE Banks(x, j) \in States
    BY <2>1, <2>4, <2>5, <2>7, BanksIn
  <2>8. ASSUME NEW x, x \in WalkKept PROVE Banks(x, j) \in WalkKept
    BY <1>5, <2>1, <2>5, <2>6, <2>8, BanksIn
  <2> QED BY <2>7, <2>8
<1>7. \A n \in 0 .. segs - 1 : 1 + (n) \in 1 .. segs
  BY <1>3
<1>8. \A x \in States, n \in 0 .. segs - 1 : Banks(x, 1 + (n)) \in States
  BY <1>6, <1>7
<1>9. \A x \in WalkKept, n \in 0 .. segs - 1 : Banks(x, 1 + (n)) \in WalkKept
  BY <1>6, <1>7
<1>10. s \in WalkKept
  BY <1>3, <1>4, <1>5, <1>8, <1>9, AllBanksIn
<1>11. PlaceInv(again) /\ again.at \notin BlockSweeps
  BY <1>1, Again
<1>12. PlaceInv(Return) /\ Return.at \notin BlockSweeps
  BY <1>3, EndPlaces DEF BlockSweeps
<1> HIDE DEF s, again
<1>13. PlaceInv(next) /\ next.at \notin BlockSweeps
  BY <1>11, <1>12
<1> HIDE DEF next
<1> QED BY <1>1, <1>5, <1>10, <1>13, WalkTick
-----------------------------------------------------------------------------
(* The invariant holds at the beginning and is kept by every step.         *)
LEMMA InitStep ==
  ASSUME Init
  PROVE  StepInv
<1>1. /\ pat \in Pats /\ pass \in Passes /\ map \in Maps
      /\ fault \in {f \in Faults : f.kind = "none" \/ {f.cell, f.other} \subseteq Cells}
      /\ mem = [a \in Cells |-> Leftover(a)] /\ rng = <<SEED_X, SEED_Y>>
      /\ call = 0 /\ here = Return /\ bail = FALSE /\ nticks = 0 /\ errs = {} /\ strays = {}
      /\ late = 0
  BY DEF Init
<1>2. FaultInv
  BY <1>1 DEF FaultInv
<1>3. mem \in [Cells -> Content]
  <2>1. \A a \in Cells : Leftover(a) \in Content
    BY DEF Content
  <2> QED BY <1>1, <2>1
<1>4. rng \in Word \X Word
  BY <1>1, WordsAssumption
<1>5. call \in 0 .. Calls
  BY <1>1, CallsCount
<1>6. PlaceInv(here) /\ here.at = "call"
  BY <1>1, EndPlaces
<1>7. here \in Places /\ here.j \in 1 .. segs
  BY <1>6 DEF PlaceInv
<1>8. ~InTest
  BY <1>6 DEF InTest
<1>9. ~(call > 0)
  BY <1>1
<1>10. TypeInv
  BY <1>1, <1>2, <1>3, <1>4, <1>5, <1>7, <1>8, <1>9 DEF TypeInv
<1>11. ArgInv
  BY <1>9 DEF ArgInv
<1>12. WordsFilled(here, mem)
  BY <1>6 DEF WordsFilled
<1>13. LateInChunk
  BY <1>1, WordsAssumption DEF LateInChunk
<1> QED BY <1>1, <1>6, <1>10, <1>11, <1>12, <1>13 DEF StepInv

LEMMA NextStep ==
  ASSUME StepInv, BanksInOrder(map), [Next]_vars
  PROVE  StepInv'
<1>1. CASE Switch
  BY <1>1, SwitchKept
<1>2. CASE TestDone \/ Finished \/ RandSeed \/ sleep
  BY <1>2, PlainSteps
<1>3. CASE Addr1Global
  BY <1>3, GlobalKept
<1>4. CASE Addr1Banks
  BY <1>4, BanksKept
<1>5. CASE \/ Addr2Write \/ Addr2Check \/ MovInv1Fill \/ MovInv1Up \/ MovInv32Fill
           \/ MovInv32Up \/ ModRest \/ RandFill \/ RandCheck
  BY <1>5, UpActions, OnUps, UpKept
<1>6. CASE MovInv1Down \/ MovInv32Down
  BY <1>6, DownActions, OnDowns, DownKept
<1>7. CASE ModWrite \/ ModCheck
  BY <1>7, StrideActions, OnStrides, StrideKept
<1>8. CASE BlockFill
  BY <1>8, FillKept
<1>9. CASE BlockMove
  BY <1>9, MovesKept
<1>10. CASE BlockCheck
  BY <1>10, BlockCheckKept
<1>11. CASE FadeFill \/ FadeCheck
  BY <1>11, FadeKept
<1>12. CASE UNCHANGED vars
  <2>1. UNCHANGED <<pat, pass, map, fault, mem, rng, call, arg, here, bail, nticks, errs, strays,
                  late>>
    BY <1>12 DEF vars
  <2>2. /\ PlaceInv(here) /\ WordsFilled(here, mem) /\ mem \in [Cells -> Content]
        /\ rng \in Word \X Word /\ (here.at \in {"call", "over"} \/ call > 0)
        /\ bail \in BOOLEAN /\ (bail => here.at \in {"over", "fade_check"}) /\ nticks \in Nat
        /\ errs \subseteq Addresses /\ (\A x \in strays : Stray(x))
        /\ (UNCHANGED <<pat, late>> => LateInChunk')
    BY DEF StepInv, TypeInv, InTest, LateInChunk
  <2> QED BY <2>1, <2>2, Moved
<1> QED BY <1>1, <1>2, <1>3, <1>4, <1>5, <1>6, <1>7, <1>8, <1>9, <1>10, <1>11, <1>12 DEF Next

LEMMA StepTypes ==
  ASSUME StepInv
  PROVE  TypeOK /\ Confined /\ LateInChunk
<1>1. /\ pat \in Pats /\ pass \in Passes /\ map \in Maps /\ mem \in [Cells -> Content]
      /\ rng \in Word \X Word /\ call \in 0 .. Calls /\ here \in Places /\ here.j \in 1 .. segs
      /\ bail \in BOOLEAN /\ nticks \in Nat /\ errs \subseteq Addresses
  BY DEF StepInv, TypeInv
<1>2. here.at \in Sweeps /\ here.w \in Word
  BY <1>1 DEF Places
<1>3. TypeOK
  BY <1>1, <1>2 DEF TypeOK, Content, Addresses
<1>4. Confined
  BY DEF Confined, StepInv, Stray
<1>5. LateInChunk
  BY DEF StepInv
<1> QED BY <1>3, <1>4, <1>5

(* Once a key has been seen the memory is as it was.                       *)
LEMMA BailStep ==
  ASSUME StepInv, [Next]_vars, bail
  PROVE  mem' = mem
<1>1. here.at \in {"over", "fade_check"}
  BY DEF StepInv
<1>2. CASE TestDone \/ Finished \/ RandSeed \/ sleep \/ Switch
  BY <1>2 DEF TestDone, Finished, RandSeed, sleep, Switch, Goto, vars
<1>3. CASE Addr1Global \/ Addr1Banks
  BY <1>1, <1>3 DEF Addr1Global, Addr1Banks, At
<1>4. CASE \/ Addr2Write \/ Addr2Check \/ MovInv1Fill \/ MovInv1Up \/ MovInv32Fill
           \/ MovInv32Up \/ ModRest \/ RandFill \/ RandCheck
  BY <1>1, <1>4, UpActions DEF Ups
<1>5. CASE MovInv1Down \/ MovInv32Down
  BY <1>1, <1>5, DownActions DEF Downs
<1>6. CASE ModWrite \/ ModCheck
  BY <1>1, <1>6, StrideActions DEF Strides
<1>7. CASE BlockFill \/ BlockMove \/ BlockCheck
  BY <1>1, <1>7 DEF BlockFill, BlockMove, BlockCheck, At
<1>8. CASE FadeFill
  BY <1>1, <1>8 DEF FadeFill, At
<1>9. CASE FadeCheck
  <2>1. here.at = "fade_check" /\ here.at \in FadeSweeps /\ Tick(OverSegment, FadeOn)
    BY <1>9, FadeActions DEF FadeCheck, At
  <2>2. OverSegment.mem = mem
    BY <2>1, SegmentKept DEF Kept
  <2> QED BY <2>1, <2>2 DEF Tick
<1>10. CASE UNCHANGED vars
  BY <1>10 DEF vars
<1> QED BY <1>2, <1>3, <1>4, <1>5, <1>6, <1>7, <1>8, <1>9, <1>10 DEF Next

-----------------------------------------------------------------------------
(* A pattern turns bit by bit.                                             *)
LEMMA TurnOne ==
  ASSUME NEW x, x \in Word, NEW r, r \in 0 .. Bits - 1
  PROVE  Rol(Rol(x, r), 1) = Rol(x, r + 1)
<1> DEFINE c == 2 ^ (Bits - r)
           d == 2 ^ r
           h == 2 ^ (Bits - 1)
<1>1. /\ c \in Nat \ {0} /\ d \in Nat \ {0} /\ d * c = 2 ^ Bits
      /\ h \in Nat \ {0} /\ 2 ^ Bits = 2 * h /\ 2 ^ 1 = 2
  <2>1. r \in Nat /\ Bits - r \in Nat /\ r + (Bits - r) = Bits
        /\ Bits - 1 \in Nat /\ (Bits - 1) + 1 = Bits
    BY Sizes
  <2>2. c \in Nat \ {0} /\ d \in Nat \ {0} /\ h \in Nat \ {0}
    BY <2>1, PowerPositive
  <2>3. d * c = 2 ^ (r + (Bits - r))
    BY <2>1, PowerSum
  <2>4. 2 ^ ((Bits - 1) + 1) = 2 * h
    BY <2>1, PowerDoubles
  <2>5. 2 ^ 1 = 2
    OBVIOUS
  <2> HIDE DEF c, d, h
  <2> QED BY <2>1, <2>2, <2>3, <2>4, <2>5
<1>2. PICK a \in 0 .. d - 1, b \in 0 .. c - 1 : x = a * c + b
  <2>1. r \in 0 .. Bits
    BY Sizes
  <2> QED BY <2>1, Parts
<1>3. Rol(x, r) = b * d + a
  BY <1>2, RolParts
<1>4. \A u \in 0 .. 1, v \in 0 .. h - 1 : Rol(u * h + v, 1) = v * 2 + u
  <2>1. 1 \in 0 .. Bits - 1 /\ 0 .. 2 ^ 1 - 1 = 0 .. 1
    BY <1>1, Sizes
  <2>2. \A u \in 0 .. 2 ^ 1 - 1, v \in 0 .. 2 ^ (Bits - 1) - 1 :
          Rol(u * 2 ^ (Bits - 1) + v, 1) = v * 2 ^ 1 + u
    BY <2>1, RolParts
  <2> QED BY <1>1, <2>1, <2>2
<1>5. CASE r = Bits - 1
  <2>1. c = 2 /\ d = h
    <3>1. Bits - r = 1
      BY <1>5, Sizes
    <3> QED BY <1>1, <1>5, <3>1
  <2>2. Rol(Rol(x, r), 1) = x
    <3>1. b \in 0 .. 1 /\ a \in 0 .. h - 1
      BY <1>2, <2>1
    <3> HIDE DEF h, c, d
    <3> QED BY <1>2, <1>3, <1>4, <2>1, <3>1
  <2>3. Rol(x, r + 1) = Rol(x, 0)
    <3>1. r + 1 = Bits /\ Bits % Bits = 0 /\ 0 % Bits = 0
      BY <1>5, Sizes
    <3> QED BY <3>1 DEF Rol
  <2>4. Rol(x, 0) = x
    <3>1. 0 \in 0 .. Bits - 1 /\ 2 ^ 0 = 1 /\ Bits - 0 = Bits /\ 0 \in 0 .. 2 ^ 0 - 1
      BY Sizes
    <3>2. x \in 0 .. 2 ^ (Bits - 0) - 1
      BY <3>1, Sizes DEF Word
    <3>3. Rol(0 * 2 ^ (Bits - 0) + x, 0) = x * 2 ^ 0 + 0
      BY <3>1, <3>2, RolParts
    <3>4. x \in Nat /\ 2 ^ Bits \in Nat
      BY Sizes DEF Word
    <3> QED BY <3>1, <3>3, <3>4
  <2> QED BY <2>2, <2>3, <2>4
<1>6. CASE r # Bits - 1
  <2> DEFINE e == 2 ^ (Bits - (r + 1))
  <2>1. r + 1 \in 0 .. Bits - 1
    BY <1>6, Sizes
  <2>2. e \in Nat \ {0} /\ c = 2 * e /\ 2 ^ (r + 1) = 2 * d
    <3>1. Bits - (r + 1) \in Nat /\ (Bits - (r + 1)) + 1 = Bits - r /\ r \in Nat
      BY <2>1, Sizes
    <3> QED BY <3>1, PowerPositive, PowerDoubles
  <2>3. PICK f \in 0 .. 1, g \in 0 .. e - 1 : b = f * e + g
    <3> HIDE DEF c, d, h, e
    <3>1. CASE b < e
      <4>1. b = 0 * e + b /\ b \in 0 .. e - 1
        BY <1>2, <2>2, <3>1
      <4> QED BY <4>1
    <3>2. CASE b >= e
      <4>1. b = 1 * e + (b - e) /\ b - e \in 0 .. e - 1
        BY <1>1, <1>2, <2>2, <3>2
      <4> QED BY <4>1
    <3> QED BY <1>1, <1>2, <2>2, <3>1, <3>2
  <2>4. Rol((2 * a + f) * e + g, r + 1) = g * (2 * d) + (2 * a + f)
    <3>1. 2 * a + f \in 0 .. 2 ^ (r + 1) - 1
      <4> HIDE DEF c, d, h, e
      <4> QED BY <1>1, <1>2, <2>2, <2>3
    <3> DEFINE y == 2 * a + f
    <3>2. y \in 0 .. 2 ^ (r + 1) - 1
      BY <3>1
    <3> HIDE DEF y
    <3>3. Rol(y * 2 ^ (Bits - (r + 1)) + g, r + 1) = g * 2 ^ (r + 1) + y
      BY <2>1, <2>3, <3>2, RolParts
    <3> QED BY <2>2, <3>3 DEF y, e
  <2> HIDE DEF c, d, h, e
  <2>5. x = (2 * a + f) * e + g
    BY <1>2, <2>2, <2>3, SMTT(30)
  <2>6. h = d * e
    <3>1. d * c = d * (2 * e) /\ d * e \in Nat /\ d * (2 * e) = 2 * (d * e)
      BY <1>1, <2>2, SMTT(30)
    <3> QED BY <1>1, <3>1
  <2>7. b * d + a = f * h + (g * d + a)
    BY <1>1, <1>2, <2>2, <2>3, <2>6, SMTT(30)
  <2>8. g * d + a \in 0 .. h - 1
    <3>1. g * d <= (e - 1) * d /\ g * d \in Nat /\ (e - 1) * d = d * e - d /\ d * e \in Nat
      BY <1>1, <2>2, <2>3, SMTT(30)
    <3> QED BY <1>1, <1>2, <2>6, <3>1
  <2>9. Rol(f * h + (g * d + a), 1) = (g * d + a) * 2 + f
    BY <1>4, <2>3, <2>8
  <2>10. (g * d + a) * 2 + f = g * (2 * d) + (2 * a + f)
    BY <1>1, <1>2, <2>3, SMTT(30)
  <2> QED BY <1>3, <2>4, <2>5, <2>7, <2>9, <2>10
<1> QED BY <1>5, <1>6

LEMMA TurnedBack ==
  ASSUME NEW y, y \in Word
  PROVE  Ror(Rol(y, 1), 1) = y
<1> DEFINE h == 2 ^ (Bits - 1)
<1>1. /\ 1 \in 0 .. Bits - 1 /\ Bits - 1 \in 0 .. Bits - 1 /\ Bits - (Bits - 1) = 1
      /\ 2 ^ 1 = 2 /\ h \in Nat \ {0} /\ 1 % Bits = 1
  <2>1. Bits - 1 \in Nat
    BY Sizes
  <2>2. h \in Nat \ {0}
    BY <2>1, PowerPositive
  <2> QED BY <2>2, Sizes
<1>2. PICK a \in 0 .. 1, b \in 0 .. h - 1 : y = a * h + b
  <2>1. 1 \in 0 .. Bits
    BY Sizes
  <2>2. \E a \in 0 .. 2 ^ 1 - 1, b \in 0 .. 2 ^ (Bits - 1) - 1 : y = a * 2 ^ (Bits - 1) + b
    BY <2>1, Parts
  <2>3. 2 ^ 1 - 1 = 1
    BY <1>1
  <2> QED BY <2>2, <2>3
<1>3. Rol(a * h + b, 1) = b * 2 + a
  <2>1. a \in 0 .. 2 ^ 1 - 1 /\ b \in 0 .. 2 ^ (Bits - 1) - 1
    BY <1>1, <1>2
  <2>2. Rol(a * 2 ^ (Bits - 1) + b, 1) = b * 2 ^ 1 + a
    BY <1>1, <2>1, RolParts
  <2> QED BY <1>1, <2>2
<1>4. Rol(b * 2 + a, Bits - 1) = a * h + b
  <2>1. b \in 0 .. 2 ^ (Bits - 1) - 1 /\ a \in 0 .. 2 ^ (Bits - (Bits - 1)) - 1
    <3>1. 2 ^ (Bits - (Bits - 1)) = 2
      BY <1>1
    <3> QED BY <1>2, <3>1
  <2>2. Rol(b * 2 ^ (Bits - (Bits - 1)) + a, Bits - 1) = a * 2 ^ (Bits - 1) + b
    BY <1>1, <2>1, RolParts
  <2> QED BY <1>1, <2>2
<1>5. \A z : Ror(z, 1) = Rol(z, Bits - 1)
  BY <1>1 DEF Ror
<1> QED BY <1>2, <1>3, <1>4, <1>5
-----------------------------------------------------------------------------
(* What a test that goes through the words one after the other knows of    *)
(* them.  The pattern that turns, and the random numbers, by the address   *)
(* of the word: each word tested has drawn one.                            *)
Plain    == Ups \cup Strides \cup Downs \cup FadeSweeps
Claiming == Plain \cup {"rand_seed", "fade_sleep"}
Turned(a) == Rol(arg.lb, (arg.off + a) % Bits)
Drawing(cells) == [z \in (Word \X Word) \X (0 .. AddrWords - 1) |->
                     IF z[2] \in cells THEN rand(z[1]) ELSE z[1]]
StreamOf(seeds, cells) ==
  CHOOSE f \in [0 .. AddrWords -> Word \X Word] : SolvedTo(f, seeds, Drawing(cells), AddrWords)
Stream == StreamOf(arg.seeds, Cells)
Number(a) == Drawn(Stream[a + 1])

(* What a sweep finds at a word, and what it leaves there.                 *)
Was(h, b) ==
  CASE h.at = "own_check"  -> b
    [] h.at = "inv_up"     -> arg.p1
    [] h.at = "inv_down"   -> arg.p2
    [] h.at = "shift_up"   -> Turned(b)
    [] h.at = "shift_down" -> Not(Turned(b))
    [] h.at \in {"mod_rest", "mod_check"} -> arg.p1
    [] h.at \in {"rand_seed", "rand_check"} -> IF h.i = 2 THEN Not(Number(b)) ELSE Number(b)
    [] h.at \in {"fade_sleep", "fade_check"} -> h.w
Leaves(h, b) ==
  CASE h.at \in {"own_write", "own_check"} -> b
    [] h.at \in {"inv_fill", "inv_down"} -> arg.p1
    [] h.at = "inv_up" -> arg.p2
    [] h.at \in {"shift_fill", "shift_down"} -> Turned(b)
    [] h.at = "shift_up" -> Not(Turned(b))
    [] h.at \in {"mod_write", "mod_rest", "mod_check"} -> arg.p1
    [] h.at = "rand_fill" -> Number(b)
    [] h.at = "rand_check" -> IF h.i = 2 THEN Number(b) ELSE Not(Number(b))
    [] h.at \in FadeSweeps -> h.w

(* The modulo test knows of every MOD_SZ-th word of a segment.             *)
Mods == {"mod_write", "mod_rest", "mod_check"}
Fills(h) == \/ h.at \in {"own_write", "inv_fill", "shift_fill", "mod_write", "rand_fill",
                         "fade_fill"}
            \/ h.at = "rand_seed" /\ h.i = 0
InSegment(j, b) == Start(j) <= b /\ b < End(j)
OnStride(j, b)  == InSegment(j, b) /\ (b - Start(j)) % MOD_SZ = arg.off
Claimed(h, b) == h.at \in Mods => \E j \in 1 .. segs : OnStride(j, b)

(* With a the next word of the sweep: the words that it has been at, what  *)
(* the memory holds, and what goes on from word to word.                   *)
Done(h, b, a) == IF h.at \in Downs THEN b > a ELSE b < a /\ b < End(h.j)
MemClaim(h, m, a) ==
  \A b \in Healthy :
    Claimed(h, b) => /\ Done(h, b, a) => m[b] = Leaves(h, b)
                     /\ ~Done(h, b, a) /\ ~Fills(h) => m[b] = Was(h, b)
Carried(h, k, w, r, a) ==
  /\ h.at \in {"shift_fill", "shift_up", "shift_down"} => w = Turned(a)
  /\ h.at \in {"shift_fill", "shift_up"} => k = (arg.off + a) % Bits
  /\ h.at \in Strides => (a - Start(h.j)) % MOD_SZ = arg.off
  /\ h.at = "mod_rest" => k = (a - Start(h.j)) % MOD_SZ
  /\ h.at \in {"rand_fill", "rand_check"} => r = Stream[a]
  /\ h.at = "rand_check" => h.i >= 1
StepOf(h) == IF h.at \in Strides THEN MOD_SZ ELSE IF h.at \in Downs THEN -1 ELSE 1

LEMMA SegmentFacts ==
  ASSUME map \in Maps
  PROVE  /\ \A b \in Cells : \E j \in 1 .. segs : InSegment(j, b)
         /\ \A b \in Cells : Start(1) <= b /\ b < End(segs)
         /\ \A b \in Cells, j \in 1 .. segs - 1 : b < Start(j + 1) <=> b < End(j)
         /\ \A b \in Int, i \in 1 .. segs, j \in 1 .. segs :
              InSegment(i, b) /\ InSegment(j, b) => i = j
<1>1. /\ segs \in Nat \ {0}
      /\ \A j \in 1 .. segs : Start(j) \in Nat /\ End(j) \in Nat /\ Start(j) < End(j)
      /\ Cells = {a \in Nat : \E j \in 1 .. segs : Start(j) <= a /\ a < End(j)}
  BY MapFacts
<1>2. \A b \in Cells : b \in Nat /\ \E j \in 1 .. segs : InSegment(j, b)
  BY <1>1 DEF InSegment
<1>3. \A i \in 1 .. segs, j \in 1 .. segs : i < j => End(i) <= Start(j)
  BY Ordered
<1>4. ASSUME NEW b \in Cells PROVE Start(1) <= b /\ b < End(segs)
  <2>1. PICK j \in 1 .. segs : InSegment(j, b)
    BY <1>2
  <2>2. 1 \in 1 .. segs /\ segs \in 1 .. segs /\ j \in Nat
    BY <1>1
  <2>3. Start(1) <= Start(j)
    <3>1. CASE j = 1
      BY <1>1, <2>2, <3>1
    <3>2. CASE 1 < j
      BY <1>1, <1>3, <2>2, <3>2
    <3> QED BY <2>1, <3>1, <3>2
  <2>4. End(j) <= End(segs)
    <3>1. CASE j = segs
      BY <1>1, <2>2, <3>1
    <3>2. CASE j < segs
      <4>1. End(j) <= Start(segs)
        BY <1>3, <2>2, <3>2
      <4> QED BY <1>1, <2>2, <4>1
    <3> QED BY <1>1, <2>1, <3>1, <3>2
  <2> QED BY <1>1, <1>2, <2>1, <2>2, <2>3, <2>4 DEF InSegment
<1>5. ASSUME NEW b \in Cells, NEW j \in 1 .. segs - 1 PROVE b < Start(j + 1) <=> b < End(j)
  <2>1. j \in 1 .. segs /\ j + 1 \in 1 .. segs /\ j < j + 1
    BY <1>1
  <2>2. End(j) <= Start(j + 1)
    BY <1>3, <2>1
  <2>3. PICK i \in 1 .. segs : InSegment(i, b)
    BY <1>2
  <2>4. CASE i <= j
    <3>1. End(i) <= End(j)
      <4>1. CASE i = j
        BY <1>1, <2>1, <4>1
      <4>2. CASE i < j
        <5>1. End(i) <= Start(j)
          BY <1>3, <2>1, <4>2
        <5> QED BY <1>1, <2>1, <5>1
      <4> QED BY <2>1, <2>3, <2>4, <4>1, <4>2
    <3> QED BY <1>1, <1>2, <2>1, <2>2, <2>3, <3>1 DEF InSegment
  <2>5. CASE j + 1 <= i
    <3>1. Start(j + 1) <= Start(i)
      <4>1. CASE i = j + 1
        BY <1>1, <2>1, <4>1
      <4>2. CASE j + 1 < i
        <5>1. End(j + 1) <= Start(i)
          BY <1>3, <2>1, <4>2
        <5> QED BY <1>1, <2>1, <2>3, <5>1
      <4> QED BY <2>1, <2>3, <2>5, <4>1, <4>2
    <3> QED BY <1>1, <1>2, <2>1, <2>2, <2>3, <3>1 DEF InSegment
  <2> QED BY <2>1, <2>3, <2>4, <2>5
<1>6. ASSUME NEW b \in Int, NEW i \in 1 .. segs, NEW j \in 1 .. segs, InSegment(i, b), InSegment(j, b)
      PROVE  i = j
  <2>1. CASE i < j
    <3>1. End(i) <= Start(j)
      BY <1>3, <2>1
    <3> QED BY <1>1, <1>6, <3>1 DEF InSegment
  <2>2. CASE j < i
    <3>1. End(j) <= Start(i)
      BY <1>3, <2>2
    <3> QED BY <1>1, <1>6, <3>1 DEF InSegment
  <2> QED BY <1>1, <2>1, <2>2
<1> QED BY <1>2, <1>4, <1>5, <1>6

LEMMA TurnedIs ==
  ASSUME arg \in Args, NEW a, a \in Int
  PROVE  /\ Turned(a) \in Word
         /\ Rol(Turned(a), 1) = Turned(a + 1) /\ Ror(Turned(a), 1) = Turned(a - 1)
<1>1. arg.lb \in Word /\ arg.off \in Nat /\ Bits \in Nat \ {0}
  BY Sizes DEF Args
<1>2. ASSUME NEW b, b \in Int
      PROVE  Turned(b) \in Word /\ Rol(Turned(b), 1) = Turned(b + 1)
  <2> DEFINE r == (arg.off + b) % Bits
  <2>1. r \in 0 .. Bits - 1 /\ arg.off + b \in Int
    BY <1>1, <1>2, Remainders
  <2>2. (arg.off + (b + 1)) % Bits = (1 + r) % Bits
    <3> DEFINE y == arg.off + b
    <3>1. arg.off + (b + 1) = 1 + y /\ y \in Int /\ r = y % Bits
      BY <1>1, <1>2
    <3> HIDE DEF y, r
    <3> DEFINE one == 1
    <3>2. one \in Int
      OBVIOUS
    <3> HIDE DEF one
    <3>3. (one + y) % Bits = (one + (y % Bits)) % Bits
      BY <1>1, <3>1, <3>2, RemainderSum
    <3> QED BY <3>1, <3>3 DEF one
  <2> HIDE DEF r
  <2>3. Rol(Rol(arg.lb, r), 1) = Rol(arg.lb, r + 1)
    BY <1>1, <2>1, TurnOne
  <2>4. Rol(arg.lb, r + 1) = Rol(arg.lb, (1 + r) % Bits)
    <3>1. ((1 + r) % Bits) % Bits = (1 + r) % Bits /\ 1 + r = r + 1
      <4>1. 1 + r \in Int
        BY <2>1
      <4>2. (1 + r) % Bits \in 0 .. Bits - 1
        BY <4>1, Remainders
      <4> QED BY <1>1, <2>1, <4>2
    <3> QED BY <3>1 DEF Rol
  <2>5. Turned(b) = Rol(arg.lb, r) /\ Turned(b + 1) = Rol(arg.lb, (1 + r) % Bits)
    BY <2>2 DEF Turned, r
  <2>6. Rol(arg.lb, r) \in Word
    BY <1>1, <2>1, RolWord
  <2> QED BY <2>3, <2>4, <2>5, <2>6
<1>3. Ror(Turned(a), 1) = Turned(a - 1)
  <2>1. a - 1 \in Int /\ (a - 1) + 1 = a
    OBVIOUS
  <2>2. Turned(a - 1) \in Word /\ Rol(Turned(a - 1), 1) = Turned(a)
    BY <1>2, <2>1
  <2> QED BY <2>2, TurnedBack
<1> QED BY <1>2, <1>3

LEMMA TurnedAt ==
  ASSUME arg \in Args, NEW a, NEW b, NEW c, a \in Int, b \in Int, c \in Int,
         a % Bits = 0, b % Bits = 0
  PROVE  Turned(a + c) = Turned(b + c) /\ (arg.off + (a + c)) % Bits = (arg.off + c) % Bits
<1>1. arg.off \in Nat /\ Bits \in Nat \ {0}
  BY Sizes DEF Args
<1>2. ASSUME NEW x, x \in Int, x % Bits = 0 PROVE (arg.off + (x + c)) % Bits = (arg.off + c) % Bits
  <2> DEFINE y == arg.off + c
  <2>1. arg.off + (x + c) = y + x /\ y \in Int
    BY <1>1, <1>2
  <2> HIDE DEF y
  <2>2. (y + x) % Bits = y % Bits
    BY <1>1, <1>2, <2>1, RemainderSum
  <2> QED BY <2>1, <2>2 DEF y
<1> QED BY <1>2 DEF Turned
-----------------------------------------------------------------------------
(* The random numbers: each word has drawn one, what is between the        *)
(* segments none.                                                          *)
LEMMA StreamFacts ==
  ASSUME arg \in Args
  PROVE  /\ Stream \in [0 .. AddrWords -> Word \X Word] /\ Stream[0] = arg.seeds
         /\ \A n \in 0 .. AddrWords - 1 :
              Stream[n + 1] = IF n \in Cells THEN rand(Stream[n]) ELSE Stream[n]
<1> DEFINE S == Word \X Word
           T == Drawing(Cells)
<1>1. arg.seeds \in S /\ AddrWords \in Nat
  BY WordsAssumption DEF Args
<1>2. T \in [S \X (0 .. AddrWords - 1) -> S]
  <2>1. \A z \in S \X (0 .. AddrWords - 1) :
          z[1] \in S /\ (IF z[2] \in Cells THEN rand(z[1]) ELSE z[1]) \in S
    BY RandWords
  <2> QED BY <2>1 DEF Drawing
<1>3. \A x \in S, n \in 0 .. AddrWords - 1 :
         T[<<x, n>>] = IF n \in Cells THEN rand(x) ELSE x
  BY DEF Drawing
<1> HIDE DEF S, T
<1>4. Solvable(S, arg.seeds, T, AddrWords)
  BY <1>1, <1>2, Recursion DEF Steps
<1>5. Stream = CHOOSE f \in [0 .. AddrWords -> S] : SolvedTo(f, arg.seeds, T, AddrWords)
  BY DEF Stream, StreamOf, S, T
<1>6. Stream \in [0 .. AddrWords -> S] /\ SolvedTo(Stream, arg.seeds, T, AddrWords)
  BY <1>4, <1>5 DEF Solvable
<1>7. Stream[0] = arg.seeds /\ \A n \in 0 .. AddrWords - 1 : Stream[n + 1] = T[<<Stream[n], n>>]
  BY <1>6 DEF SolvedTo
<1>8. ASSUME NEW n \in 0 .. AddrWords - 1
      PROVE  Stream[n + 1] = IF n \in Cells THEN rand(Stream[n]) ELSE Stream[n]
  <2>1. n \in 0 .. AddrWords
    BY <1>1
  <2>2. Stream[n] \in S
    BY <1>6, <2>1
  <2> QED BY <1>3, <1>7, <2>2
<1> QED BY <1>6, <1>7, <1>8 DEF S

LEMMA StreamGap ==
  ASSUME arg \in Args, NEW lo, NEW hi, lo \in Nat, hi \in Nat, lo <= hi, hi <= AddrWords,
         \A n \in lo .. hi - 1 : n \notin Cells
  PROVE  Stream[hi] = Stream[lo]
<1> DEFINE P == {n \in Nat : lo + n <= hi => Stream[lo + n] = Stream[lo]}
<1>0. AddrWords \in Nat
  BY WordsAssumption
<1>1. 0 \in P
  <2>1. lo + 0 = lo
    OBVIOUS
  <2> QED BY <2>1
<1>2. ASSUME NEW n \in P PROVE n + 1 \in P
  <2> SUFFICES ASSUME lo + (n + 1) <= hi PROVE Stream[lo + (n + 1)] = Stream[lo]
    OBVIOUS
  <2> DEFINE k == lo + n
  <2>1. k \in 0 .. AddrWords - 1 /\ k \in lo .. hi - 1 /\ lo + (n + 1) = k + 1 /\ Stream[k] = Stream[lo]
    BY <1>0
  <2> HIDE DEF k, P
  <2>2. Stream[k + 1] = IF k \in Cells THEN rand(Stream[k]) ELSE Stream[k]
    BY <2>1, StreamFacts
  <2> QED BY <2>1, <2>2
<1>3. P = Nat
  <2>1. P \in SUBSET Nat
    OBVIOUS
  <2> HIDE DEF P
  <2> QED BY <1>1, <1>2, <2>1, Induction
<1>4. hi - lo \in Nat /\ lo + (hi - lo) = hi
  OBVIOUS
<1> HIDE DEF P
<1>5. hi - lo \in P
  BY <1>3, <1>4
<1> QED BY <1>4, <1>5 DEF P

LEMMA StreamAt ==
  ASSUME map \in Maps, arg \in Args
  PROVE  /\ Stream[Start(1)] = arg.seeds
         /\ \A j \in 1 .. segs - 1 : Stream[End(j)] = Stream[Start(j + 1)]
         /\ \A a \in Cells : Stream[a + 1] = rand(Stream[a]) /\ Stream[a] \in Word \X Word
                             /\ Number(a) \in Word
<1>1. /\ segs \in Nat \ {0}
      /\ \A j \in 1 .. segs : /\ Start(j) \in Nat /\ End(j) \in Nat /\ Start(j) < End(j)
                              /\ End(j) < AddrWords
      /\ \A j \in 1 .. segs - 1 : End(j) <= Start(j + 1)
  BY MapFacts
<1>2. AddrWords \in Nat
  BY WordsAssumption
<1>3. Stream[Start(1)] = arg.seeds
  <2>1. \A n \in 0 .. Start(1) - 1 : n \notin Cells
    <3>1. 1 \in 1 .. segs
      BY <1>1
    <3> QED BY <1>1, <3>1, SegmentFacts
  <2>2. Stream[Start(1)] = Stream[0]
    <3>1. 1 \in 1 .. segs
      BY <1>1
    <3>2. Start(1) \in Nat /\ 0 \in Nat /\ 0 <= Start(1) /\ Start(1) <= AddrWords
      BY <1>1, <1>2, <3>1
    <3> QED BY <2>1, <3>2, StreamGap
  <2> QED BY <2>2, StreamFacts
<1>4. ASSUME NEW j \in 1 .. segs - 1 PROVE Stream[End(j)] = Stream[Start(j + 1)]
  <2>1. j \in 1 .. segs /\ j + 1 \in 1 .. segs
    BY <1>1
  <2>2. /\ End(j) \in Nat /\ Start(j + 1) \in Nat /\ End(j) <= Start(j + 1)
        /\ Start(j + 1) <= AddrWords
    BY <1>1, <1>2, <2>1
  <2>3. \A n \in End(j) .. Start(j + 1) - 1 : n \notin Cells
    BY <2>2, SegmentFacts
  <2> QED BY <2>2, <2>3, StreamGap
<1>5. ASSUME NEW a \in Cells
      PROVE  /\ Stream[a + 1] = rand(Stream[a]) /\ Stream[a] \in Word \X Word
             /\ Number(a) \in Word
  <2>1. a \in 0 .. AddrWords - 1 /\ a + 1 \in 0 .. AddrWords /\ a \in 0 .. AddrWords
    BY <1>2, CellFacts
  <2>2. Stream[a + 1] = rand(Stream[a])
    BY <2>1, StreamFacts
  <2>3. Stream[a] \in Word \X Word /\ Stream[a + 1] \in Word \X Word
    BY <2>1, StreamFacts
  <2> QED BY <2>2, <2>3, RandWords DEF Number
<1> QED BY <1>3, <1>4, <1>5
-----------------------------------------------------------------------------
(* The words that a sweep has been at are one more after each visit.       *)
LEMMA SameRemainder ==
  ASSUME NEW c, c \in Nat \ {0}, NEW x, x \in Int, NEW y, y \in Int,
         x % c = y % c, x <= y, y < x + c
  PROVE  x = y
<1>1. PICK q \in Int, r \in 0 .. c - 1 : r = x % c /\ x = q * c + r
  BY Divides
<1>2. PICK u \in Int, v \in 0 .. c - 1 : v = y % c /\ y = u * c + v
  BY Divides
<1>3. r = v /\ r \in Int /\ c \in Int
  BY <1>1, <1>2
<1>4. y - x = (u - q) * c
  BY <1>1, <1>2, <1>3
<1>5. u - q = 0
  <2>1. u - q \in Int /\ 0 <= y - x /\ y - x < c
    OBVIOUS
  <2> DEFINE d == u - q
  <2>2. d \in Int /\ 0 <= d * c /\ d * c < c
    BY <1>4, <2>1
  <2> HIDE DEF d
  <2>3. d = 0
    BY <2>2, SMTT(30)
  <2> QED BY <2>3 DEF d
<1> QED BY <1>3, <1>4, <1>5

OnWord(a) == /\ a \in Int /\ InSegment(here.j, a)
             /\ here.at \in Strides => (a - Start(here.j)) % MOD_SZ = arg.off

LEMMA PlainFacts ==
  ASSUME StepInv, here.at \in Plain
  PROVE  /\ InTest /\ map \in Maps /\ arg \in Args /\ here.j \in 1 .. segs /\ Sound_
         /\ Start(here.j) \in Nat /\ End(here.j) \in Nat /\ Start(here.j) < End(here.j)
         /\ MOD_SZ \in Nat \ {0} /\ Healthy \subseteq Cells /\ here.at \in Visited
         /\ here.at \in Mods => arg.off < MOD_SZ
<1>1. InTest /\ here.at \in Visited
  BY DEF InTest, Plain, Ups, Strides, Downs, FadeSweeps, Visited
<1>2. map \in Maps /\ arg \in Args /\ here.j \in 1 .. segs /\ call > 0
      /\ pat \in TestsOf(here.at)
  BY <1>1, InTestFacts
<1>3. Sound_
  BY StateTyped DEF StepInv
<1>4. here.at \in Mods => arg.off < MOD_SZ
  <2>1. here.at \in Mods => pat = 11
    BY <1>2 DEF TestsOf, Mods, BlockSweeps
  <2> QED BY <1>2, <2>1 DEF StepInv, ArgInv
<1> QED BY <1>1, <1>2, <1>3, <1>4, MapFacts, WordsAssumption DEF Healthy

LEMMA DoneStep ==
  ASSUME StepInv, here.at \in Plain, NEW a, OnWord(a), NEW b, b \in Healthy, Claimed(here, b)
  PROVE  /\ ~Done(here, a, a)
         /\ Done(here, b, a + StepOf(here)) <=> Done(here, b, a) \/ b = a
<1>1. /\ here.j \in 1 .. segs /\ map \in Maps /\ MOD_SZ \in Nat \ {0}
      /\ Start(here.j) \in Nat /\ End(here.j) \in Nat /\ a \in Int
      /\ Start(here.j) <= a /\ a < End(here.j) /\ b \in Cells
  BY PlainFacts DEF OnWord, InSegment
<1>2. b \in Int
  BY <1>1, CellFacts
<1>3. CASE here.at \in Downs
  <2>1. StepOf(here) = -1
    BY <1>3 DEF StepOf, Strides, Downs
  <2> QED BY <1>1, <1>2, <1>3, <2>1 DEF Done
<1>4. CASE here.at \in Strides
  <2>1. here.at \notin Downs /\ StepOf(here) = MOD_SZ /\ here.at \in Mods
    BY <1>4 DEF StepOf, Strides, Downs, Mods
  <2>2. ASSUME Done(here, b, a + MOD_SZ), ~Done(here, b, a) PROVE b = a
    <3>1. a <= b /\ b < a + MOD_SZ /\ b < End(here.j)
      BY <1>1, <1>2, <2>1, <2>2 DEF Done
    <3>2. InSegment(here.j, b)
      BY <1>1, <1>2, <3>1 DEF InSegment
    <3>3. PICK i \in 1 .. segs : OnStride(i, b)
      BY <2>1 DEF Claimed
    <3>4. i = here.j
      BY <1>1, <1>2, <3>2, <3>3, SegmentFacts DEF OnStride
    <3> DEFINE x == a - Start(here.j)
               y == b - Start(here.j)
    <3>5. x % MOD_SZ = y % MOD_SZ
      BY <1>4, <3>3, <3>4 DEF OnStride, OnWord
    <3>6. x \in Int /\ y \in Int /\ x <= y /\ y < x + MOD_SZ
      BY <1>1, <1>2, <3>1
    <3>7. x = y => a = b
      BY <1>1, <1>2
    <3> HIDE DEF x, y
    <3>8. x = y
      BY <1>1, <3>5, <3>6, SameRemainder
    <3> QED BY <3>7, <3>8
  <2> QED BY <1>1, <1>2, <2>1, <2>2 DEF Done
<1>5. CASE here.at \notin Downs /\ here.at \notin Strides
  <2>1. StepOf(here) = 1
    BY <1>5 DEF StepOf
  <2> QED BY <1>1, <1>2, <1>5, <2>1 DEF Done
<1> QED BY <1>3, <1>4, <1>5
-----------------------------------------------------------------------------
(* A visit changes the word it is at and reports it only.                  *)
Touched(x, y, a, v) ==
  /\ y \in States /\ y.errs \subseteq x.errs \cup {a}
  /\ \A b \in Healthy : y.mem[b] = IF b = a THEN v ELSE x.mem[b]
  /\ y.rng = x.rng /\ y.k = x.k /\ y.w = x.w

LEMMA Wrote ==
  ASSUME Sound_, NEW x, x \in States, NEW a, a \in Int, NEW v, v \in Int
  PROVE  Touched(x, Write(x, a, v), a, v) /\ Write(x, a, v).errs = x.errs
<1>1. /\ Write(x, a, v) \in States /\ Write(x, a, v).mem = Store(x.mem, a, v)
      /\ Write(x, a, v).errs = x.errs /\ Write(x, a, v).rng = x.rng
      /\ Write(x, a, v).k = x.k /\ Write(x, a, v).w = x.w
  BY WriteIs
<1>2. x.mem \in [Cells -> Int]
  BY StateParts
<1>3. \A b \in Healthy : Store(x.mem, a, v)[b] = IF b = a THEN v ELSE x.mem[b]
  BY <1>2, StoreHealthy
<1> QED BY <1>1, <1>3 DEF Touched

LEMMA Checked ==
  ASSUME Sound_, NEW x, x \in States, NEW a, a \in Int, NEW v
  PROVE  /\ Touched(x, Check(x, a, v), a, x.mem[a])
         /\ a \in Healthy /\ x.mem[a] = v => Check(x, a, v).errs = x.errs
<1>1. /\ Check(x, a, v) \in States /\ Check(x, a, v).mem = x.mem
      /\ Check(x, a, v).rng = x.rng /\ Check(x, a, v).k = x.k /\ Check(x, a, v).w = x.w
  BY CheckIs
<1>2. /\ Load(x.mem, a) = v => Check(x, a, v).errs = x.errs
      /\ Check(x, a, v).errs \subseteq x.errs \cup {a}
  BY CheckErrs
<1>3. a \in Healthy => Load(x.mem, a) = x.mem[a]
  <2>1. DOMAIN x.mem = Cells
    BY StateParts
  <2> QED BY <2>1, LoadHealthy
<1> QED BY <1>1, <1>2, <1>3 DEF Touched

LEMMA CheckedWrote ==
  ASSUME Sound_, NEW x, x \in States, NEW a, a \in Int, NEW v, NEW n, n \in Int
  PROVE  /\ Touched(x, CheckWrite(x, a, v, n), a, n)
         /\ a \in Healthy /\ x.mem[a] = v => CheckWrite(x, a, v, n).errs = x.errs
<1> DEFINE y == Check(x, a, v)
<1>1. /\ Touched(x, y, a, x.mem[a])
      /\ a \in Healthy /\ x.mem[a] = v => y.errs = x.errs
  BY Checked
<1>2. CheckWrite(x, a, v, n) = Write(y, a, n)
  BY DEF CheckWrite
<1> HIDE DEF y
<1>3. y \in States
  BY <1>1 DEF Touched
<1>4. Touched(y, Write(y, a, n), a, n) /\ Write(y, a, n).errs = y.errs
  BY <1>3, Wrote
<1> QED BY <1>1, <1>2, <1>4 DEF Touched

(* What a sweep does at a word, if it finds there what it is to find.      *)
Effect(x, y, a) ==
  /\ y \in States /\ y.errs \subseteq x.errs \cup {a}
  /\ \A b \in Healthy : b # a => y.mem[b] = x.mem[b]
  /\ ~Claimed(here, a) => y.errs = x.errs
  /\ a \in Healthy /\ Claimed(here, a) /\ (Fills(here) \/ x.mem[a] = Was(here, a))
       => y.errs = x.errs /\ y.mem[a] = Leaves(here, a)
  /\ Carried(here, y.k, y.w, y.rng, a + StepOf(here))

LEMMA StrideOn ==
  ASSUME StepInv, here.at \in Plain, NEW a, OnWord(a)
  PROVE  here.at # "mod_rest" => Claimed(here, a)
<1>1. here.at \in Mods /\ here.at # "mod_rest" => here.at \in Strides
  BY DEF Mods, Strides
<1> QED BY <1>1, PlainFacts DEF OnWord, Claimed, OnStride

LEMMA SimpleEffect ==
  ASSUME StepInv, here.at \in {"own_write", "own_check", "inv_fill", "inv_up", "inv_down",
                               "fade_fill", "fade_check"},
         NEW x, x \in States, NEW a, OnWord(a)
  PROVE  Effect(x, Visit(x, a), a)
<1>1. here.at \in Plain /\ a \in Int
  BY DEF Plain, Ups, Downs, Strides, FadeSweeps, OnWord
<1>2. Sound_ /\ arg.p1 \in Int /\ arg.p2 \in Int /\ here.w \in Int /\ here.at \notin Mods
  <2>1. arg.p1 \in Word /\ arg.p2 \in Word /\ here.w \in Word
    BY <1>1, PlainFacts, InTestFacts
  <2> QED BY <1>1, <2>1, PlainFacts, Sizes DEF Word, Mods
<1>3. Claimed(here, a) /\ \A k, w, r, c : Carried(here, k, w, r, c)
  BY <1>2 DEF Claimed, Carried, Strides
<1>4. CASE here.at \in {"own_write", "inv_fill", "fade_fill"}
  <2>1. Fills(here) /\ Visit(x, a) = Write(x, a, Leaves(here, a)) /\ Leaves(here, a) \in Int
    BY <1>1, <1>2, <1>4 DEF Fills, Visit, At, Leaves, FadeSweeps
  <2>2. /\ Touched(x, Visit(x, a), a, Leaves(here, a)) /\ Visit(x, a).errs = x.errs
    BY <1>1, <1>2, <2>1, Wrote
  <2> QED BY <1>3, <2>1, <2>2 DEF Effect, Touched
<1>5. CASE here.at \in {"own_check", "fade_check"}
  <2>1. /\ ~Fills(here) /\ Was(here, a) = Leaves(here, a)
        /\ Visit(x, a) = Check(x, a, Was(here, a))
    BY <1>5 DEF Fills, Visit, At, Leaves, Was, FadeSweeps
  <2>2. /\ Touched(x, Visit(x, a), a, x.mem[a])
        /\ a \in Healthy /\ x.mem[a] = Was(here, a) => Visit(x, a).errs = x.errs
    BY <1>1, <1>2, <2>1, Checked
  <2> QED BY <1>3, <2>1, <2>2 DEF Effect, Touched
<1>6. CASE here.at \in {"inv_up", "inv_down"}
  <2>1. /\ ~Fills(here) /\ Leaves(here, a) \in Int
        /\ Visit(x, a) = CheckWrite(x, a, Was(here, a), Leaves(here, a))
    BY <1>2, <1>6 DEF Fills, Visit, At, Leaves, Was, FadeSweeps
  <2>2. /\ Touched(x, Visit(x, a), a, Leaves(here, a))
        /\ a \in Healthy /\ x.mem[a] = Was(here, a) => Visit(x, a).errs = x.errs
    BY <1>1, <1>2, <2>1, CheckedWrote
  <2> QED BY <1>3, <2>1, <2>2 DEF Effect, Touched
<1> QED BY <1>4, <1>5, <1>6

LEMMA TurnLeaves ==
  ASSUME NEW y, y \in States
  PROVE  /\ Turn(y) \in States /\ Turn(y).mem = y.mem /\ Turn(y).errs = y.errs
         /\ Turn(y).rng = y.rng /\ Turn(y).k = (y.k + 1) % Bits /\ Turn(y).w = Rol(y.w, 1)
         /\ TurnBack(y) \in States /\ TurnBack(y).mem = y.mem /\ TurnBack(y).errs = y.errs
         /\ TurnBack(y).rng = y.rng /\ TurnBack(y).w = Ror(y.w, 1)
         /\ Count(y) \in States /\ Count(y).mem = y.mem /\ Count(y).errs = y.errs
         /\ Count(y).k = (IF y.k + 1 > MOD_SZ - 1 THEN 0 ELSE y.k + 1)
         /\ Draw(y) \in States /\ Draw(y).mem = y.mem /\ Draw(y).errs = y.errs
         /\ Draw(y).rng = rand(y.rng)
<1>1. /\ Turn(y) \in States /\ TurnBack(y) \in States /\ Count(y) \in States
      /\ Turn(y) = [y EXCEPT !.k = (y.k + 1) % Bits, !.w = Rol(y.w, 1)]
      /\ TurnBack(y) = [y EXCEPT !.k = (y.k - 1) % Bits, !.w = Ror(y.w, 1)]
      /\ Count(y) = [y EXCEPT !.k = IF y.k + 1 > MOD_SZ - 1 THEN 0 ELSE y.k + 1]
  BY TurnIs
<1>2. Draw(y) \in States /\ Draw(y) = [y EXCEPT !.rng = rand(y.rng)]
  BY DrawIs
<1> QED BY <1>1, <1>2 DEF States

LEMMA ShiftEffect ==
  ASSUME StepInv, here.at \in {"shift_fill", "shift_up", "shift_down"},
         NEW x, x \in States, NEW a, OnWord(a), Carried(here, x.k, x.w, x.rng, a)
  PROVE  Effect(x, Visit(x, a), a)
<1>1. here.at \in Plain /\ a \in Int
  BY DEF Plain, Ups, Downs, Strides, FadeSweeps, OnWord
<1>2. /\ Sound_ /\ arg \in Args /\ here.at \notin Mods /\ here.at \notin FadeSweeps
      /\ arg.off \in Nat /\ Bits \in Nat \ {0}
  BY <1>1, PlainFacts, InTestFacts, Sizes DEF Mods, FadeSweeps
<1>3. Claimed(here, a)
  BY <1>2 DEF Claimed
<1>4. x.w = Turned(a) /\ (here.at # "shift_down" => x.k = (arg.off + a) % Bits)
  BY DEF Carried
<1>5. /\ Turned(a) \in Word /\ Rol(Turned(a), 1) = Turned(a + 1)
      /\ Ror(Turned(a), 1) = Turned(a - 1)
  BY <1>1, <1>2, TurnedIs
<1>6. Turned(a) \in Int /\ Not(Turned(a)) \in Int
  BY <1>5, NotWord, Sizes DEF Word
<1>7. (((arg.off + a) % Bits) + 1) % Bits = (arg.off + (a + 1)) % Bits
  <2> DEFINE y == arg.off + a
             one == 1
  <2>1. y \in Int /\ one \in Int /\ arg.off + (a + 1) = one + y
    BY <1>1, <1>2
  <2>2. y % Bits \in 0 .. Bits - 1
    BY <1>2, <2>1, Remainders
  <2>3. (y % Bits) + 1 = one + (y % Bits)
    BY <2>2
  <2> HIDE DEF y, one
  <2>4. (one + y) % Bits = (one + (y % Bits)) % Bits
    BY <1>2, <2>1, RemainderSum
  <2> QED BY <2>1, <2>3, <2>4 DEF y
<1>8. CASE here.at = "shift_fill"
  <2> DEFINE y == Write(x, a, Turned(a))
  <2>1. Touched(x, y, a, Turned(a)) /\ y.errs = x.errs
    BY <1>1, <1>2, <1>6, Wrote
  <2>2. Visit(x, a) = Turn(y) /\ Leaves(here, a) = Turned(a) /\ StepOf(here) = 1
    BY <1>4, <1>8 DEF Visit, At, Leaves, StepOf, Strides, Downs, FadeSweeps
  <2> HIDE DEF y
  <2>3. /\ Turn(y) \in States /\ Turn(y).mem = y.mem /\ Turn(y).errs = y.errs
        /\ Turn(y).k = (y.k + 1) % Bits /\ Turn(y).w = Rol(y.w, 1)
    BY <2>1, TurnLeaves DEF Touched
  <2>4. Turn(y).k = (arg.off + (a + 1)) % Bits /\ Turn(y).w = Turned(a + 1)
    BY <1>4, <1>5, <1>7, <1>8, <2>1, <2>3 DEF Touched
  <2>5. Carried(here, Turn(y).k, Turn(y).w, Turn(y).rng, a + 1)
    BY <1>8, <2>4 DEF Carried, Strides
  <2> QED BY <1>3, <2>1, <2>2, <2>3, <2>5 DEF Effect, Touched
<1>9. CASE here.at = "shift_up"
  <2> DEFINE y == CheckWrite(x, a, Turned(a), Not(Turned(a)))
  <2>1. /\ Touched(x, y, a, Not(Turned(a)))
        /\ a \in Healthy /\ x.mem[a] = Turned(a) => y.errs = x.errs
    BY <1>1, <1>2, <1>6, CheckedWrote
  <2>2. /\ Visit(x, a) = Turn(y) /\ Leaves(here, a) = Not(Turned(a)) /\ StepOf(here) = 1
        /\ Was(here, a) = Turned(a) /\ ~Fills(here)
    BY <1>4, <1>9 DEF Visit, At, Leaves, Was, Fills, StepOf, Strides, Downs, FadeSweeps
  <2> HIDE DEF y
  <2>3. /\ Turn(y) \in States /\ Turn(y).mem = y.mem /\ Turn(y).errs = y.errs
        /\ Turn(y).k = (y.k + 1) % Bits /\ Turn(y).w = Rol(y.w, 1)
    BY <2>1, TurnLeaves DEF Touched
  <2>4. Turn(y).k = (arg.off + (a + 1)) % Bits /\ Turn(y).w = Turned(a + 1)
    BY <1>4, <1>5, <1>7, <1>9, <2>1, <2>3 DEF Touched
  <2>5. Carried(here, Turn(y).k, Turn(y).w, Turn(y).rng, a + 1)
    BY <1>9, <2>4 DEF Carried, Strides
  <2> QED BY <1>3, <2>1, <2>2, <2>3, <2>5 DEF Effect, Touched
<1>10. CASE here.at = "shift_down"
  <2> DEFINE y == CheckWrite(x, a, Not(Turned(a)), Turned(a))
  <2>1. /\ Touched(x, y, a, Turned(a))
        /\ a \in Healthy /\ x.mem[a] = Not(Turned(a)) => y.errs = x.errs
    BY <1>1, <1>2, <1>6, CheckedWrote
  <2>2. /\ Visit(x, a) = TurnBack(y) /\ Leaves(here, a) = Turned(a) /\ StepOf(here) = -1
        /\ Was(here, a) = Not(Turned(a)) /\ ~Fills(here)
    BY <1>4, <1>10 DEF Visit, At, Leaves, Was, Fills, StepOf, Strides, Downs, FadeSweeps
  <2> HIDE DEF y
  <2>3. /\ TurnBack(y) \in States /\ TurnBack(y).mem = y.mem /\ TurnBack(y).errs = y.errs
        /\ TurnBack(y).w = Ror(y.w, 1)
    BY <2>1, TurnLeaves DEF Touched
  <2>4. TurnBack(y).w = Turned(a - 1)
    BY <1>4, <1>5, <2>1, <2>3 DEF Touched
  <2>5. Carried(here, TurnBack(y).k, TurnBack(y).w, TurnBack(y).rng, a + (-1))
    <3>1. a + (-1) = a - 1
      BY <1>1
    <3> QED BY <1>10, <2>4, <3>1 DEF Carried, Strides
  <2> QED BY <1>3, <2>1, <2>2, <2>3, <2>5 DEF Effect, Touched
<1> QED BY <1>8, <1>9, <1>10

LEMMA NextRemainder ==
  ASSUME NEW c, c \in Nat \ {0}, NEW x, x \in Int
  PROVE  (x + 1) % c = IF (x % c) + 1 > c - 1 THEN 0 ELSE (x % c) + 1
<1>1. PICK q \in Int, r \in 0 .. c - 1 : r = x % c /\ x = q * c + r
  BY Divides
<1>2. r \in Int /\ q + 1 \in Int /\ x + 1 \in Int
  BY <1>1
<1>3. CASE r + 1 > c - 1
  <2> DEFINE y == x + 1
             u == q + 1
             z == 0
  <2>0. r = c - 1 /\ u * c = q * c + c
    BY <1>1, <1>2, <1>3
  <2>1. y = u * c + z /\ y \in Int /\ u \in Int /\ z \in 0 .. c - 1
    <3>1. u \in Int /\ y \in Int /\ z \in 0 .. c - 1
      BY <1>1, <1>2
    <3>2. y = q * c + c
      <4> DEFINE m == q * c
      <4>1. m \in Int /\ x = m + r /\ r = c - 1 /\ c \in Int
        BY <1>1, <1>2, <2>0
      <4> HIDE DEF m
      <4>2. x + 1 = m + c
        BY <4>1
      <4> QED BY <4>2 DEF m
    <3> QED BY <2>0, <3>1, <3>2
  <2> HIDE DEF y, u, z
  <2>2. y % c = z
    BY <2>1, OneRemainder
  <2> QED BY <1>1, <1>3, <2>2 DEF y, z
<1>4. CASE ~(r + 1 > c - 1)
  <2> DEFINE y == x + 1
             z == r + 1
  <2>1. y = q * c + z /\ y \in Int /\ z \in 0 .. c - 1
    BY <1>1, <1>2, <1>4
  <2> HIDE DEF y, z
  <2>2. y % c = z
    BY <2>1, OneRemainder
  <2> QED BY <1>1, <1>4, <2>2 DEF y, z
<1> QED BY <1>3, <1>4

LEMMA ModEffect ==
  ASSUME StepInv, here.at \in Mods, NEW x, x \in States, NEW a, OnWord(a),
         Carried(here, x.k, x.w, x.rng, a)
  PROVE  Effect(x, Visit(x, a), a)
<1>1. here.at \in Plain /\ a \in Int
  BY DEF Plain, Ups, Downs, Strides, FadeSweeps, OnWord, Mods
<1>2. /\ Sound_ /\ arg \in Args /\ here.at \notin FadeSweeps /\ here.at \notin Downs
      /\ arg.p1 \in Int /\ arg.p2 \in Int /\ here.j \in 1 .. segs /\ map \in Maps
      /\ MOD_SZ \in Nat \ {0} /\ Start(here.j) \in Nat
  <2>1. arg.p1 \in Word /\ arg.p2 \in Word
    BY <1>1, PlainFacts, InTestFacts
  <2> QED BY <1>1, <2>1, PlainFacts, Sizes DEF Word, Mods, FadeSweeps, Downs
<1>3. here.at \in Strides => /\ (a - Start(here.j)) % MOD_SZ = arg.off
                             /\ (a + MOD_SZ - Start(here.j)) % MOD_SZ = arg.off
  <2> DEFINE y == a - Start(here.j)
             c == MOD_SZ
  <2>1. y \in Int /\ c \in Nat \ {0} /\ c % c = 0 /\ c \in Int
        /\ a + MOD_SZ - Start(here.j) = y + c
    BY <1>1, <1>2
  <2> HIDE DEF y, c
  <2>2. (y + c) % c = y % c
    BY <2>1, RemainderSum
  <2> QED BY <2>1, <2>2 DEF y, c, OnWord
<1>4. here.at # "mod_rest" => Claimed(here, a)
  BY <1>1, StrideOn
<1>5. CASE here.at = "mod_write"
  <2>1. /\ Fills(here) /\ Visit(x, a) = Write(x, a, arg.p1) /\ Leaves(here, a) = arg.p1
        /\ StepOf(here) = MOD_SZ /\ here.at \in Strides
    BY <1>5 DEF Fills, Visit, At, Leaves, FadeSweeps, StepOf, Strides
  <2>2. Touched(x, Visit(x, a), a, arg.p1) /\ Visit(x, a).errs = x.errs
    BY <1>1, <1>2, <2>1, Wrote
  <2>3. \A k, w, r : Carried(here, k, w, r, a + MOD_SZ)
    BY <1>1, <1>2, <1>3, <1>5, <2>1 DEF Carried
  <2> QED BY <1>4, <1>5, <2>1, <2>2, <2>3 DEF Effect, Touched
<1>6. CASE here.at = "mod_check"
  <2>1. /\ ~Fills(here) /\ Visit(x, a) = Check(x, a, arg.p1) /\ Leaves(here, a) = arg.p1
        /\ StepOf(here) = MOD_SZ /\ here.at \in Strides /\ Was(here, a) = arg.p1
    BY <1>6 DEF Fills, Visit, At, Leaves, Was, FadeSweeps, StepOf, Strides
  <2>2. /\ Touched(x, Visit(x, a), a, x.mem[a])
        /\ a \in Healthy /\ x.mem[a] = arg.p1 => Visit(x, a).errs = x.errs
    BY <1>1, <1>2, <2>1, Checked
  <2>3. \A k, w, r : Carried(here, k, w, r, a + MOD_SZ)
    BY <1>1, <1>2, <1>3, <1>6, <2>1 DEF Carried
  <2> QED BY <1>4, <1>6, <2>1, <2>2, <2>3 DEF Effect, Touched
<1>7. CASE here.at = "mod_rest"
  <2> DEFINE y == IF x.k # arg.off THEN Write(x, a, arg.p2) ELSE x
             d == a - Start(here.j)
  <2>1. /\ ~Fills(here) /\ Visit(x, a) = Count(y) /\ Leaves(here, a) = arg.p1
        /\ StepOf(here) = 1 /\ Was(here, a) = arg.p1
    BY <1>7 DEF Fills, Visit, At, Leaves, Was, FadeSweeps, StepOf, Strides, Downs
  <2>2. d \in Int /\ x.k = d % MOD_SZ /\ a + 1 - Start(here.j) = d + 1
    BY <1>1, <1>2, <1>7 DEF Carried
  <2>3. Touched(x, Write(x, a, arg.p2), a, arg.p2) /\ Write(x, a, arg.p2).errs = x.errs
    BY <1>1, <1>2, Wrote
  <2>4. /\ y \in States /\ y.errs = x.errs /\ y.k = x.k
        /\ \A b \in Healthy : b # a => y.mem[b] = x.mem[b]
        /\ x.k = arg.off => y.mem = x.mem
    BY <2>3 DEF Touched
  <2>5. Claimed(here, a) => x.k = arg.off
    <3>1. SUFFICES ASSUME Claimed(here, a) PROVE d % MOD_SZ = arg.off
      BY <2>2
    <3>2. PICK i \in 1 .. segs : OnStride(i, a)
      BY <1>7, <3>1 DEF Claimed, Mods
    <3>3. i = here.j
      BY <1>1, <1>2, <3>2, SegmentFacts DEF OnStride, OnWord
    <3> QED BY <3>2, <3>3 DEF OnStride
  <2> HIDE DEF y
  <2>6. /\ Count(y) \in States /\ Count(y).mem = y.mem /\ Count(y).errs = y.errs
        /\ Count(y).k = IF y.k + 1 > MOD_SZ - 1 THEN 0 ELSE y.k + 1
    BY <2>4, TurnLeaves
  <2>7. Count(y).k = (a + 1 - Start(here.j)) % MOD_SZ
    <3> HIDE DEF d
    <3>1. (d + 1) % MOD_SZ = IF (d % MOD_SZ) + 1 > MOD_SZ - 1 THEN 0 ELSE (d % MOD_SZ) + 1
      BY <1>2, <2>2, NextRemainder
    <3> QED BY <2>2, <2>4, <2>6, <3>1
  <2>8. Carried(here, Count(y).k, Count(y).w, Count(y).rng, a + 1)
    BY <1>1, <1>2, <1>7, <2>7 DEF Carried, Strides
  <2> QED BY <2>1, <2>4, <2>5, <2>6, <2>8 DEF Effect
<1> QED BY <1>5, <1>6, <1>7 DEF Mods

LEMMA RandEffect ==
  ASSUME StepInv, here.at \in {"rand_fill", "rand_check"}, NEW x, x \in States,
         NEW a, OnWord(a), Carried(here, x.k, x.w, x.rng, a)
  PROVE  Effect(x, Visit(x, a), a)
<1>1. here.at \in Plain /\ a \in Int
  BY DEF Plain, Ups, Downs, Strides, FadeSweeps, OnWord
<1>2. /\ Sound_ /\ arg \in Args /\ here.at \notin FadeSweeps /\ here.at \notin Mods
      /\ here.j \in 1 .. segs /\ map \in Maps
  BY <1>1, PlainFacts DEF Mods, FadeSweeps
<1>3. a \in Cells /\ Claimed(here, a)
  BY <1>1, <1>2, SegmentCells DEF Claimed, OnWord, InSegment
<1>4. /\ x.rng = Stream[a] /\ Stream[a + 1] = rand(Stream[a]) /\ Number(a) \in Word
      /\ (here.at = "rand_check" => here.i >= 1)
  BY <1>2, <1>3, StreamAt DEF Carried
<1> DEFINE d == Draw(x)
           v == Number(a)
<1>5. /\ d \in States /\ d.mem = x.mem /\ d.errs = x.errs /\ d.rng = Stream[a + 1]
  BY <1>4, TurnLeaves
<1>6. Drawn(d.rng) = v
  BY <1>5 DEF Number
<1>7. v \in Int /\ Not(v) \in Int /\ Not(Not(v)) = v
  BY <1>4, NotWord, Sizes DEF Word
<1>8. Carried(here, x.k, x.w, Stream[a + 1], a + 1) /\ StepOf(here) = 1
      /\ \A k, w : Carried(here, k, w, Stream[a + 1], a + 1)
  BY <1>4 DEF Carried, Strides, StepOf, Downs
<1> HIDE DEF v
<1>9. CASE here.at = "rand_fill"
  <2>1. Fills(here) /\ Visit(x, a) = Write(d, a, v) /\ Leaves(here, a) = v
    BY <1>6, <1>9 DEF Fills, Visit, At, Leaves, FadeSweeps, v
  <2> HIDE DEF d
  <2>2. Touched(d, Write(d, a, v), a, v) /\ Write(d, a, v).errs = d.errs
    BY <1>1, <1>2, <1>5, <1>7, Wrote
  <2> QED BY <1>3, <1>5, <1>8, <2>1, <2>2 DEF Effect, Touched
<1>10. CASE here.at = "rand_check"
  <2> DEFINE e == IF here.i = 2 THEN Not(v) ELSE v
  <2>1. /\ Expected(d) = e /\ ~Fills(here) /\ Visit(x, a) = CheckWrite(d, a, e, Not(e))
        /\ Was(here, a) = e
    BY <1>6, <1>10 DEF Fills, Visit, At, Was, Expected, v
  <2>2. Leaves(here, a) = Not(e) /\ Not(e) \in Int
    BY <1>7, <1>10 DEF Leaves, FadeSweeps, v
  <2> HIDE DEF d, e
  <2>3. /\ Touched(d, Visit(x, a), a, Not(e))
        /\ a \in Healthy /\ d.mem[a] = e => Visit(x, a).errs = d.errs
    BY <1>1, <1>2, <1>5, <2>1, <2>2, CheckedWrote
  <2> QED BY <1>3, <1>5, <1>8, <2>1, <2>2, <2>3 DEF Effect, Touched
<1> QED BY <1>9, <1>10

LEMMA VisitEffect ==
  ASSUME StepInv, here.at \in Plain, NEW x, x \in States, NEW a, OnWord(a),
         Carried(here, x.k, x.w, x.rng, a)
  PROVE  Effect(x, Visit(x, a), a)
<1>1. CASE here.at \in {"own_write", "own_check", "inv_fill", "inv_up", "inv_down",
                        "fade_fill", "fade_check"}
  BY <1>1, SimpleEffect
<1>2. CASE here.at \in {"shift_fill", "shift_up", "shift_down"}
  BY <1>2, ShiftEffect
<1>3. CASE here.at \in Mods
  BY <1>3, ModEffect
<1>4. CASE here.at \in {"rand_fill", "rand_check"}
  BY <1>4, RandEffect
<1> QED BY <1>1, <1>2, <1>3, <1>4 DEF Plain, Ups, Downs, Strides, FadeSweeps, Mods
-----------------------------------------------------------------------------
(* What a sweep knows, from one word to the next and over a chunk.         *)
Claims(x, a) ==
  /\ x \in States /\ x.errs \subseteq Broken
  /\ MemClaim(here, x.mem, a) /\ Carried(here, x.k, x.w, x.rng, a)

LEMMA VisitClaims ==
  ASSUME StepInv, here.at \in Plain, NEW x, NEW a, a \in Int, Claims(x, a),
         InSegment(here.j, a)
  PROVE  Claims(Visit(x, a), a + StepOf(here))
<1> DEFINE y == Visit(x, a)
           c == a + StepOf(here)
<1>1. /\ x \in States /\ x.errs \subseteq Broken
      /\ MemClaim(here, x.mem, a) /\ Carried(here, x.k, x.w, x.rng, a)
  BY DEF Claims
<1>2. OnWord(a)
  BY <1>1 DEF OnWord, Carried
<1>3. Effect(x, y, a)
  BY <1>1, <1>2, VisitEffect
<1> HIDE DEF y
<1>4. a \in Healthy \/ a \in Broken
  <2>1. a \in Cells
    BY PlainFacts, SegmentCells DEF InSegment
  <2> QED BY <2>1 DEF Healthy
<1>5. a \in Healthy /\ Claimed(here, a) => Fills(here) \/ x.mem[a] = Was(here, a)
  <2>1. a \in Healthy /\ Claimed(here, a) => ~Done(here, a, a)
    BY <1>2, DoneStep
  <2> QED BY <1>1, <2>1 DEF MemClaim
<1>6. y.errs \subseteq Broken
  BY <1>1, <1>3, <1>4, <1>5 DEF Effect
<1>7. ASSUME NEW b \in Healthy, Claimed(here, b)
      PROVE  /\ Done(here, b, c) => y.mem[b] = Leaves(here, b)
             /\ ~Done(here, b, c) /\ ~Fills(here) => y.mem[b] = Was(here, b)
  <2>1. Done(here, b, c) <=> Done(here, b, a) \/ b = a
    BY <1>2, <1>7, DoneStep
  <2>2. /\ Done(here, b, a) => x.mem[b] = Leaves(here, b)
        /\ ~Done(here, b, a) /\ ~Fills(here) => x.mem[b] = Was(here, b)
    BY <1>1, <1>7 DEF MemClaim
  <2> HIDE DEF c
  <2>3. CASE b = a
    BY <1>3, <1>5, <1>7, <2>1, <2>3 DEF Effect
  <2>4. CASE b # a
    BY <1>3, <1>7, <2>1, <2>2, <2>4 DEF Effect
  <2> QED BY <2>3, <2>4
<1>8. MemClaim(here, y.mem, c)
  BY <1>7 DEF MemClaim
<1> QED BY <1>3, <1>6, <1>8 DEF Claims, Effect, y

LEMMA SweepClaims ==
  ASSUME StepInv, here.at \in Plain, NEW first, NEW step, NEW c, first \in Int, step \in Int,
         c \in Nat, step = StepOf(here), Claims(State, first),
         \A n \in 0 .. c - 1 : InSegment(here.j, first + n * step)
  PROVE  Claims(Sweep(first, step, c), first + c * step)
<1>1. TypeInv /\ here.at \in Visited
  BY PlainFacts DEF StepInv
<1>2. PICK f : Swept_(f, first, step, c)
  BY <1>1, SweepSteps
<1>3. /\ f[0] = State /\ Sweep(first, step, c) = f[c]
      /\ \A n \in 0 .. c - 1 : f[n + 1] = Visit(f[n], first + n * step)
  BY <1>2 DEF Swept_
<1> DEFINE P == {n \in Nat : n <= c => Claims(f[n], first + n * step)}
<1>4. 0 \in P
  <2>1. first + 0 * step = first
    OBVIOUS
  <2> QED BY <1>3, <2>1
<1>5. ASSUME NEW n \in P PROVE n + 1 \in P
  <2> SUFFICES ASSUME n + 1 <= c PROVE Claims(f[n + 1], first + (n + 1) * step)
    OBVIOUS
  <2> DEFINE a == first + n * step
  <2>1. n \in Nat /\ n \in 0 .. c - 1 /\ Claims(f[n], a)
    OBVIOUS
  <2>2. a \in Int /\ f[n + 1] = Visit(f[n], a)
    BY <1>3, <2>1
  <2>3. InSegment(here.j, a)
    BY <2>1
  <2>4. first + (n + 1) * step = a + step
    BY <2>1
  <2> HIDE DEF a, P
  <2>5. Claims(Visit(f[n], a), a + StepOf(here))
    BY <2>1, <2>2, <2>3, VisitClaims
  <2> QED BY <2>2, <2>4, <2>5
<1>6. P = Nat
  <2>1. P \in SUBSET Nat
    OBVIOUS
  <2> HIDE DEF P
  <2> QED BY <1>4, <1>5, <2>1, Induction
<1>7. c \in P
  <2> HIDE DEF P
  <2> QED BY <1>6
<1> QED BY <1>3, <1>7
-----------------------------------------------------------------------------
(* The invariant that what is reported rests on.  The bit fade test does a *)
(* segment at a time, and sleeps between two sweeps.  The block move keeps *)
(* each two words the same: it has filled those that are to be moved, it   *)
(* moves them by whole halves, and the odd end of a segment it only writes *)
(* when it moves.                                                          *)
Position(h) ==
  CASE h.at \in {"rand_seed", "fade_sleep"} -> 0
    [] h.at \in FadeSweeps -> Start(h.j)
    [] OTHER -> h.p
Claim(h, m, r) ==
  MemClaim(h, m, Position(h)) /\ Carried(h, h.k, h.w, r, Position(h))
PairHeld(h, j, b) ==
  CASE h.at = "block_fill" -> b < FillEnd(j) /\ (j < h.j \/ (j = h.j /\ b < h.p))
    [] h.at = "block_move" -> \/ b < FillEnd(j) \/ j < h.j
                              \/ j = h.j /\ h.i > 0 /\ b < Limit(h.pe, End(j))
    [] h.at = "block_check" -> TRUE
PairClaim(h, m) ==
  \A j \in 1 .. segs : \A b \in BlockStart(j) .. End(j) - 1 :
    b % 2 = 0 /\ PairHeld(h, j, b) => m[b] = m[b + 1]
Trusted == pat \in {5, 7} => fault.kind = "none"
ClaimInv ==
  /\ Trusted => errs \subseteq Broken
  /\ here.at \in Claiming => Claim(here, mem, rng)
  /\ here.at \in BlockSweeps /\ fault.kind = "none" => PairClaim(here, mem)

LEMMA SameWords ==
  ASSUME UNCHANGED <<map, fault, arg>>, NEW h
  PROVE  /\ Cells' = Cells /\ Broken' = Broken /\ Healthy' = Healthy /\ segs' = segs
         /\ \A b : Was(h, b)' = Was(h, b) /\ Leaves(h, b)' = Leaves(h, b)
         /\ \A b : Claimed(h, b)' = Claimed(h, b)
         /\ \A b, a : Done(h, b, a)' = Done(h, b, a)
         /\ \A k, w, r, a : Carried(h, k, w, r, a)' = Carried(h, k, w, r, a)
         /\ Position(h)' = Position(h)
<1>1. /\ Cells' = Cells /\ Broken' = Broken /\ segs' = segs
      /\ \A j : Start(j)' = Start(j) /\ End(j)' = End(j)
  BY DEF Cells, Broken, Start, End, segs
<1>2. Healthy' = Healthy /\ Stream' = Stream
  BY <1>1 DEF Healthy, Stream
<1>3. \A b : Turned(b)' = Turned(b) /\ Number(b)' = Number(b)
  BY <1>2 DEF Turned, Number
<1>4. \A b : Was(h, b)' = Was(h, b)
  BY <1>3 DEF Was
<1>5. \A b : Leaves(h, b)' = Leaves(h, b)
  BY <1>3 DEF Leaves
<1>6. \A b : Claimed(h, b)' = Claimed(h, b)
  BY <1>1 DEF Claimed, OnStride, InSegment
<1>7. \A b, a : Done(h, b, a)' = Done(h, b, a)
  BY <1>1 DEF Done
<1>8. \A k, w, r, a : Carried(h, k, w, r, a)' = Carried(h, k, w, r, a)
  BY <1>1, <1>2, <1>3 DEF Carried
<1>9. Position(h)' = Position(h)
  BY <1>1 DEF Position
<1> QED BY <1>1, <1>2, <1>4, <1>5, <1>6, <1>7, <1>8, <1>9

LEMMA SamePairs ==
  ASSUME UNCHANGED map, NEW h, NEW m, PairClaim(h, m)
  PROVE  PairClaim(h, m)'
<1>1. segs' = segs /\ \A j : /\ End(j)' = End(j) /\ BlockStart(j)' = BlockStart(j)
                             /\ FillEnd(j)' = FillEnd(j)
  BY DEF Start, End, segs, BlockStart, FillEnd
<1>2. \A j, b : PairHeld(h, j, b)' = PairHeld(h, j, b)
  BY <1>1 DEF PairHeld
<1> QED BY <1>1, <1>2 DEF PairClaim

(* A step of a function goes to another place.                             *)
LEMMA ClaimArrived ==
  ASSUME NEW h, NEW m, NEW r, here' = h, mem' = m, rng' = r,
         UNCHANGED <<pat, map, fault, arg>>, Trusted => errs' \subseteq Broken,
         h.at \in Claiming => Claim(h, m, r),
         h.at \in BlockSweeps /\ fault.kind = "none" => PairClaim(h, m)
  PROVE  ClaimInv'
<1>1. Trusted' = Trusted /\ Broken' = Broken /\ fault' = fault
  BY DEF Trusted, Broken
<1>2. ASSUME Claim(h, m, r) PROVE Claim(h, m, r)'
  <2>1. MemClaim(h, m, Position(h)) /\ Carried(h, h.k, h.w, r, Position(h))
    BY <1>2 DEF Claim
  <2> DEFINE a == Position(h)
  <2>2. a' = a
    BY SameWords
  <2>3. MemClaim(h, m, a)'
    <3>1. \A b \in Healthy :
            Claimed(h, b) => /\ Done(h, b, a) => m[b] = Leaves(h, b)
                             /\ ~Done(h, b, a) /\ ~Fills(h) => m[b] = Was(h, b)
      BY <2>1 DEF MemClaim
    <3> QED BY <2>2, <3>1, SameWords DEF MemClaim
  <2>4. Carried(h, h.k, h.w, r, a)'
    BY <2>1, <2>2, SameWords
  <2> QED BY <2>3, <2>4 DEF Claim
<1>3. h.at \in Claiming => Claim(here, mem, rng)'
  BY <1>2 DEF Claim
<1>4. h.at \in BlockSweeps /\ fault.kind = "none" => PairClaim(here, mem)'
  BY SamePairs DEF PairClaim
<1> QED BY <1>1, <1>3, <1>4 DEF ClaimInv
-----------------------------------------------------------------------------
(* The chunks.                                                             *)
LEMMA PlainClaims ==
  ASSUME StepInv, ClaimInv, here.at \in Plain
  PROVE  Claims(State, Position(here)) /\ Trusted /\ errs \subseteq Broken
<1>1. pat \in TestsOf(here.at) /\ State \in States
  BY PlainFacts, InTestFacts, StateTyped DEF StepInv
<1>2. pat \notin {5, 7}
  BY <1>1 DEF TestsOf, Plain, Ups, Strides, Downs, FadeSweeps, BlockSweeps
<1>3. errs \subseteq Broken /\ Claim(here, mem, rng)
  BY <1>2 DEF ClaimInv, Trusted, Claiming
<1> QED BY <1>1, <1>2, <1>3 DEF Claims, Claim, State, Trusted

LEMMA UpClaims ==
  ASSUME StepInv, ClaimInv, here.at \in Ups
  PROVE  Claims(Swept(1), Lim)
<1>1. here.at \in Plain /\ StepOf(here) = 1 /\ Position(here) = here.p
  BY DEF Plain, Ups, StepOf, Strides, Downs, Position, FadeSweeps
<1>2. /\ Lim \in Nat /\ here.p \in Nat /\ Start(here.j) <= here.p
      /\ here.p < Lim /\ Lim <= End(here.j)
  BY UpChunk DEF StepInv
<1>3. Start(here.j) \in Nat /\ End(here.j) \in Nat
  BY <1>1, PlainFacts
<1>4. Swept(1) = Sweep(here.p, 1, Lim - here.p)
  BY UpSwept
<1>5. Claims(State, here.p)
  BY <1>1, PlainClaims
<1> DEFINE c == Lim - here.p
           step == 1
           first == here.p
<1>6. /\ c \in Nat /\ step \in Int /\ first \in Int /\ step = StepOf(here)
      /\ first + c * step = Lim
      /\ \A n \in 0 .. c - 1 : InSegment(here.j, first + n * step)
  BY <1>1, <1>2, <1>3 DEF InSegment
<1>7. Swept(1) = Sweep(first, step, c) /\ Claims(State, first)
  BY <1>4, <1>5
<1> HIDE DEF c, step, first
<1>8. Claims(Sweep(first, step, c), first + c * step)
  BY <1>1, <1>6, <1>7, SweepClaims
<1> QED BY <1>6, <1>7, <1>8

LEMMA StrideClaims ==
  ASSUME StepInv, ClaimInv, here.at \in Strides
  PROVE  Claims(Swept(MOD_SZ), here.p + Visits(here.p, Lim, MOD_SZ) * MOD_SZ)
<1>1. here.at \in Plain /\ StepOf(here) = MOD_SZ /\ Position(here) = here.p
  BY DEF Plain, Strides, StepOf, Strides, Downs, Position, FadeSweeps
<1>2. /\ Lim \in Nat /\ here.p \in Nat /\ Start(here.j) <= here.p
      /\ here.p < Lim /\ Lim <= End(here.j)
      /\ Visits(here.p, Lim, MOD_SZ) \in Nat
      /\ \A n \in 0 .. Visits(here.p, Lim, MOD_SZ) - 1 : here.p + n * MOD_SZ < Lim
  BY StrideChunk DEF StepInv
<1>3. Start(here.j) \in Nat /\ End(here.j) \in Nat /\ MOD_SZ \in Nat
  BY <1>1, PlainFacts
<1>4. Claims(State, here.p)
  BY <1>1, PlainClaims
<1> DEFINE c == Visits(here.p, Lim, MOD_SZ)
           step == MOD_SZ
           first == here.p
<1>5. /\ c \in Nat /\ step \in Nat /\ first \in Nat /\ step = StepOf(here)
      /\ \A n \in 0 .. c - 1 : first + n * step < Lim
      /\ Start(here.j) <= first
  BY <1>1, <1>2, <1>3
<1>6. Swept(MOD_SZ) = Sweep(first, step, c) /\ Claims(State, first)
  BY <1>4 DEF Swept
<1> HIDE DEF c, step, first
<1>7. ASSUME NEW n \in 0 .. c - 1 PROVE InSegment(here.j, first + n * step)
  <2> DEFINE d == n * step
  <2>1. d \in Nat
    BY <1>5
  <2>2. first + d < Lim
    BY <1>5
  <2> HIDE DEF d
  <2>3. InSegment(here.j, first + d)
    BY <1>2, <1>3, <1>5, <2>1, <2>2 DEF InSegment
  <2> QED BY <2>3 DEF d
<1>8. Claims(Sweep(first, step, c), first + c * step)
  <2>1. first \in Int /\ step \in Int
    BY <1>5
  <2> QED BY <1>1, <1>5, <1>6, <1>7, <2>1, SweepClaims
<1> QED BY <1>6, <1>8 DEF c, step, first

LEMMA DownClaims ==
  ASSUME StepInv, ClaimInv, here.at \in Downs
  PROVE  Claims(SweptDown, LowLim - 1)
<1>1. here.at \in Plain /\ StepOf(here) = -1 /\ Position(here) = here.p
  BY DEF Plain, Downs, StepOf, Strides, Position, FadeSweeps
<1>2. /\ LowLim \in Nat /\ here.p \in Nat /\ Start(here.j) <= LowLim
      /\ LowLim < here.p /\ here.p < End(here.j)
  BY DownChunk DEF StepInv
<1>3. Start(here.j) \in Nat /\ End(here.j) \in Nat
  BY <1>1, PlainFacts
<1>4. Claims(State, here.p)
  BY <1>1, PlainClaims
<1> DEFINE c == here.p - LowLim + 1
           step == -1
           first == here.p
<1>5. /\ c \in Nat /\ step \in Int /\ first \in Int /\ step = StepOf(here)
      /\ first + c * step = LowLim - 1
      /\ \A n \in 0 .. c - 1 : InSegment(here.j, first + n * step)
  BY <1>1, <1>2, <1>3 DEF InSegment
<1>6. SweptDown = Sweep(first, step, c) /\ Claims(State, first)
  BY <1>4 DEF SweptDown
<1> HIDE DEF c, step, first
<1>7. Claims(Sweep(first, step, c), first + c * step)
  BY <1>1, <1>5, <1>6, SweepClaims
<1> QED BY <1>5, <1>6, <1>7

LEMMA FadeClaims ==
  ASSUME StepInv, ClaimInv, here.at \in FadeSweeps
  PROVE  Claims(OverSegment, End(here.j))
<1>1. here.at \in Plain /\ StepOf(here) = 1 /\ Position(here) = Start(here.j)
  BY DEF Plain, FadeSweeps, StepOf, Strides, Downs, Position
<1>2. Start(here.j) \in Nat /\ End(here.j) \in Nat /\ Start(here.j) < End(here.j)
  BY <1>1, PlainFacts
<1>3. Claims(State, Start(here.j))
  BY <1>1, PlainClaims
<1> DEFINE c == End(here.j) - Start(here.j)
           step == 1
           first == Start(here.j)
<1>4. /\ c \in Nat /\ step \in Int /\ first \in Int /\ step = StepOf(here)
      /\ first + c * step = End(here.j)
      /\ \A n \in 0 .. c - 1 : InSegment(here.j, first + n * step)
  BY <1>1, <1>2 DEF InSegment
<1>5. OverSegment = Sweep(first, step, c) /\ Claims(State, first)
  BY <1>3 DEF OverSegment
<1> HIDE DEF c, step, first
<1>6. Claims(Sweep(first, step, c), first + c * step)
  BY <1>1, <1>4, <1>5, SweepClaims
<1> QED BY <1>4, <1>5, <1>6
-----------------------------------------------------------------------------
(* From one chunk to the next.                                             *)
LEMMA Onward ==
  ASSUME here.at \in Plain \ FadeSweeps, NEW s, NEW a, Claims(s, a), NEW h,
         h.at = here.at, h.i = here.i, h.j = here.j, h.p = a, h.k = s.k, h.w = s.w
  PROVE  Claim(h, s.mem, s.rng)
<1>1. /\ MemClaim(here, s.mem, a) /\ Carried(here, s.k, s.w, s.rng, a)
  BY DEF Claims
<1>2. Position(h) = a
  BY DEF Position, Plain, FadeSweeps, Ups, Strides, Downs
<1>3. here.at \notin {"fade_sleep", "fade_check"}
  BY DEF Plain, FadeSweeps, Ups, Strides, Downs
<1>4. \A b : Leaves(h, b) = Leaves(here, b) /\ Was(h, b) = Was(here, b)
             /\ Claimed(h, b) = Claimed(here, b) /\ Done(h, b, a) = Done(here, b, a)
  <2>1. \A b : Leaves(h, b) = Leaves(here, b)
    BY DEF Leaves
  <2>2. \A b : Was(h, b) = Was(here, b)
    BY <1>3 DEF Was
  <2> QED BY <2>1, <2>2 DEF Claimed, Done
<1>5. Fills(h) = Fills(here)
  BY DEF Fills
<1>6. MemClaim(h, s.mem, a)
  BY <1>1, <1>4, <1>5 DEF MemClaim
<1>7. Carried(h, s.k, s.w, s.rng, a)
  BY <1>1 DEF Carried
<1> QED BY <1>2, <1>6, <1>7 DEF Claim

(* At the end of a segment.                                                *)
Behind(b) == IF here.at \in Downs THEN b >= Start(here.j) ELSE b < End(here.j)
Ended(s) ==
  /\ s \in States /\ s.errs \subseteq Broken
  /\ \A b \in Healthy :
       Claimed(here, b) => /\ Behind(b) => s.mem[b] = Leaves(here, b)
                           /\ ~Behind(b) /\ ~Fills(here) => s.mem[b] = Was(here, b)

LEMMA EndedIs ==
  ASSUME StepInv, here.at \in Plain, NEW s, NEW a, a \in Int, Claims(s, a),
         IF here.at \in Downs THEN a = Start(here.j) - 1 ELSE a >= End(here.j)
  PROVE  Ended(s)
<1>1. /\ map \in Maps /\ Healthy \subseteq Cells
      /\ Start(here.j) \in Nat /\ End(here.j) \in Nat
  BY PlainFacts
<1>2. \A b \in Cells : b \in Nat
  BY <1>1, CellFacts
<1>3. \A b \in Healthy : Done(here, b, a) <=> Behind(b)
  BY <1>1, <1>2 DEF Done, Behind
<1>4. s \in States /\ s.errs \subseteq Broken /\ MemClaim(here, s.mem, a)
  BY DEF Claims
<1> QED BY <1>3, <1>4 DEF Ended, MemClaim

(* Where a sweep begins in a segment.                                      *)
First(h) == IF h.at \in Downs THEN End(h.j) - 1
            ELSE IF h.at \in Strides THEN Start(h.j) + arg.off ELSE Start(h.j)
LEMMA Begins ==
  ASSUME map \in Maps, arg \in Args, NEW h, h.j \in 1 .. segs,
         h.at \in Strides => arg.off < MOD_SZ,
         NEW b, b \in Cells, Claimed(h, b)
  PROVE  Done(h, b, First(h)) <=> IF h.at \in Downs THEN b >= End(h.j) ELSE b < Start(h.j)
<1>1. /\ Start(h.j) \in Nat /\ End(h.j) \in Nat /\ Start(h.j) < End(h.j) /\ b \in Nat
      /\ arg.off \in Nat /\ MOD_SZ \in Nat \ {0}
  BY MapFacts, CellFacts, WordsAssumption DEF Args
<1>2. CASE h.at \in Downs
  BY <1>1, <1>2 DEF Done, First
<1>3. CASE h.at \notin Downs /\ h.at \notin Strides
  BY <1>1, <1>3 DEF Done, First
<1>4. CASE h.at \in Strides
  <2>1. h.at \notin Downs /\ h.at \in Mods /\ First(h) = Start(h.j) + arg.off
    BY <1>4 DEF Strides, Downs, Mods, First
  <2>2. ASSUME b < Start(h.j) + arg.off, b < End(h.j), Start(h.j) <= b PROVE FALSE
    <3>1. InSegment(h.j, b)
      BY <2>2 DEF InSegment
    <3>2. PICK i \in 1 .. segs : OnStride(i, b)
      BY <2>1 DEF Claimed
    <3>3. i = h.j
      BY <1>1, <3>1, <3>2, SegmentFacts DEF OnStride
    <3> DEFINE y == b - Start(h.j)
               z == 0
    <3>4. y % MOD_SZ = arg.off
      BY <3>2, <3>3 DEF OnStride
    <3>5. y \in Int /\ y \in 0 .. MOD_SZ - 1 /\ y < arg.off /\ z \in Int
          /\ y = z * MOD_SZ + y
      BY <1>1, <1>4, <2>2
    <3> HIDE DEF y, z
    <3>6. y % MOD_SZ = y
      BY <1>1, <3>5, OneRemainder
    <3> QED BY <3>4, <3>5, <3>6
  <2> QED BY <1>1, <1>4, <2>1, <2>2 DEF Done
<1> QED BY <1>2, <1>3, <1>4

LEMMA NextSegment ==
  ASSUME StepInv, here.at \in Plain, NEW s, Ended(s), NEW h, h.at = here.at,
         here.at = "rand_check" => h.i = here.i, here.at \in FadeSweeps => h.w = here.w,
         h.j = IF here.at \in Downs THEN here.j - 1 ELSE here.j + 1, h.j \in 1 .. segs,
         Position(h) = First(h)
  PROVE  MemClaim(h, s.mem, Position(h))
<1>1. /\ map \in Maps /\ arg \in Args /\ Healthy \subseteq Cells /\ here.j \in 1 .. segs
      /\ (h.at \in Strides => arg.off < MOD_SZ)
  BY PlainFacts DEF Strides, Mods
<1>2. ASSUME NEW b \in Healthy, Claimed(h, b) PROVE Done(h, b, First(h)) <=> Behind(b)
  <2>1. b \in Cells /\ b \in Nat
    BY <1>1, CellFacts
  <2>2. Done(h, b, First(h)) <=> IF h.at \in Downs THEN b >= End(h.j) ELSE b < Start(h.j)
    BY <1>1, <1>2, <2>1, Begins
  <2>3. CASE h.at \in Downs
    <3>1. here.j - 1 \in 1 .. segs - 1 /\ (here.j - 1) + 1 = here.j
      BY <1>1, <2>3, MapFacts
    <3>2. b < Start(here.j) <=> b < End(here.j - 1)
      BY <1>1, <2>1, <3>1, SegmentFacts
    <3>3. Start(here.j) \in Nat /\ End(here.j - 1) \in Nat
      BY <1>1, <3>1, MapFacts
    <3> QED BY <2>1, <2>2, <2>3, <3>2, <3>3 DEF Behind
  <2>4. CASE h.at \notin Downs
    <3>1. here.j \in 1 .. segs - 1
      BY <1>1, <2>4, MapFacts
    <3>2. b < Start(here.j + 1) <=> b < End(here.j)
      BY <1>1, <2>1, <3>1, SegmentFacts
    <3> QED BY <2>2, <2>4, <3>2 DEF Behind
  <2> QED BY <2>3, <2>4
<1>3. \A b : Leaves(h, b) = Leaves(here, b) /\ Claimed(h, b) = Claimed(here, b)
  BY DEF Leaves, Claimed
<1>4. \A b : Was(h, b) = Was(here, b)
  <2>1. here.at \notin {"rand_seed", "fade_sleep"}
    BY DEF Plain, FadeSweeps, Ups, Strides, Downs
  <2> QED BY <2>1 DEF Was, FadeSweeps
<1>5. Fills(h) = Fills(here)
  <2>1. here.at # "rand_seed"
    BY DEF Plain, FadeSweeps, Ups, Strides, Downs
  <2> QED BY <2>1 DEF Fills
<1> QED BY <1>2, <1>3, <1>4, <1>5 DEF Ended, MemClaim

(* After the last segment another sweep begins, or the test is over.       *)
Successor(h) ==
  /\ h.at \in Claiming /\ h.j \in 1 .. segs
  /\ \A b \in Healthy :
       Claimed(h, b) => /\ Claimed(here, b) /\ (Fills(h) \/ Was(h, b) = Leaves(here, b))
                        /\ ~Done(h, b, Position(h))
LEMMA NextSweep ==
  ASSUME StepInv, here.at \in Plain, NEW s, Ended(s),
         here.j = IF here.at \in Downs THEN 1 ELSE segs, NEW h, Successor(h)
  PROVE  MemClaim(h, s.mem, Position(h))
<1>1. map \in Maps /\ Healthy \subseteq Cells
  BY PlainFacts
<1>2. ASSUME NEW b \in Healthy PROVE Behind(b)
  <2>1. b \in Cells /\ b \in Nat
    BY <1>1, CellFacts
  <2>2. Start(1) <= b /\ b < End(segs)
    BY <1>1, <2>1, SegmentFacts
  <2>3. Start(1) \in Nat
    BY <1>1, MapFacts
  <2> QED BY <2>1, <2>2, <2>3 DEF Behind
<1> QED BY <1>2 DEF Ended, Successor, MemClaim

(* Nothing has been done where a sweep begins.                             *)
LEMMA NotBegun ==
  ASSUME map \in Maps, arg \in Args, NEW h, h.j = IF h.at \in Downs THEN segs ELSE 1,
         h.at \in Strides => arg.off < MOD_SZ,
         Position(h) = First(h) \/ (Position(h) = 0 /\ h.at \notin Downs)
  PROVE  \A b \in Healthy : Claimed(h, b) => ~Done(h, b, Position(h))
<1>1. segs \in Nat \ {0} /\ h.j \in 1 .. segs
  BY MapFacts
<1>2. SUFFICES ASSUME NEW b \in Healthy, Claimed(h, b) PROVE ~Done(h, b, Position(h))
  OBVIOUS
<1>3. b \in Cells /\ b \in Nat /\ Start(1) <= b /\ b < End(segs)
  <2>1. b \in Cells
    BY DEF Healthy
  <2> QED BY <2>1, CellFacts, SegmentFacts
<1>4. CASE Position(h) = First(h)
  <2>1. Done(h, b, First(h)) <=> IF h.at \in Downs THEN b >= End(h.j) ELSE b < Start(h.j)
    BY <1>1, <1>2, <1>3, Begins
  <2>2. Start(1) \in Nat /\ End(segs) \in Nat
    BY <1>1, MapFacts
  <2> QED BY <1>3, <1>4, <2>1, <2>2
<1>5. CASE Position(h) = 0 /\ h.at \notin Downs
  BY <1>3, <1>5 DEF Done
<1> QED BY <1>4, <1>5
-----------------------------------------------------------------------------
(* What goes on from word to word, where a sweep begins.                   *)
ShiftArgs == arg.off < Bits /\ arg.p1 = Rol(arg.lb, arg.off)

LEMMA UpCarried ==
  ASSUME map \in Maps, arg \in Args, NEW h, NEW r, h.j \in 1 .. segs, h.at \in Ups,
         h.at \in {"shift_fill", "shift_up"} => h.k = arg.off /\ h.w = arg.p1 /\ ShiftArgs,
         h.at = "mod_rest" => h.k = 0,
         h.at \in {"rand_fill", "rand_check"} => r = Stream[Start(h.j)],
         h.at = "rand_check" => h.i >= 1
  PROVE  Carried(h, h.k, h.w, r, Start(h.j))
<1>1. /\ Start(h.j) \in Nat /\ Start(h.j) % Bits = 0 /\ arg.off \in Nat /\ Bits \in Nat \ {0}
      /\ MOD_SZ \in Nat \ {0}
  <2>1. Start(h.j) \in Nat /\ Trimmed(map[h.j])
    BY MapFacts
  <2> QED BY <2>1, Sizes, WordsAssumption DEF Trimmed, Start, Args
<1>2. ASSUME ShiftArgs
      PROVE  arg.p1 = Turned(Start(h.j)) /\ arg.off = (arg.off + Start(h.j)) % Bits
  <2>1. (arg.off + Start(h.j)) % Bits = arg.off % Bits
    <3> DEFINE x == arg.off
               y == Start(h.j)
    <3>1. x \in Int /\ y \in Int /\ y % Bits = 0
      BY <1>1
    <3> HIDE DEF x, y
    <3>2. (x + y) % Bits = x % Bits
      BY <1>1, <3>1, RemainderSum
    <3> QED BY <3>2 DEF x, y
  <2>2. arg.off % Bits = arg.off
    BY <1>1, <1>2 DEF ShiftArgs
  <2> QED BY <1>2, <2>1, <2>2 DEF ShiftArgs, Turned
<1>3. (Start(h.j) - Start(h.j)) % MOD_SZ = 0
  <2>1. Start(h.j) - Start(h.j) = 0
    BY <1>1
  <2>2. 0 % MOD_SZ = 0
    BY <1>1
  <2> QED BY <2>1, <2>2
<1>4. h.at \notin Strides /\ h.at # "shift_down"
  BY DEF Ups, Strides
<1> QED BY <1>2, <1>3, <1>4 DEF Carried

LEMMA EveryCarried ==
  ASSUME map \in Maps, arg \in Args, NEW h, NEW k, NEW w, NEW r, h.j \in 1 .. segs,
         h.at \in Strides, arg.off < MOD_SZ
  PROVE  Carried(h, k, w, r, Start(h.j) + arg.off)
<1>1. Start(h.j) \in Nat /\ arg.off \in Nat /\ MOD_SZ \in Nat \ {0}
  BY MapFacts, WordsAssumption DEF Args
<1> DEFINE y == Start(h.j) + arg.off - Start(h.j)
<1>2. y = arg.off
  BY <1>1
<1>3. y % MOD_SZ = arg.off
  <2>1. arg.off % MOD_SZ = arg.off
    BY <1>1
  <2> QED BY <1>2, <2>1
<1> QED BY <1>1, <1>3 DEF Carried, Strides

LEMMA DownCarried ==
  ASSUME NEW h, NEW r, h.at \in Downs, NEW a, h.at = "shift_down" => h.w = Turned(a)
  PROVE  Carried(h, h.k, h.w, r, a)
BY DEF Carried, Downs, Strides

(* The sweeps that begin in the first segment, and in the last one.        *)
LastSegment == here.j = IF here.at \in Downs THEN 1 ELSE segs
Follows(h) ==
  \A b \in Healthy :
    Claimed(h, b) => Claimed(here, b) /\ (Fills(h) \/ Was(h, b) = Leaves(here, b))

LEMMA NextUp ==
  ASSUME StepInv, here.at \in Plain, NEW s, Ended(s), LastSegment, NEW h, Follows(h),
         h.at \in Ups, h.j = 1, h.p = Start(1),
         h.at \in {"shift_fill", "shift_up"} => h.k = arg.off /\ h.w = arg.p1 /\ ShiftArgs,
         h.at = "mod_rest" => h.k = 0, h.at \notin {"rand_fill", "rand_check"}
  PROVE  Claim(h, s.mem, s.rng)
<1>1. map \in Maps /\ arg \in Args /\ segs \in Nat \ {0} /\ 1 \in 1 .. segs
  BY PlainFacts, MapFacts
<1>2. /\ h.at \in Claiming /\ Position(h) = Start(1) /\ First(h) = Start(1)
      /\ h.at \notin Downs /\ h.at \notin Strides
  BY DEF Claiming, Plain, Ups, Position, FadeSweeps, First, Downs, Strides
<1>3. \A b \in Healthy : Claimed(h, b) => ~Done(h, b, Position(h))
  <2>1. h.j = IF h.at \in Downs THEN segs ELSE 1
    BY <1>2
  <2> QED BY <1>1, <1>2, <2>1, NotBegun
<1>4. MemClaim(h, s.mem, Position(h))
  <2>1. Successor(h)
    BY <1>1, <1>2, <1>3 DEF Successor, Follows
  <2> QED BY <2>1, NextSweep DEF LastSegment
<1>5. Carried(h, h.k, h.w, s.rng, Start(1))
  <2>1. Carried(h, h.k, h.w, s.rng, Start(h.j))
    BY <1>1, UpCarried
  <2> QED BY <2>1
<1> QED BY <1>2, <1>4, <1>5 DEF Claim

LEMMA NextDownward ==
  ASSUME StepInv, here.at \in Plain, NEW s, Ended(s), LastSegment, NEW h, Follows(h),
         h.at \in Downs, h.j = segs, h.p = End(segs) - 1,
         h.at = "shift_down" => h.w = Turned(End(segs) - 1)
  PROVE  Claim(h, s.mem, s.rng)
<1>1. map \in Maps /\ arg \in Args /\ segs \in Nat \ {0} /\ segs \in 1 .. segs
  BY PlainFacts, MapFacts
<1>2. /\ h.at \in Claiming /\ Position(h) = End(segs) - 1 /\ First(h) = End(segs) - 1
      /\ h.at \notin Strides
  BY DEF Claiming, Plain, Position, FadeSweeps, First, Downs, Strides
<1>3. \A b \in Healthy : Claimed(h, b) => ~Done(h, b, Position(h))
  <2>1. h.j = IF h.at \in Downs THEN segs ELSE 1
    OBVIOUS
  <2> QED BY <1>1, <1>2, <2>1, NotBegun
<1>4. MemClaim(h, s.mem, Position(h))
  <2>1. Successor(h)
    BY <1>1, <1>2, <1>3 DEF Successor, Follows
  <2> QED BY <2>1, NextSweep DEF LastSegment
<1>5. Carried(h, h.k, h.w, s.rng, End(segs) - 1)
  BY DownCarried
<1> QED BY <1>2, <1>4, <1>5 DEF Claim

LEMMA NextEvery ==
  ASSUME StepInv, here.at \in Plain, NEW s, Ended(s), LastSegment, NEW h, Follows(h),
         h.at \in Strides, h.j = 1, h.p = Start(1) + arg.off, arg.off < MOD_SZ
  PROVE  Claim(h, s.mem, s.rng)
<1>1. map \in Maps /\ arg \in Args /\ segs \in Nat \ {0} /\ 1 \in 1 .. segs
  BY PlainFacts, MapFacts
<1>2. /\ h.at \in Claiming /\ Position(h) = Start(1) + arg.off
      /\ First(h) = Start(1) + arg.off /\ h.at \notin Downs
  BY DEF Claiming, Plain, Position, FadeSweeps, First, Downs, Strides
<1>3. \A b \in Healthy : Claimed(h, b) => ~Done(h, b, Position(h))
  <2>1. h.j = IF h.at \in Downs THEN segs ELSE 1
    BY <1>2
  <2> QED BY <1>1, <1>2, <2>1, NotBegun
<1>4. MemClaim(h, s.mem, Position(h))
  <2>1. Successor(h)
    BY <1>1, <1>2, <1>3 DEF Successor, Follows
  <2> QED BY <2>1, NextSweep DEF LastSegment
<1>5. Carried(h, h.k, h.w, s.rng, Start(1) + arg.off)
  <2>1. Carried(h, h.k, h.w, s.rng, Start(h.j) + arg.off)
    BY <1>1, EveryCarried
  <2> QED BY <2>1
<1> QED BY <1>2, <1>4, <1>5 DEF Claim

(* Between the sweeps of the random numbers, and in the sleep.             *)
LEMMA NextPause ==
  ASSUME StepInv, here.at \in Plain, NEW s, Ended(s), LastSegment, NEW h, Follows(h),
         h.at \in {"rand_seed", "fade_sleep"}, h.j \in 1 .. segs, Position(h) = 0
  PROVE  Claim(h, s.mem, s.rng)
<1>1. map \in Maps /\ Healthy \subseteq Cells
  BY PlainFacts
<1>2. h.at \in Claiming /\ h.at \notin Downs
  BY DEF Claiming, Downs
<1>3. \A b \in Healthy : ~Done(h, b, Position(h))
  <2>1. \A b \in Healthy : b \in Nat
    BY <1>1, CellFacts
  <2> QED BY <1>2, <2>1 DEF Done
<1>4. MemClaim(h, s.mem, Position(h))
  <2>1. Successor(h)
    BY <1>2, <1>3 DEF Successor, Follows
  <2> QED BY <2>1, NextSweep DEF LastSegment
<1>5. Carried(h, h.k, h.w, s.rng, Position(h))
  BY DEF Carried, Strides
<1> QED BY <1>4, <1>5 DEF Claim
-----------------------------------------------------------------------------
(* Where a sweep upward goes on.                                           *)
LEMMA TestArgs ==
  ASSUME StepInv, here.at \in Plain
  PROVE  /\ here.at \in {"shift_fill", "shift_up", "shift_down"} => ShiftArgs
         /\ here.at \in Mods => arg.off < MOD_SZ
         /\ here.at \in {"rand_fill", "rand_check"} => arg.seeds \in Seeds
<1>1. /\ pat \in TestsOf(here.at) /\ call > 0
  BY PlainFacts, InTestFacts
<1>2. /\ pat = 2  => ShiftArgs
      /\ pat = 9  => arg.seeds \in Seeds
      /\ pat = 11 => arg.off < MOD_SZ
  BY <1>1 DEF StepInv, ArgInv, ShiftArgs
<1>3. /\ here.at \in {"shift_fill", "shift_up", "shift_down"} => pat = 2
      /\ here.at \in Mods => pat = 11
      /\ here.at \in {"rand_fill", "rand_check"} => pat = 9
  BY <1>1 DEF TestsOf, Mods, BlockSweeps
<1> QED BY <1>2, <1>3

(* To the next segment.                                                    *)
LEMMA UpAgain ==
  ASSUME StepInv, here.at \in Ups, here.j < segs, NEW s, Claims(s, End(here.j)), NEW h,
         h.at = here.at, h.j = here.j + 1, h.p = Start(here.j + 1),
         here.at = "rand_check" => h.i = here.i,
         here.at \in {"shift_fill", "shift_up"} => h.k = arg.off /\ h.w = arg.p1,
         here.at = "mod_rest" => h.k = 0
  PROVE  Claim(h, s.mem, s.rng)
<1>1. here.at \in Plain /\ here.at \notin Downs /\ here.at \notin Strides
      /\ here.at \notin FadeSweeps
  BY DEF Plain, Ups, Downs, Strides, FadeSweeps
<1>2. /\ map \in Maps /\ arg \in Args /\ here.j \in 1 .. segs /\ End(here.j) \in Int
      /\ here.j \in 1 .. segs - 1 /\ h.j \in 1 .. segs /\ End(here.j) >= End(here.j)
  BY <1>1, PlainFacts, MapFacts
<1>3. Ended(s)
  BY <1>1, <1>2, EndedIs
<1>4. Position(h) = Start(h.j) /\ First(h) = Start(h.j)
  BY <1>1 DEF Position, First, FadeSweeps, Ups
<1>5. MemClaim(h, s.mem, Position(h))
  BY <1>1, <1>2, <1>3, <1>4, NextSegment
<1>6. Carried(here, s.k, s.w, s.rng, End(here.j))
  BY DEF Claims
<1>7. h.at \in {"rand_fill", "rand_check"} => s.rng = Stream[Start(h.j)]
  <2>1. Stream[End(here.j)] = Stream[Start(here.j + 1)]
    BY <1>2, StreamAt
  <2> QED BY <1>6, <2>1 DEF Carried
<1>8. h.at = "rand_check" => h.i >= 1
  BY <1>6 DEF Carried
<1>9. h.at \in {"shift_fill", "shift_up"} => h.k = arg.off /\ h.w = arg.p1 /\ ShiftArgs
  BY <1>1, TestArgs
<1>10. Carried(h, h.k, h.w, s.rng, Start(h.j))
  BY <1>2, <1>7, <1>8, <1>9, UpCarried
<1> QED BY <1>4, <1>5, <1>10 DEF Claim

LEMMA OnAgain ==
  ASSUME StepInv, here.at \in Ups, here.j < segs, NEW s, Claims(s, End(here.j))
  PROVE  Claim(On, s.mem, s.rng)
<1> DEFINE Next_(h) ==
             /\ h.at = here.at /\ h.j = here.j + 1 /\ h.p = Start(here.j + 1)
             /\ here.at = "rand_check" => h.i = here.i
             /\ here.at \in {"shift_fill", "shift_up"} => h.k = arg.off /\ h.w = arg.p1
             /\ here.at = "mod_rest" => h.k = 0
<1>1. CASE here.at \in {"own_write", "own_check", "inv_fill", "inv_up"}
  <2>1. \E i : On = Up(here.at, i, here.j + 1, 0, 0)
    BY <1>1 DEF On, AgainUp, Strides, Downs
  <2>2. Next_(On)
    BY <1>1, <2>1 DEF Up, Place
  <2> QED BY <2>2, UpAgain
<1>2. CASE here.at \in {"shift_fill", "shift_up"}
  <2>1. \E i : On = Up(here.at, i, here.j + 1, arg.off, arg.p1)
    BY <1>2 DEF On, AgainUp, Strides, Downs
  <2>2. Next_(On)
    BY <1>2, <2>1 DEF Up, Place
  <2> QED BY <2>2, UpAgain
<1>3. CASE here.at \in {"mod_rest", "rand_fill", "rand_check"}
  <2>1. \E i : On = Up(here.at, i, here.j + 1, 0, 0) /\ (here.at = "rand_check" => i = here.i)
    BY <1>3 DEF On, AgainUp, Strides, Downs
  <2>2. Next_(On)
    BY <1>3, <2>1 DEF Up, Place
  <2> QED BY <2>2, UpAgain
<1> QED BY <1>1, <1>2, <1>3 DEF Ups

(* The modulo test.                                                        *)
LEMMA ModFollows ==
  ASSUME StepInv, here.at \in {"mod_write", "mod_rest"}, arg.off < MOD_SZ,
         NEW s, Ended(s), LastSegment, NEW i
  PROVE  Claim(ModAgain(i), s.mem, s.rng)
<1>1. here.at \in Plain /\ here.at \in Mods
  BY DEF Plain, Ups, Strides, Mods
<1>2. CASE i < arg.iter
  <2> DEFINE h == Up("mod_rest", i, 1, 0, 0)
  <2>1. ModAgain(i) = h
    BY <1>2 DEF ModAgain
  <2>2. h.at = "mod_rest" /\ h.j = 1 /\ h.p = Start(1) /\ h.k = 0
    BY DEF Up, Place
  <2> HIDE DEF h
  <2>3. Follows(h)
    BY <1>1, <2>2 DEF Follows, Was, Leaves, Mods, Claimed, FadeSweeps
  <2> QED BY <1>1, <2>1, <2>2, <2>3, NextUp DEF Ups
<1>3. CASE ~(i < arg.iter)
  <2> DEFINE h == Every("mod_check", 1)
  <2>1. ModAgain(i) = h
    BY <1>3 DEF ModAgain
  <2>2. h.at = "mod_check" /\ h.j = 1 /\ h.p = Start(1) + arg.off
    BY DEF Every, Place
  <2> HIDE DEF h
  <2>3. Follows(h)
    BY <1>1, <2>2 DEF Follows, Was, Leaves, Mods, Claimed, FadeSweeps
  <2> QED BY <1>1, <2>1, <2>2, <2>3, NextEvery DEF Strides
<1> QED BY <1>2, <1>3

(* To the next sweep.                                                      *)
LEMMA UpOver ==
  ASSUME StepInv, here.at \in Ups, here.j = segs, NEW s, s = Swept(1),
         Claims(s, End(here.j)), On.at \in Claiming
  PROVE  Claim(On, s.mem, s.rng)
<1>1. here.at \in Plain /\ here.at \notin Downs /\ here.at \notin Strides
      /\ here.at \notin FadeSweeps
  BY DEF Plain, Ups, Downs, Strides, FadeSweeps
<1>2. /\ map \in Maps /\ arg \in Args /\ here.j \in 1 .. segs /\ End(here.j) \in Int
      /\ End(here.j) >= End(here.j)
  BY <1>1, PlainFacts
<1>3. Ended(s)
  BY <1>1, <1>2, EndedIs
<1>4. LastSegment
  BY <1>1 DEF LastSegment
<1>5. Carried(here, s.k, s.w, s.rng, End(here.j))
  BY DEF Claims
<1>6. here.at \notin Mods => \A b : Claimed(here, b)
  BY DEF Claimed
<1>0. ~(here.j < segs)
  BY <1>2, MapFacts
<1>7. Return.at \notin Claiming
  BY DEF Return, Place, Claiming, Plain, Ups, Downs, Strides, FadeSweeps
<1>8. CASE here.at = "own_write"
  <2> DEFINE h == Up("own_check", 0, 1, 0, 0)
  <2>1. On = h
    BY <1>0, <1>8 DEF On, AgainUp, Strides, Downs
  <2>2. h.at = "own_check" /\ h.j = 1 /\ h.p = Start(1)
    BY DEF Up, Place
  <2> HIDE DEF h
  <2>3. Follows(h)
    BY <1>6, <1>8, <2>2 DEF Follows, Was, Leaves, Mods, FadeSweeps
  <2> QED BY <1>1, <1>3, <1>4, <2>1, <2>2, <2>3, NextUp DEF Ups
<1>9. CASE here.at = "own_check"
  <2>1. On = Return
    BY <1>0, <1>9 DEF On, AgainUp, Strides, Downs
  <2> QED BY <1>7, <2>1
<1>10. CASE here.at = "inv_fill"
  <2> DEFINE h == Up("inv_up", 0, 1, 0, 0)
  <2>1. On = h
    BY <1>0, <1>7, <1>10 DEF On, AgainUp, Strides, Downs, MovInv1Again
  <2>2. h.at = "inv_up" /\ h.j = 1 /\ h.p = Start(1)
    BY DEF Up, Place
  <2> HIDE DEF h
  <2>3. Follows(h)
    BY <1>6, <1>10, <2>2 DEF Follows, Was, Leaves, Mods, FadeSweeps
  <2> QED BY <1>1, <1>3, <1>4, <2>1, <2>2, <2>3, NextUp DEF Ups
<1>11. CASE here.at = "inv_up"
  <2> DEFINE h == Down("inv_down", here.i, segs, 0, 0)
  <2>1. On = h
    BY <1>0, <1>11 DEF On, AgainUp, Strides, Downs
  <2>2. h.at = "inv_down" /\ h.j = segs /\ h.p = End(segs) - 1
    BY DEF Down, Place
  <2> HIDE DEF h
  <2>3. Follows(h)
    BY <1>6, <1>11, <2>2 DEF Follows, Was, Leaves, Mods, FadeSweeps
  <2> QED BY <1>1, <1>3, <1>4, <2>1, <2>2, <2>3, NextDownward DEF Downs
<1>12. CASE here.at = "shift_fill"
  <2> DEFINE h == Up("shift_up", 0, 1, arg.off, arg.p1)
  <2>1. On = h
    BY <1>0, <1>7, <1>12 DEF On, AgainUp, Strides, Downs, MovInv32Again
  <2>2. h.at = "shift_up" /\ h.j = 1 /\ h.p = Start(1) /\ h.k = arg.off /\ h.w = arg.p1
    BY DEF Up, Place
  <2> HIDE DEF h
  <2>3. Follows(h)
    BY <1>6, <1>12, <2>2 DEF Follows, Was, Leaves, Mods, FadeSweeps
  <2>4. ShiftArgs
    BY <1>1, <1>12, TestArgs
  <2> QED BY <1>1, <1>3, <1>4, <2>1, <2>2, <2>3, <2>4, NextUp DEF Ups
<1>13. CASE here.at = "shift_up"
  <2> DEFINE h == Down("shift_down", here.i, segs, ((s.k - 1) % Bits) + 1,
                       Rol(arg.lb, (s.k - 1) % Bits))
  <2>1. On = h
    BY <1>0, <1>13 DEF On, AgainUp, Strides, Downs, BackUp
  <2>2. h.at = "shift_down" /\ h.j = segs /\ h.p = End(segs) - 1
        /\ h.w = Rol(arg.lb, (s.k - 1) % Bits)
    BY DEF Down, Place
  <2> HIDE DEF h
  <2>3. Follows(h)
    BY <1>6, <1>13, <2>2 DEF Follows, Was, Leaves, Mods, FadeSweeps
  <2>4. (s.k - 1) % Bits = (arg.off + (End(segs) - 1)) % Bits
    <3> DEFINE y == arg.off + End(segs)
               x == -1
    <3>1. arg.off \in Nat /\ Bits \in Nat \ {0}
      BY <1>2, Sizes DEF Args
    <3>2. y \in Int /\ x \in Int /\ arg.off + (End(segs) - 1) = x + y
      BY <1>2, <3>1
    <3>3. s.k = y % Bits
      BY <1>5, <1>13 DEF Carried
    <3>4. y % Bits \in 0 .. Bits - 1
      BY <3>1, <3>2, Remainders
    <3>5. s.k - 1 = x + (y % Bits)
      BY <3>3, <3>4
    <3> HIDE DEF x, y
    <3>6. (x + y) % Bits = (x + (y % Bits)) % Bits
      BY <3>1, <3>2, RemainderSum
    <3> QED BY <3>2, <3>5, <3>6
  <2>5. h.w = Turned(End(segs) - 1)
    BY <2>2, <2>4 DEF Turned
  <2> QED BY <1>1, <1>3, <1>4, <2>1, <2>2, <2>3, <2>5, NextDownward DEF Downs
<1>14. CASE here.at = "mod_rest"
  <2>1. On = ModAgain(here.i + 1) /\ arg.off < MOD_SZ
    BY <1>0, <1>1, <1>14, TestArgs DEF On, AgainUp, Strides, Downs, Mods
  <2> QED BY <1>1, <1>3, <1>4, <1>14, <2>1, ModFollows DEF Mods
<1>15. CASE here.at = "rand_fill"
  <2> DEFINE h == Place("rand_seed", 1, 1, 0, 0, 0, 0)
  <2>1. On = h
    BY <1>0, <1>15 DEF On, AgainUp, Strides, Downs, SeedAgain
  <2>2. h.at = "rand_seed" /\ h.j = 1 /\ h.p = 0 /\ h.i = 1
    BY DEF Place
  <2> HIDE DEF h
  <2>3. Follows(h)
    BY <1>6, <1>15, <2>2 DEF Follows, Was, Leaves, Mods, FadeSweeps
  <2>4. Position(h) = 0 /\ h.j \in 1 .. segs
    BY <1>2, <2>2, MapFacts DEF Position, FadeSweeps
  <2> QED BY <1>1, <1>3, <1>4, <2>1, <2>2, <2>3, <2>4, NextPause
<1>16. CASE here.at = "rand_check"
  <2> DEFINE h == Place("rand_seed", here.i + 1, 1, 0, 0, 0, 0)
  <2>1. On = h /\ here.i + 1 < 3
    BY <1>0, <1>7, <1>16 DEF On, AgainUp, Strides, Downs, SeedAgain
  <2>2. here.i = 1
    <3>1. here.i \in Nat /\ here.i >= 1
      BY <1>1, <1>5, <1>16, PlainFacts, InTestFacts DEF Carried
    <3> QED BY <2>1, <3>1
  <2>3. h.at = "rand_seed" /\ h.j = 1 /\ h.p = 0 /\ h.i = 2
    BY <2>2 DEF Place
  <2> HIDE DEF h
  <2>4. Follows(h)
    BY <1>6, <1>16, <2>2, <2>3 DEF Follows, Was, Leaves, Mods, FadeSweeps
  <2>5. Position(h) = 0 /\ h.j \in 1 .. segs
    BY <1>2, <2>3, MapFacts DEF Position, FadeSweeps
  <2> QED BY <1>1, <1>3, <1>4, <2>1, <2>3, <2>4, <2>5, NextPause
<1> QED BY <1>8, <1>9, <1>10, <1>11, <1>12, <1>13, <1>14, <1>15, <1>16 DEF Ups
-----------------------------------------------------------------------------
(* Where the modulo test and a sweep downward go on.                       *)
LEMMA StrideOver ==
  ASSUME StepInv, here.at \in Strides, NEW s, NEW a, a \in Int, Claims(s, a),
         a >= End(here.j), On.at \in Claiming
  PROVE  Claim(On, s.mem, s.rng)
<1>1. here.at \in Plain /\ here.at \notin Downs /\ here.at \in Mods
      /\ here.at \notin FadeSweeps
  BY DEF Plain, Downs, Strides, FadeSweeps, Mods
<1>2. /\ map \in Maps /\ arg \in Args /\ here.j \in 1 .. segs /\ arg.off < MOD_SZ
      /\ segs \in Nat
  BY <1>1, PlainFacts, TestArgs, MapFacts
<1>3. Ended(s)
  BY <1>1, EndedIs
<1>4. CASE here.j < segs
  <2> DEFINE h == Every(here.at, here.j + 1)
  <2>1. On = h
    BY <1>4 DEF On, Strides, Ups, Downs
  <2>2. h.at = here.at /\ h.j = here.j + 1 /\ h.p = Start(here.j + 1) + arg.off
    BY DEF Every, Place
  <2> HIDE DEF h
  <2>3. h.j \in 1 .. segs
    BY <1>2, <1>4, <2>2
  <2>4. Position(h) = First(h) /\ First(h) = Start(h.j) + arg.off
    BY <1>1, <2>2 DEF Position, First, FadeSweeps, Strides
  <2>5. MemClaim(h, s.mem, Position(h))
    BY <1>1, <1>3, <2>2, <2>3, <2>4, NextSegment DEF Strides
  <2>6. Carried(h, h.k, h.w, s.rng, Start(h.j) + arg.off)
    BY <1>2, <2>2, <2>3, EveryCarried
  <2> QED BY <2>1, <2>4, <2>5, <2>6 DEF Claim
<1>5. CASE ~(here.j < segs)
  <2>1. LastSegment
    BY <1>1, <1>2, <1>5 DEF LastSegment
  <2>2. CASE here.at = "mod_write"
    <3>1. On = ModAgain(0)
      BY <1>5, <2>2 DEF On, Strides, Ups, Downs
    <3> QED BY <1>2, <1>3, <2>1, <2>2, <3>1, ModFollows
  <2>3. CASE here.at = "mod_check"
    <3>1. On = Return
      BY <1>5, <2>3 DEF On, Strides, Ups, Downs
    <3> QED BY <3>1 DEF Return, Place, Claiming, Plain, Ups, Downs, Strides, FadeSweeps
  <2> QED BY <2>2, <2>3 DEF Strides
<1> QED BY <1>4, <1>5

LEMMA DownOver ==
  ASSUME StepInv, here.at \in Downs, NEW s, s = SweptDown, Claims(s, Start(here.j) - 1),
         On.at \in Claiming
  PROVE  Claim(On, s.mem, s.rng)
<1>1. here.at \in Plain /\ here.at \notin Strides /\ here.at \notin Mods
      /\ here.at \notin FadeSweeps
  BY DEF Plain, Downs, Strides, FadeSweeps, Mods
<1>2. /\ map \in Maps /\ arg \in Args /\ here.j \in 1 .. segs /\ segs \in Nat
      /\ Start(here.j) \in Nat
  BY <1>1, PlainFacts, MapFacts
<1>3. Ended(s)
  <2>1. Start(here.j) - 1 \in Int
    BY <1>2
  <2> QED BY <1>1, <2>1, EndedIs
<1>4. CASE here.j > 1
  <2> DEFINE h == Down(here.at, here.i, here.j - 1, s.k, s.w)
  <2>1. On = h
    BY <1>4 DEF On, Strides, Ups, Downs
  <2>2. /\ h.at = here.at /\ h.i = here.i /\ h.j = here.j - 1
        /\ h.p = End(here.j - 1) - 1 /\ h.k = s.k /\ h.w = s.w
    BY DEF Down, Place
  <2> HIDE DEF h
  <2>3. h.j \in 1 .. segs
    BY <1>2, <1>4, <2>2
  <2>4. Position(h) = First(h) /\ First(h) = End(h.j) - 1
    BY <1>1, <2>2 DEF Position, First, FadeSweeps, Downs
  <2>5. MemClaim(h, s.mem, Position(h))
    BY <1>1, <1>3, <2>2, <2>3, <2>4, NextSegment
  <2>6. h.at = "shift_down" => h.w = Turned(End(h.j) - 1)
    <3>1. h.at = "shift_down" => h.w = Turned(Start(here.j) - 1)
      BY <2>2 DEF Claims, Carried
    <3> DEFINE x == Start(here.j)
               y == End(h.j)
               z == -1
    <3>2. /\ x \in Int /\ y \in Int /\ z \in Int /\ x % Bits = 0 /\ y % Bits = 0
          /\ x - 1 = x + z /\ y - 1 = y + z
      <4>1. /\ Trimmed(map[here.j]) /\ Trimmed(map[h.j]) /\ End(h.j) \in Nat
        BY <1>2, <2>3, MapFacts
      <4> QED BY <1>2, <4>1 DEF Trimmed, Start, End
    <3> HIDE DEF x, y, z
    <3>3. Turned(x + z) = Turned(y + z)
      BY <1>2, <3>2, TurnedAt
    <3> QED BY <3>1, <3>2, <3>3 DEF x, y
  <2>7. Carried(h, h.k, h.w, s.rng, End(h.j) - 1)
    BY <2>2, <2>6, DownCarried
  <2> QED BY <2>1, <2>4, <2>5, <2>7 DEF Claim
<1>5. CASE ~(here.j > 1)
  <2>1. LastSegment
    BY <1>2, <1>5 DEF LastSegment
  <2>2. \A b : Claimed(here, b)
    BY <1>1 DEF Claimed
  <2>3. Return.at \notin Claiming
    BY DEF Return, Place, Claiming, Plain, Ups, Downs, Strides, FadeSweeps
  <2>4. CASE here.at = "inv_down"
    <3> DEFINE h == Up("inv_up", here.i + 1, 1, 0, 0)
    <3>1. On = h
      BY <1>5, <2>3, <2>4 DEF On, Strides, Ups, Downs, MovInv1Again
    <3>2. h.at = "inv_up" /\ h.j = 1 /\ h.p = Start(1)
      BY DEF Up, Place
    <3> HIDE DEF h
    <3>3. Follows(h)
      BY <2>2, <2>4, <3>2 DEF Follows, Was, Leaves, Mods, FadeSweeps
    <3> QED BY <1>1, <1>3, <2>1, <3>1, <3>2, <3>3, NextUp DEF Ups
  <2>5. CASE here.at = "shift_down"
    <3> DEFINE h == Up("shift_up", here.i + 1, 1, arg.off, arg.p1)
    <3>1. On = h
      BY <1>5, <2>3, <2>5 DEF On, Strides, Ups, Downs, MovInv32Again
    <3>2. h.at = "shift_up" /\ h.j = 1 /\ h.p = Start(1) /\ h.k = arg.off /\ h.w = arg.p1
      BY DEF Up, Place
    <3> HIDE DEF h
    <3>3. Follows(h)
      BY <2>2, <2>5, <3>2 DEF Follows, Was, Leaves, Mods, FadeSweeps
    <3>4. ShiftArgs
      BY <1>1, <2>5, TestArgs
    <3> QED BY <1>1, <1>3, <2>1, <3>1, <3>2, <3>3, <3>4, NextUp DEF Ups
  <2> QED BY <2>4, <2>5 DEF Downs
<1> QED BY <1>4, <1>5
-----------------------------------------------------------------------------
(* The sweeps keep the claims.                                             *)
LEMMA ClaimTick ==
  ASSUME NEW s, NEW next, Tick(s, next), Trusted => s.errs \subseteq Broken,
         next.at \in Claiming => Claim(next, s.mem, s.rng),
         next.at \in BlockSweeps /\ fault.kind = "none" => PairClaim(next, s.mem)
  PROVE  ClaimInv'
<1>1. /\ mem' = s.mem /\ errs' = s.errs /\ rng' = s.rng
      /\ here' = (IF bail' THEN Over ELSE next) /\ UNCHANGED <<pat, map, fault, arg>>
  BY DEF Tick
<1>2. CASE here' = next
  BY <1>1, <1>2, ClaimArrived
<1>3. CASE here' = Over
  <2>1. Over.at \notin Claiming /\ Over.at \notin BlockSweeps
    BY DEF Over, Place, Claiming, Plain, Ups, Downs, Strides, FadeSweeps, BlockSweeps
  <2> QED BY <1>1, <1>3, <2>1, ClaimArrived
<1> QED BY <1>1, <1>2, <1>3

LEMMA UpSound ==
  ASSUME StepInv, ClaimInv, here.at \in Ups, UpStep(On, 1)
  PROVE  ClaimInv'
<1>1. /\ here.at \in Plain \ FadeSweeps /\ here.at \notin BlockSweeps
  BY DEF Plain, Ups, FadeSweeps, BlockSweeps
<1>2. Claims(Swept(1), Lim)
  BY UpClaims
<1>3. /\ Lim \in Nat /\ here.p \in Nat /\ here.p < Lim /\ Lim <= End(here.j)
      /\ Visits(here.p, Lim, 1) = Lim - here.p
      /\ End(here.j) \in Nat
  BY <1>1, UpChunk, PlainFacts DEF StepInv
<1> DEFINE s == Swept(1)
<1>4. Tick(s, IF Lim < End(here.j) THEN UpNext(1) ELSE On) /\ s.errs \subseteq Broken
  BY <1>2, <1>3 DEF UpStep, Claims
<1>5. CASE Lim < End(here.j)
  <2> DEFINE h == UpNext(1)
  <2>1. /\ h.at = here.at /\ h.i = here.i /\ h.j = here.j /\ h.p = Lim
        /\ h.k = s.k /\ h.w = s.w
    BY <1>1, <1>3, PlainFacts, InTestFacts DEF UpNext, Places
  <2>2. Tick(s, h)
    BY <1>4, <1>5
  <2> HIDE DEF s, h
  <2>3. Claim(h, s.mem, s.rng)
    BY <1>1, <1>2, <2>1, Onward DEF s
  <2> QED BY <1>1, <1>4, <2>1, <2>2, <2>3, ClaimTick
<1>6. CASE ~(Lim < End(here.j))
  <2>1. Lim = End(here.j)
    BY <1>3, <1>6
  <2>2. Tick(s, On) /\ On.at \notin BlockSweeps
    BY <1>4, <1>6, OnUps
  <2>3. On.at \in Claiming => Claim(On, s.mem, s.rng)
    <3>1. here.j \in 1 .. segs /\ segs \in Nat
      BY <1>1, PlainFacts, MapFacts
    <3>2. CASE here.j < segs
      BY <1>2, <2>1, <3>2, OnAgain
    <3>3. CASE here.j = segs
      BY <1>2, <2>1, <3>3, UpOver
    <3> QED BY <3>1, <3>2, <3>3
  <2> HIDE DEF s
  <2> QED BY <1>4, <2>2, <2>3, ClaimTick
<1> QED BY <1>5, <1>6

LEMMA StrideSound ==
  ASSUME StepInv, ClaimInv, here.at \in Strides, UpStep(On, MOD_SZ)
  PROVE  ClaimInv'
<1>1. /\ here.at \in Plain \ FadeSweeps /\ here.at \notin BlockSweeps
  BY DEF Plain, Strides, FadeSweeps, BlockSweeps
<1> DEFINE s == Swept(MOD_SZ)
           a == here.p + Visits(here.p, Lim, MOD_SZ) * MOD_SZ
<1>2. Claims(s, a)
  BY StrideClaims
<1>3. /\ Lim \in Nat /\ here.p \in Nat /\ here.p < Lim /\ Lim <= End(here.j)
      /\ End(here.j) \in Nat /\ MOD_SZ \in Nat
      /\ a \in Lim .. Lim + MOD_SZ - 1
  BY <1>1, StrideChunk, PlainFacts DEF StepInv
<1>4. Tick(s, IF Lim < End(here.j) THEN UpNext(MOD_SZ) ELSE On) /\ s.errs \subseteq Broken
  BY <1>2, <1>3 DEF UpStep, Claims
<1>5. CASE Lim < End(here.j)
  <2> DEFINE h == UpNext(MOD_SZ)
  <2>1. /\ h.at = here.at /\ h.i = here.i /\ h.j = here.j /\ h.p = a
        /\ h.k = s.k /\ h.w = s.w
    BY <1>1, PlainFacts, InTestFacts DEF UpNext, Places
  <2>2. Tick(s, h)
    BY <1>4, <1>5
  <2> HIDE DEF s, a, h
  <2>3. Claim(h, s.mem, s.rng)
    BY <1>1, <1>2, <2>1, Onward
  <2> QED BY <1>1, <1>4, <2>1, <2>2, <2>3, ClaimTick
<1>6. CASE ~(Lim < End(here.j))
  <2>1. a \in Int /\ a >= End(here.j)
    <3> HIDE DEF a
    <3> QED BY <1>3, <1>6
  <2>2. Tick(s, On) /\ On.at \notin BlockSweeps
    BY <1>4, <1>6, OnStrides
  <2> HIDE DEF s, a
  <2>3. On.at \in Claiming => Claim(On, s.mem, s.rng)
    BY <1>2, <2>1, StrideOver
  <2> QED BY <1>4, <2>2, <2>3, ClaimTick
<1> QED BY <1>5, <1>6

LEMMA DownSound ==
  ASSUME StepInv, ClaimInv, here.at \in Downs, DownStep(On)
  PROVE  ClaimInv'
<1>1. /\ here.at \in Plain \ FadeSweeps /\ here.at \notin BlockSweeps
  BY DEF Plain, Downs, FadeSweeps, BlockSweeps
<1>2. Claims(SweptDown, LowLim - 1)
  BY DownClaims
<1>3. /\ LowLim \in Nat /\ here.p \in Nat /\ LowLim < here.p /\ Start(here.j) <= LowLim
      /\ Start(here.j) \in Nat
  BY <1>1, DownChunk, PlainFacts DEF StepInv
<1> DEFINE s == SweptDown
<1>4. Tick(s, IF LowLim > Start(here.j) THEN DownNext ELSE On) /\ s.errs \subseteq Broken
  BY <1>2, <1>3 DEF DownStep, Claims
<1>5. CASE LowLim > Start(here.j)
  <2> DEFINE h == DownNext
  <2>1. /\ h.at = here.at /\ h.i = here.i /\ h.j = here.j /\ h.p = LowLim - 1
        /\ h.k = s.k /\ h.w = s.w
    BY <1>1, PlainFacts, InTestFacts DEF DownNext, Places
  <2>2. Tick(s, h)
    BY <1>4, <1>5
  <2> HIDE DEF s, h
  <2>3. Claim(h, s.mem, s.rng)
    BY <1>1, <1>2, <2>1, Onward DEF s
  <2> QED BY <1>1, <1>4, <2>1, <2>2, <2>3, ClaimTick
<1>6. CASE ~(LowLim > Start(here.j))
  <2>1. LowLim = Start(here.j)
    BY <1>3, <1>6
  <2>2. Tick(s, On) /\ On.at \notin BlockSweeps
    BY <1>4, <1>6, OnDowns
  <2>3. On.at \in Claiming => Claim(On, s.mem, s.rng)
    BY <1>2, <2>1, DownOver
  <2> HIDE DEF s
  <2> QED BY <1>4, <2>2, <2>3, ClaimTick
<1> QED BY <1>5, <1>6
-----------------------------------------------------------------------------
(* The bit fade test, and the steps between the sweeps.                    *)
LEMMA FadeSound ==
  ASSUME StepInv, ClaimInv, FadeFill \/ FadeCheck
  PROVE  ClaimInv'
<1> DEFINE s == OverSegment
<1>1. here.at \in FadeSweeps /\ Tick(s, FadeOn)
  BY FadeActions
<1>2. /\ here.at \in Plain /\ here.at \notin Downs /\ here.at \notin Strides
      /\ here.at \notin Mods
  BY <1>1 DEF Plain, FadeSweeps, Downs, Strides, Mods
<1>3. /\ map \in Maps /\ arg \in Args /\ here.j \in 1 .. segs /\ segs \in Nat \ {0}
      /\ End(here.j) \in Int /\ End(here.j) >= End(here.j) /\ here \in Places
  BY <1>2, PlainFacts, MapFacts, InTestFacts
<1>4. Claims(s, End(here.j))
  BY <1>1, FadeClaims
<1> HIDE DEF s
<1>5. Ended(s) /\ s.errs \subseteq Broken
  <2>1. Ended(s)
    BY <1>2, <1>3, <1>4, EndedIs
  <2> QED BY <2>1 DEF Ended
<1>6. \A b : Claimed(here, b) /\ Leaves(here, b) = here.w
  BY <1>1, <1>2 DEF Claimed, Leaves, FadeSweeps
<1>7. CASE here.j < segs
  <2> DEFINE h == [here EXCEPT !.j = @ + 1]
  <2>1. FadeOn = h
    BY <1>7 DEF FadeOn
  <2>2. h.at = here.at /\ h.j = here.j + 1 /\ h.w = here.w
    BY <1>3 DEF Places
  <2> HIDE DEF h
  <2>3. h.j \in 1 .. segs /\ h.at \notin BlockSweeps
    BY <1>1, <1>3, <1>7, <2>2 DEF FadeSweeps, BlockSweeps
  <2>4. Position(h) = Start(h.j) /\ First(h) = Start(h.j)
    BY <1>1, <1>2, <2>2 DEF Position, First, FadeSweeps
  <2>5. MemClaim(h, s.mem, Position(h))
    BY <1>1, <1>2, <1>5, <2>2, <2>3, <2>4, NextSegment DEF FadeSweeps
  <2>6. Carried(h, h.k, h.w, s.rng, Position(h))
    BY <1>1, <2>2 DEF Carried, FadeSweeps, Strides
  <2> QED BY <1>1, <1>5, <2>1, <2>3, <2>5, <2>6, ClaimTick DEF Claim
<1>8. CASE ~(here.j < segs) /\ here.at = "fade_fill"
  <2> DEFINE h == [here EXCEPT !.at = "fade_sleep"]
  <2>1. FadeOn = h
    BY <1>8 DEF FadeOn
  <2>2. h.at = "fade_sleep" /\ h.j = here.j /\ h.w = here.w
    BY <1>3 DEF Places
  <2> HIDE DEF h
  <2>3. LastSegment /\ h.at \notin BlockSweeps /\ Position(h) = 0
    BY <1>2, <1>3, <1>8, <2>2 DEF LastSegment, BlockSweeps, Position, FadeSweeps
  <2>4. Follows(h)
    BY <1>6, <2>2 DEF Follows, Was
  <2>5. Claim(h, s.mem, s.rng)
    BY <1>2, <1>3, <1>5, <2>2, <2>3, <2>4, NextPause
  <2> QED BY <1>1, <1>5, <2>1, <2>3, <2>5, ClaimTick
<1>9. CASE ~(here.j < segs) /\ here.at # "fade_fill" /\ here.w = 0
  <2> DEFINE h == Up("fade_fill", 0, 1, 0, Ones)
  <2>1. FadeOn = h
    BY <1>9 DEF FadeOn
  <2>2. h.at = "fade_fill" /\ h.j = 1
    BY DEF Up, Place
  <2> HIDE DEF h
  <2>3. /\ h.at \notin BlockSweeps /\ h.at \notin Downs /\ h.at \notin Strides
        /\ Fills(h) /\ h.at \in Claiming
    BY <2>2 DEF BlockSweeps, Downs, Strides, Fills, Claiming, Plain, FadeSweeps
  <2>4. Position(h) = First(h)
    BY <2>2, <2>3 DEF Position, First, FadeSweeps
  <2>5. \A b \in Healthy : Claimed(h, b) => ~Done(h, b, Position(h))
    BY <1>3, <2>2, <2>3, <2>4, NotBegun
  <2>6. MemClaim(h, s.mem, Position(h))
    BY <2>3, <2>5 DEF MemClaim
  <2>7. Carried(h, h.k, h.w, s.rng, Position(h))
    BY <2>2 DEF Carried, Strides
  <2> QED BY <1>1, <1>5, <2>1, <2>3, <2>6, <2>7, ClaimTick DEF Claim
<1>10. CASE ~(here.j < segs) /\ here.at # "fade_fill" /\ here.w # 0
  <2>1. FadeOn = Return
    BY <1>10 DEF FadeOn
  <2>2. Return.at \notin Claiming /\ Return.at \notin BlockSweeps
    BY DEF Return, Place, Claiming, Plain, Ups, Downs, Strides, FadeSweeps, BlockSweeps
  <2> QED BY <1>1, <1>5, <2>1, <2>2, ClaimTick
<1> QED BY <1>7, <1>8, <1>9, <1>10

(* A place between two sweeps: nothing of the next one has been done.      *)
LEMMA PauseOver ==
  ASSUME map \in Maps, arg \in Args, here.at \in {"rand_seed", "fade_sleep"},
         Claim(here, mem, rng), NEW h, h.j = 1, h.at \in Ups \cup FadeSweeps,
         h.at \notin Mods, Position(h) = Start(1),
         \A b : Fills(h) \/ (~Fills(here) /\ Was(h, b) = Was(here, b))
  PROVE  MemClaim(h, mem, Position(h))
<1>1. here.at \notin Mods /\ here.at \notin Downs /\ Position(here) = 0
      /\ h.at \notin Downs /\ h.at \notin Strides
  BY DEF Mods, Downs, Strides, Position, Ups, FadeSweeps
<1>2. \A b \in Healthy : Claimed(h, b) => ~Done(h, b, Position(h))
  <2>1. Position(h) = First(h)
    BY <1>1 DEF First
  <2> QED BY <1>1, <2>1, NotBegun
<1>3. ASSUME NEW b \in Healthy, ~Fills(h) PROVE mem[b] = Was(h, b)
  <2>1. b \in Nat
    BY CellFacts DEF Healthy
  <2>2. ~Done(here, b, 0) /\ Claimed(here, b)
    BY <1>1, <2>1 DEF Done, Claimed
  <2>3. MemClaim(here, mem, 0)
    BY <1>1 DEF Claim
  <2> QED BY <1>3, <2>2, <2>3 DEF MemClaim
<1> QED BY <1>2, <1>3 DEF MemClaim

LEMMA SeedSound ==
  ASSUME StepInv, ClaimInv, Seeded, RandSeed
  PROVE  ClaimInv'
<1>1. here.at = "rand_seed" /\ InTest
  BY DEF RandSeed, At, InTest
<1>2. /\ map \in Maps /\ arg \in Args /\ pat = 9 /\ call > 0 /\ here.i \in Nat
      /\ segs \in Nat \ {0}
  BY <1>1, InTestFacts DEF TestsOf, BlockSweeps
<1>3. arg.seeds \in Seeds /\ arg.seeds \in Word \X Word
  BY <1>2 DEF StepInv, ArgInv, Args
<1>4. rand_seed(rng, arg.seeds) = arg.seeds
  BY <1>3 DEF rand_seed, Seeded
<1>5. Claim(here, mem, rng) /\ errs \subseteq Broken
  BY <1>1, <1>2 DEF ClaimInv, Claiming, Trusted
<1> DEFINE h == Up(IF here.i = 0 THEN "rand_fill" ELSE "rand_check", here.i, 1, 0, 0)
<1>6. /\ h.at = (IF here.i = 0 THEN "rand_fill" ELSE "rand_check")
      /\ h.i = here.i /\ h.j = 1 /\ h.p = Start(1)
  BY DEF Up, Place
<1>7. here' = h /\ mem' = mem /\ rng' = arg.seeds /\ errs' = errs
      /\ UNCHANGED <<pat, map, fault, arg>>
  BY <1>4 DEF RandSeed
<1> HIDE DEF h
<1>8. /\ h.at \in Ups \cup FadeSweeps /\ h.at \notin Mods /\ Position(h) = Start(1)
      /\ h.at \notin BlockSweeps /\ h.at \in Ups
  BY <1>6 DEF Ups, FadeSweeps, Mods, Position, BlockSweeps
<1>9. \A b : Fills(h) \/ (~Fills(here) /\ Was(h, b) = Was(here, b))
  BY <1>1, <1>6 DEF Fills, Was
<1>10. MemClaim(h, mem, Position(h))
  BY <1>1, <1>2, <1>5, <1>6, <1>8, <1>9, PauseOver
<1>11. Carried(h, h.k, h.w, arg.seeds, Start(h.j))
  <2>1. arg.seeds = Stream[Start(h.j)]
    BY <1>2, <1>6, StreamAt
  <2>2. h.at = "rand_check" => h.i >= 1
    BY <1>2, <1>6
  <2>3. h.j \in 1 .. segs
    BY <1>2, <1>6
  <2>4. h.at \notin {"shift_fill", "shift_up"} /\ h.at # "mod_rest"
    BY <1>6
  <2> QED BY <1>2, <1>8, <2>1, <2>2, <2>3, <2>4, UpCarried
<1> QED BY <1>5, <1>6, <1>7, <1>8, <1>10, <1>11, ClaimArrived DEF Claim

LEMMA SleepSound ==
  ASSUME StepInv, ClaimInv, sleep
  PROVE  ClaimInv'
<1>1. here.at = "fade_sleep" /\ InTest
  BY DEF sleep, At, InTest
<1>2. map \in Maps /\ arg \in Args /\ pat = 8 /\ here \in Places
  BY <1>1, InTestFacts DEF TestsOf, BlockSweeps
<1>3. Claim(here, mem, rng) /\ errs \subseteq Broken
  BY <1>1, <1>2 DEF ClaimInv, Claiming, Trusted
<1> DEFINE h == [here EXCEPT !.at = "fade_check", !.j = 1]
<1>4. h.at = "fade_check" /\ h.j = 1 /\ h.w = here.w
  BY <1>2 DEF Places
<1>5. here' = h /\ mem' = mem /\ rng' = rng /\ errs' = errs
      /\ UNCHANGED <<pat, map, fault, arg>>
  BY DEF sleep
<1> HIDE DEF h
<1>6. /\ h.at \in Ups \cup FadeSweeps /\ h.at \notin Mods /\ Position(h) = Start(1)
      /\ h.at \notin BlockSweeps
  BY <1>4 DEF Ups, FadeSweeps, Mods, Position, BlockSweeps
<1>7. \A b : Fills(h) \/ (~Fills(here) /\ Was(h, b) = Was(here, b))
  BY <1>1, <1>4 DEF Fills, Was
<1>8. MemClaim(h, mem, Position(h))
  BY <1>1, <1>2, <1>3, <1>4, <1>6, <1>7, PauseOver
<1>9. Carried(h, h.k, h.w, rng, Position(h))
  BY <1>4 DEF Carried, Strides
<1> QED BY <1>3, <1>5, <1>6, <1>8, <1>9, ClaimArrived DEF Claim

LEMMA StillSound ==
  ASSUME StepInv, ClaimInv, TestDone \/ Finished \/ UNCHANGED vars
  PROVE  ClaimInv'
<1>1. /\ mem' = mem /\ rng' = rng /\ errs' = errs /\ UNCHANGED <<pat, map, fault, arg>>
      /\ here' \in {here, Over}
  BY DEF TestDone, Finished, Goto, vars
<1>2. /\ Trusted => errs \subseteq Broken
      /\ here.at \in Claiming => Claim(here, mem, rng)
      /\ here.at \in BlockSweeps /\ fault.kind = "none" => PairClaim(here, mem)
  BY DEF ClaimInv
<1>3. Over.at \notin Claiming /\ Over.at \notin BlockSweeps
  BY DEF Over, Place, Claiming, Plain, Ups, Downs, Strides, FadeSweeps, BlockSweeps
<1> QED BY <1>1, <1>2, <1>3, ClaimArrived
-----------------------------------------------------------------------------
(* A test begins with a sweep that only writes.                            *)
EntryClaims ==
  /\ map \in Maps /\ arg \in Args /\ pat \in {0, 1, 2} \cup 5 .. 11
  /\ pat = 2 => ShiftArgs
  /\ pat = 11 => arg.off < MOD_SZ
  => \A m, r : /\ Entry(arg).at \in Claiming => Claim(Entry(arg), m, r)
               /\ Entry(arg).at \in BlockSweeps => PairClaim(Entry(arg), m)

LEMMA FillClaim ==
  ASSUME map \in Maps, arg \in Args, NEW h, NEW m, NEW r, h.j = 1, h.at \notin Downs,
         h.at \in Strides => arg.off < MOD_SZ, Fills(h),
         Position(h) = First(h) \/ Position(h) = 0, Carried(h, h.k, h.w, r, Position(h))
  PROVE  Claim(h, m, r)
<1>1. \A b \in Healthy : Claimed(h, b) => ~Done(h, b, Position(h))
  <2>1. /\ h.j = IF h.at \in Downs THEN segs ELSE 1
        /\ Position(h) = First(h) \/ (Position(h) = 0 /\ h.at \notin Downs)
    OBVIOUS
  <2> QED BY <2>1, NotBegun
<1> QED BY <1>1 DEF Claim, MemClaim

LEMMA EntryClaim == EntryClaims
<1> SUFFICES ASSUME map \in Maps, arg \in Args, pat \in {0, 1, 2} \cup 5 .. 11,
                    pat = 2 => ShiftArgs, pat = 11 => arg.off < MOD_SZ, NEW m, NEW r
             PROVE  /\ Entry(arg).at \in Claiming => Claim(Entry(arg), m, r)
                    /\ Entry(arg).at \in BlockSweeps => PairClaim(Entry(arg), m)
  BY DEF EntryClaims
<1>1. segs \in Nat \ {0} /\ 1 \in 1 .. segs /\ Start(1) \in Nat /\ arg.off \in Nat
  BY MapFacts DEF Args
<1> DEFINE h == Entry(arg)
<1>2. CASE pat \in {0, 1, 2, 6, 10}
  <2>1. /\ h.at \in {"inv_fill", "shift_fill", "own_write"} /\ h.j = 1 /\ h.p = Start(1)
        /\ h.at = "shift_fill" => h.k = arg.off /\ h.w = arg.p1 /\ ShiftArgs
    <3>1. CASE pat \in {0, 1, 10}
      BY <3>1 DEF Entry, Up, Place
    <3>2. CASE pat = 2
      BY <3>2 DEF Entry, Up, Place
    <3>3. CASE pat = 6
      BY <3>3 DEF Entry, Up, Place
    <3> QED BY <1>2, <3>1, <3>2, <3>3
  <2> HIDE DEF h
  <2>2. /\ h.at \notin Downs /\ h.at \notin Strides /\ h.at \in Ups /\ Fills(h)
        /\ h.at \notin BlockSweeps /\ h.at # "mod_rest"
        /\ h.at \notin {"rand_fill", "rand_check"}
    BY <2>1 DEF Downs, Strides, Ups, Fills, BlockSweeps
  <2>3. Position(h) = Start(h.j) /\ First(h) = Start(h.j)
    BY <2>1, <2>2 DEF Position, First, FadeSweeps
  <2>4. Carried(h, h.k, h.w, r, Start(h.j))
    BY <1>1, <2>1, <2>2, UpCarried
  <2>5. Claim(h, m, r)
    BY <2>1, <2>2, <2>3, <2>4, FillClaim
  <2> QED BY <2>2, <2>5 DEF h
<1>3. CASE pat = 5
  <2>1. h.at = "walk_global"
    BY <1>3 DEF Entry, Up, Place
  <2> QED BY <2>1 DEF Claiming, Plain, Ups, Downs, Strides, FadeSweeps, BlockSweeps
<1>4. CASE pat = 7
  <2>1. h.at = "block_fill" /\ h.j = 1 /\ h.p = BlockStart(1)
    BY <1>4 DEF Entry, BlockUp, Place
  <2> HIDE DEF h
  <2>2. BlockStart(1) \in Nat /\ \A j \in 1 .. segs : BlockStart(j) \in Nat /\ End(j) \in Nat
    BY <1>1, Rooms
  <2>3. \A j \in 1 .. segs : \A b \in BlockStart(j) .. End(j) - 1 : ~PairHeld(h, j, b)
    BY <1>1, <2>1, <2>2 DEF PairHeld
  <2>4. h.at \notin Claiming /\ PairClaim(h, m)
    BY <2>1, <2>3 DEF PairClaim, Claiming, Plain, Ups, Downs, Strides, FadeSweeps
  <2> QED BY <2>4 DEF h
<1>5. CASE pat = 8
  <2>1. h.at = "fade_fill" /\ h.j = 1
    BY <1>5 DEF Entry, Up, Place
  <2> HIDE DEF h
  <2>2. /\ h.at \notin Downs /\ h.at \notin Strides /\ Fills(h) /\ h.at \notin BlockSweeps
    BY <2>1 DEF Downs, Strides, Fills, BlockSweeps
  <2>3. Position(h) = First(h)
    BY <2>1, <2>2 DEF Position, First, FadeSweeps
  <2>4. Carried(h, h.k, h.w, r, Position(h))
    BY <2>1 DEF Carried, Strides
  <2>5. Claim(h, m, r)
    BY <2>1, <2>2, <2>3, <2>4, FillClaim
  <2> QED BY <2>2, <2>5 DEF h
<1>6. CASE pat = 9
  <2>1. h.at = "rand_seed" /\ h.j = 1 /\ h.i = 0
    BY <1>6 DEF Entry, SeedAgain, Place
  <2> HIDE DEF h
  <2>2. /\ h.at \notin Downs /\ h.at \notin Strides /\ Fills(h) /\ h.at \notin BlockSweeps
    BY <2>1 DEF Downs, Strides, Fills, BlockSweeps
  <2>3. Position(h) = 0
    BY <2>1 DEF Position, FadeSweeps
  <2>4. Carried(h, h.k, h.w, r, Position(h))
    BY <2>1 DEF Carried, Strides
  <2>5. Claim(h, m, r)
    BY <2>1, <2>2, <2>3, <2>4, FillClaim
  <2> QED BY <2>2, <2>5 DEF h
<1>7. CASE pat = 11
  <2>1. h.at = "mod_write" /\ h.j = 1 /\ h.p = Start(1) + arg.off
    BY <1>7 DEF Entry, Place
  <2> HIDE DEF h
  <2>2. /\ h.at \notin Downs /\ h.at \in Strides /\ Fills(h) /\ h.at \notin BlockSweeps
    BY <2>1 DEF Downs, Strides, Fills, BlockSweeps
  <2>3. Position(h) = First(h) /\ Position(h) = Start(h.j) + arg.off
    BY <2>1, <2>2 DEF Position, First, FadeSweeps
  <2>4. Carried(h, h.k, h.w, r, Start(h.j) + arg.off)
    BY <1>1, <1>7, <2>1, <2>2, EveryCarried
  <2>5. Claim(h, m, r)
    BY <1>7, <2>1, <2>2, <2>3, <2>4, FillClaim
  <2> QED BY <2>2, <2>5 DEF h
<1> QED BY <1>2, <1>3, <1>4, <1>5, <1>6, <1>7

LEMMA EntryClaimNext == EntryClaims'
<1>1. EntryClaims
  BY EntryClaim
<1> QED BY <1>1, PTL

LEMMA SwitchSound ==
  ASSUME StepInv, ClaimInv, Switch
  PROVE  ClaimInv'
<1>1. At("call") /\ call < Calls
  BY DEF Switch
<1>2. PICK seeds \in IF pat = 9 THEN Seeds ELSE {<<0, 0>>} :
        /\ arg' = Arguments(call, seeds) /\ here' = Entry(Arguments(call, seeds))
  BY DEF Switch
<1>3. UNCHANGED <<pat, map, fault, mem, errs>>
  BY DEF Switch
<1>4. seeds \in Word \X Word /\ (pat = 9 => seeds \in Seeds)
  BY <1>2, WordsAssumption, Sizes
<1> DEFINE a == Arguments(call, seeds)
<1>5. /\ a \in Args /\ (pat = 2 => a.off < Bits /\ a.p1 = Rol(a.lb, a.off))
      /\ (pat = 11 => a.off < MOD_SZ)
  BY <1>1, <1>4, ArgumentsFit
<1>6. pat \in {0, 1, 2} \cup 5 .. 11 /\ map \in Maps
  BY <1>1, CallFacts DEF StepInv, TypeInv
<1> HIDE DEF a
<1>7. arg' = a /\ here' = Entry(a)
  BY <1>2 DEF a
<1>8. here' = Entry(arg)'
  BY <1>3, <1>7 DEF Entry, Up, BlockUp, BlockStart, SeedAgain, Place, Return, Start
<1>9. /\ (map \in Maps)' /\ (arg \in Args)' /\ (pat \in {0, 1, 2} \cup 5 .. 11)'
      /\ (pat = 2 => ShiftArgs)' /\ (pat = 11 => arg.off < MOD_SZ)'
  BY <1>3, <1>5, <1>6, <1>7 DEF ShiftArgs
<1>10. \A m, r : /\ (Entry(arg).at \in Claiming)' => Claim(Entry(arg), m, r)'
                 /\ (Entry(arg).at \in BlockSweeps)' => PairClaim(Entry(arg), m)'
  BY <1>9, EntryClaimNext DEF EntryClaims
<1>11. /\ (here.at \in Claiming)' => Claim(here, mem, rng)'
       /\ (here.at \in BlockSweeps)' => PairClaim(here, mem)'
  BY <1>8, <1>10
<1>12. (Trusted => errs \subseteq Broken)'
  BY <1>3 DEF ClaimInv, Trusted, Broken
<1> QED BY <1>11, <1>12 DEF ClaimInv
-----------------------------------------------------------------------------
(* The address test in sound memory: what is at the base of a walk stays   *)
(* there, since the walk never writes at its base.                         *)
Silent(x) == x \in States /\ x.errs = {}
Silents == {x \in States : Silent(x)}
Rests(base, p1) == {x \in States : x.errs = {} /\ x.mem[base] = p1}

LEMMA TouchRests ==
  ASSUME Sound_, fault.kind = "none", NEW base, base \in Cells, NEW end, NEW p1, p1 \in Word,
         NEW x, x \in Rests(base, p1), NEW n, n \in Nat
  PROVE  Touch(x, base, end, p1, n) \in Rests(base, p1)
<1> DEFINE a == Point(base, n)
           y == Write(x, a, Not(p1))
           z == Check(y, base, p1)
<1>1. x \in States /\ x.errs = {} /\ x.mem[base] = p1
  BY DEF Rests
<1>2. base \in Int /\ base \in Healthy /\ Not(p1) \in Int
  <2>1. base \in Nat
    BY CellFacts DEF Sound_
  <2>2. Not(p1) \in Word
    BY NotWord
  <2>3. Not(p1) \in Int
    BY <2>2, Sizes DEF Word
  <2>4. base \in Healthy
    BY DEF Healthy, Broken
  <2> QED BY <2>1, <2>3, <2>4
<1>3. a \in Int
  BY <1>2, PointFacts
<1>4. CASE a = base \/ a >= end
  BY <1>1, <1>4 DEF Touch, Rests
<1>5. CASE ~(a = base \/ a >= end)
  <2>1. Touch(x, base, end, p1, n) = z
    BY <1>5 DEF Touch
  <2> HIDE DEF a
  <2>2. Touched(x, y, a, Not(p1)) /\ y.errs = x.errs
    BY <1>1, <1>2, <1>3, Wrote
  <2>3. y \in States /\ y.mem[base] = p1
    BY <1>1, <1>2, <1>5, <2>2 DEF Touched
  <2> HIDE DEF y
  <2>4. Touched(y, z, base, y.mem[base]) /\ z.errs = y.errs
    BY <1>2, <2>3, Checked
  <2>5. z \in States /\ z.mem[base] = p1 /\ z.errs = {}
    BY <1>1, <1>2, <2>2, <2>3, <2>4 DEF Touched
  <2> QED BY <2>1, <2>5 DEF Rests
<1> QED BY <1>4, <1>5

LEMMA WalkSilent ==
  ASSUME Sound_, fault.kind = "none", NEW base, base \in Cells, NEW end, NEW p1, p1 \in Word,
         NEW x, Silent(x)
  PROVE  Silent(Walk(x, base, end, p1))
<1>1. Bits \in Nat /\ Repeats \in Nat
  BY Sizes, WordsAssumption
<1>2. base \in Int /\ base \in Healthy /\ p1 \in Int
  <2>1. base \in Nat
    BY CellFacts DEF Sound_
  <2>2. Word \subseteq Int
    BY Sizes DEF Word
  <2> QED BY <2>1, <2>2 DEF Healthy, Broken
<1> DEFINE S == Rests(base, p1)
<1>3. S \in SUBSET States /\ \A y \in S : y.errs = {}
  BY DEF Rests
<1>4. /\ \A y \in States : Touches(y, base, end, p1) \in States
      /\ \A y \in States, n \in Nat : Touch(y, base, end, p1, n) \in States
  BY <1>2, WalkTyped, TouchTyped
<1>5. ASSUME NEW y, y \in S PROVE Touches(y, base, end, p1) \in S
  <2>1. \A z \in S, n \in 0 .. Bits - 1 : Touch(z, base, end, p1, n) \in S
    BY <1>1, TouchRests
  <2>2. \A z \in States, n \in 0 .. Bits - 1 : Touch(z, base, end, p1, n) \in States
    BY <1>1, <1>4
  <2> HIDE DEF S
  <2> QED BY <1>1, <1>3, <1>5, <2>1, <2>2, TouchesIn
<1> DEFINE y == Write(x, base, p1)
<1>6. y \in S
  <2>1. Touched(x, y, base, p1) /\ y.errs = x.errs
    BY <1>2, Wrote DEF Silent
  <2> QED BY <1>2, <2>1 DEF Touched, Rests, Silent
<1>7. Walk(x, base, end, p1) = Repeated_(y, x, base, end, p1)
  BY DEF Walk, Repeated_
<1> HIDE DEF y, S
<1>8. \A z \in States, n \in 0 .. Repeats - 1 :
        (IF z.errs # x.errs THEN z ELSE Touches(z, base, end, p1)) \in States
  BY <1>4
<1>9. \A z \in S, n \in 0 .. Repeats - 1 :
        (IF z.errs # x.errs THEN z ELSE Touches(z, base, end, p1)) \in S
  BY <1>5
<1>10. Repeated_(y, x, base, end, p1) \in S
  BY <1>1, <1>3, <1>6, <1>8, <1>9, WalkIn
<1> QED BY <1>3, <1>7, <1>10 DEF Silent

(* A part of the address test, when what it reports is known.              *)
LEMMA WalkOver ==
  ASSUME StepInv, ClaimInv, NEW s, NEW next, Tick(s, next), here.at \in {"walk_global", "walk_banks"},
         next.at \in {"walk_global", "walk_banks", "call"},
         fault.kind = "none" => Silent(s)
  PROVE  ClaimInv'
<1>1. pat \in TestsOf(here.at)
  <2>1. InTest
    BY DEF InTest
  <2> QED BY <2>1, InTestFacts
<1>2. pat = 5
  BY <1>1 DEF TestsOf
<1>3. Trusted => s.errs \subseteq Broken
  BY <1>2 DEF Trusted, Silent
<1>4. next.at \notin Claiming /\ next.at \notin BlockSweeps
  BY DEF Claiming, Plain, Ups, Downs, Strides, FadeSweeps, BlockSweeps
<1> QED BY <1>3, <1>4, ClaimTick

LEMMA SilentState ==
  ASSUME StepInv, ClaimInv, fault.kind = "none"
  PROVE  Silent(State)
<1>1. State \in States /\ State.errs = errs
  BY StateTyped DEF StepInv, State
<1>2. errs \subseteq {}
  BY DEF ClaimInv, Trusted, Broken
<1> QED BY <1>1, <1>2 DEF Silent

LEMMA GlobalSound ==
  ASSUME StepInv, ClaimInv, WalksFrom(map), Addr1Global
  PROVE  ClaimInv'
<1> DEFINE base == roundup(Start(1), AlignWords)
           s == Walk(State, base, End(segs), here.w)
           again == [here EXCEPT !.i = 1, !.w = Not(@)]
           banks == Up("walk_banks", 0, 1, 0, 0)
           next == IF here.i = 0 THEN again ELSE banks
<1>1. here.at = "walk_global" /\ Tick(s, next)
  BY DEF Addr1Global, At
<1>2. InTest
  BY <1>1 DEF InTest
<1>3. here.w \in Word /\ here \in Places
  BY <1>2, InTestFacts
<1>4. base \in Cells
  BY DEF WalksFrom, Cells, Start
<1>5. fault.kind = "none" => Silent(s)
  <2> HIDE DEF base
  <2> QED BY <1>3, <1>4, StateWalk, SilentState, WalkSilent
<1>6. next.at \in {"walk_global", "walk_banks", "call"}
  <2>1. again.at = "walk_global"
    BY <1>1, <1>3 DEF Places
  <2>2. banks.at = "walk_banks"
    BY DEF Up, Place
  <2> HIDE DEF again, banks
  <2> QED BY <2>1, <2>2
<1> HIDE DEF s, next
<1> QED BY <1>1, <1>5, <1>6, WalkOver

LEMMA BanksSound ==
  ASSUME StepInv, ClaimInv, BanksInOrder(map), Addr1Banks
  PROVE  ClaimInv'
<1> DEFINE again == [here EXCEPT !.i = 1, !.w = Not(@)]
           next == IF here.i = 0 THEN again ELSE Return
           s == AllBanks(State)
<1>1. here.at = "walk_banks" /\ Tick(s, next)
  BY DEF Addr1Banks, At, AllBanks
<1>2. InTest
  BY <1>1 DEF InTest
<1>3. map \in Maps /\ here.w \in Word /\ segs \in Nat /\ here \in Places
  BY <1>2, InTestFacts
<1>4. Sound_
  BY StateWalk
<1>5. Silents \in SUBSET States /\ \A y : y \in Silents <=> Silent(y)
  BY DEF Silents, Silent
<1>6. ASSUME fault.kind = "none", NEW j, j \in 1 .. segs
      PROVE  /\ \A x \in States : Banks(x, j) \in States
             /\ \A x \in Silents : Banks(x, j) \in Silents
  <2>1. /\ BankCount(j) \in Nat
        /\ \A n \in 0 .. BankCount(j) - 1 :
             /\ Bank(j) + n * BankWords \in Addresses
             /\ Start(j) <= Bank(j) + n * BankWords
             /\ Bank(j) + n * BankWords < End(j)
    BY <1>3, <1>6, BankFacts
  <2>2. ASSUME NEW x, x \in States, NEW n \in 0 .. BankCount(j) - 1
        PROVE  Walk(x, Bank(j) + (n) * BankWords, End(j), here.w) \in States
    <3> DEFINE b == Bank(j) + n * BankWords
    <3>1. b \in Int
      BY <2>1, <2>2 DEF Addresses
    <3> HIDE DEF b
    <3>2. Walk(x, b, End(j), here.w) \in States
      BY <1>3, <1>4, <2>2, <3>1, WalkTyped
    <3> QED BY <3>2 DEF b
  <2>3. ASSUME NEW x, x \in Silents, NEW n \in 0 .. BankCount(j) - 1
        PROVE  Walk(x, Bank(j) + (n) * BankWords, End(j), here.w) \in Silents
    <3> DEFINE b == Bank(j) + n * BankWords
    <3>1. b \in Int /\ Start(j) <= b /\ b < End(j)
      BY <2>1, <2>3 DEF Addresses
    <3> HIDE DEF b
    <3>2. b \in Cells
      BY <1>3, <1>6, <3>1, SegmentCells
    <3>3. Silent(Walk(x, b, End(j), here.w))
      BY <1>3, <1>4, <1>5, <1>6, <2>3, <3>2, WalkSilent
    <3> QED BY <1>5, <3>3 DEF b
  <2>4. States \in SUBSET States
    OBVIOUS
  <2>5. \A x \in States, n \in 0 .. BankCount(j) - 1 :
          Walk(x, Bank(j) + (n) * BankWords, End(j), here.w) \in States
    BY <2>2
  <2>6. \A x \in Silents, n \in 0 .. BankCount(j) - 1 :
          Walk(x, Bank(j) + (n) * BankWords, End(j), here.w) \in Silents
    BY <2>3
  <2>7. ASSUME NEW x, x \in States PROVE Banks(x, j) \in States
    BY <2>1, <2>4, <2>5, <2>7, BanksIn
  <2>8. ASSUME NEW x, x \in Silents PROVE Banks(x, j) \in Silents
    BY <1>5, <2>1, <2>5, <2>6, <2>8, BanksIn
  <2> QED BY <2>7, <2>8
<1>7. \A n \in 0 .. segs - 1 : 1 + (n) \in 1 .. segs
  BY <1>3
<1>8. ASSUME fault.kind = "none" PROVE Silent(s)
  <2>1. \A x \in States, n \in 0 .. segs - 1 : Banks(x, 1 + (n)) \in States
    BY <1>6, <1>7, <1>8
  <2>2. \A x \in Silents, n \in 0 .. segs - 1 : Banks(x, 1 + (n)) \in Silents
    BY <1>6, <1>7, <1>8
  <2>3. State \in Silents
    BY <1>5, <1>8, SilentState
  <2> QED BY <1>3, <1>5, <2>1, <2>2, <2>3, AllBanksIn
<1>9. next.at \in {"walk_global", "walk_banks", "call"}
  <2>1. again.at = "walk_banks"
    BY <1>1, <1>3 DEF Places
  <2>2. Return.at = "call"
    BY DEF Return, Place
  <2> HIDE DEF again
  <2> QED BY <2>1, <2>2
<1> HIDE DEF s, next
<1> QED BY <1>1, <1>8, <1>9, WalkOver
-----------------------------------------------------------------------------
(* Everything the block move begins or ends at is at a fourth word.        *)
Fourth(c, x) ==
  /\ (x % c) % 4 = x % 4 /\ x % c \in Nat
  /\ x % c = 0 => x % 4 = 0
  /\ (x * c) % 4 = 0 /\ x * c \in Int

LEMMA Fourths ==
  ASSUME NEW c, c \in Nat \ {0}, c % 4 = 0, NEW x, x \in Int
  PROVE  Fourth(c, x)
<1>1. PICK q \in Int, r \in 0 .. c - 1 : r = x % c /\ x = q * c + r
  BY Divides
<1>2. PICK d \in Nat, o \in 0 .. 3 : o = c % 4 /\ c = d * 4 + o
  BY Division
<1>3. c = 4 * d
  BY <1>2
<1> DEFINE y == q * d
           z == x * d
<1>4. y \in Int /\ z \in Int
  BY <1>1, <1>2
<1>5. x = 4 * y + r
  <2>1. q * c = 4 * y
    BY <1>1, <1>2, <1>3, SMTT(30)
  <2> QED BY <1>1, <2>1
<1>6. x * c = 4 * z
  BY <1>2, <1>3, SMTT(30)
<1> HIDE DEF y, z
<1>7. (4 * z) % 4 = 0 /\ 4 * z \in Int
  BY <1>4
<1>8. r % 4 = x % 4
  BY <1>1, <1>4, <1>5
<1>9. x % c = 0 => x % 4 = 0
  BY <1>1, <1>8
<1>10. x % c \in Nat /\ (x % c) % 4 = x % 4
  <2>1. r \in Nat
    BY <1>1
  <2> QED BY <1>1, <1>8, <2>1, Zenon
<1>11. (x * c) % 4 = 0 /\ x * c \in Int
  BY <1>6, <1>7, Zenon
<1> QED BY <1>9, <1>10, <1>11, Zenon DEF Fourth

LEMMA BlocksEven ==
  /\ BlockWords % 4 = 0 /\ BlockWords \in Nat \ {0}
  /\ SPINSZ % 4 = 0 /\ SPINSZ \in Nat \ {0} /\ ShiftWords % 2 = 0 /\ ShiftWords \in Nat
<1>1. /\ BlockWords \in Nat \ {0} /\ BlockWords % 4 = 0 /\ SPINSZ % BlockWords = 0
      /\ 2 * ShiftWords = BlockWords /\ ShiftWords \in Nat /\ SPINSZ \in Nat \ {0}
  <2>1. SPINSZ \in 1 .. AddrWords - 1 /\ AddrWords \in Nat
    BY WordsAssumption
  <2> QED BY <2>1, WordsAssumption
<1>2. SPINSZ % 4 = 0
  <2>1. Fourth(BlockWords, SPINSZ)
    BY <1>1, Fourths
  <2> QED BY <1>1, <2>1 DEF Fourth
<1> QED BY <1>1, <1>2

LEMMA SegmentsEven ==
  ASSUME map \in Maps, NEW j, j \in 1 .. segs
  PROVE  /\ BlockStart(j) \in Nat /\ BlockStart(j) % 4 = 0
         /\ End(j) \in Nat /\ End(j) % 4 = 0
         /\ FillEnd(j) \in Int /\ FillEnd(j) % 4 = 0 /\ FillEnd(j) <= End(j)
<1>1. /\ Start(j) \in Nat /\ End(j) \in Nat /\ BlockStart(j) \in Nat /\ BlockStart(j) < End(j)
      /\ Trimmed(map[j])
  BY Rooms, MapFacts
<1>2. Start(j) % BlockWords = 0 /\ End(j) % BlockWords = 0
  BY <1>1 DEF Trimmed, Start, End
<1>3. Start(j) % 4 = 0 /\ End(j) % 4 = 0
  <2>1. Fourth(BlockWords, Start(j)) /\ Fourth(BlockWords, End(j))
    <3>1. Start(j) \in Int /\ End(j) \in Int
      BY <1>1
    <3> QED BY <3>1, BlocksEven, Fourths
  <2> QED BY <1>2, <2>1 DEF Fourth
<1>4. USB_WAR \in Nat /\ USB_WAR % 4 = 0
  BY WordsAssumption
<1>5. BlockStart(j) % 4 = 0
  BY <1>3, <1>4 DEF BlockStart
<1> DEFINE x == End(j) - BlockStart(j)
           r == x % SPINSZ
           y == r % BlockWords
<1>6. x \in Int /\ x % 4 = 0
  BY <1>1, <1>3, <1>5
<1>7. FillEnd(j) = End(j) - y
  BY DEF FillEnd, LastChunk
<1> HIDE DEF x
<1>8. r % 4 = 0 /\ r \in Int
  <2>1. Fourth(SPINSZ, x)
    BY <1>6, BlocksEven, Fourths
  <2> QED BY <1>6, <2>1 DEF Fourth
<1> HIDE DEF r
<1>9. y % 4 = 0 /\ y \in Nat
  <2>1. Fourth(BlockWords, r)
    BY <1>8, BlocksEven, Fourths
  <2> QED BY <1>8, <2>1 DEF Fourth
<1> HIDE DEF y
<1> QED BY <1>1, <1>3, <1>5, <1>7, <1>9

LEMMA ChunkEven ==
  ASSUME StepInv, here.at \in BlockSweeps
  PROVE  /\ here.p \in Nat /\ Lim \in Nat /\ here.p < Lim
         /\ here.p % 4 = 0 /\ Lim % 4 = 0 /\ (Lim - here.p) % 4 = 0
<1>1. /\ TypeInv /\ PlaceInv(here) /\ map \in Maps /\ here.j \in 1 .. segs
  BY DEF StepInv, TypeInv
<1> DEFINE j == here.j
           x == End(j) - BlockStart(j)
           r == x % SPINSZ
<1>2. /\ BlockStart(j) \in Nat /\ BlockStart(j) % 4 = 0 /\ End(j) \in Nat /\ End(j) % 4 = 0
  BY <1>1, SegmentsEven
<1>3. /\ here.p \in Nat /\ Lim \in Nat /\ here.p < Lim /\ here.p = here.pe /\ Lim <= End(j)
      /\ Lim < End(j) => Chunked(BlockStart(j), Lim, End(j))
  BY <1>1, BlockChunk
<1>4. Chunked(BlockStart(j), here.pe, End(j))
  BY <1>1 DEF PlaceInv
<1>5. x \in Int /\ x % 4 = 0
  BY <1>2
<1> HIDE DEF x
<1>6. r % 4 = 0 /\ r \in Int
  <2>1. Fourth(SPINSZ, x)
    BY <1>5, BlocksEven, Fourths
  <2> QED BY <1>5, <2>1 DEF Fourth
<1>7. LastChunk(BlockStart(j), End(j)) = r
  BY DEF LastChunk, x
<1> HIDE DEF r
<1>8. ASSUME NEW a, a \in Int, Chunked(BlockStart(j), a, End(j)) PROVE a % 4 = 0
  <2>1. PICK m \in Nat : End(j) - a = m * SPINSZ + r
    BY <1>7, <1>8 DEF Chunked
  <2> DEFINE z == m * SPINSZ
  <2>2. z % 4 = 0 /\ z \in Int
    <3>1. Fourth(SPINSZ, m)
      BY BlocksEven, Fourths
    <3> QED BY <3>1 DEF Fourth
  <2>3. End(j) - a = z + r
    BY <2>1
  <2> HIDE DEF z
  <2> QED BY <1>2, <1>6, <1>8, <2>2, <2>3
<1>9. here.p % 4 = 0
  BY <1>3, <1>4, <1>8
<1>10. Lim % 4 = 0
  BY <1>2, <1>3, <1>8
<1> QED BY <1>3, <1>9, <1>10

(* Two words of a block have the same pattern.                             *)
LEMMA SameBlock ==
  ASSUME NEW x, x \in Nat, x % 2 = 0
  PROVE  BlockWord(x \div BlockWords, x % BlockWords)
           = BlockWord((x + 1) \div BlockWords, (x + 1) % BlockWords)
<1>1. PICK q \in Nat, r \in 0 .. BlockWords - 1 :
        q = x \div BlockWords /\ r = x % BlockWords /\ x = q * BlockWords + r
  BY BlocksEven, Division
<1> DEFINE y == q * BlockWords
<1>2. y % 4 = 0 /\ y \in Int /\ x = y + r
  <2>1. Fourth(BlockWords, q)
    <3>1. q \in Int
      BY <1>1
    <3> QED BY <3>1, BlocksEven, Fourths
  <2> QED BY <1>1, <2>1 DEF Fourth
<1> HIDE DEF y
<1>3. r % 2 = 0 /\ r + 1 \in 0 .. BlockWords - 1 /\ x + 1 = y + (r + 1)
  <2>1. r % 2 = 0
    BY <1>1, <1>2
  <2>2. BlockWords \in Nat /\ BlockWords % 4 = 0
    BY BlocksEven
  <2> QED BY <1>1, <1>2, <2>1, <2>2
<1> DEFINE u == r + 1
<1>4. u \in 0 .. BlockWords - 1 /\ x + 1 = q * BlockWords + u
  BY <1>3 DEF y
<1>5. u \div 2 = r \div 2
  BY <1>1, <1>3
<1> HIDE DEF u
<1>6. (q * BlockWords + u) \div BlockWords = q /\ (q * BlockWords + u) % BlockWords = u
  BY <1>1, <1>4, BlocksEven, Divided
<1>7. (x + 1) \div BlockWords = q /\ (x + 1) % BlockWords = u
  BY <1>4, <1>6
<1>8. BlockWord(q, u) = BlockWord(q, r)
  BY <1>5 DEF BlockWord
<1> QED BY <1>1, <1>7, <1>8
-----------------------------------------------------------------------------
(* Words that are the same two by two.                                     *)
Paired(m, first, end) ==
  \A b \in Int : first <= b /\ b < end /\ b % 2 = 0 => m[b] = m[b + 1]
Elsewhere(m, n, first, end) ==
  \A b \in Cells : b < first \/ b >= end => n[b] = m[b]

(* What a chunk does to the pairs of the segments.                         *)
LEMMA ChunkPairs ==
  ASSUME StepInv, here.at \in BlockSweeps, PairClaim(here, mem),
         NEW m, NEW end, end \in Int, end % 2 = 0, end <= End(here.j),
         Elsewhere(mem, m, here.p, end), Paired(m, here.p, end),
         NEW next,
         \A j \in 1 .. segs : \A b \in BlockStart(j) .. End(j) - 1 :
           PairHeld(next, j, b) =>
             PairHeld(here, j, b) \/ (j = here.j /\ here.p <= b /\ b < end)
  PROVE  PairClaim(next, m)
<1>1. /\ map \in Maps /\ here.j \in 1 .. segs /\ segs \in Nat
      /\ TypeInv /\ PlaceInv(here)
  BY MapFacts DEF StepInv, TypeInv
<1>2. here.p \in Nat /\ here.p % 2 = 0 /\ Start(here.j) <= here.p
  <2>1. here.p \in Nat /\ here.p % 4 = 0
    BY ChunkEven
  <2>2. Start(here.j) <= here.p
    BY <1>1, BlockChunk
  <2> QED BY <2>1, <2>2
<1>3. ASSUME NEW j \in 1 .. segs, NEW b \in BlockStart(j) .. End(j) - 1,
             b % 2 = 0, PairHeld(next, j, b)
      PROVE  m[b] = m[b + 1]
  <2>1. /\ BlockStart(j) \in Nat /\ Start(j) \in Nat /\ Start(j) <= BlockStart(j)
        /\ End(j) \in Nat /\ End(j) % 4 = 0
    BY <1>1, Rooms, SegmentsEven
  <2>2. b \in Int /\ Start(j) <= b /\ b < End(j)
    BY <2>1
  <2>3. b + 1 \in Int /\ Start(j) <= b + 1 /\ b + 1 < End(j)
    BY <1>3, <2>1, <2>2
  <2>4. b \in Cells /\ b + 1 \in Cells
    <3> DEFINE d == b + 1
    <3>1. d \in Int /\ Start(j) <= d /\ d < End(j)
      BY <2>3
    <3> HIDE DEF d
    <3>2. d \in Cells /\ b \in Cells
      BY <1>1, <2>2, <3>1, SegmentCells
    <3> QED BY <3>2 DEF d
  <2>5. CASE j = here.j /\ here.p <= b /\ b < end
    BY <1>3, <2>2, <2>5 DEF Paired
  <2>6. CASE ~(j = here.j /\ here.p <= b /\ b < end)
    <3>1. PairHeld(here, j, b)
      BY <1>3, <2>6
    <3>2. mem[b] = mem[b + 1]
      BY <1>3, <3>1 DEF PairClaim
    <3>3. (b < here.p /\ b + 1 < here.p) \/ (b >= end /\ b + 1 >= end)
      <4>1. CASE j = here.j
        BY <1>2, <1>3, <2>2, <2>6, <4>1
      <4>2. CASE j < here.j
        <5>1. End(j) <= Start(here.j) /\ Start(here.j) \in Nat
          BY <1>1, <4>2, Ordered, Rooms
        <5> QED BY <1>2, <2>1, <2>2, <2>3, <5>1
      <4>3. CASE here.j < j
        <5>1. End(here.j) <= Start(j) /\ End(here.j) \in Nat
          BY <1>1, <4>3, Ordered, Rooms
        <5> QED BY <2>1, <2>2, <2>3, <5>1
      <4>4. j \in Int /\ here.j \in Int
        BY <1>1
      <4> QED BY <4>1, <4>2, <4>3, <4>4
    <3>4. m[b] = mem[b] /\ m[b + 1] = mem[b + 1]
      BY <2>4, <3>3 DEF Elsewhere
    <3> QED BY <3>2, <3>4
  <2> QED BY <2>5, <2>6
<1> QED BY <1>3 DEF PairClaim

(* A step of the block move: it matters in sound memory only.              *)
LEMMA BlockOver ==
  ASSUME StepInv, here.at \in BlockSweeps, NEW s, NEW next, Tick(s, next),
         next.at \in BlockSweeps \cup {"call"},
         fault.kind = "none" =>
           s.errs = {} /\ (next.at \in BlockSweeps => PairClaim(next, s.mem))
  PROVE  ClaimInv'
<1>1. pat \in TestsOf(here.at)
  <2>1. InTest
    BY DEF InTest, BlockSweeps
  <2> QED BY <2>1, InTestFacts
<1>2. pat = 7
  BY <1>1 DEF TestsOf, BlockSweeps
<1>3. Trusted => s.errs \subseteq Broken
  BY <1>2 DEF Trusted
<1>4. next.at \notin Claiming
  BY DEF Claiming, Plain, Ups, Downs, Strides, FadeSweeps, BlockSweeps
<1> QED BY <1>3, <1>4, ClaimTick

LEMMA BlockBegins ==
  ASSUME StepInv, ClaimInv, here.at \in BlockSweeps, fault.kind = "none"
  PROVE  /\ Sound_ /\ State \in States /\ State.mem = mem /\ State.errs = {}
         /\ PairClaim(here, mem) /\ Healthy = Cells /\ mem \in [Cells -> Int]
         /\ map \in Maps /\ here.j \in 1 .. segs /\ Cells \subseteq Nat
<1>1. Sound_ /\ State \in States /\ State.mem = mem /\ State.errs = errs /\ map \in Maps
      /\ here.j \in 1 .. segs
  BY StateTyped DEF StepInv, State, TypeInv
<1>2. errs = {} /\ PairClaim(here, mem)
  BY DEF ClaimInv, Trusted, Broken
<1>3. Healthy = Cells
  BY DEF Healthy, Broken
<1>4. Cells \subseteq Nat
  BY <1>1, CellFacts
<1>5. mem \in [Cells -> Int]
  BY <1>1, StateParts
<1> QED BY <1>1, <1>2, <1>3, <1>4, <1>5

-----------------------------------------------------------------------------
(* The fill.                                                               *)
Pattern_(n) == BlockWord(n \div BlockWords, n % BlockWords)
LEMMA FillIs ==
  ASSUME StepInv, ClaimInv, here.at = "block_fill", fault.kind = "none"
  PROVE  /\ FillSweep.errs = {}
         /\ \A b \in Cells : FillSweep.mem[b] = IF here.p <= b /\ b < BlockEnd
                                                THEN Pattern_(b - here.p) ELSE mem[b]
<1>1. /\ TypeInv /\ PlaceInv(here) /\ here.at \in Visited /\ here.at \in BlockSweeps
  BY DEF StepInv, Visited, BlockSweeps
<1>2. /\ Sound_ /\ State \in States /\ State.mem = mem /\ State.errs = {} /\ Healthy = Cells
      /\ map \in Maps /\ Cells \subseteq Nat
  BY <1>1, BlockBegins
<1>3. /\ FillCount \in Nat /\ here.p \in Nat /\ BlockEnd = here.p + FillCount
      /\ \A n \in 0 .. FillCount - 1 : (here.p + n) % AddrWords = here.p + n /\ here.p + n \in Cells
  <2>1. here.p \in Nat
    BY <1>1, ChunkEven
  <2> QED BY <1>1, <2>1, FillChunk DEF FillCount, BlockEnd
<1> DEFINE c == FillCount
           zero == 0
           one == 1
           p == here.p
<1>4. zero \in Int /\ one \in Int /\ (\A n \in Nat : zero + n * one = n) /\ FillSweep = Sweep(zero, one, c)
  BY DEF FillSweep
<1> HIDE DEF zero, one
<1>0. PICK f : Swept_(f, zero, one, c)
  BY <1>1, <1>3, <1>4, SweepSteps
<1>5. /\ f[0] = State /\ Sweep(zero, one, c) = f[c]
      /\ \A n \in 0 .. c - 1 : f[n + 1] = Visit(f[n], zero + n * one)
  BY <1>0 DEF Swept_
<1> DEFINE Fine(n) ==
             /\ f[n] \in States /\ f[n].errs = {}
             /\ \A b \in Cells : f[n].mem[b] = IF p <= b /\ b < p + n
                                               THEN Pattern_(b - p) ELSE mem[b]
           P == {n \in Nat : n <= c => Fine(n)}
<1>6. 0 \in P
  <2>1. \A b \in Cells : ~(p <= b /\ b < p + 0)
    BY <1>2, <1>3
  <2> QED BY <1>2, <1>5, <2>1
<1>7. ASSUME NEW n \in P PROVE n + 1 \in P
  <2> SUFFICES ASSUME n + 1 <= c PROVE Fine(n + 1)
    OBVIOUS
  <2> DEFINE y == Pattern_(n)
             a == p + n
  <2>1. n \in Nat /\ n \in 0 .. c - 1 /\ Fine(n)
    BY <1>3
  <2>2. f[n + 1] = Visit(f[n], n)
    BY <1>4, <1>5, <2>1
  <2>3. Visit(f[n], n) = Write(f[n], (here.p + n) % AddrWords, y)
    BY DEF Visit, At, Pattern_
  <2>4. (here.p + n) % AddrWords = a /\ a \in Cells
    BY <1>3, <2>1
  <2>5. y \in Int
    <3>1. n \div BlockWords \in Int
      BY <2>1, BlocksEven
    <3>2. y \in Word
      BY <3>1, BlockWords_ DEF Pattern_
    <3> QED BY <3>2, Sizes DEF Word
  <2>6. y = Pattern_(a - p)
    <3>1. a - p = n
      BY <1>3, <2>1
    <3> QED BY <3>1
  <2>7. a \in Int /\ \A b \in Cells : b # a => ((p <= b /\ b < p + n) <=> (p <= b /\ b < p + (n + 1)))
    BY <1>2, <1>3, <2>1
  <2>8. p <= a /\ a < p + (n + 1)
    BY <1>3, <2>1
  <2> HIDE DEF y, a, p
  <2>9. f[n + 1] = Write(f[n], a, y)
    BY <2>2, <2>3, <2>4
  <2>10. f[n] \in States /\ f[n].errs = {}
    BY <2>1
  <2>11. Touched(f[n], f[n + 1], a, y) /\ f[n + 1].errs = {}
    <3> DEFINE z == f[n]
    <3>1. z \in States /\ a \in Int /\ z.errs = {} /\ f[n + 1] = Write(z, a, y)
      BY <2>7, <2>9, <2>10
    <3> HIDE DEF Fine, z
    <3>2. Touched(z, Write(z, a, y), a, y) /\ Write(z, a, y).errs = z.errs
      BY <1>2, <2>5, <3>1, Wrote
    <3> QED BY <3>1, <3>2 DEF z
  <2>12. f[n + 1] \in States /\ \A b \in Cells : f[n + 1].mem[b] = IF b = a THEN y ELSE f[n].mem[b]
    BY <1>2, <2>11 DEF Touched
  <2>13. ASSUME NEW b \in Cells
         PROVE  f[n + 1].mem[b] = IF p <= b /\ b < p + (n + 1) THEN Pattern_(b - p) ELSE mem[b]
    <3>1. CASE b = a
      BY <2>6, <2>8, <2>12, <3>1
    <3>2. CASE b # a
      <4>1. f[n].mem[b] = IF p <= b /\ b < p + n THEN Pattern_(b - p) ELSE mem[b]
        BY <2>1
      <4>2. f[n + 1].mem[b] = f[n].mem[b]
        BY <2>12, <3>2
      <4> HIDE DEF Fine
      <4> QED BY <2>7, <3>2, <4>1, <4>2
    <3> QED BY <3>1, <3>2
  <2> QED BY <2>11, <2>12, <2>13
<1>8. P = Nat
  <2>1. P \in SUBSET Nat
    OBVIOUS
  <2> HIDE DEF P
  <2> QED BY <1>6, <1>7, <2>1, Induction
<1>9. Fine(c)
  <2>1. c \in P
    BY <1>3, <1>8
  <2>2. c <= c
    BY <1>3
  <2> HIDE DEF Fine
  <2> QED BY <2>1, <2>2
<1>10. FillSweep = f[c] /\ BlockEnd = p + c
  BY <1>3, <1>4, <1>5
<1> QED BY <1>9, <1>10

LEMMA FillSound ==
  ASSUME StepInv, ClaimInv, BlockFill
  PROVE  ClaimInv'
<1>1. here.at = "block_fill" /\ here.at \in BlockSweeps
  BY DEF BlockFill, At, BlockSweeps
<1>2. TypeInv /\ PlaceInv(here) /\ map \in Maps /\ here \in Places /\ here.j \in 1 .. segs
  BY DEF StepInv, TypeInv
<1>3. /\ Lim \in Nat /\ here.p \in Nat /\ here.p < Lim /\ here.p % 4 = 0
      /\ Lim <= End(here.j) /\ End(here.j) \in Nat
  BY <1>1, <1>2, ChunkEven, BlockChunk, SegmentsEven
<1> DEFINE next == BlockOn("block_fill", BlockUp("block_move", 1))
           s == FillSweep
<1>4. Tick(s, next)
  BY <1>3 DEF BlockFill, BlockOn, FillSweep, FillCount, BlockEnd, Lim
<1>5. /\ FillCount \in Nat /\ FillCount % 4 = 0 /\ BlockEnd = here.p + FillCount /\ BlockEnd <= Lim
      /\ (Lim < End(here.j) => BlockEnd = Lim) /\ (Lim = End(here.j) => BlockEnd = FillEnd(here.j))
  <2>1. /\ FillCount \in Nat /\ BlockEnd = here.p + FillCount /\ BlockEnd <= Lim
        /\ Lim < End(here.j) => BlockEnd = Lim
        /\ Lim = End(here.j) => BlockEnd = FillEnd(here.j)
    BY <1>1, <1>2, FillChunk DEF FillCount, BlockEnd
  <2>2. Blocks(here.p, Lim) \in Int
    <3>1. (Lim - here.p) \div BlockWords \in Int /\ AddrWords \div BlockWords \in Int
      <4>1. AddrWords \in Nat
        BY WordsAssumption
      <4> QED BY <1>3, <4>1, BlocksEven
    <3> QED BY <3>1 DEF Blocks
  <2>3. Fourth(BlockWords, Blocks(here.p, Lim))
    BY <2>2, BlocksEven, Fourths
  <2> QED BY <2>1, <2>3 DEF Fourth, FillCount
<1>6. BlockEnd \in Int /\ BlockEnd % 2 = 0
  BY <1>3, <1>5
<1>7. next.at \in {"block_fill", "block_move"}
  BY <1>1, <1>2 DEF BlockOn, BlockUp, Place, Places
<1>8. ASSUME fault.kind = "none" PROVE s.errs = {} /\ PairClaim(next, s.mem)
  <2>1. PairClaim(here, mem) /\ Cells \subseteq Nat
    BY <1>1, <1>8, BlockBegins
  <2>2. /\ s.errs = {}
        /\ \A b \in Cells : s.mem[b] = IF here.p <= b /\ b < BlockEnd
                                       THEN Pattern_(b - here.p) ELSE mem[b]
    BY <1>1, <1>8, FillIs
  <2>3. Elsewhere(mem, s.mem, here.p, BlockEnd)
    BY <1>3, <1>6, <2>1, <2>2 DEF Elsewhere
  <2>4. Paired(s.mem, here.p, BlockEnd)
    <3>1. ASSUME NEW b \in Int, here.p <= b, b < BlockEnd, b % 2 = 0 PROVE s.mem[b] = s.mem[b + 1]
      <4> DEFINE x == b - here.p
      <4>1. x \in 0 .. FillCount - 1 /\ x + 1 \in 0 .. FillCount - 1 /\ x % 2 = 0 /\ x \in Nat
        BY <1>3, <1>5, <3>1
      <4>2. b = here.p + x /\ b + 1 = here.p + (x + 1)
        BY <1>3, <3>1
      <4>3. b \in Cells /\ b + 1 \in Cells
        <5>1. \A n \in 0 .. FillCount - 1 : here.p + n \in Cells
          BY <1>1, <1>2, FillChunk DEF FillCount
        <5> QED BY <4>1, <4>2, <5>1
      <4>4. b + 1 - here.p = x + 1 /\ here.p <= b + 1 /\ b + 1 < BlockEnd
        BY <1>3, <1>5, <4>1, <4>2
      <4> HIDE DEF x
      <4>5. Pattern_(x) = Pattern_(x + 1)
        BY <4>1, SameBlock DEF Pattern_
      <4> HIDE DEF s
      <4>6. s.mem[b] = Pattern_(x)
        BY <2>2, <3>1, <4>3 DEF x
      <4>7. s.mem[b + 1] = Pattern_(x + 1)
        <5> DEFINE d == b + 1
        <5>1. d \in Cells
          BY <4>3
        <5>3. d - here.p = x + 1
          <6>1. x = b - here.p /\ b \in Int /\ here.p \in Int
            BY <1>3 DEF x
          <6> QED BY <6>1
        <5>4. here.p <= d /\ d < BlockEnd
          BY <4>4
        <5> HIDE DEF d
        <5>2. s.mem[d] = Pattern_(x + 1)
          BY <2>2, <5>1, <5>3, <5>4
        <5> QED BY <5>2 DEF d
      <4> QED BY <4>5, <4>6, <4>7
    <3> QED BY <3>1 DEF Paired
  <2>5. ASSUME NEW j \in 1 .. segs, NEW b \in BlockStart(j) .. End(j) - 1, PairHeld(next, j, b)
        PROVE  PairHeld(here, j, b) \/ (j = here.j /\ here.p <= b /\ b < BlockEnd)
    <3>1. j \in Int /\ b \in Int /\ here.j \in Int /\ BlockStart(j) \in Nat /\ FillEnd(j) \in Int
          /\ BlockStart(j) <= b /\ segs \in Nat
      BY <1>2, SegmentsEven, MapFacts
    <3>2. b < FillEnd(j)
          /\ \/ j < here.j
             \/ j = here.j /\ b < BlockEnd
      <4>1. CASE Lim < End(here.j)
        <5>1. next.at = "block_fill" /\ next.j = here.j /\ next.p = BlockEnd
          BY <1>1, <1>2, <1>3, <1>5, <4>1 DEF BlockOn, Places
        <5> HIDE DEF next
        <5> QED BY <1>5, <2>5, <5>1 DEF PairHeld
      <4>2. CASE ~(Lim < End(here.j)) /\ here.j < segs
        <5>1. next.at = "block_fill" /\ next.j = here.j + 1 /\ next.p = BlockStart(here.j + 1)
          BY <4>2 DEF BlockOn, BlockUp, Place
        <5>2. BlockEnd = FillEnd(here.j)
          <6>1. Lim = End(here.j)
            BY <1>3, <4>2
          <6> QED BY <1>5, <6>1
        <5> HIDE DEF next
        <5>3. b < FillEnd(j) /\ (j < here.j + 1 \/ (j = here.j + 1 /\ b < BlockStart(here.j + 1)))
          BY <2>5, <5>1 DEF PairHeld
        <5> QED BY <3>1, <5>2, <5>3
      <4>3. CASE ~(Lim < End(here.j)) /\ ~(here.j < segs)
        <5>1. next.at = "block_move" /\ next.j = 1 /\ next.i = 0
          BY <4>3 DEF BlockOn, BlockUp, Place
        <5>2. BlockEnd = FillEnd(here.j)
          <6>1. Lim = End(here.j)
            BY <1>3, <4>3
          <6> QED BY <1>5, <6>1
        <5> HIDE DEF next
        <5>3. b < FillEnd(j)
          BY <2>5, <3>1, <5>1 DEF PairHeld
        <5> QED BY <3>1, <4>3, <5>2, <5>3
      <4> QED BY <4>1, <4>2, <4>3
    <3>3. PairHeld(here, j, b) <=> b < FillEnd(j) /\ (j < here.j \/ (j = here.j /\ b < here.p))
      BY <1>1 DEF PairHeld
    <3> QED BY <1>3, <3>1, <3>2, <3>3
  <2>6. BlockEnd <= End(here.j)
    BY <1>3, <1>5, <1>6
  <2> HIDE DEF s, next
  <2>7. PairClaim(next, s.mem)
    BY <1>1, <1>6, <2>1, <2>3, <2>4, <2>5, <2>6, ChunkPairs
  <2> QED BY <2>2, <2>7
<1>9. next.at \in BlockSweeps \cup {"call"}
  BY <1>7 DEF BlockSweeps
<1> HIDE DEF s, next
<1> QED BY <1>1, <1>4, <1>8, <1>9, BlockOver
-----------------------------------------------------------------------------
(* A move between two places that have no word in common.                  *)
Inside(first, end) == \A a \in Int : first <= a /\ a < end => a \in Cells
Carries(m, n, from, to, c) ==
  \A b \in Cells : n[b] = IF to <= b /\ b < to + c THEN m[from + (b - to)] ELSE m[b]

LEMMA MoveIs ==
  ASSUME Sound_, Healthy = Cells, Cells \subseteq Nat, NEW s, s \in States, NEW from, NEW to, NEW c,
         from \in Int, to \in Int, c \in Nat,
         Inside(from, from + c), Inside(to, to + c), from + c <= to \/ to + c <= from
  PROVE  LET t == Move(s, from, to, c)
         IN  t \in States /\ t.errs = s.errs /\ Carries(s.mem, t.mem, from, to, c)
<1>0. PICK v : Moves(v, s, from, to, c)
  BY MoveSteps
<1>1. /\ v[0] = s /\ Move(s, from, to, c) = v[c]
      /\ \A n \in 0 .. c - 1 : v[n + 1] = MoveWord(v[n], from, to, n)
  BY <1>0 DEF Moves
<1> DEFINE Fine(n) == /\ v[n] \in States /\ v[n].errs = s.errs
                      /\ Carries(s.mem, v[n].mem, from, to, n)
           P == {n \in Nat : n <= c => Fine(n)}
<1>2. 0 \in P
  <2>1. \A b \in Cells : ~(to <= b /\ b < to + 0)
    OBVIOUS
  <2>2. Carries(s.mem, s.mem, from, to, 0)
    BY <2>1 DEF Carries
  <2> QED BY <1>1, <2>2
<1>3. ASSUME NEW n \in P PROVE n + 1 \in P
  <2> SUFFICES ASSUME n + 1 <= c PROVE Fine(n + 1)
    OBVIOUS
  <2> DEFINE z == v[n]
             o == from + n
             a == to + n
             y == Load(z.mem, o)
  <2>1. n \in Nat /\ n \in 0 .. c - 1 /\ Fine(n)
    OBVIOUS
  <2>2. v[n + 1] = Write(z, a, y)
    BY <1>1, <2>1 DEF MoveWord
  <2>3. o \in Int /\ a \in Int /\ o \in Cells /\ a \in Cells
    <3>1. from <= o /\ o < from + c /\ to <= a /\ a < to + c /\ o \in Int /\ a \in Int
      BY <2>1
    <3> HIDE DEF o, a
    <3> QED BY <3>1 DEF Inside
  <2>4. z \in States /\ z.errs = s.errs /\ z.mem \in [Cells -> Int]
        /\ Carries(s.mem, z.mem, from, to, n)
    BY <2>1, StateParts
  <2>5. ~(to <= o /\ o < to + n) /\ from + (a - to) = o
    BY <2>1
  <2>6. \A b \in Cells : b # a => ((to <= b /\ b < to + n) <=> (to <= b /\ b < to + (n + 1)))
    BY <2>1
  <2>7. to <= a /\ a < to + (n + 1)
    BY <2>1
  <2> HIDE DEF z, o, a, P, Fine
  <2>8. y = s.mem[o] /\ y \in Int
    <3>1. y = z.mem[o]
      BY <2>3, <2>4, LoadHealthy
    <3>2. z.mem[o] = s.mem[o]
      BY <2>3, <2>4, <2>5 DEF Carries
    <3> QED BY <2>3, <2>4, <3>1, <3>2
  <2> HIDE DEF y
  <2>9. Touched(z, Write(z, a, y), a, y) /\ Write(z, a, y).errs = z.errs
    BY <2>3, <2>4, <2>8, Wrote
  <2> DEFINE t == v[n + 1]
  <2>10. t \in States /\ t.errs = s.errs
         /\ \A b \in Cells : t.mem[b] = IF b = a THEN y ELSE z.mem[b]
    BY <2>2, <2>4, <2>9 DEF Touched
  <2> HIDE DEF t
  <2>11. ASSUME NEW b \in Cells
         PROVE  t.mem[b] = IF to <= b /\ b < to + (n + 1) THEN s.mem[from + (b - to)] ELSE s.mem[b]
    <3>1. CASE b = a
      BY <2>5, <2>7, <2>8, <2>10, <3>1
    <3>2. CASE b # a
      <4>1. z.mem[b] = IF to <= b /\ b < to + n THEN s.mem[from + (b - to)] ELSE s.mem[b]
        BY <2>4 DEF Carries
      <4>2. t.mem[b] = z.mem[b]
        BY <2>10, <3>2
      <4> QED BY <2>6, <3>2, <4>1, <4>2
    <3> QED BY <3>1, <3>2
  <2>12. Carries(s.mem, t.mem, from, to, n + 1)
    BY <2>11 DEF Carries
  <2> QED BY <2>10, <2>12 DEF Fine, t
<1>4. P = Nat
  <2>1. P \in SUBSET Nat
    OBVIOUS
  <2> HIDE DEF P
  <2> QED BY <1>2, <1>3, <2>1, Induction
<1>5. Fine(c)
  <2>1. c \in P /\ c <= c
    BY <1>4
  <2> HIDE DEF Fine
  <2> QED BY <2>1
<1> QED BY <1>1, <1>5

(* Pairs move as pairs, and those that nothing is moved to stay.           *)
LEMMA PairsMoved ==
  ASSUME NEW m, NEW n, NEW from, NEW to, NEW c, from \in Int, to \in Int, c \in Nat,
         from % 2 = 0, to % 2 = 0, c % 2 = 0, Cells \subseteq Nat, Inside(to, to + c),
         Carries(m, n, from, to, c)
  PROVE  /\ Paired(m, from, from + c) => Paired(n, to, to + c)
         /\ Elsewhere(m, n, to, to + c)
<1>1. ASSUME Paired(m, from, from + c), NEW b \in Int, to <= b, b < to + c, b % 2 = 0
      PROVE  n[b] = n[b + 1]
  <2> DEFINE d == b + 1
             x == from + (b - to)
  <2>1. d \in Int /\ to <= d /\ d < to + c /\ x \in Int /\ x % 2 = 0 /\ from <= x
        /\ x < from + c /\ from + (d - to) = x + 1
    BY <1>1
  <2> HIDE DEF d, x
  <2>2. b \in Cells /\ d \in Cells
    BY <1>1, <2>1 DEF Inside
  <2>3. n[b] = m[x]
    BY <1>1, <2>2 DEF Carries, x
  <2>4. n[d] = m[x + 1]
    <3>1. n[d] = m[from + (d - to)]
      BY <2>1, <2>2 DEF Carries
    <3> QED BY <2>1, <3>1
  <2>5. m[x] = m[x + 1]
    BY <1>1, <2>1 DEF Paired
  <2>6. n[b] = n[d]
    BY <2>3, <2>4, <2>5
  <2> QED BY <2>6 DEF d
<1>2. Paired(m, from, from + c) => Paired(n, to, to + c)
  BY <1>1 DEF Paired
<1>3. ASSUME NEW b \in Cells, b < to \/ b >= to + c PROVE n[b] = m[b]
  <2>1. n[b] = IF to <= b /\ b < to + c THEN m[from + (b - to)] ELSE m[b]
    BY DEF Carries
  <2>2. CASE ~(to <= b /\ b < to + c)
    BY <2>1, <2>2
  <2>3. CASE to <= b /\ b < to + c
    BY <1>3, <2>3
  <2> QED BY <2>2, <2>3
<1> QED BY <1>2, <1>3 DEF Elsewhere

LEMMA PairsStay ==
  ASSUME NEW m, NEW n, NEW first, NEW end, first \in Int, end \in Int,
         NEW lo, NEW hi, lo \in Int, hi \in Int, hi % 2 = 0, Inside(lo, hi),
         hi <= first \/ end <= lo, Elsewhere(m, n, first, end), Paired(m, lo, hi)
  PROVE  Paired(n, lo, hi)
<1>1. ASSUME NEW b \in Int, lo <= b, b < hi, b % 2 = 0 PROVE n[b] = n[b + 1]
  <2> DEFINE d == b + 1
  <2>1. d \in Int /\ lo <= d /\ d < hi
    BY <1>1
  <2>2. (b < first \/ b >= end) /\ (d < first \/ d >= end)
    BY <1>1, <2>1
  <2>3. m[b] = m[d]
    BY <1>1 DEF Paired
  <2> HIDE DEF d
  <2>4. b \in Cells /\ d \in Cells
    BY <1>1, <2>1 DEF Inside
  <2>5. n[b] = m[b] /\ n[d] = m[d]
    BY <2>2, <2>4 DEF Elsewhere
  <2>6. n[b] = n[d]
    BY <2>3, <2>5
  <2> QED BY <2>6 DEF d
<1> QED BY <1>1 DEF Paired

(* A part of a whole, and a whole of its parts.                            *)
LEMMA PairsPart ==
  ASSUME NEW m, NEW lo, NEW hi, NEW first, NEW end, lo \in Int, hi \in Int, first \in Int,
         end \in Int, first <= lo, hi <= end, Paired(m, first, end)
  PROVE  Paired(m, lo, hi)
BY DEF Paired
LEMMA PairsJoin ==
  ASSUME NEW m, NEW lo, NEW hi, NEW end, lo \in Int, hi \in Int, end \in Int,
         Paired(m, lo, hi), Paired(m, hi, end)
  PROVE  Paired(m, lo, end)
BY DEF Paired

(* A turn: the first half goes over the second, and the second, its end    *)
(* first, over the first.                                                  *)
LEMMA TurnPairs ==
  ASSUME StepInv, ClaimInv, here.at = "block_move", fault.kind = "none"
  PROVE  LET t == MoveOnce(State, here.p, Lim)
         IN  /\ t.errs = {} /\ Elsewhere(mem, t.mem, here.p, Lim)
             /\ Paired(t.mem, here.p, Lim) /\ here.p <= FillEnd(here.j)
<1>1. here.at \in BlockSweeps /\ TypeInv /\ PlaceInv(here)
  BY DEF BlockSweeps, StepInv
<1>2. /\ Sound_ /\ State \in States /\ State.mem = mem /\ State.errs = {}
      /\ PairClaim(here, mem) /\ Healthy = Cells /\ Cells \subseteq Nat
      /\ map \in Maps /\ here.j \in 1 .. segs
  BY <1>1, BlockBegins
<1> DEFINE p == here.p
           n == Lim - p
           len == n \div 2
           pp == p + len
           sh == ShiftWords
<1>3. /\ p \in Nat /\ Lim \in Nat /\ p < Lim /\ p % 4 = 0 /\ n % 4 = 0
  BY <1>1, ChunkEven
<1>4. /\ Lim <= End(here.j) /\ Start(here.j) <= p /\ BlockStart(here.j) <= p
      /\ ChunkRoom(n, Lim = End(here.j))
      /\ Lim <= FillEnd(here.j) \/ Lim = End(here.j)
      /\ FillEnd(here.j) = End(here.j) - (LastChunk(BlockStart(here.j), End(here.j)) % BlockWords)
      /\ Lim = End(here.j) => n = LastChunk(BlockStart(here.j), End(here.j))
  BY <1>1, BlockChunk
<1>5. BlockWords \in Nat /\ sh \in Nat /\ BlockWords = sh + sh /\ sh % 2 = 0
  BY BlocksFit, BlocksEven DEF BlockSizes
<1>6. /\ n \in Nat /\ n >= BlockWords /\ n >= 2 * (n % BlockWords)
      /\ n % BlockWords \in 0 .. BlockWords - 1
  BY <1>4 DEF ChunkRoom
<1>7. len \in Nat /\ sh <= len /\ len + len = n /\ len % 2 = 0
  <2> HIDE DEF n, sh
  <2> QED BY <1>3, <1>5, <1>6
<1>8. /\ End(here.j) \in Nat /\ Start(here.j) \in Nat /\ FillEnd(here.j) \in Int
      /\ BlockStart(here.j) \in Nat
  BY <1>2, Rooms, SegmentsEven
<1>9. pp <= FillEnd(here.j)
  <2> DEFINE y == n % BlockWords
  <2>1. y \in Nat /\ n >= 2 * y
    BY <1>6
  <2>2. Lim = End(here.j) => FillEnd(here.j) = Lim - y
    BY <1>4
  <2>3. Lim = p + n
    BY <1>3
  <2> HIDE DEF y
  <2>4. len <= n - y
    <3> HIDE DEF n
    <3> QED BY <1>6, <1>7, <2>1
  <2>5. /\ Lim \in Nat /\ p \in Nat /\ p < Lim /\ n \in Nat
        /\ Lim <= FillEnd(here.j) \/ Lim = End(here.j)
    BY <1>3, <1>4, <1>6
  <2> HIDE DEF n, len
  <2> QED BY <1>7, <1>8, <2>1, <2>2, <2>3, <2>4, <2>5
<1>10. Lim = p + n
  BY <1>3
<1> HIDE DEF n, len, sh
<1>11. /\ pp \in Nat /\ pp % 2 = 0 /\ p % 2 = 0 /\ p <= pp /\ Lim = pp + len /\ Lim % 2 = 0
       /\ p + sh \in Nat /\ (p + sh) % 2 = 0 /\ len - sh \in Nat /\ (len - sh) % 2 = 0
       /\ pp + len - sh \in Nat /\ (pp + len - sh) % 2 = 0 /\ pp <= pp + len - sh
       /\ p + sh <= pp
  <2>1. p \in Nat /\ p % 2 = 0 /\ sh \in Nat /\ sh % 2 = 0 /\ len \in Nat /\ len % 2 = 0 /\ sh <= len
    BY <1>3, <1>5, <1>7
  <2> HIDE DEF p
  <2>2. pp \in Nat /\ p <= pp /\ p + sh \in Nat /\ len - sh \in Nat /\ p + sh <= pp
    BY <2>1
  <2>3. pp % 2 = 0 /\ (p + sh) % 2 = 0 /\ (len - sh) % 2 = 0
    BY <2>1
  <2>4. Lim = pp + len
    <3>1. Lim = p + n /\ n = len + len
      BY <1>7, <1>10
    <3> QED BY <2>1, <3>1
  <2>5. Lim % 2 = 0
    <3> HIDE DEF pp
    <3> QED BY <2>1, <2>2, <2>3, <2>4
  <2>6. pp + len - sh \in Nat /\ (pp + len - sh) % 2 = 0 /\ pp <= pp + len - sh
    <3> HIDE DEF pp
    <3> QED BY <2>1, <2>2, <2>3
  <2> QED BY <2>1, <2>2, <2>3, <2>4, <2>5, <2>6
<1> DEFINE a == p + sh
           z == pp + len - sh
           c == len - sh
<1>12. a + c = pp /\ pp + c = z /\ z + sh = Lim /\ p + len = pp
  <2>1. p \in Nat /\ sh \in Nat /\ len \in Nat
    BY <1>3, <1>5, <1>7
  <2>2. Lim = pp + len
    BY <1>11
  <2> HIDE DEF p
  <2> QED BY <2>1, <2>2
<1>13. ASSUME NEW lo, lo \in Int, p <= lo, NEW hi, hi \in Int, hi <= Lim PROVE Inside(lo, hi)
  <2>1. ASSUME NEW b, b \in Int, lo <= b, b < hi PROVE b \in Cells
    <3>1. Start(here.j) <= b /\ b < End(here.j)
      BY <1>3, <1>4, <1>8, <1>13, <2>1
    <3> QED BY <1>2, <2>1, <3>1, SegmentCells
  <2> QED BY <2>1 DEF Inside
<1>14. Paired(mem, p, pp)
  <2>1. ASSUME NEW b \in Int, p <= b, b < pp, b % 2 = 0 PROVE mem[b] = mem[b + 1]
    <3>1. b < FillEnd(here.j) /\ b \in BlockStart(here.j) .. End(here.j) - 1
      BY <1>3, <1>4, <1>7, <1>8, <1>9, <1>11, <2>1
    <3>2. PairHeld(here, here.j, b)
      BY <3>1 DEF PairHeld
    <3> QED BY <1>2, <2>1, <3>1, <3>2 DEF PairClaim
  <2> QED BY <2>1 DEF Paired
<1> DEFINE s1 == Move(State, p, pp, len)
           s2 == Move(s1, pp, a, c)
           s3 == Move(s2, z, p, sh)
<1>15. MoveOnce(State, here.p, Lim) = s3
  BY DEF MoveOnce, n, len, sh
<1>0. /\ a \in Nat /\ a % 2 = 0 /\ c \in Nat /\ c % 2 = 0 /\ z \in Nat /\ z % 2 = 0
      /\ pp <= z /\ a <= pp /\ p <= a /\ z <= Lim
  BY <1>3, <1>5, <1>7, <1>11
<1> HIDE DEF p, pp, a, z, c
<1>16. /\ s1 \in States /\ s1.errs = {} /\ Paired(s1.mem, pp, Lim)
       /\ Elsewhere(mem, s1.mem, pp, Lim)
  <2>1. Inside(p, p + len) /\ Inside(pp, pp + len) /\ p + len <= pp
    <3>1. p \in Int /\ p <= p /\ pp \in Int /\ pp <= Lim /\ p <= pp /\ Lim \in Int /\ Lim <= Lim
      BY <1>3, <1>7, <1>11
    <3>2. Inside(p, pp) /\ Inside(pp, Lim) /\ pp <= pp
      BY <1>13, <3>1
    <3>3. p + len = pp /\ pp + len = Lim
      BY <1>11, <1>12
    <3> QED BY <3>2, <3>3
  <2>2. s1 \in States /\ s1.errs = State.errs /\ Carries(State.mem, s1.mem, p, pp, len)
    <3>1. p \in Int /\ pp \in Int
      BY <1>3, <1>11
    <3> QED BY <1>2, <1>7, <2>1, <3>1, MoveIs
  <2> HIDE DEF s1
  <2>3. /\ Paired(mem, p, p + len) => Paired(s1.mem, pp, pp + len)
        /\ Elsewhere(mem, s1.mem, pp, pp + len)
    <3>1. p \in Int /\ pp \in Int
      BY <1>3, <1>11
    <3> QED BY <1>2, <1>7, <1>11, <2>1, <2>2, <3>1, PairsMoved
  <2> QED BY <1>2, <1>11, <1>12, <1>14, <2>2, <2>3
<1> HIDE DEF s1
<1>17. /\ s2 \in States /\ s2.errs = {} /\ Paired(s2.mem, a, pp) /\ Paired(s2.mem, pp, Lim)
       /\ Elsewhere(s1.mem, s2.mem, a, pp)
  <2>1. /\ pp \in Int /\ a \in Int /\ Lim \in Int /\ z \in Int
        /\ p <= pp /\ p <= a /\ pp <= Lim /\ z <= Lim /\ a <= pp
    BY <1>0, <1>3, <1>7, <1>11
  <2>2. Inside(pp, pp + c) /\ Inside(a, a + c) /\ Inside(pp, Lim) /\ a + c <= pp
    <3>1. pp + c \in Int /\ a + c \in Int /\ Lim <= Lim /\ pp <= pp
      BY <1>12, <2>1
    <3> QED BY <1>12, <1>13, <2>1, <3>1
  <2>3. s2 \in States /\ s2.errs = s1.errs /\ Carries(s1.mem, s2.mem, pp, a, c)
    BY <1>0, <1>2, <1>16, <2>1, <2>2, MoveIs
  <2> HIDE DEF s2
  <2>4. /\ Paired(s1.mem, pp, pp + c) => Paired(s2.mem, a, a + c)
        /\ Elsewhere(s1.mem, s2.mem, a, a + c)
    BY <1>0, <1>2, <1>11, <2>1, <2>2, <2>3, PairsMoved
  <2>5. Paired(s1.mem, pp, z)
    <3>1. pp <= pp
      BY <2>1
    <3> QED BY <1>16, <2>1, <3>1, PairsPart
  <2>6. Paired(s2.mem, pp, Lim)
    <3>1. pp <= pp
      BY <2>1
    <3>2. Elsewhere(s1.mem, s2.mem, a, pp)
      BY <1>12, <2>4
    <3> QED BY <1>11, <1>16, <2>1, <2>2, <3>1, <3>2, PairsStay
  <2> QED BY <1>12, <1>16, <2>3, <2>4, <2>5, <2>6
<1> HIDE DEF s2
<1>18. /\ s3 \in States /\ s3.errs = {} /\ Paired(s3.mem, p, a) /\ Paired(s3.mem, a, pp)
       /\ Paired(s3.mem, pp, Lim) /\ Elsewhere(s2.mem, s3.mem, p, a)
  <2>1. /\ pp \in Int /\ a \in Int /\ Lim \in Int /\ z \in Int /\ p \in Int
        /\ p <= pp /\ p <= a /\ pp <= Lim /\ z <= Lim /\ a <= pp /\ pp <= z /\ p <= z
        /\ a <= Lim /\ p <= p /\ Lim <= Lim /\ a <= a /\ p + sh = a /\ a <= z
        /\ sh \in Nat /\ sh % 2 = 0
    BY <1>0, <1>3, <1>5, <1>7, <1>11 DEF a
  <2>2. Inside(z, Lim) /\ Inside(p, a) /\ Inside(a, pp) /\ Inside(pp, Lim)
    BY <1>13, <2>1
  <2>3. Inside(z, z + sh) /\ Inside(p, p + sh) /\ p + sh <= z
    BY <1>12, <2>1, <2>2
  <2>4. s3 \in States /\ s3.errs = s2.errs /\ Carries(s2.mem, s3.mem, z, p, sh)
    BY <1>2, <1>17, <2>1, <2>3, MoveIs
  <2> HIDE DEF s3
  <2>5. /\ Paired(s2.mem, z, z + sh) => Paired(s3.mem, p, p + sh)
        /\ Elsewhere(s2.mem, s3.mem, p, p + sh)
    BY <1>0, <1>2, <1>11, <2>1, <2>3, <2>4, PairsMoved
  <2>6. Paired(s2.mem, z, Lim)
    BY <1>17, <2>1, PairsPart
  <2>7. Elsewhere(s2.mem, s3.mem, p, a)
    BY <2>1, <2>5
  <2>8. Paired(s3.mem, a, pp)
    BY <1>11, <1>17, <2>1, <2>2, <2>7, PairsStay
  <2>9. Paired(s3.mem, pp, Lim)
    BY <1>11, <1>17, <2>1, <2>2, <2>7, PairsStay
  <2> QED BY <1>12, <1>17, <2>1, <2>4, <2>5, <2>6, <2>7, <2>8, <2>9
<1> HIDE DEF s3
<1>19. p \in Int /\ a \in Int /\ pp \in Int /\ Lim \in Int /\ p <= a /\ a <= pp /\ pp <= Lim
  BY <1>0, <1>3, <1>7, <1>11
<1>20. Paired(s3.mem, p, Lim)
  <2>1. Paired(s3.mem, p, pp)
    BY <1>18, <1>19, PairsJoin
  <2> QED BY <1>18, <1>19, <2>1, PairsJoin
<1>21. Elsewhere(mem, s3.mem, p, Lim)
  <2>1. ASSUME NEW b \in Cells, b < p \/ b >= Lim PROVE s3.mem[b] = mem[b]
    <3>1. b \in Int
      BY <1>2
    <3>2. /\ b < pp \/ b >= Lim
          /\ b < a \/ b >= pp
          /\ b < p \/ b >= a
      BY <1>19, <2>1, <3>1
    <3>3. s1.mem[b] = mem[b] /\ s2.mem[b] = s1.mem[b] /\ s3.mem[b] = s2.mem[b]
      BY <1>16, <1>17, <1>18, <3>2 DEF Elsewhere
    <3> QED BY <3>3
  <2> QED BY <2>1 DEF Elsewhere
<1>22. here.p <= FillEnd(here.j)
  BY <1>8, <1>9, <1>11, <1>3 DEF p
<1> QED BY <1>15, <1>18, <1>20, <1>21, <1>22 DEF p

LEMMA MoveSound ==
  ASSUME StepInv, ClaimInv, BlockMove
  PROVE  ClaimInv'
<1>1. here.at = "block_move" /\ here.at \in BlockSweeps /\ InTest
  BY DEF BlockMove, At, BlockSweeps, InTest
<1>2. /\ TypeInv /\ PlaceInv(here) /\ map \in Maps /\ here \in Places /\ here.j \in 1 .. segs
      /\ pat = 7 /\ here.i \in Nat
  BY <1>1, InTestFacts DEF StepInv, TestsOf
<1>3. /\ Lim \in Nat /\ here.p \in Nat /\ here.p < Lim /\ Lim % 4 = 0 /\ here.p = here.pe
      /\ Lim <= End(here.j) /\ End(here.j) \in Nat
  BY <1>1, <1>2, ChunkEven, BlockChunk, SegmentsEven
<1>4. arg.iter # 0
  BY <1>1, <1>2, InTestFacts DEF StepInv, ArgInv
<1> DEFINE on == IF Lim < End(here.j)
                 THEN Place("block_move", 0, here.j, Lim, Lim, 0, 0)
                 ELSE IF here.j < segs THEN BlockUp("block_move", here.j + 1)
                 ELSE BlockUp("block_check", 1)
           next == IF here.i + 1 < arg.iter THEN [here EXCEPT !.i = @ + 1] ELSE on
           s == MoveOnce(State, here.p, Lim)
<1>5. Tick(s, next)
  BY <1>3, <1>4 DEF BlockMove, Lim
<1>6. next.at \in {"block_move", "block_check"}
  BY <1>1, <1>2 DEF BlockUp, Place, Places
<1>7. ASSUME fault.kind = "none" PROVE s.errs = {} /\ PairClaim(next, s.mem)
  <2>1. PairClaim(here, mem)
    BY <1>1, <1>7, BlockBegins
  <2>2. /\ s.errs = {} /\ Elsewhere(mem, s.mem, here.p, Lim)
        /\ Paired(s.mem, here.p, Lim) /\ here.p <= FillEnd(here.j)
    BY <1>1, <1>7, TurnPairs
  <2>3. ASSUME NEW j \in 1 .. segs, NEW b \in BlockStart(j) .. End(j) - 1, PairHeld(next, j, b)
        PROVE  PairHeld(here, j, b) \/ (j = here.j /\ here.p <= b /\ b < Lim)
    <3>1. /\ j \in Int /\ b \in Int /\ here.j \in Int /\ FillEnd(j) \in Int
          /\ b < End(j) /\ End(j) \in Nat /\ segs \in Nat
      BY <1>2, SegmentsEven, MapFacts
    <3>2. b < FillEnd(j) \/ j < here.j \/ (j = here.j /\ b < Lim)
      <4>1. CASE here.i + 1 < arg.iter
        <5>1. next.at = "block_move" /\ next.j = here.j /\ next.pe = here.pe
          BY <1>1, <1>2, <4>1 DEF Places
        <5> HIDE DEF next
        <5>2. \/ b < FillEnd(j) \/ j < here.j
              \/ j = here.j /\ b < Limit(here.pe, End(j))
          BY <2>3, <5>1 DEF PairHeld
        <5> QED BY <5>2 DEF Lim
      <4>2. CASE ~(here.i + 1 < arg.iter) /\ Lim < End(here.j)
        <5>1. next.at = "block_move" /\ next.j = here.j /\ next.i = 0
          BY <4>2 DEF Place
        <5> HIDE DEF next
        <5> QED BY <2>3, <5>1 DEF PairHeld
      <4>3. CASE ~(here.i + 1 < arg.iter) /\ ~(Lim < End(here.j)) /\ here.j < segs
        <5>1. next.at = "block_move" /\ next.j = here.j + 1 /\ next.i = 0
          BY <4>3 DEF BlockUp, Place
        <5>2. Lim = End(here.j)
          BY <1>3, <4>3
        <5> HIDE DEF next
        <5>3. b < FillEnd(j) \/ j < here.j + 1
          BY <2>3, <5>1 DEF PairHeld
        <5> QED BY <3>1, <5>2, <5>3
      <4>4. CASE ~(here.j < segs) /\ ~(Lim < End(here.j))
        <5>1. j < here.j \/ j = here.j
          BY <3>1, <4>4
        <5>2. Lim = End(here.j)
          BY <1>3, <4>4
        <5> QED BY <3>1, <5>1, <5>2
      <4> QED BY <4>1, <4>2, <4>3, <4>4
    <3>3. b < FillEnd(j) \/ j < here.j => PairHeld(here, j, b)
      BY <1>1 DEF PairHeld
    <3> QED BY <1>3, <2>2, <3>1, <3>2, <3>3
  <2>4. Lim \in Int /\ Lim % 2 = 0
    BY <1>3
  <2> HIDE DEF s, next
  <2>5. PairClaim(next, s.mem)
    BY <1>1, <1>3, <2>1, <2>2, <2>3, <2>4, ChunkPairs
  <2> QED BY <2>2, <2>5
<1>8. next.at \in BlockSweeps \cup {"call"}
  BY <1>6 DEF BlockSweeps
<1> HIDE DEF s, next
<1> QED BY <1>1, <1>5, <1>7, <1>8, BlockOver

-----------------------------------------------------------------------------
(* The check: it finds no two words that differ.                           *)
LEMMA PairsFound ==
  ASSUME StepInv, ClaimInv, here.at = "block_check", fault.kind = "none"
  PROVE  PairSweep.errs = {} /\ PairSweep.mem = mem
<1>1. /\ TypeInv /\ PlaceInv(here) /\ here.at \in Visited /\ here.at \in BlockSweeps
  BY DEF StepInv, Visited, BlockSweeps
<1>2. /\ Sound_ /\ State \in States /\ State.mem = mem /\ State.errs = {} /\ Healthy = Cells
      /\ map \in Maps /\ Cells \subseteq Nat /\ PairClaim(here, mem) /\ here.j \in 1 .. segs
      /\ mem \in [Cells -> Int]
  BY <1>1, BlockBegins
<1>3. /\ Lim \in Nat /\ here.p \in Nat /\ here.p < Lim /\ here.p % 4 = 0 /\ Lim % 4 = 0
      /\ Lim <= End(here.j) /\ BlockStart(here.j) <= here.p /\ Start(here.j) <= here.p
  BY <1>1, ChunkEven, BlockChunk
<1>4. /\ End(here.j) \in Nat /\ Start(here.j) \in Nat /\ BlockStart(here.j) \in Nat
  BY <1>2, Rooms
<1> DEFINE c == Visits(here.p, Lim, 2)
           two == 2
           p == here.p
<1>5. c \in Nat /\ \A n \in 0 .. c - 1 : /\ p + n * two \in Int /\ p <= p + n * two
                                         /\ p + n * two < Lim /\ (p + n * two) % 2 = 0
  BY <1>3 DEF Visits
<1>6. two \in Int /\ p \in Int /\ PairSweep = Sweep(p, two, c)
  BY <1>3 DEF PairSweep
<1> HIDE DEF two, c
<1>0. PICK f : Swept_(f, p, two, c)
  BY <1>1, <1>5, <1>6, SweepSteps
<1>7. /\ f[0] = State /\ Sweep(p, two, c) = f[c]
      /\ \A n \in 0 .. c - 1 : f[n + 1] = Visit(f[n], p + n * two)
  BY <1>0 DEF Swept_
<1> DEFINE Fine(n) == f[n] \in States /\ f[n].errs = {} /\ f[n].mem = mem
           P == {n \in Nat : n <= c => Fine(n)}
<1>8. 0 \in P
  BY <1>2, <1>7
<1>9. ASSUME NEW n \in P PROVE n + 1 \in P
  <2> SUFFICES ASSUME n + 1 <= c PROVE Fine(n + 1)
    OBVIOUS
  <2> DEFINE a == p + n * two
             d == a + 1
             x == f[n]
             y == Load(x.mem, d)
  <2>1. n \in Nat /\ n \in 0 .. c - 1 /\ Fine(n)
    BY <1>5
  <2>2. a \in Int /\ p <= a /\ a < Lim /\ a % 2 = 0
    BY <1>5, <2>1
  <2>3. f[n + 1] = Visit(x, a)
    BY <1>7, <2>1
  <2> HIDE DEF a, p
  <2>4. Visit(x, a) = Check(x, a, y)
    BY DEF Visit, At
  <2>5. x \in States /\ x.errs = {} /\ x.mem = mem
    BY <2>1
  <2>6. d \in Int /\ d < Lim /\ p <= d
    <3>1. p \in Int
      BY <1>6
    <3> QED BY <1>3, <2>2, <3>1
  <2>7. a \in BlockStart(here.j) .. End(here.j) - 1 /\ Start(here.j) <= a /\ a < End(here.j)
        /\ Start(here.j) <= d /\ d < End(here.j)
    <3>1. BlockStart(here.j) <= p /\ Start(here.j) <= p /\ p \in Int
      BY <1>3, <1>6 DEF p
    <3> HIDE DEF d
    <3> QED BY <1>3, <1>4, <2>2, <2>6, <3>1
  <2>8. mem[a] = mem[d]
    <3>1. PairHeld(here, here.j, a)
      BY DEF PairHeld
    <3> QED BY <1>2, <2>2, <2>7, <3>1 DEF PairClaim
  <2> HIDE DEF d, x, y, Fine
  <2>9. a \in Cells /\ d \in Cells
    BY <1>2, <2>2, <2>6, <2>7, SegmentCells
  <2>10. y = mem[a]
    <3>1. DOMAIN x.mem = Cells
      BY <1>2, <2>5
    <3>2. Load(x.mem, d) = x.mem[d]
      BY <1>2, <2>9, <3>1, LoadHealthy
    <3> QED BY <2>5, <2>8, <3>2 DEF y
  <2>11. /\ Check(x, a, y) \in States /\ Check(x, a, y).errs = {}
         /\ Check(x, a, y).mem = x.mem
    <3>1. Check(x, a, y) \in States /\ Check(x, a, y).mem = x.mem
      BY <2>2, <2>5, CheckIs
    <3>2. Check(x, a, y).errs = x.errs
      BY <1>2, <2>2, <2>5, <2>9, <2>10, Checked
    <3> QED BY <2>5, <3>1, <3>2
  <2> QED BY <2>3, <2>4, <2>5, <2>11 DEF Fine
<1>10. P = Nat
  <2>1. P \in SUBSET Nat
    OBVIOUS
  <2> HIDE DEF P
  <2> QED BY <1>8, <1>9, <2>1, Induction
<1>11. Fine(c)
  <2>1. c \in P /\ c <= c
    BY <1>5, <1>10
  <2> HIDE DEF Fine
  <2> QED BY <2>1
<1> QED BY <1>6, <1>7, <1>11

LEMMA CheckSound ==
  ASSUME StepInv, ClaimInv, BlockCheck
  PROVE  ClaimInv'
<1>1. here.at = "block_check" /\ here.at \in BlockSweeps
  BY DEF BlockCheck, At, BlockSweeps
<1>2. TypeInv /\ PlaceInv(here) /\ here \in Places
  BY DEF StepInv, TypeInv
<1>3. Lim \in Nat /\ here.p \in Nat /\ here.p < Lim
  BY <1>1, ChunkEven
<1> DEFINE p == here.p + (Visits(here.p, Lim, 2) * 2)
           next == IF Lim < End(here.j) THEN [here EXCEPT !.p = p, !.pe = Lim]
                   ELSE IF here.j < segs THEN BlockUp(here.at, here.j + 1) ELSE Return
<1>4. Tick(PairSweep, next)
  BY <1>1, <1>3 DEF BlockCheck, PairSweep, Lim
<1> HIDE DEF p
<1>5. next.at \in {"block_check", "call"}
  BY <1>1, <1>2 DEF BlockUp, Place, Places, Return
<1> HIDE DEF next
<1>6. ASSUME fault.kind = "none", next.at \in BlockSweeps PROVE PairClaim(next, mem)
  <2>1. PairClaim(here, mem)
    BY <1>1, <1>6, BlockBegins
  <2>2. next.at = "block_check"
    BY <1>5, <1>6 DEF BlockSweeps
  <2>3. \A j, b : PairHeld(here, j, b)
    BY <1>1 DEF PairHeld
  <2> QED BY <2>1, <2>3 DEF PairClaim
<1>7. fault.kind = "none" =>
        PairSweep.errs = {} /\ (next.at \in BlockSweeps => PairClaim(next, PairSweep.mem))
  BY <1>1, <1>6, PairsFound
<1>8. next.at \in BlockSweeps \cup {"call"}
  BY <1>5 DEF BlockSweeps
<1> QED BY <1>1, <1>4, <1>7, <1>8, BlockOver
-----------------------------------------------------------------------------
(* Every step of every test keeps what its reports rest on.                *)
LEMMA InitClaim ==
  ASSUME Init
  PROVE  ClaimInv
<1>1. errs = {} /\ here.at = "call"
  BY DEF Init, Return, Place
<1> QED BY <1>1 DEF ClaimInv, Claiming, Plain, Ups, Downs, Strides, FadeSweeps, BlockSweeps

LEMMA NextClaim ==
  ASSUME StepInv, ClaimInv, Seeded, BanksInOrder(map), WalksFrom(map), [Next]_vars
  PROVE  ClaimInv'
<1>1. CASE Switch
  BY <1>1, SwitchSound
<1>2. CASE TestDone \/ Finished \/ UNCHANGED vars
  BY <1>2, StillSound
<1>3. CASE RandSeed
  BY <1>3, SeedSound
<1>4. CASE sleep
  BY <1>4, SleepSound
<1>5. CASE Addr1Global
  BY <1>5, GlobalSound
<1>6. CASE Addr1Banks
  BY <1>6, BanksSound
<1>7. CASE \/ Addr2Write \/ Addr2Check \/ MovInv1Fill \/ MovInv1Up \/ MovInv32Fill
           \/ MovInv32Up \/ ModRest \/ RandFill \/ RandCheck
  BY <1>7, UpActions, UpSound
<1>8. CASE MovInv1Down \/ MovInv32Down
  BY <1>8, DownActions, DownSound
<1>9. CASE ModWrite \/ ModCheck
  BY <1>9, StrideActions, StrideSound
<1>10. CASE BlockFill
  BY <1>10, FillSound
<1>11. CASE BlockMove
  BY <1>11, MoveSound
<1>12. CASE BlockCheck
  BY <1>12, CheckSound
<1>13. CASE FadeFill \/ FadeCheck
  BY <1>13, FadeSound
<1> QED BY <1>1, <1>2, <1>3, <1>4, <1>5, <1>6, <1>7, <1>8, <1>9, <1>10, <1>11, <1>12, <1>13 DEF Next

LEMMA ClaimErrors ==
  ASSUME ClaimInv
  PROVE  ErrorsTrue
<1>1. Trusted => errs \subseteq Broken
  BY DEF ClaimInv
<1>2. fault.kind = "none" => errs = {}
  BY <1>1 DEF Trusted, Broken
<1>3. fault.kind # "none" /\ pat \notin {5, 7} => errs \subseteq {fault.cell, fault.other}
  BY <1>1 DEF Trusted, Broken
<1> QED BY <1>2, <1>3 DEF ErrorsTrue
-----------------------------------------------------------------------------
(* Everything keeps its type, whatever the memory does: patterns and what  *)
(* is read are words, pointers stay in the segments, and what is reported  *)
(* is an address (test.c).                                                 *)
THEOREM TypesAlwaysRight ==
  ASSUME \A m \in Maps : BanksInOrder(m)
  PROVE  Spec => []TypeOK
<1>1. StepInv /\ [Next]_vars => StepInv'
  BY NextStep DEF StepInv, TypeInv
<1> QED BY <1>1, InitStep, StepTypes, PTL DEF Spec

(* Memory is written in the segments only, but by the first part of the    *)
(* address test.  When a key has ended a test, in a tick or in the report  *)
(* of an error, at most the words of a chunk have been written after it    *)
(* (not so by the address test), and no more are.                          *)
THEOREM WritesAlwaysAllowed ==
  ASSUME \A m \in Maps : BanksInOrder(m)
  PROVE  Spec => WritesAllowed
<1>1. StepInv /\ [Next]_vars => StepInv'
  BY NextStep DEF StepInv, TypeInv
<1>2. StepInv /\ [Next]_vars => [bail => mem' = mem]_vars
  BY BailStep
<1> QED BY <1>1, <1>2, InitStep, StepTypes, PTL DEF Spec, WritesAllowed, KeyStopsWriting

(* What is reported is true: sound memory is never reported, and of bad    *)
(* memory only what is bad, by the tests that can tell, however the        *)
(* chunks, segments, iterations and keys fall.  The random test needs      *)
(* seeds that are not 0, which rand_seed() would not take (random.c:27),   *)
(* and the address test a first segment whose rounded start is memory      *)
(* (test.c:48).                                                            *)
THEOREM ErrorsAlwaysTrue ==
  ASSUME Seeded, \A m \in Maps : BanksInOrder(m) /\ WalksFrom(m)
  PROVE  Spec => []ErrorsTrue
<1>1. StepInv => map \in Maps
  BY DEF StepInv, TypeInv
<1>2. StepInv /\ [Next]_vars => StepInv'
  BY <1>1, NextStep
<1>3. StepInv /\ ClaimInv /\ [Next]_vars => ClaimInv'
  BY <1>1, NextClaim
<1> QED BY <1>2, <1>3, InitStep, InitClaim, ClaimErrors, PTL DEF Spec
=============================================================================
