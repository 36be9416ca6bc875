------------------------------- MODULE RecordProofs -------------------------------
(* Theorems about what is only computed, and the properties of MCPoweredBoard that sample *)
(* it: how values are packed into registers and taken out of them again, for any numbers  *)
(* of beams and scalers, and the arithmetic on times, for any clock of the board.         *)
EXTENDS MCPoweredBoard, FiniteSetTheorems, WellFoundedInduction, TLAPS

-----------------------------------------------------------------------------
\* A set of numbers has a smallest.

Less == OpToRel(<, Nat)

LEMMA LessDef == \A x, y \in Nat : <<x, y>> \in Less <=> x < y
BY Zenon DEF Less, OpToRel

LEMMA Smallest ==
    ASSUME NEW S \in SUBSET Nat, S # {}
    PROVE  \E x \in S : \A y \in S : x <= y
<1>1. IsWellFoundedOn(Less, Nat)
  BY NatLessThanWellFounded, Zenon DEF Less
<1>2. PICK x \in S : \A y \in S : ~ (<<y, x>> \in Less)
  BY <1>1, WFMin, Zenon
<1>3. ASSUME NEW y \in S PROVE x <= y
  <2>1. x \in Nat /\ y \in Nat
    OBVIOUS
  <2>2. ~ (y < x)
    BY <1>2, <1>3, <2>1, LessDef
  <2> QED
    BY <2>1, <2>2
<1> QED
  BY <1>3

-----------------------------------------------------------------------------
\* The sum of a function over a finite set, whatever the order of its elements.

Sel(s) == CHOOSE x \in s : TRUE

\* g is the sum of f, by subset of S.
Sums(f, S, g) ==
    g = [s \in SUBSET S |-> IF s = {} THEN 0 ELSE f[Sel(s)] + g[s \ {Sel(s)}]]

SumOf(f, S) == (CHOOSE g : Sums(f, S, g))[S]

LEMMA SumDef == ASSUME NEW f PROVE SumFunction(f) = SumOf(f, DOMAIN f)
BY DEF SumFunction, SumFunctionOnSet, FoldFunctionOnSet, MapThenFoldSet, SumOf, Sums, Sel

LEMMA SelIn == \A s : s # {} => Sel(s) \in s
BY DEF Sel

\* Of some finite sets one has the fewest elements.
LEMMA Fewest ==
    ASSUME NEW S, IsFiniteSet(S), NEW bad \in SUBSET SUBSET S, bad # {}
    PROVE  \E s \in bad : /\ IsFiniteSet(s)
                          /\ \A x \in s : s \ {x} \notin bad
<1> DEFINE sizes == {Cardinality(s) : s \in bad}
<1>1. \A s \in bad : IsFiniteSet(s) /\ Cardinality(s) \in Nat
  BY FS_Subset, FS_CardinalityType
<1>2. PICK n \in sizes : \A m \in sizes : n <= m
  <2>1. sizes \in SUBSET Nat /\ sizes # {}
    BY <1>1
  <2> HIDE DEF sizes
  <2> QED
    BY <2>1, Smallest
<1>3. PICK s \in bad : Cardinality(s) = n
  OBVIOUS
<1>4. ASSUME NEW x \in s, s \ {x} \in bad PROVE FALSE
  <2>1. Cardinality(s \ {x}) = n - 1 /\ n \in Nat
    BY <1>1, <1>3, FS_RemoveElement
  <2>2. Cardinality(s \ {x}) \in sizes
    BY <1>4
  <2> HIDE DEF sizes
  <2> QED
    BY <1>2, <2>1, <2>2
<1> QED
  BY <1>1, <1>4

LEMMA SumsAgree ==
    ASSUME NEW f, NEW S, IsFiniteSet(S), NEW T, NEW g, NEW h, Sums(f, S, g), Sums(f, T, h),
           NEW s \in SUBSET S, s \subseteq T
    PROVE  g[s] = h[s]
<1> DEFINE bad == {u \in SUBSET S : u \subseteq T /\ g[u] # h[u]}
<1>1. SUFFICES ASSUME bad # {} PROVE FALSE
  OBVIOUS
<1>2. PICK u \in bad : \A x \in u : u \ {x} \notin bad
  <2>1. bad \in SUBSET SUBSET S
    OBVIOUS
  <2> HIDE DEF bad
  <2> QED
    BY <1>1, <2>1, Fewest
<1>3. u \in SUBSET S /\ u \in SUBSET T /\ g[u] # h[u]
  OBVIOUS
<1>4. CASE u = {}
  BY <1>3, <1>4 DEF Sums
<1>5. CASE u # {}
  <2> DEFINE v == u \ {Sel(u)}
  <2>1. Sel(u) \in u
    BY <1>5, SelIn
  <2>2. v \in SUBSET S /\ v \in SUBSET T /\ g[v] = h[v]
    BY <1>2, <1>3, <2>1
  <2>3. g[u] = f[Sel(u)] + g[v] /\ h[u] = f[Sel(u)] + h[v]
    BY <1>3, <1>5 DEF Sums
  <2> QED
    BY <1>3, <2>2, <2>3
<1> QED
  BY <1>4, <1>5

LEMMA SumsExist ==
    ASSUME NEW f, NEW S, IsFiniteSet(S)
    PROVE  \E g : Sums(f, S, g)
<1> DEFINE bad == {s \in SUBSET S : ~ \E g : Sums(f, s, g)}
           G(s) == CHOOSE g : Sums(f, s, g)
<1>1. SUFFICES ASSUME bad # {} PROVE FALSE
  OBVIOUS
<1>2. PICK t \in bad : IsFiniteSet(t) /\ \A x \in t : t \ {x} \notin bad
  <2>1. bad \in SUBSET SUBSET S
    OBVIOUS
  <2> HIDE DEF bad
  <2> QED
    BY <1>1, <2>1, Fewest
<1>3. ASSUME NEW s \in SUBSET t, s # t PROVE Sums(f, s, G(s)) /\ IsFiniteSet(s)
  <2>1. PICK x \in t : s \subseteq t \ {x}
    BY <1>3
  <2>2. PICK g : Sums(f, t \ {x}, g)
    BY <1>2
  <2>3. Sums(f, s, [u \in SUBSET s |-> g[u]])
    <3> DEFINE h == [u \in SUBSET s |-> g[u]]
    <3>1. ASSUME NEW u \in SUBSET s
          PROVE  h[u] = IF u = {} THEN 0 ELSE f[Sel(u)] + h[u \ {Sel(u)}]
      <4>1. u \in SUBSET (t \ {x}) /\ u \ {Sel(u)} \in SUBSET s
        BY <2>1
      <4>2. g[u] = IF u = {} THEN 0 ELSE f[Sel(u)] + g[u \ {Sel(u)}]
        BY <2>2, <4>1 DEF Sums
      <4> QED
        BY <4>1, <4>2
    <3> QED
      BY <3>1 DEF Sums
  <2> QED
    BY <1>2, <2>3, FS_Subset
<1> DEFINE h == [s \in SUBSET t |->
                    IF s = {} THEN 0 ELSE f[Sel(s)] + G(s \ {Sel(s)})[s \ {Sel(s)}]]
<1> HIDE DEF G
<1>4. ASSUME NEW s \in SUBSET t, s # t PROVE h[s] = G(s)[s]
  <2>1. Sums(f, s, G(s)) /\ s \in SUBSET s
    BY <1>3, <1>4
  <2>2. CASE s = {}
    BY <2>1, <2>2 DEF Sums
  <2>3. CASE s # {}
    <3> DEFINE u == s \ {Sel(s)}
    <3>1. Sel(s) \in s /\ u \in SUBSET t /\ u # t /\ u \in SUBSET s
      BY <1>4, <2>3, SelIn
    <3>2. G(s)[s] = f[Sel(s)] + G(s)[u]
      BY <2>1, <2>3 DEF Sums
    <3>3. Sums(f, u, G(u)) /\ IsFiniteSet(s)
      BY <1>3, <1>4, <3>1
    <3> HIDE DEF u
    <3>4. G(s)[u] = G(u)[u]
      BY <2>1, <3>1, <3>3, SumsAgree
    <3> QED
      BY <2>3, <3>2, <3>4 DEF u
  <2> QED
    BY <2>2, <2>3
<1>5. Sums(f, t, h)
  <2>1. ASSUME NEW s \in SUBSET t
        PROVE  h[s] = IF s = {} THEN 0 ELSE f[Sel(s)] + h[s \ {Sel(s)}]
    <3>1. CASE s # {}
      <4>1. s \ {Sel(s)} \in SUBSET t /\ s \ {Sel(s)} # t
        BY <3>1, SelIn
      <4>2. h[s \ {Sel(s)}] = G(s \ {Sel(s)})[s \ {Sel(s)}]
        BY <1>4, <4>1
      <4> QED
        BY <3>1, <4>2
    <3>2. CASE s = {}
      BY <3>2
    <3> QED
      BY <3>1, <3>2
  <2> QED
    BY <2>1 DEF Sums
<1> HIDE DEF h
<1> QED
  BY <1>5

LEMMA SumEmpty == \A f : SumOf(f, {}) = 0
<1> SUFFICES ASSUME NEW f PROVE SumOf(f, {}) = 0
  OBVIOUS
<1>1. Sums(f, {}, CHOOSE g : Sums(f, {}, g))
  BY SumsExist, FS_EmptySet
<1> QED
  BY <1>1 DEF SumOf, Sums

LEMMA SumStep ==
    ASSUME NEW f, NEW S, IsFiniteSet(S), S # {}
    PROVE  SumOf(f, S) = f[Sel(S)] + SumOf(f, S \ {Sel(S)})
<1> DEFINE T == S \ {Sel(S)}
           G(s) == CHOOSE g : Sums(f, s, g)
<1>1. IsFiniteSet(T) /\ T \in SUBSET S /\ T \in SUBSET T
  BY FS_Subset
<1>2. Sums(f, S, G(S)) /\ Sums(f, T, G(T))
  BY <1>1, SumsExist
<1>3. SumOf(f, S) = G(S)[S] /\ SumOf(f, T) = G(T)[T]
  BY DEF SumOf
<1> HIDE DEF G
<1>4. G(S)[S] = f[Sel(S)] + G(S)[T]
  BY <1>2 DEF Sums
<1> HIDE DEF T
<1>5. G(S)[T] = G(T)[T]
  BY <1>1, <1>2, SumsAgree
<1> QED
  BY <1>3, <1>4, <1>5 DEF T

LEMMA SumInt ==
    ASSUME NEW f, NEW S, IsFiniteSet(S), \A x \in S : f[x] \in Int, NEW T \in SUBSET S
    PROVE  SumOf(f, T) \in Int
<1> DEFINE bad == {s \in SUBSET S : SumOf(f, s) \notin Int}
<1>1. SUFFICES ASSUME bad # {} PROVE FALSE
  OBVIOUS
<1>2. PICK s \in bad : IsFiniteSet(s) /\ \A x \in s : s \ {x} \notin bad
  <2>1. bad \in SUBSET SUBSET S
    OBVIOUS
  <2> HIDE DEF bad
  <2> QED
    BY <1>1, <2>1, Fewest
<1>3. s \in SUBSET S /\ SumOf(f, s) \notin Int /\ \A x \in s : SumOf(f, s \ {x}) \in Int
  BY <1>2
<1>4. s # {}
  BY <1>3, SumEmpty
<1>5. Sel(s) \in s /\ SumOf(f, s) = f[Sel(s)] + SumOf(f, s \ {Sel(s)})
  BY <1>2, <1>4, SelIn, SumStep
<1> QED
  BY <1>3, <1>5

\* The elements can be added in any order.
LEMMA SumRemove ==
    ASSUME NEW f, NEW S, IsFiniteSet(S), \A x \in S : f[x] \in Int
    PROVE  SumOf(f, S) \in Int /\ \A y \in S : SumOf(f, S) = f[y] + SumOf(f, S \ {y})
<1> DEFINE Good(s) == SumOf(f, s) \in Int /\ \A y \in s : SumOf(f, s) = f[y] + SumOf(f, s \ {y})
           bad == {s \in SUBSET S : ~Good(s)}
<1>1. SUFFICES ASSUME bad # {} PROVE FALSE
  OBVIOUS
<1>2. PICK s \in bad : IsFiniteSet(s) /\ \A x \in s : s \ {x} \notin bad
  <2>1. bad \in SUBSET SUBSET S
    OBVIOUS
  <2> HIDE DEF bad
  <2> QED
    BY <1>1, <2>1, Fewest
<1>3. s \in SUBSET S /\ ~Good(s) /\ \A x \in s : Good(s \ {x})
  BY <1>2
<1> HIDE DEF bad
<1>4. CASE s = {}
  BY <1>3, <1>4, SumEmpty
<1>5. CASE s # {}
  <2> DEFINE x == Sel(s)
  <2>1. x \in s /\ SumOf(f, s) = f[x] + SumOf(f, s \ {x})
    BY <1>2, <1>5, SelIn, SumStep
  <2> HIDE DEF x
  <2>2. \A y \in s : f[y] \in Int /\ SumOf(f, s \ {y}) \in Int
    BY <1>3
  <2>3. ASSUME NEW y \in s, y # x PROVE SumOf(f, s) = f[y] + SumOf(f, s \ {y})
    <3>1. y \in s \ {x} /\ x \in s \ {y} /\ (s \ {x}) \ {y} = (s \ {y}) \ {x}
      BY <2>1, <2>3
    <3>2. SumOf(f, s \ {x}) = f[y] + SumOf(f, (s \ {x}) \ {y})
      BY <1>3, <2>1, <3>1
    <3>3. SumOf(f, s \ {y}) = f[x] + SumOf(f, (s \ {x}) \ {y})
      BY <1>3, <3>1
    <3>4. SumOf(f, (s \ {x}) \ {y}) \in Int
      BY <1>3, SumInt
    <3> QED
      BY <2>1, <2>2, <2>3, <3>2, <3>3, <3>4
  <2>4. Good(s)
    BY <2>1, <2>2, <2>3
  <2> QED
    BY <1>3, <2>4
<1> QED
  BY <1>4, <1>5

-----------------------------------------------------------------------------
\* Bits.

Pow(i)    == 2^i
Bit(x, i) == (x \div Pow(i)) % 2

LEMMA PowersAre ==
    /\ Pow(0) = 1 /\ Pow(1) = 2 /\ Pow(2) = 4 /\ Pow(3) = 8 /\ Pow(4) = 16
    /\ Pow(5) = 32 /\ Pow(6) = 64 /\ Pow(7) = 128 /\ Pow(8) = 256 /\ Pow(9) = 512
    /\ Pow(10) = 1024 /\ Pow(11) = 2048 /\ Pow(12) = 4096 /\ Pow(13) = 8192
    /\ Pow(14) = 16384 /\ Pow(15) = 32768 /\ Pow(16) = 65536 /\ Pow(17) = 131072
    /\ Pow(18) = 262144 /\ Pow(19) = 524288 /\ Pow(20) = 1048576
    /\ Pow(21) = 2097152 /\ Pow(22) = 4194304 /\ Pow(23) = 8388608
    /\ Pow(24) = 16777216
BY DEF Pow

LEMMA Doubles ==
    /\ \A i \in 0 .. 24 : Pow(i) \in Nat \ {0}
    /\ \A i \in 0 .. 23 : Pow(i + 1) = 2 * Pow(i)
<1>1. ASSUME NEW i \in 0 .. 23 PROVE Pow(i) \in Nat \ {0} /\ Pow(i + 1) = 2 * Pow(i)
  <2>1. \/ i = 0 \/ i = 1 \/ i = 2 \/ i = 3 \/ i = 4 \/ i = 5 \/ i = 6 \/ i = 7
        \/ i = 8 \/ i = 9 \/ i = 10 \/ i = 11 \/ i = 12 \/ i = 13 \/ i = 14 \/ i = 15
        \/ i = 16 \/ i = 17 \/ i = 18 \/ i = 19 \/ i = 20 \/ i = 21 \/ i = 22 \/ i = 23
    OBVIOUS
  <2> QED
    BY <2>1, PowersAre
<1>2. \A i \in 0 .. 24 : i \in 0 .. 23 \/ i = 24
  OBVIOUS
<1> QED
  BY <1>1, <1>2, PowersAre

LEMMA PowersAdd ==
    ASSUME NEW a \in 0 .. 24, NEW b \in 0 .. 24, a + b <= 24
    PROVE  Pow(a + b) = Pow(a) * Pow(b)
<1> DEFINE bad == {k \in 0 .. 24 : a + k <= 24 /\ Pow(a + k) # Pow(a) * Pow(k)}
<1>1. SUFFICES ASSUME bad # {} PROVE FALSE
  OBVIOUS
<1>2. PICK k \in bad : \A m \in bad : k <= m
  <2>1. bad \in SUBSET Nat
    OBVIOUS
  <2> HIDE DEF bad
  <2> QED
    BY <1>1, <2>1, Smallest
<1>3. k \in 0 .. 24 /\ a + k <= 24 /\ Pow(a + k) # Pow(a) * Pow(k)
  BY <1>2
<1>4. CASE k = 0
  <2>1. Pow(0) = 1 /\ Pow(a) \in Nat /\ a + k = a
    BY <1>4, PowersAre, Doubles
  <2> QED
    BY <1>3, <1>4, <2>1
<1>5. CASE k # 0
  <2>1. PICK m \in 0 .. 23 : k = m + 1
    BY <1>3, <1>5
  <2>2. Pow(a + m) = Pow(a) * Pow(m)
    <3>1. m \notin bad
      <4> HIDE DEF bad
      <4> QED
        BY <1>2, <2>1
    <3> QED
      BY <1>3, <2>1, <3>1
  <2>3. Pow(k) = 2 * Pow(m)
    BY <2>1, Doubles
  <2>4. Pow(a + k) = 2 * Pow(a + m)
    <3>1. PICK n \in 0 .. 23 : n = a + m /\ a + k = n + 1
      BY <1>3, <2>1
    <3> QED
      BY <3>1, Doubles
  <2>5. Pow(a) \in Nat /\ Pow(m) \in Nat
    BY <1>3, <2>1, Doubles
  <2>6. \A x, y \in Nat : 2 * (x * y) = x * (2 * y)
    OBVIOUS
  <2>7. 2 * (Pow(a) * Pow(m)) = Pow(a) * (2 * Pow(m))
    BY <2>5, <2>6
  <2> QED
    BY <1>3, <2>2, <2>3, <2>4, <2>7
<1> QED
  BY <1>4, <1>5

\* Quotient and remainder are those of a division that goes out.
LEMMA Divided ==
    ASSUME NEW d \in Nat \ {0}, NEW q \in Nat, NEW r \in Nat, r < d
    PROVE  (q * d + r) \div d = q /\ (q * d + r) % d = r
<1> DEFINE x == q * d + r
           q2 == x \div d
           r2 == x % d
<1>1. x \in Nat /\ q2 \in Nat /\ r2 \in Nat /\ r2 < d /\ x = q2 * d + r2
  BY SMTT(30)
<1> HIDE DEF q2, r2
<1>2. ~(q2 >= q + 1)
  BY <1>1, SMTT(30)
<1>3. ~(q >= q2 + 1)
  BY <1>1, SMTT(30)
<1>4. q2 = q
  BY <1>1, <1>2, <1>3
<1>5. r2 = r
  BY <1>1, <1>4
<1> QED
  BY <1>4, <1>5 DEF q2, r2

LEMMA Division ==
    ASSUME NEW x \in Nat, NEW d \in Nat \ {0}
    PROVE  x \div d \in Nat /\ x % d \in Nat /\ x % d < d /\ x = (x \div d) * d + (x % d)
BY SMTT(30)

LEMMA DivDiv ==
    ASSUME NEW x \in Nat, NEW a \in Nat \ {0}, NEW b \in Nat \ {0}
    PROVE  (x \div a) \div b = x \div (a * b)
<1>1. PICK q \in Nat, r \in Nat : r < a /\ x = q * a + r /\ x \div a = q
  BY Division, Zenon
<1>2. PICK p \in Nat, s \in Nat : s < b /\ q = p * b + s /\ q \div b = p
  BY Division, Zenon
<1>3. a * b \in Nat \ {0} /\ s * a + r \in Nat /\ s * a + r < a * b
  BY <1>1, <1>2, SMTT(30)
<1>4. x = p * (a * b) + (s * a + r)
  BY <1>1, <1>2, SMTT(30)
<1>5. x \div (a * b) = p
  BY <1>3, <1>4, Divided
<1> QED
  BY <1>1, <1>2, <1>5

LEMMA BitType == \A x \in Nat, i \in 0 .. 23 : Bit(x, i) \in {0, 1}
<1> SUFFICES ASSUME NEW x \in Nat, NEW i \in 0 .. 23 PROVE Bit(x, i) \in {0, 1}
  OBVIOUS
<1>1. Pow(i) \in Nat \ {0}
  BY Doubles
<1>2. x \div Pow(i) \in Nat
  BY <1>1, Division
<1> QED
  BY <1>2 DEF Bit

\* The parts of a number above, at and below a bit.
LEMMA Parts ==
    ASSUME NEW x \in Nat, NEW i \in 0 .. 23
    PROVE  \E h, r \in Nat : /\ r < Pow(i) /\ r = x % Pow(i)
                             /\ x = (2 * h + Bit(x, i)) * Pow(i) + r
<1>1. Pow(i) \in Nat \ {0}
  BY Doubles
<1>2. PICK q \in Nat, r \in Nat : /\ r < Pow(i) /\ x = q * Pow(i) + r
                                  /\ x \div Pow(i) = q /\ x % Pow(i) = r
  BY <1>1, Division, Zenon
<1>3. PICK h \in Nat : q = 2 * h + (q % 2)
  <2>1. q \div 2 \in Nat /\ q = 2 * (q \div 2) + (q % 2)
    OBVIOUS
  <2> QED
    BY <2>1, Zenon
<1>4. Bit(x, i) = q % 2
  BY <1>2 DEF Bit
<1> QED
  BY <1>2, <1>3, <1>4

\* And conversely.
LEMMA Composed ==
    ASSUME NEW h \in Nat, NEW b \in {0, 1}, NEW i \in 0 .. 23, NEW r \in Nat, r < Pow(i)
    PROVE  /\ Bit((2 * h + b) * Pow(i) + r, i) = b
           /\ ((2 * h + b) * Pow(i) + r) % Pow(i + 1) = b * Pow(i) + r
           /\ ((2 * h + b) * Pow(i) + r) % Pow(i) = r
<1>1. Pow(i) \in Nat \ {0} /\ Pow(i + 1) = 2 * Pow(i)
  BY Doubles
<1>2. 2 * h + b \in Nat /\ (2 * h + b) % 2 = b
  OBVIOUS
<1>3. /\ ((2 * h + b) * Pow(i) + r) \div Pow(i) = 2 * h + b
      /\ ((2 * h + b) * Pow(i) + r) % Pow(i) = r
  BY <1>1, <1>2, Divided
<1>4. (2 * h + b) * Pow(i) + r = h * (2 * Pow(i)) + (b * Pow(i) + r)
  BY <1>1, SMTT(30)
<1>5. 2 * Pow(i) \in Nat \ {0} /\ b * Pow(i) + r \in Nat /\ b * Pow(i) + r < 2 * Pow(i)
  BY <1>1, SMTT(30)
<1>6. (h * (2 * Pow(i)) + (b * Pow(i) + r)) % (2 * Pow(i)) = b * Pow(i) + r
  <2> DEFINE D == 2 * Pow(i)
             R == b * Pow(i) + r
  <2>1. D \in Nat \ {0} /\ R \in Nat /\ R < D
    BY <1>5
  <2> HIDE DEF D, R
  <2>2. (h * D + R) % D = R
    BY <2>1, Divided
  <2> QED
    BY <2>2 DEF D, R
<1> QED
  BY <1>1, <1>2, <1>3, <1>4, <1>6 DEF Bit

LEMMA LowPart ==
    ASSUME NEW x \in Nat, NEW i \in 0 .. 23
    PROVE  x % Pow(i + 1) = Bit(x, i) * Pow(i) + (x % Pow(i))
<1>1. PICK h \in Nat, r \in Nat : /\ r < Pow(i) /\ r = x % Pow(i)
                                  /\ x = (2 * h + Bit(x, i)) * Pow(i) + r
  BY Parts
<1>2. PICK b \in {0, 1} : b = Bit(x, i)
  BY BitType
<1>3. ((2 * h + b) * Pow(i) + r) % Pow(i + 1) = b * Pow(i) + r
  BY <1>1, Composed
<1> QED
  BY <1>1, <1>2, <1>3

LEMMA NoCarry ==
    ASSUME NEW x \in Nat, NEW y \in Nat,
           \A i \in 0 .. 23 : Bit(x, i) = 0 \/ Bit(y, i) = 0,
           NEW k \in 0 .. 24
    PROVE  (x % Pow(k)) + (y % Pow(k)) < Pow(k)
<1> DEFINE bad == {i \in 0 .. 24 : ~((x % Pow(i)) + (y % Pow(i)) < Pow(i))}
<1>1. SUFFICES ASSUME bad # {} PROVE FALSE
  OBVIOUS
<1>2. PICK i \in bad : \A m \in bad : i <= m
  <2>1. bad \in SUBSET Nat
    OBVIOUS
  <2> HIDE DEF bad
  <2> QED
    BY <1>1, <2>1, Smallest
<1>3. i \in 0 .. 24 /\ ~((x % Pow(i)) + (y % Pow(i)) < Pow(i))
  BY <1>2
<1>4. i # 0
  <2>1. x % 1 = 0 /\ y % 1 = 0
    OBVIOUS
  <2> QED
    BY <1>3, <2>1, PowersAre
<1>5. PICK m \in 0 .. 23 : i = m + 1
  BY <1>3, <1>4
<1>6. (x % Pow(m)) + (y % Pow(m)) < Pow(m)
  <2>1. m \notin bad
    <3> HIDE DEF bad
    <3> QED
      BY <1>2, <1>5
  <2> QED
    BY <2>1
<1>7. /\ x % Pow(i) = Bit(x, m) * Pow(m) + (x % Pow(m))
      /\ y % Pow(i) = Bit(y, m) * Pow(m) + (y % Pow(m))
  BY <1>5, LowPart
<1>8. Pow(i) = 2 * Pow(m) /\ Pow(m) \in Nat \ {0}
  BY <1>5, Doubles
<1>9. x % Pow(m) \in Nat /\ y % Pow(m) \in Nat
  BY <1>8, Division
<1>10. Bit(x, m) \in {0, 1} /\ Bit(y, m) \in {0, 1} /\ (Bit(x, m) = 0 \/ Bit(y, m) = 0)
  BY BitType
<1>11. \A b, c \in {0, 1}, p, r, s \in Nat :
          (b = 0 \/ c = 0) /\ r + s < p => (b * p + r) + (c * p + s) < 2 * p
  BY SMTT(30)
<1>12. (Bit(x, m) * Pow(m) + (x % Pow(m))) + (Bit(y, m) * Pow(m) + (y % Pow(m))) < 2 * Pow(m)
  BY <1>6, <1>8, <1>9, <1>10, <1>11
<1> QED
  BY <1>3, <1>7, <1>8, <1>12

\* Numbers without a bit in common add up bit by bit.
LEMMA BitsAdd ==
    ASSUME NEW x \in Nat, NEW y \in Nat,
           \A i \in 0 .. 23 : Bit(x, i) = 0 \/ Bit(y, i) = 0,
           NEW k \in 0 .. 23
    PROVE  Bit(x + y, k) = Bit(x, k) + Bit(y, k)
<1>1. PICK h \in Nat, r \in Nat : /\ r < Pow(k) /\ r = x % Pow(k)
                                  /\ x = (2 * h + Bit(x, k)) * Pow(k) + r
  BY Parts
<1>2. PICK g \in Nat, s \in Nat : /\ s < Pow(k) /\ s = y % Pow(k)
                                  /\ y = (2 * g + Bit(y, k)) * Pow(k) + s
  BY Parts
<1>3. Pow(k) \in Nat \ {0}
  BY Doubles
<1>4. r + s \in Nat /\ r + s < Pow(k)
  BY <1>1, <1>2, NoCarry
<1>5. PICK b \in {0, 1}, c \in {0, 1} : b = Bit(x, k) /\ c = Bit(y, k) /\ (b = 0 \/ c = 0)
  BY BitType
<1>6. x + y = (2 * (h + g) + (b + c)) * Pow(k) + (r + s)
  <2>1. \A u, v, p, t, w \in Nat : (u * p + t) + (v * p + w) = (u + v) * p + (t + w)
    BY SMTT(30)
  <2>2. 2 * h + b \in Nat /\ 2 * g + c \in Nat /\ (2 * h + b) + (2 * g + c) = 2 * (h + g) + (b + c)
    OBVIOUS
  <2>3. ((2 * h + b) * Pow(k) + r) + ((2 * g + c) * Pow(k) + s)
            = ((2 * h + b) + (2 * g + c)) * Pow(k) + (r + s)
    BY <1>3, <2>1, <2>2
  <2> QED
    BY <1>1, <1>2, <1>5, <2>2, <2>3
<1>7. PICK H \in Nat, B \in {0, 1}, R \in Nat : H = h + g /\ B = b + c /\ R = r + s
  <2>1. h + g \in Nat /\ b + c \in {0, 1} /\ r + s \in Nat
    BY <1>5
  <2> QED
    BY <2>1, Zenon
<1>8. R < Pow(k)
  BY <1>4, <1>7
<1>9. Bit((2 * H + B) * Pow(k) + R, k) = B
  BY <1>8, Composed
<1> QED
  BY <1>5, <1>6, <1>7, <1>9

LEMMA SumFits ==
    ASSUME NEW x \in Nat, NEW y \in Nat, x < Pow(24), y < Pow(24),
           \A i \in 0 .. 23 : Bit(x, i) = 0 \/ Bit(y, i) = 0
    PROVE  x + y < Pow(24)
<1>1. \A z \in Nat : z < Pow(24) => z % Pow(24) = z
  BY PowersAre
<1>2. (x % Pow(24)) + (y % Pow(24)) < Pow(24)
  BY NoCarry
<1> QED
  BY <1>1, <1>2

\* Numbers with the same bits are the same.
LEMMA SameBits ==
    ASSUME NEW x \in Nat, NEW y \in Nat, x < Pow(24), y < Pow(24),
           \A i \in 0 .. 23 : Bit(x, i) = Bit(y, i)
    PROVE  x = y
<1> DEFINE bad == {i \in 0 .. 24 : x % Pow(i) # y % Pow(i)}
<1>1. \A z \in Nat : z < Pow(24) => z % Pow(24) = z
  BY PowersAre
<1>2. SUFFICES ASSUME bad # {} PROVE FALSE
  BY <1>1
<1>3. PICK i \in bad : \A m \in bad : i <= m
  <2>1. bad \in SUBSET Nat
    OBVIOUS
  <2> HIDE DEF bad
  <2> QED
    BY <1>2, <2>1, Smallest
<1>4. i \in 0 .. 24 /\ x % Pow(i) # y % Pow(i)
  BY <1>3
<1>5. i # 0
  <2>1. x % 1 = 0 /\ y % 1 = 0
    OBVIOUS
  <2> QED
    BY <1>4, <2>1, PowersAre
<1>6. PICK m \in 0 .. 23 : i = m + 1
  BY <1>4, <1>5
<1>7. x % Pow(m) = y % Pow(m)
  <2>1. m \notin bad
    <3> HIDE DEF bad
    <3> QED
      BY <1>3, <1>6
  <2> QED
    BY <2>1
<1>8. /\ x % Pow(i) = Bit(x, m) * Pow(m) + (x % Pow(m))
      /\ y % Pow(i) = Bit(y, m) * Pow(m) + (y % Pow(m))
  BY <1>6, LowPart
<1> QED
  BY <1>4, <1>7, <1>8

-----------------------------------------------------------------------------
\* The bits of a number that is cut and shifted.

LEMMA PowersGrow ==
    ASSUME NEW a \in 0 .. 24, NEW b \in a .. 24
    PROVE  Pow(a) <= Pow(b)
<1>1. PICK c \in 0 .. 24 : b = a + c
  OBVIOUS
<1>2. Pow(b) = Pow(a) * Pow(c) /\ Pow(a) \in Nat /\ Pow(c) \in Nat \ {0}
  <2>1. a + c <= 24
    BY <1>1
  <2>2. Pow(a + c) = Pow(a) * Pow(c)
    BY <2>1, PowersAdd
  <2>3. Pow(a) \in Nat /\ Pow(c) \in Nat \ {0}
    BY Doubles
  <2> QED
    BY <1>1, <2>2, <2>3
<1>3. \A m \in Nat, n \in Nat \ {0} : m <= m * n
  BY SMTT(30)
<1> QED
  BY <1>2, <1>3

LEMMA HighBits ==
    ASSUME NEW n \in 0 .. 24, NEW x \in Nat, x < Pow(n), NEW i \in n .. 23
    PROVE  Bit(x, i) = 0
<1>1. Pow(i) \in Nat \ {0} /\ x < Pow(i)
  <2>1. i \in n .. 24 /\ i \in 0 .. 24
    OBVIOUS
  <2>2. Pow(n) <= Pow(i) /\ Pow(i) \in Nat \ {0} /\ Pow(n) \in Nat
    BY <2>1, PowersGrow, Doubles
  <2> QED
    BY <2>2
<1>2. x \div Pow(i) = 0
  <2>1. (0 * Pow(i) + x) \div Pow(i) = 0
    BY <1>1, Divided
  <2> QED
    BY <1>1, <2>1
<1> QED
  BY <1>2 DEF Bit

LEMMA BitsShifted ==
    ASSUME NEW x \in Nat, NEW a \in 0 .. 24, NEW i \in 0 .. 24, a + i <= 24
    PROVE  Bit(x \div Pow(a), i) = Bit(x, a + i)
<1>1. Pow(a) \in Nat \ {0} /\ Pow(i) \in Nat \ {0} /\ Pow(a + i) = Pow(a) * Pow(i)
  BY Doubles, PowersAdd
<1>2. (x \div Pow(a)) \div Pow(i) = x \div Pow(a + i)
  BY <1>1, DivDiv
<1> QED
  BY <1>2 DEF Bit

LEMMA BitsCut ==
    ASSUME NEW x \in Nat, NEW n \in 0 .. 24, NEW i \in 0 .. 23, i < n
    PROVE  Bit(x % Pow(n), i) = Bit(x, i)
<1>1. PICK m \in 0 .. 24 : n = (i + 1) + m
  OBVIOUS
<1>2. /\ Pow(n) = Pow(i + 1) * Pow(m) /\ Pow(i + 1) = 2 * Pow(i)
      /\ Pow(m) \in Nat \ {0} /\ Pow(i) \in Nat \ {0} /\ Pow(n) \in Nat \ {0}
  <2>1. i + 1 \in 0 .. 24 /\ (i + 1) + m <= 24
    BY <1>1
  <2>2. Pow((i + 1) + m) = Pow(i + 1) * Pow(m)
    BY <2>1, PowersAdd
  <2>3. /\ Pow(i + 1) = 2 * Pow(i) /\ Pow(m) \in Nat \ {0} /\ Pow(i) \in Nat \ {0}
        /\ Pow(n) \in Nat \ {0}
    BY Doubles
  <2> QED
    BY <1>1, <2>2, <2>3
<1>3. PICK q \in Nat, r \in Nat : x = q * Pow(n) + r /\ r = x % Pow(n)
  BY <1>2, Division, Zenon
<1>4. PICK h \in Nat, s \in Nat : s < Pow(i) /\ r = (2 * h + Bit(r, i)) * Pow(i) + s
  BY Parts
<1>5. PICK b \in {0, 1} : b = Bit(r, i)
  <2>1. Bit(r, i) \in {0, 1}
    BY BitType
  <2> QED
    BY <2>1
<1>6. PICK g \in Nat : g = q * Pow(m) + h
  BY <1>2
<1>7. x = (2 * g + b) * Pow(i) + s
  <2>1. \A t, m_, p, k, c, z \in Nat :
            t * ((2 * p) * m_) + ((2 * k + c) * p + z) = (2 * (t * m_ + k) + c) * p + z
    BY SMTT(30)
  <2>2. x = q * ((2 * Pow(i)) * Pow(m)) + ((2 * h + b) * Pow(i) + s)
    BY <1>2, <1>3, <1>4, <1>5
  <2>3. b \in Nat
    OBVIOUS
  <2>4. q * ((2 * Pow(i)) * Pow(m)) + ((2 * h + b) * Pow(i) + s)
            = (2 * (q * Pow(m) + h) + b) * Pow(i) + s
    BY <1>2, <2>1, <2>3
  <2> QED
    BY <2>2, <2>4, <1>6
<1>8. Bit(x, i) = b
  BY <1>4, <1>7, Composed
<1> QED
  BY <1>3, <1>5, <1>8

LEMMA BitsScaled ==
    ASSUME NEW x \in Nat, NEW a \in 0 .. 24, NEW i \in 0 .. 23
    PROVE  Bit(x * Pow(a), i) = IF i < a THEN 0 ELSE Bit(x, i - a)
<1>1. CASE i < a
  <2>1. PICK m \in 0 .. 24 : a = (i + 1) + m
    BY <1>1
  <2>2. /\ Pow(a) = Pow(i + 1) * Pow(m) /\ Pow(i + 1) = 2 * Pow(i)
        /\ Pow(m) \in Nat \ {0} /\ Pow(i) \in Nat \ {0}
    <3>1. i + 1 \in 0 .. 24 /\ (i + 1) + m <= 24
      BY <2>1
    <3>2. Pow((i + 1) + m) = Pow(i + 1) * Pow(m)
      BY <3>1, PowersAdd
    <3>3. Pow(i + 1) = 2 * Pow(i) /\ Pow(m) \in Nat \ {0} /\ Pow(i) \in Nat \ {0}
      BY Doubles
    <3> QED
      BY <2>1, <3>2, <3>3
  <2>3. PICK h \in Nat : h = x * Pow(m)
    BY <2>2
  <2>4. \A t, m_, p \in Nat : t * ((2 * p) * m_) = (2 * (t * m_) + 0) * p + 0
    BY SMTT(30)
  <2>5. x * Pow(a) = (2 * h + 0) * Pow(i) + 0
    BY <2>2, <2>3, <2>4
  <2>6. Bit((2 * h + 0) * Pow(i) + 0, i) = 0
    BY <2>2, Composed
  <2> QED
    BY <1>1, <2>5, <2>6
<1>2. CASE ~(i < a)
  <2>1. PICK m \in 0 .. 24 : i = a + m
    BY <1>2
  <2>2. /\ Pow(i) = Pow(a) * Pow(m)
        /\ Pow(m) \in Nat \ {0} /\ Pow(a) \in Nat \ {0}
    <3>1. a + m <= 24
      BY <2>1
    <3>2. Pow(a + m) = Pow(a) * Pow(m)
      BY <3>1, PowersAdd
    <3>3. Pow(m) \in Nat \ {0} /\ Pow(a) \in Nat \ {0}
      BY Doubles
    <3> QED
      BY <2>1, <3>2, <3>3
  <2>3. (x * Pow(a)) \div Pow(a) = x /\ x * Pow(a) \in Nat
    <3>1. PICK p \in Nat \ {0} : p = Pow(a)
      BY <2>2
    <3>2. (x * p + 0) \div p = x
      BY Divided
    <3>3. x * p + 0 = x * p /\ x * p \in Nat
      OBVIOUS
    <3> QED
      BY <3>1, <3>2, <3>3
  <2>4. (x * Pow(a)) \div Pow(i) = x \div Pow(m)
    BY <2>2, <2>3, DivDiv
  <2>5. i - a = m
    BY <2>1
  <2> QED
    BY <1>2, <2>4, <2>5 DEF Bit
<1> QED
  BY <1>1, <1>2

\* What a piece puts at its bits: n bits of w from bit `from`, at bit `to`.
LEMMA PutBits ==
    ASSUME NEW w \in Nat, NEW from \in 0 .. 24, NEW n \in 0 .. 24, NEW to \in 0 .. 24,
           from + n <= 24, to + n <= 24
    PROVE  /\ Bits(w, from, n) * 2^to \in Nat
           /\ Bits(w, from, n) * 2^to < Pow(24)
           /\ \A i \in 0 .. 23 :
                  Bit(Bits(w, from, n) * 2^to, i) =
                      IF i \in to .. to + n - 1 THEN Bit(w, from + (i - to)) ELSE 0
<1> DEFINE b == Bits(w, from, n)
           u == w \div Pow(from)
<1>1. Pow(from) \in Nat \ {0} /\ Pow(n) \in Nat \ {0} /\ Pow(to) \in Nat \ {0}
  BY Doubles
<1>2. u \in Nat
  BY <1>1, Division
<1>3. b = u % Pow(n)
  BY DEF Bits, Pow
<1> HIDE DEF u
<1>4. b \in Nat /\ b < Pow(n)
  BY <1>1, <1>2, <1>3, Division
<1>5. Bits(w, from, n) * 2^to = b * Pow(to)
  BY DEF Pow
<1> HIDE DEF b
<1>6. b * Pow(to) \in Nat /\ b * Pow(to) < Pow(24)
  <2>1. Pow(n + to) = Pow(n) * Pow(to)
    <3>1. n + to <= 24
      OBVIOUS
    <3> QED
      BY <3>1, PowersAdd
  <2>2. Pow(n + to) <= Pow(24)
    <3>1. n + to \in 0 .. 24 /\ 24 \in (n + to) .. 24
      OBVIOUS
    <3> QED
      BY <3>1, PowersGrow
  <2>3. b * Pow(to) \in Nat /\ Pow(24) \in Nat
    BY <1>1, <1>4, Doubles
  <2>4. \A x, y \in Nat, z \in Nat \ {0} : x < y => x * z < y * z
    BY SMTT(30)
  <2>5. b * Pow(to) < Pow(n) * Pow(to)
    BY <1>1, <1>4, <2>4
  <2>6. Pow(n) * Pow(to) \in Nat
    BY <1>1
  <2> QED
    BY <2>1, <2>2, <2>3, <2>5, <2>6
<1>7. ASSUME NEW i \in 0 .. 23
      PROVE  Bit(b * Pow(to), i) = IF i \in to .. to + n - 1 THEN Bit(w, from + (i - to)) ELSE 0
  <2>1. Bit(b * Pow(to), i) = IF i < to THEN 0 ELSE Bit(b, i - to)
    BY <1>4, BitsScaled
  <2>2. CASE i < to
    BY <2>1, <2>2
  <2>3. CASE i \in to .. to + n - 1
    <3>1. PICK j \in 0 .. 23 : j = i - to /\ j < n /\ from + j <= 24
      BY <2>3
    <3>2. Bit(u % Pow(n), j) = Bit(u, j)
      BY <1>2, <3>1, BitsCut
    <3>3. Bit(u, j) = Bit(w, from + j)
      BY <3>1, BitsShifted DEF u
    <3> QED
      BY <1>3, <2>1, <2>3, <3>1, <3>2, <3>3
  <2>4. CASE i >= to + n
    <3>1. PICK j \in 0 .. 23 : j = i - to /\ j >= n
      BY <2>4
    <3>2. j \in n .. 23
      BY <3>1
    <3>3. Bit(b, j) = 0
      BY <1>4, <3>2, HighBits
    <3> QED
      BY <2>1, <2>4, <3>1, <3>3
  <2> QED
    BY <2>2, <2>3, <2>4
<1> QED
  BY <1>5, <1>6, <1>7

\* The bits that a piece takes of w, and those it makes.
Part(w, from, to, n) == [w |-> w, from |-> from, to |-> to, n |-> n]
IsPart(t) == /\ t.w \in Nat /\ t.from \in 0 .. 24 /\ t.to \in 0 .. 24 /\ t.n \in 0 .. 24
             /\ t.from + t.n <= 24 /\ t.to + t.n <= 24
At(t)     == t.to .. t.to + t.n - 1
Value(t)  == Bits(t.w, t.from, t.n) * 2^t.to

\* Pieces that share no bit add up to a number that has the bits of each at its place,
\* and no other.
LEMMA SumOfParts ==
    ASSUME NEW S, IsFiniteSet(S), NEW t, \A p \in S : IsPart(t[p]),
           \A p, q \in S : p # q => At(t[p]) \cap At(t[q]) = {}
    PROVE  LET sum == SumOf([p \in S |-> Value(t[p])], S)
           IN  /\ sum \in Nat /\ sum < Pow(24)
               /\ \A i \in 0 .. 23 :
                      /\ \A p \in S : i \in At(t[p]) =>
                             Bit(sum, i) = Bit(t[p].w, t[p].from + (i - t[p].to))
                      /\ (\A p \in S : i \notin At(t[p])) => Bit(sum, i) = 0
<1> DEFINE f == [p \in S |-> Value(t[p])]
           sum(s) == SumOf(f, s)
           Good(s) == /\ sum(s) \in Nat /\ sum(s) < Pow(24)
                      /\ \A i \in 0 .. 23 :
                             /\ \A p \in s : i \in At(t[p]) =>
                                    Bit(sum(s), i) = Bit(t[p].w, t[p].from + (i - t[p].to))
                             /\ (\A p \in s : i \notin At(t[p])) => Bit(sum(s), i) = 0
           bad == {s \in SUBSET S : ~Good(s)}
<1>1. \A p \in S : /\ f[p] = Value(t[p]) /\ f[p] \in Nat /\ f[p] < Pow(24)
                   /\ \A i \in 0 .. 23 :
                          Bit(f[p], i) = IF i \in At(t[p]) THEN Bit(t[p].w, t[p].from + (i - t[p].to))
                                         ELSE 0
  <2> SUFFICES ASSUME NEW p \in S
               PROVE  /\ f[p] = Value(t[p]) /\ f[p] \in Nat /\ f[p] < Pow(24)
                      /\ \A i \in 0 .. 23 :
                          Bit(f[p], i) = IF i \in At(t[p]) THEN Bit(t[p].w, t[p].from + (i - t[p].to))
                                         ELSE 0
    OBVIOUS
  <2>1. IsPart(t[p]) /\ f[p] = Value(t[p])
    OBVIOUS
  <2> HIDE DEF f
  <2>2. PICK w \in Nat, from \in 0 .. 24, n \in 0 .. 24, to \in 0 .. 24 :
            /\ w = t[p].w /\ from = t[p].from /\ n = t[p].n /\ to = t[p].to
            /\ from + n <= 24 /\ to + n <= 24
    BY <2>1 DEF IsPart
  <2>3. f[p] = Bits(w, from, n) * 2^to /\ At(t[p]) = to .. to + n - 1
    BY <2>1, <2>2 DEF Value, At
  <2>4. /\ Bits(w, from, n) * 2^to \in Nat
        /\ Bits(w, from, n) * 2^to < Pow(24)
        /\ \A i \in 0 .. 23 :
               Bit(Bits(w, from, n) * 2^to, i) =
                   IF i \in to .. to + n - 1 THEN Bit(w, from + (i - to)) ELSE 0
    <3>1. from + n <= 24 /\ to + n <= 24
      BY <2>2
    <3> QED
      BY <3>1, PutBits
  <2> QED
    BY <2>1, <2>2, <2>3, <2>4
<1> HIDE DEF f
<1>2. SUFFICES ASSUME bad # {} PROVE FALSE
  BY DEF f
<1>3. PICK s \in bad : IsFiniteSet(s) /\ \A x \in s : s \ {x} \notin bad
  <2>1. bad \in SUBSET SUBSET S
    OBVIOUS
  <2> HIDE DEF bad
  <2> QED
    BY <1>2, <2>1, Fewest
<1>4. s \in SUBSET S /\ ~Good(s) /\ \A x \in s : Good(s \ {x})
  BY <1>3
<1> HIDE DEF bad
<1>5. CASE s = {}
  <2>1. sum(s) = 0
    BY <1>5, SumEmpty
  <2>2. \A i \in 0 .. 23 : Bit(0, i) = 0
    <3>1. \A i \in 0 .. 23 : i \in 0 .. 23 /\ 0 < Pow(0)
      BY PowersAre
    <3> QED
      BY <3>1, HighBits
  <2>3. 0 < Pow(24)
    BY PowersAre
  <2> QED
    BY <1>4, <1>5, <2>1, <2>2, <2>3
<1>6. CASE s # {}
  <2>1. PICK x \in s : TRUE
    BY <1>6
  <2> DEFINE r == s \ {x}
  <2>2. sum(s) = f[x] + sum(r)
    <3>1. \A y \in s : f[y] \in Int
      BY <1>1, <1>4
    <3> QED
      BY <1>3, <3>1, SumRemove
  <2>3. Good(r) /\ f[x] \in Nat /\ f[x] < Pow(24)
    BY <1>1, <1>4
  <2> HIDE DEF sum
  <2>4. ASSUME NEW i \in 0 .. 23, i \in At(t[x]) PROVE Bit(sum(r), i) = 0
    <3>1. \A p \in r : i \notin At(t[p])
      BY <1>4, <2>4
    <3> QED
      BY <2>3, <3>1
  <2>5. ASSUME NEW i \in 0 .. 23 PROVE Bit(f[x], i) = 0 \/ Bit(sum(r), i) = 0
    <3>1. x \in S
      BY <1>4
    <3> QED
      BY <1>1, <2>4, <3>1
  <2>6. sum(s) \in Nat /\ sum(s) < Pow(24)
    <3>1. PICK a \in Nat, b \in Nat : a = f[x] /\ b = sum(r) /\ a < Pow(24) /\ b < Pow(24)
      BY <2>3, Zenon
    <3>2. \A i \in 0 .. 23 : Bit(a, i) = 0 \/ Bit(b, i) = 0
      BY <2>5, <3>1
    <3>3. a < Pow(24) /\ b < Pow(24)
      BY <3>1
    <3>4. a + b < Pow(24)
      BY <3>2, <3>3, SumFits
    <3> QED
      BY <2>2, <3>1, <3>4
  <2>7. \A i \in 0 .. 23 : Bit(sum(s), i) = Bit(f[x], i) + Bit(sum(r), i)
    BY <2>2, <2>3, <2>5, BitsAdd
  <2>8. \A i \in 0 .. 23 : Bit(f[x], i) \in {0, 1} /\ Bit(sum(r), i) \in {0, 1}
    BY <2>3, BitType
  <2>9. ASSUME NEW i \in 0 .. 23, NEW p \in s, i \in At(t[p])
        PROVE  Bit(sum(s), i) = Bit(t[p].w, t[p].from + (i - t[p].to))
    <3>1. x \in S
      BY <1>4
    <3>2. CASE p = x
      <4>1. Bit(f[x], i) = Bit(t[x].w, t[x].from + (i - t[x].to)) /\ Bit(sum(r), i) = 0
        BY <1>1, <2>4, <2>9, <3>1, <3>2
      <4> QED
        BY <2>7, <2>8, <3>2, <4>1
    <3>3. CASE p # x
      <4>1. i \notin At(t[x])
        BY <1>4, <2>9, <3>1, <3>3
      <4>2. Bit(f[x], i) = 0 /\ Bit(sum(r), i) = Bit(t[p].w, t[p].from + (i - t[p].to))
        BY <1>1, <2>3, <2>9, <3>1, <3>3, <4>1
      <4> QED
        BY <2>7, <2>8, <4>2
    <3> QED
      BY <3>2, <3>3
  <2>10. ASSUME NEW i \in 0 .. 23, \A p \in s : i \notin At(t[p])
         PROVE  Bit(sum(s), i) = 0
    <3>1. x \in S
      BY <1>4
    <3>2. Bit(f[x], i) = 0 /\ Bit(sum(r), i) = 0
      BY <1>1, <2>3, <2>10, <3>1
    <3> QED
      BY <2>7, <3>2
  <2>11. Good(s)
    BY <2>6, <2>9, <2>10
  <2> QED
    BY <1>4, <2>11
<1> QED
  BY <1>5, <1>6

-----------------------------------------------------------------------------
\* Layouts.

InReg(p)   == p.at .. p.at + p.n - 1
InField(p) == p.lo .. p.lo + p.n - 1

\* Pieces of words of 24 bits that share no bit of a register and none of a field.
Sound(pieces) ==
    /\ IsFiniteSet(pieces)
    /\ \A p \in pieces : /\ p.at \in 0 .. 24 /\ p.lo \in 0 .. 24 /\ p.n \in 0 .. 24
                         /\ p.at + p.n <= 24 /\ p.lo + p.n <= 24
    /\ \A p, q \in pieces : p # q => /\ p.reg = q.reg => p.at + p.n <= q.at \/ q.at + q.n <= p.at
                                     /\ p.field = q.field => p.lo + p.n <= q.lo \/ q.lo + q.n <= p.lo

\* What is written of a field.
Kept(f, v) == Clipped(f, v[f])

LEMMA PackedBits ==
    ASSUME NEW W, Sound(W), NEW v, \A p \in W : Kept(p.field, v) \in Nat,
           NEW r \in RegsOf(W)
    PROVE  /\ Packed(W, v)[r] \in Nat
           /\ \A i \in 0 .. 23 :
                  /\ \A p \in W : p.reg = r /\ i \in InReg(p) =>
                         Bit(Packed(W, v)[r], i) = Bit(Kept(p.field, v), p.lo + (i - p.at))
                  /\ (\A p \in W : p.reg = r => i \notin InReg(p)) => Bit(Packed(W, v)[r], i) = 0
<1> DEFINE S == {q \in W : q.reg = r}
           t == [p \in W |-> Part(Kept(p.field, v), p.lo, p.at, p.n)]
           f == [p \in S |-> Value(t[p])]
           g == [p \in {q \in W : q.reg = r} |->
                    Bits(Clipped(p.field, v[p.field]), p.lo, p.n) * 2^p.at]
<1>1. IsFiniteSet(S)
  BY FS_Subset DEF Sound
<1>2. \A p \in S : IsPart(t[p]) /\ At(t[p]) = InReg(p)
  BY DEF Sound, IsPart, Part, At, InReg
<1>3. ASSUME NEW p \in S, NEW q \in S, p # q PROVE At(t[p]) \cap At(t[q]) = {}
  <2>1. p.at + p.n <= q.at \/ q.at + q.n <= p.at
    BY <1>3 DEF Sound
  <2>2. p.at \in Int /\ p.n \in Int /\ q.at \in Int /\ q.n \in Int
    BY DEF Sound
  <2>3. InReg(p) \cap InReg(q) = {}
    BY <2>1, <2>2 DEF InReg
  <2> QED
    BY <1>2, <2>3
<1>4. Packed(W, v)[r] = SumOf(f, S)
  <2>1. Packed(W, v)[r] = SumFunction(g)
    BY DEF Packed
  <2>2. g = f
    BY DEF Value, Part, Kept
  <2>3. DOMAIN f = S
    OBVIOUS
  <2> HIDE DEF f, g, S
  <2> QED
    BY <2>1, <2>2, <2>3, SumDef
<1> DEFINE sum == SumOf(f, S)
<1>5. /\ sum \in Nat
      /\ \A i \in 0 .. 23 :
             /\ \A p \in S : i \in At(t[p]) =>
                    Bit(sum, i) = Bit(t[p].w, t[p].from + (i - t[p].to))
             /\ (\A p \in S : i \notin At(t[p])) => Bit(sum, i) = 0
  <2> HIDE DEF S, t
  <2> QED
    BY <1>1, <1>2, <1>3, SumOfParts
<1> HIDE DEF sum
<1>6. \A p \in S : t[p].w = Kept(p.field, v) /\ t[p].from = p.lo /\ t[p].to = p.at
  BY DEF Part
<1> HIDE DEF t
<1>7. \A i \in 0 .. 23 :
          /\ \A p \in S : i \in InReg(p) => Bit(sum, i) = Bit(Kept(p.field, v), p.lo + (i - p.at))
          /\ (\A p \in S : i \notin InReg(p)) => Bit(sum, i) = 0
  BY <1>2, <1>5, <1>6
<1> QED
  BY <1>4, <1>5, <1>7 DEF sum

\* What the pieces of a field give together, before it is cut to the width of the field.
Taken(R, words, f) ==
    SumFunction([p \in {q \in R : q.field = f} |-> Bits(words[p.reg], p.at, p.n) * 2^p.lo])

LEMMA TakenBits ==
    ASSUME NEW R, Sound(R), NEW words, \A p \in R : words[p.reg] \in Nat,
           NEW f \in FieldsOf(R)
    PROVE  /\ Taken(R, words, f) \in Nat /\ Taken(R, words, f) < Pow(24)
           /\ \A i \in 0 .. 23 :
                  /\ \A p \in R : p.field = f /\ i \in InField(p) =>
                         Bit(Taken(R, words, f), i) = Bit(words[p.reg], p.at + (i - p.lo))
                  /\ (\A p \in R : p.field = f => i \notin InField(p)) =>
                         Bit(Taken(R, words, f), i) = 0
<1> DEFINE S == {q \in R : q.field = f}
           t == [p \in R |-> Part(words[p.reg], p.at, p.lo, p.n)]
           h == [p \in S |-> Value(t[p])]
           g == [p \in {q \in R : q.field = f} |-> Bits(words[p.reg], p.at, p.n) * 2^p.lo]
<1>1. IsFiniteSet(S)
  BY FS_Subset DEF Sound
<1>2. \A p \in S : IsPart(t[p]) /\ At(t[p]) = InField(p)
  BY DEF Sound, IsPart, Part, At, InField
<1>3. ASSUME NEW p \in S, NEW q \in S, p # q PROVE At(t[p]) \cap At(t[q]) = {}
  <2>1. p.lo + p.n <= q.lo \/ q.lo + q.n <= p.lo
    BY <1>3 DEF Sound
  <2>2. p.lo \in Int /\ p.n \in Int /\ q.lo \in Int /\ q.n \in Int
    BY DEF Sound
  <2>3. InField(p) \cap InField(q) = {}
    BY <2>1, <2>2 DEF InField
  <2> QED
    BY <1>2, <2>3
<1>4. Taken(R, words, f) = SumOf(h, S)
  <2>1. Taken(R, words, f) = SumFunction(g)
    BY DEF Taken
  <2>2. g = h
    BY DEF Value, Part
  <2>3. DOMAIN h = S
    OBVIOUS
  <2> HIDE DEF h, g, S
  <2> QED
    BY <2>1, <2>2, <2>3, SumDef
<1> DEFINE sum == SumOf(h, S)
<1>5. /\ sum \in Nat /\ sum < Pow(24)
      /\ \A i \in 0 .. 23 :
             /\ \A p \in S : i \in At(t[p]) =>
                    Bit(sum, i) = Bit(t[p].w, t[p].from + (i - t[p].to))
             /\ (\A p \in S : i \notin At(t[p])) => Bit(sum, i) = 0
  <2> HIDE DEF S, t
  <2> QED
    BY <1>1, <1>2, <1>3, SumOfParts
<1> HIDE DEF sum
<1>6. \A p \in S : t[p].w = words[p.reg] /\ t[p].from = p.at /\ t[p].to = p.lo
  BY DEF Part
<1> HIDE DEF t
<1>7. \A i \in 0 .. 23 :
          /\ \A p \in S : i \in InField(p) => Bit(sum, i) = Bit(words[p.reg], p.at + (i - p.lo))
          /\ (\A p \in S : i \notin InField(p)) => Bit(sum, i) = 0
  BY <1>2, <1>5, <1>6
<1> QED
  BY <1>4, <1>5, <1>7 DEF sum

\* Bit i of field f is read from where it was written.
Meets(p, q, f, i) ==
    /\ p.field = f /\ q.field = f /\ p.reg = q.reg
    /\ i \in InField(p) /\ i \in InField(q) /\ p.at - p.lo = q.at - q.lo

\* It is not read, or from where nothing was written.
Dropped(R, W, f, i) ==
    \A p \in R, q \in W :
        p.field = f /\ i \in InField(p) /\ p.reg = q.reg => p.at + (i - p.lo) \notin InReg(q)

\* The registers that R reads from `words` are those that W has made of v.
ReadFrom(R, W, v, words) ==
    /\ Sound(R) /\ Sound(W) /\ \A p \in W : Kept(p.field, v) \in Nat
    /\ \A p \in R : p.reg \in RegsOf(W) /\ words[p.reg] = Packed(W, v)[p.reg]

\* y is a value of k bits, for which the field has room: those of v that are written and read at the same place.
BitsBack(R, W, v, f, k, y) ==
    /\ f[3] \in 0 .. 24 /\ k \in 0 .. f[3] /\ y \in Nat /\ y < Pow(k)
    /\ \A p \in R : p.field = f => p.lo + p.n <= k
    /\ \A i \in 0 .. k - 1 :
           \/ Bit(y, i) = Bit(Kept(f, v), i) /\ \E p \in R, q \in W : Meets(p, q, f, i)
           \/ Bit(y, i) = 0 /\ Dropped(R, W, f, i)

\* What is found in a field, when another layout has written the registers.
LEMMA FieldBack ==
    ASSUME NEW R, NEW W, NEW v, NEW words, ReadFrom(R, W, v, words),
           NEW f \in FieldsOf(R), NEW k, NEW y, BitsBack(R, W, v, f, k, y)
    PROVE  Unpacked(R, words)[f] = y
<1> USE DEF ReadFrom, BitsBack
<1> DEFINE x == Taken(R, words, f)
<1>1. \A p \in R : words[p.reg] \in Nat
  BY PackedBits
<1>2. /\ x \in Nat /\ x < Pow(24)
      /\ \A i \in 0 .. 23 :
             /\ \A p \in R : p.field = f /\ i \in InField(p) =>
                    Bit(x, i) = Bit(words[p.reg], p.at + (i - p.lo))
             /\ (\A p \in R : p.field = f => i \notin InField(p)) => Bit(x, i) = 0
  BY <1>1, TakenBits
<1> HIDE DEF x
<1>3. PICK m \in 0 .. 24 : m = f[3] /\ k \in 0 .. m
  OBVIOUS
<1>4. k \in 0 .. 24 /\ y < Pow(24) /\ y < Pow(m) /\ Pow(m) \in Nat \ {0}
  <2>1. k \in 0 .. 24 /\ 24 \in k .. 24 /\ m \in k .. 24
    BY <1>3
  <2>2. Pow(k) <= Pow(24) /\ Pow(k) <= Pow(m)
    BY <2>1, PowersGrow
  <2>3. Pow(k) \in Nat /\ Pow(24) \in Nat /\ Pow(m) \in Nat \ {0}
    BY <1>3, <2>1, Doubles
  <2> QED
    BY <2>1, <2>2, <2>3
<1>5. ASSUME NEW i \in 0 .. 23, NEW p \in R, NEW q \in W, Meets(p, q, f, i)
      PROVE  Bit(x, i) = Bit(Kept(f, v), i)
  <2>1. /\ p.at \in Int /\ p.lo \in Int /\ p.n \in Int /\ q.at \in Int /\ q.lo \in Int /\ q.n \in Int
        /\ p.at + p.n <= 24 /\ p.at >= 0
    BY DEF Sound
  <2>2. PICK j \in 0 .. 23 : j = p.at + (i - p.lo) /\ j \in InReg(q) /\ q.lo + (j - q.at) = i
    <3> HIDE DEF ReadFrom, BitsBack
    <3>1. /\ p.lo <= i /\ i <= p.lo + p.n - 1 /\ q.lo <= i /\ i <= q.lo + q.n - 1
          /\ p.at - p.lo = q.at - q.lo
      BY <1>5, <2>1 DEF Meets, InField
    <3>2. PICK a \in Int, l \in Int, n \in Int, b \in Int, e \in Int, c \in Int :
              /\ a = p.at /\ l = p.lo /\ n = p.n /\ b = q.at /\ e = q.lo /\ c = q.n
      BY <2>1
    <3>3. /\ a + n <= 24 /\ a >= 0 /\ l <= i /\ i <= l + n - 1 /\ e <= i /\ i <= e + c - 1
          /\ a - l = b - e
      BY <2>1, <3>1, <3>2
    <3>4. /\ a + (i - l) \in 0 .. 23 /\ a + (i - l) \in b .. b + c - 1
          /\ e + ((a + (i - l)) - b) = i
      BY <3>3
    <3> QED
      BY <3>2, <3>4 DEF InReg
  <2>3. Bit(x, i) = Bit(words[p.reg], j)
    BY <1>2, <1>5, <2>2 DEF Meets
  <2>4. q.reg \in RegsOf(W) /\ words[p.reg] = Packed(W, v)[q.reg] /\ q.field = f
    BY <1>5 DEF Meets
  <2>5. Bit(Packed(W, v)[q.reg], j) = Bit(Kept(q.field, v), q.lo + (j - q.at))
    BY <2>2, <2>4, PackedBits
  <2> QED
    BY <2>2, <2>3, <2>4, <2>5
<1>6. ASSUME NEW i \in 0 .. 23, Dropped(R, W, f, i) PROVE Bit(x, i) = 0
  <2>1. CASE \A p \in R : p.field = f => i \notin InField(p)
    BY <1>2, <2>1
  <2>2. ASSUME NEW p \in R, p.field = f, i \in InField(p) PROVE Bit(x, i) = 0
    <3>1. p.at \in Int /\ p.lo \in Int /\ p.n \in Int /\ p.at + p.n <= 24 /\ p.at >= 0
      BY DEF Sound
    <3>2. PICK j \in 0 .. 23 : j = p.at + (i - p.lo)
      <4>1. p.lo <= i /\ i <= p.lo + p.n - 1
        BY <2>2, <3>1 DEF InField
      <4>2. p.at + (i - p.lo) \in 0 .. 23
        BY <3>1, <4>1
      <4> QED
        BY <4>2
    <3>3. \A q \in W : q.reg = p.reg => j \notin InReg(q)
      BY <1>6, <2>2, <3>2 DEF Dropped
    <3>4. p.reg \in RegsOf(W) /\ words[p.reg] = Packed(W, v)[p.reg]
      OBVIOUS
    <3>5. Bit(Packed(W, v)[p.reg], j) = 0
      BY <3>3, <3>4, PackedBits
    <3> QED
      BY <1>2, <2>2, <3>2, <3>4, <3>5
  <2> QED
    BY <2>1, <2>2
<1>7. ASSUME NEW i \in 0 .. 23 PROVE Bit(x, i) = Bit(y, i)
  <2>1. CASE i < k
    BY <1>5, <1>6, <2>1
  <2>2. CASE ~(i < k)
    <3>1. i \in k .. 23
      BY <2>2
    <3>2. Bit(y, i) = 0
      BY <3>1, <1>4, HighBits
    <3>3. ASSUME NEW p \in R, p.field = f PROVE i \notin InField(p)
      <4>1. p.lo \in Int /\ p.n \in Int /\ p.lo + p.n <= k
        BY <3>3 DEF Sound
      <4> QED
        BY <3>1, <4>1 DEF InField
    <3> QED
      BY <1>2, <3>2, <3>3
  <2> QED
    BY <2>1, <2>2
<1>8. x = y
  BY <1>2, <1>4, <1>7, SameBits
<1>9. Unpacked(R, words)[f] = x % Pow(m)
  BY <1>3 DEF Unpacked, Taken, Pow, x
<1>10. y % Pow(m) = y
  <2>1. (0 * Pow(m) + y) % Pow(m) = y
    BY <1>4, Divided
  <2> QED
    BY <1>4, <2>1
<1> QED
  BY <1>8, <1>9, <1>10

-----------------------------------------------------------------------------
\* The settings.

\* Values that the fields can have by their width.
Values(fields) == {v \in [fields -> Nat] : \A f \in fields : v[f] < 2^f[3]}

\* The registers `words` are those that a value makes.
Made(W, v, words) == \A r \in RegsOf(W) : words[r] = Packed(W, v)[r]

\* Each piece is a field as a whole, none of them cut.
Whole(pieces) ==
    \A p \in pieces : p.lo = 0 /\ p.n = p.field[3] /\ p.n \in 1 .. 24 /\ p.field[1] # "threshold"

LEMMA FewAreFinite ==
    \A a, b, c, d, e, f, g, h, i :
        /\ IsFiniteSet({a}) /\ IsFiniteSet({a, b}) /\ IsFiniteSet({a, b, c})
        /\ IsFiniteSet({a, b, c, d}) /\ IsFiniteSet({a, b, c, d, e, f, g, h})
        /\ IsFiniteSet({a, b, c, d, e, f, g, h, i})
<1> SUFFICES ASSUME NEW a, NEW b, NEW c, NEW d, NEW e, NEW f, NEW g, NEW h, NEW i
             PROVE  /\ IsFiniteSet({a}) /\ IsFiniteSet({a, b}) /\ IsFiniteSet({a, b, c})
                    /\ IsFiniteSet({a, b, c, d}) /\ IsFiniteSet({a, b, c, d, e, f, g, h})
                    /\ IsFiniteSet({a, b, c, d, e, f, g, h, i})
  OBVIOUS
<1>1. IsFiniteSet({a})
  BY FS_Singleton
<1>2. IsFiniteSet({a, b})
  <2>1. IsFiniteSet({a} \cup {b}) /\ {a} \cup {b} = {a, b}
    BY <1>1, FS_AddElement
  <2> QED
    BY <2>1, Zenon
<1>3. IsFiniteSet({a, b, c})
  <2>1. IsFiniteSet({a, b} \cup {c}) /\ {a, b} \cup {c} = {a, b, c}
    BY <1>2, FS_AddElement
  <2> QED
    BY <2>1, Zenon
<1>4. IsFiniteSet({a, b, c, d})
  <2>1. IsFiniteSet({a, b, c} \cup {d}) /\ {a, b, c} \cup {d} = {a, b, c, d}
    BY <1>3, FS_AddElement
  <2> QED
    BY <2>1, Zenon
<1>5. PICK A : A = {a, b, c, d} /\ IsFiniteSet(A)
  BY <1>4
<1>6. IsFiniteSet(((A \cup {e}) \cup {f}) \cup {g})
  BY <1>5, FS_AddElement, Zenon
<1>7. IsFiniteSet((((A \cup {e}) \cup {f}) \cup {g}) \cup {h})
  BY <1>6, FS_AddElement, Zenon
<1>8. IsFiniteSet(((((A \cup {e}) \cup {f}) \cup {g}) \cup {h}) \cup {i})
  BY <1>7, FS_AddElement, Zenon
<1>9. /\ (((A \cup {e}) \cup {f}) \cup {g}) \cup {h} = {a, b, c, d, e, f, g, h}
      /\ ((((A \cup {e}) \cup {f}) \cup {g}) \cup {h}) \cup {i} = {a, b, c, d, e, f, g, h, i}
  BY <1>5
<1>10. IsFiniteSet({a, b, c, d, e, f, g, h}) /\ IsFiniteSet({a, b, c, d, e, f, g, h, i})
  BY <1>7, <1>8, <1>9, Zenon
<1> QED
  BY <1>1, <1>2, <1>3, <1>4, <1>10

\* Only the thresholds of the beams are clipped.
Uncut(f) == f[1] # "threshold" \/ f[3] # 21

\* What is kept of a field.
LEMMA KeptIs ==
    ASSUME NEW W, NEW v \in Values(FieldsOf(W)), NEW f \in FieldsOf(W)
    PROVE  /\ v[f] \in Nat /\ v[f] < 2^f[3] /\ Kept(f, v) \in Nat
           /\ Uncut(f) => Kept(f, v) = v[f]
<1>1. Threshold \in Nat
  BY DEF Threshold
<1> QED
  BY <1>1 DEF Values, Kept, Clipped, Uncut

LEMMA MadeIsRead ==
    ASSUME NEW R, NEW W, Sound(R), Sound(W), RegsOf(R) \subseteq RegsOf(W),
           NEW v \in Values(FieldsOf(W)), NEW words, Made(W, v, words)
    PROVE  ReadFrom(R, W, v, words)
<1>1. \A p \in W : p.field \in FieldsOf(W)
  BY DEF FieldsOf
<1>2. \A p \in W : Kept(p.field, v) \in Nat
  BY <1>1, KeptIs
<1>3. \A p \in R : p.reg \in RegsOf(W) /\ words[p.reg] = Packed(W, v)[p.reg]
  BY DEF RegsOf, Made
<1> QED
  BY <1>2, <1>3 DEF ReadFrom

\* Every bit of the field is read, from where it was written.
FullyRead(R, W, f) ==
    /\ f \in FieldsOf(R) /\ f \in FieldsOf(W) /\ f[3] \in 1 .. 24
    /\ \A p \in R : p.field = f => p.lo + p.n <= f[3]
    /\ \A i \in 0 .. f[3] - 1 : \E p \in R, q \in W : Meets(p, q, f, i)

LEMMA FullBack ==
    ASSUME NEW R, NEW W, NEW v \in Values(FieldsOf(W)), NEW words, ReadFrom(R, W, v, words),
           NEW f, FullyRead(R, W, f), Uncut(f)
    PROVE  Unpacked(R, words)[f] = v[f]
<1>1. f \in FieldsOf(R) /\ f \in FieldsOf(W)
  BY DEF FullyRead
<1>2. PICK k, y : k = f[3] /\ y = v[f]
  OBVIOUS
<1>3. y \in Nat /\ y < Pow(k) /\ Kept(f, v) = y
  BY <1>1, <1>2, KeptIs DEF Pow
<1>4. BitsBack(R, W, v, f, k, y)
  BY <1>2, <1>3 DEF BitsBack, FullyRead
<1>5. Unpacked(R, words)[f] = y
  BY <1>1, <1>4, FieldBack
<1> QED
  BY <1>2, <1>5

\* Pieces that are whole fields are read so.
LEMMA WholeIsFull ==
    ASSUME NEW W, Whole(W), Sound(W), NEW R, R \subseteq W, NEW f \in FieldsOf(R)
    PROVE  FullyRead(R, W, f) /\ Uncut(f)
<1>1. PICK p \in R : p.field = f
  BY DEF FieldsOf
<1>2. p.lo = 0 /\ p.n = f[3] /\ f[3] \in 1 .. 24 /\ f[1] # "threshold" /\ p \in W
  BY <1>1 DEF Whole
<1>3. f \in FieldsOf(R) /\ f \in FieldsOf(W)
  BY <1>1 DEF FieldsOf
<1>4. ASSUME NEW q \in R, q.field = f PROVE q.lo + q.n <= f[3]
  BY <1>2, <1>4 DEF Whole
<1>5. ASSUME NEW i \in 0 .. f[3] - 1 PROVE Meets(p, p, f, i)
  <2>1. i \in InField(p)
    BY <1>2 DEF InField
  <2> QED
    BY <1>1, <2>1 DEF Meets
<1> QED
  BY <1>2, <1>3, <1>4, <1>5 DEF FullyRead, Uncut

LEMMA ImageIsFinite ==
    ASSUME NEW f, IsFiniteSet(DOMAIN f)
    PROVE  IsFiniteSet({f[x] : x \in DOMAIN f})
<1> DEFINE T == {f[x] : x \in DOMAIN f}
           g == [x \in DOMAIN f |-> f[x]]
<1>1. g \in Surjection(DOMAIN f, T)
  BY DEF Surjection
<1> HIDE DEF T, g
<1>2. IsFiniteSet(T)
  BY <1>1, FS_Surjection
<1> QED
  BY <1>2 DEF T

LEMMA ChannelMaskWhole ==
    /\ ChannelMask.reads = ChannelMask.writes
    /\ Sound(ChannelMask.writes) /\ Whole(ChannelMask.writes)
<1>1. PICK W :
    /\ W = ChannelMask.writes
    /\ W = {[field |-> <<"mask", 0, 8>>, reg |-> 48, at |-> 0, lo |-> 0, n |-> 8]}
  BY DEF ChannelMask, Setting, Flag, ByteAt, Piece, Field
<1>2. ChannelMask.reads = ChannelMask.writes
  BY DEF ChannelMask, Setting
<1>3. IsFiniteSet(ChannelMask.writes)
  BY FewAreFinite DEF ChannelMask, Setting
<1>4. Whole(W)
  BY <1>1 DEF Whole
<1>5. \A p \in W : p.at \in 0 .. 24 /\ p.lo \in 0 .. 24 /\ p.n \in 0 .. 24 /\ p.at + p.n <= 24 /\ p.lo + p.n <= 24
  BY <1>1
<1>6. \A p, q \in W : p # q => /\ p.field # q.field
                               /\ p.reg = q.reg => p.at + p.n <= q.at \/ q.at + q.n <= p.at
  BY <1>1
<1> QED
  BY <1>1, <1>2, <1>3, <1>4, <1>5, <1>6 DEF Sound

LEMMA TriggerEnablesWhole ==
    /\ TriggerEnables.reads = TriggerEnables.writes
    /\ Sound(TriggerEnables.writes) /\ Whole(TriggerEnables.writes)
<1>1. PICK W :
    /\ W = TriggerEnables.writes
    /\ W = {[field |-> <<"beam8", 0, 1>>, reg |-> 82, at |-> 8, lo |-> 0, n |-> 1],
           [field |-> <<"beam4a", 0, 1>>, reg |-> 82, at |-> 9, lo |-> 0, n |-> 1],
           [field |-> <<"beam4b", 0, 1>>, reg |-> 82, at |-> 10, lo |-> 0, n |-> 1],
           [field |-> <<"beamforming", 0, 1>>, reg |-> 82, at |-> 0, lo |-> 0, n |-> 1]}
  BY DEF TriggerEnables, Setting, Flag, ByteAt, Piece, Field
<1>2. TriggerEnables.reads = TriggerEnables.writes
  BY DEF TriggerEnables, Setting
<1>3. IsFiniteSet(TriggerEnables.writes)
  BY FewAreFinite DEF TriggerEnables, Setting
<1>4. Whole(W)
  BY <1>1 DEF Whole
<1>5. \A p \in W : p.at \in 0 .. 24 /\ p.lo \in 0 .. 24 /\ p.n \in 0 .. 24 /\ p.at + p.n <= 24 /\ p.lo + p.n <= 24
  BY <1>1
<1>6. \A p, q \in W : p # q => /\ p.field # q.field
                               /\ p.reg = q.reg => p.at + p.n <= q.at \/ q.at + q.n <= p.at
  BY <1>1
<1> QED
  BY <1>1, <1>2, <1>3, <1>4, <1>5, <1>6 DEF Sound

LEMMA PolarizationWhole ==
    /\ Polarization.reads = Polarization.writes
    /\ Sound(Polarization.writes) /\ Whole(Polarization.writes)
<1>1. PICK W :
    /\ W = Polarization.writes
    /\ W = {[field |-> <<"polarization", 0, 8>>, reg |-> 79, at |-> 0, lo |-> 0, n |-> 8]}
  BY DEF Polarization, Setting, Flag, ByteAt, Piece, Field
<1>2. Polarization.reads = Polarization.writes
  BY DEF Polarization, Setting
<1>3. IsFiniteSet(Polarization.writes)
  BY FewAreFinite DEF Polarization, Setting
<1>4. Whole(W)
  BY <1>1 DEF Whole
<1>5. \A p \in W : p.at \in 0 .. 24 /\ p.lo \in 0 .. 24 /\ p.n \in 0 .. 24 /\ p.at + p.n <= 24 /\ p.lo + p.n <= 24
  BY <1>1
<1>6. \A p, q \in W : p # q => /\ p.field # q.field
                               /\ p.reg = q.reg => p.at + p.n <= q.at \/ q.at + q.n <= p.at
  BY <1>1
<1> QED
  BY <1>1, <1>2, <1>3, <1>4, <1>5, <1>6 DEF Sound

LEMMA TriggerOutputWhole ==
    /\ TriggerOutput.reads = TriggerOutput.writes
    /\ Sound(TriggerOutput.writes) /\ Whole(TriggerOutput.writes)
<1>1. PICK W :
    /\ W = TriggerOutput.writes
    /\ W = {[field |-> <<"width", 0, 8>>, reg |-> 83, at |-> 8, lo |-> 0, n |-> 8],
           [field |-> <<"enable", 0, 1>>, reg |-> 83, at |-> 0, lo |-> 0, n |-> 1],
           [field |-> <<"polarity", 0, 1>>, reg |-> 83, at |-> 1, lo |-> 0, n |-> 1],
           [field |-> <<"send_1Hz", 0, 1>>, reg |-> 83, at |-> 2, lo |-> 0, n |-> 1]}
  BY DEF TriggerOutput, Setting, Flag, ByteAt, Piece, Field
<1>2. TriggerOutput.reads = TriggerOutput.writes
  BY DEF TriggerOutput, Setting
<1>3. IsFiniteSet(TriggerOutput.writes)
  BY FewAreFinite DEF TriggerOutput, Setting
<1>4. Whole(W)
  BY <1>1 DEF Whole
<1>5. \A p \in W : p.at \in 0 .. 24 /\ p.lo \in 0 .. 24 /\ p.n \in 0 .. 24 /\ p.at + p.n <= 24 /\ p.lo + p.n <= 24
  BY <1>1
<1>6. \A p, q \in W : p # q => /\ p.field # q.field
                               /\ p.reg = q.reg => p.at + p.n <= q.at \/ q.at + q.n <= p.at
  BY <1>1
<1> QED
  BY <1>1, <1>2, <1>3, <1>4, <1>5, <1>6 DEF Sound

LEMMA VerificationWhole ==
    /\ Verification.reads = Verification.writes
    /\ Sound(Verification.writes) /\ Whole(Verification.writes)
<1>1. PICK W :
    /\ W = Verification.writes
    /\ W = {[field |-> <<"mode", 0, 1>>, reg |-> 85, at |-> 0, lo |-> 0, n |-> 1]}
  BY DEF Verification, Setting, Flag, ByteAt, Piece, Field
<1>2. Verification.reads = Verification.writes
  BY DEF Verification, Setting
<1>3. IsFiniteSet(Verification.writes)
  BY FewAreFinite DEF Verification, Setting
<1>4. Whole(W)
  BY <1>1 DEF Whole
<1>5. \A p \in W : p.at \in 0 .. 24 /\ p.lo \in 0 .. 24 /\ p.n \in 0 .. 24 /\ p.at + p.n <= 24 /\ p.lo + p.n <= 24
  BY <1>1
<1>6. \A p, q \in W : p # q => /\ p.field # q.field
                               /\ p.reg = q.reg => p.at + p.n <= q.at \/ q.at + q.n <= p.at
  BY <1>1
<1> QED
  BY <1>1, <1>2, <1>3, <1>4, <1>5, <1>6 DEF Sound

LEMMA LowPassWhole ==
    /\ LowPass.reads = LowPass.writes
    /\ Sound(LowPass.writes) /\ Whole(LowPass.writes)
<1>1. PICK W :
    /\ W = LowPass.writes
    /\ W = {[field |-> <<"on", 0, 1>>, reg |-> 90, at |-> 0, lo |-> 0, n |-> 1]}
  BY DEF LowPass, Setting, Flag, ByteAt, Piece, Field
<1>2. LowPass.reads = LowPass.writes
  BY DEF LowPass, Setting
<1>3. IsFiniteSet(LowPass.writes)
  BY FewAreFinite DEF LowPass, Setting
<1>4. Whole(W)
  BY <1>1 DEF Whole
<1>5. \A p \in W : p.at \in 0 .. 24 /\ p.lo \in 0 .. 24 /\ p.n \in 0 .. 24 /\ p.at + p.n <= 24 /\ p.lo + p.n <= 24
  BY <1>1
<1>6. \A p, q \in W : p # q => /\ p.field # q.field
                               /\ p.reg = q.reg => p.at + p.n <= q.at \/ q.at + q.n <= p.at
  BY <1>1
<1> QED
  BY <1>1, <1>2, <1>3, <1>4, <1>5, <1>6 DEF Sound

LEMMA VetoOptionsWhole ==
    /\ VetoOptions.reads = VetoOptions.writes
    /\ Sound(VetoOptions.writes) /\ Whole(VetoOptions.writes)
<1>1. PICK W :
    /\ W = VetoOptions.writes
    /\ W = {[field |-> <<"saturation", 0, 1>>, reg |-> 95, at |-> 0, lo |-> 0, n |-> 1],
           [field |-> <<"cw", 0, 1>>, reg |-> 95, at |-> 1, lo |-> 0, n |-> 1],
           [field |-> <<"sideswipe", 0, 1>>, reg |-> 95, at |-> 2, lo |-> 0, n |-> 1],
           [field |-> <<"extended", 0, 1>>, reg |-> 95, at |-> 3, lo |-> 0, n |-> 1],
           [field |-> <<"pulse_width", 0, 8>>, reg |-> 95, at |-> 8, lo |-> 0, n |-> 8],
           [field |-> <<"sideswipe_cut", 0, 8>>, reg |-> 96, at |-> 16, lo |-> 0, n |-> 8],
           [field |-> <<"cw_cut", 0, 8>>, reg |-> 96, at |-> 8, lo |-> 0, n |-> 8],
           [field |-> <<"saturation_cut", 0, 8>>, reg |-> 96, at |-> 0, lo |-> 0, n |-> 8],
           [field |-> <<"extended_cut", 0, 8>>, reg |-> 97, at |-> 0, lo |-> 0, n |-> 8]}
  BY DEF VetoOptions, Setting, Flag, ByteAt, Piece, Field
<1>2. VetoOptions.reads = VetoOptions.writes
  BY DEF VetoOptions, Setting
<1>3. IsFiniteSet(VetoOptions.writes)
  BY FewAreFinite DEF VetoOptions, Setting
<1>4. Whole(W)
  BY <1>1 DEF Whole
<1>5. \A p \in W : p.at \in 0 .. 24 /\ p.lo \in 0 .. 24 /\ p.n \in 0 .. 24 /\ p.at + p.n <= 24 /\ p.lo + p.n <= 24
  BY <1>1
<1>6. \A p, q \in W : p # q => /\ p.field # q.field
                               /\ p.reg = q.reg => p.at + p.n <= q.at \/ q.at + q.n <= p.at
  BY <1>1
<1> QED
  BY <1>1, <1>2, <1>3, <1>4, <1>5, <1>6 DEF Sound

LEMMA ChannelBytesWhole ==
    ASSUME NEW name, name # "threshold", NEW reg \in Nat
    PROVE  Sound(ChannelBytes(name, reg)) /\ Whole(ChannelBytes(name, reg))
<1> DEFINE F(c) == [field |-> <<name, c, 8>>, reg |-> reg + (c \div 3), at |-> 8 * (c % 3), lo |-> 0, n |-> 8]
           f == [c \in 0 .. 7 |-> F(c)]
           W == ChannelBytes(name, reg)
<1>1. W = {F(c) : c \in 0 .. 7}
  BY DEF ChannelBytes, Piece, NumChan
<1>2. IsFiniteSet(W)
  <2>1. W = {f[c] : c \in DOMAIN f} /\ DOMAIN f = 0 .. 7
    BY <1>1
  <2>2. IsFiniteSet(0 .. 7)
    <3>1. PICK a \in Int, b \in Int : a = 0 /\ b = 7
      OBVIOUS
    <3>2. IsFiniteSet(a .. b)
      BY FS_Interval
    <3> QED
      BY <3>1, <3>2
  <2> HIDE DEF f, W
  <2> QED
    BY <2>1, <2>2, ImageIsFinite
<1> HIDE DEF W
<1>3. Whole(W)
  BY <1>1 DEF Whole
<1>4. \A c \in 0 .. 7 : /\ F(c).at \in 0 .. 24 /\ F(c).lo \in 0 .. 24 /\ F(c).n \in 0 .. 24
                        /\ F(c).at + F(c).n <= 24 /\ F(c).lo + F(c).n <= 24
  OBVIOUS
<1>5. ASSUME NEW c \in 0 .. 7, NEW d \in 0 .. 7, c # d
      PROVE  /\ F(c).field # F(d).field
             /\ F(c).reg = F(d).reg => F(c).at + F(c).n <= F(d).at \/ F(d).at + F(d).n <= F(c).at
  BY <1>5
<1> HIDE DEF F
<1>6. \A p \in W : \E c \in 0 .. 7 : p = F(c)
  BY <1>1
<1>7. \A p \in W : p.at \in 0 .. 24 /\ p.lo \in 0 .. 24 /\ p.n \in 0 .. 24 /\ p.at + p.n <= 24 /\ p.lo + p.n <= 24
  BY <1>4, <1>6
<1>8. \A p, q \in W : p # q => /\ p.field # q.field
                               /\ p.reg = q.reg => p.at + p.n <= q.at \/ q.at + q.n <= p.at
  BY <1>5, <1>6
<1>9. Sound(W)
  BY <1>2, <1>7, <1>8 DEF Sound
<1> QED
  BY <1>3, <1>9 DEF W

\* What the getter of a setting must know of its registers.
Recovers(s) ==
    /\ RegsOf(Reads[s]) \subseteq RegsOf(Writes[s])
    /\ \A v \in Values(FieldsOf(Writes[s])) : \A words :
           Made(Writes[s], v, words) => Unpacked(Reads[s], words) = Held(s, v)

\* What it must know of one field.
Finds(s, f) ==
    \A v \in Values(FieldsOf(Writes[s])) : \A words :
        ReadFrom(Reads[s], Writes[s], v, words) => Unpacked(Reads[s], words)[f] = Held(s, v)[f]

\* It is enough to look at the fields.
LEMMA ByField ==
    ASSUME NEW s \in Settings, Sound(Reads[s]), Sound(Writes[s]),
           RegsOf(Reads[s]) \subseteq RegsOf(Writes[s]),
           FieldsOf(Reads[s]) = FieldsOf(Writes[s]),
           \A f \in FieldsOf(Writes[s]) : Finds(s, f)
    PROVE  Recovers(s)
<1> SUFFICES ASSUME NEW v \in Values(FieldsOf(Writes[s])), NEW words, Made(Writes[s], v, words)
             PROVE  Unpacked(Reads[s], words) = Held(s, v)
  BY DEF Recovers
<1>1. ReadFrom(Reads[s], Writes[s], v, words)
  BY MadeIsRead
<1>2. \A f \in FieldsOf(Writes[s]) : Unpacked(Reads[s], words)[f] = Held(s, v)[f]
  BY <1>1 DEF Finds
<1>3. DOMAIN Unpacked(Reads[s], words) = FieldsOf(Writes[s]) /\ DOMAIN Held(s, v) = FieldsOf(Writes[s])
  BY DEF Unpacked, Held
<1>4. /\ Unpacked(Reads[s], words) = [f \in FieldsOf(Writes[s]) |-> Unpacked(Reads[s], words)[f]]
      /\ Held(s, v) = [f \in FieldsOf(Writes[s]) |-> Held(s, v)[f]]
  <2>1. Unpacked(Reads[s], words) = [f \in DOMAIN Unpacked(Reads[s], words) |-> Unpacked(Reads[s], words)[f]]
    BY DEF Unpacked
  <2>2. Held(s, v) = [f \in DOMAIN Held(s, v) |-> Held(s, v)[f]]
    BY DEF Held
  <2> QED
    BY <1>3, <2>1, <2>2
<1> QED
  BY <1>2, <1>4

LEMMA WholeRecovers ==
    ASSUME NEW s \in Settings, s \notin {"thresholds", "pretrigger", "holdoff"},
           Reads[s] = Writes[s], Sound(Writes[s]), Whole(Writes[s]),
           \A f \in FieldsOf(Writes[s]) : f[1] # "trig_delay"
    PROVE  Recovers(s)
<1>1. ASSUME NEW f \in FieldsOf(Writes[s]) PROVE Finds(s, f)
  <2>1. FullyRead(Reads[s], Writes[s], f) /\ Uncut(f)
    BY WholeIsFull
  <2>2. \A v \in Values(FieldsOf(Writes[s])) : Held(s, v)[f] = v[f]
    BY DEF Held
  <2> QED
    BY <2>1, <2>2, FullBack DEF Finds
<1> QED
  BY <1>1, ByField

LEMMA WholeSettings ==
    /\ Recovers("channel_mask") /\ Recovers("attenuation") /\ Recovers("trigger_enables")
    /\ Recovers("polarization") /\ Recovers("trigger_output") /\ Recovers("verification")
    /\ Recovers("trigger_delays") /\ Recovers("low_pass") /\ Recovers("veto_options")
<1>1. ASSUME NEW s \in Settings \ {"thresholds", "pretrigger", "holdoff"},
             NEW W, W = Writes[s] /\ W = Reads[s], Sound(W), Whole(W),
             \A p \in W : p.field[1] # "trig_delay"
      PROVE  Recovers(s)
  BY <1>1, WholeRecovers DEF FieldsOf
<1>2. {"channel_mask", "attenuation", "trigger_enables", "polarization", "trigger_output",
       "verification", "trigger_delays", "low_pass", "veto_options"} \subseteq Settings
  BY DEF Settings, Layouts
<1>3. Recovers("channel_mask")
  <2>1. Writes["channel_mask"] = ChannelMask.writes /\ Reads["channel_mask"] = ChannelMask.reads
    BY DEF Writes, Reads, Settings, Layouts
  <2>2. \A p \in ChannelMask.writes : p.field[1] # "trig_delay"
    BY DEF ChannelMask, Setting, Flag, ByteAt, Piece, Field
  <2> QED
    BY <1>1, <1>2, <2>1, <2>2, ChannelMaskWhole
<1>4. Recovers("trigger_enables")
  <2>1. Writes["trigger_enables"] = TriggerEnables.writes /\ Reads["trigger_enables"] = TriggerEnables.reads
    BY DEF Writes, Reads, Settings, Layouts
  <2>2. \A p \in TriggerEnables.writes : p.field[1] # "trig_delay"
    BY DEF TriggerEnables, Setting, Flag, ByteAt, Piece, Field
  <2> QED
    BY <1>1, <1>2, <2>1, <2>2, TriggerEnablesWhole
<1>5. Recovers("polarization")
  <2>1. Writes["polarization"] = Polarization.writes /\ Reads["polarization"] = Polarization.reads
    BY DEF Writes, Reads, Settings, Layouts
  <2>2. \A p \in Polarization.writes : p.field[1] # "trig_delay"
    BY DEF Polarization, Setting, Flag, ByteAt, Piece, Field
  <2> QED
    BY <1>1, <1>2, <2>1, <2>2, PolarizationWhole
<1>6. Recovers("trigger_output")
  <2>1. Writes["trigger_output"] = TriggerOutput.writes /\ Reads["trigger_output"] = TriggerOutput.reads
    BY DEF Writes, Reads, Settings, Layouts
  <2>2. \A p \in TriggerOutput.writes : p.field[1] # "trig_delay"
    BY DEF TriggerOutput, Setting, Flag, ByteAt, Piece, Field
  <2> QED
    BY <1>1, <1>2, <2>1, <2>2, TriggerOutputWhole
<1>7. Recovers("verification")
  <2>1. Writes["verification"] = Verification.writes /\ Reads["verification"] = Verification.reads
    BY DEF Writes, Reads, Settings, Layouts
  <2>2. \A p \in Verification.writes : p.field[1] # "trig_delay"
    BY DEF Verification, Setting, Flag, ByteAt, Piece, Field
  <2> QED
    BY <1>1, <1>2, <2>1, <2>2, VerificationWhole
<1>8. Recovers("low_pass")
  <2>1. Writes["low_pass"] = LowPass.writes /\ Reads["low_pass"] = LowPass.reads
    BY DEF Writes, Reads, Settings, Layouts
  <2>2. \A p \in LowPass.writes : p.field[1] # "trig_delay"
    BY DEF LowPass, Setting, Flag, ByteAt, Piece, Field
  <2> QED
    BY <1>1, <1>2, <2>1, <2>2, LowPassWhole
<1>9. Recovers("veto_options")
  <2>1. Writes["veto_options"] = VetoOptions.writes /\ Reads["veto_options"] = VetoOptions.reads
    BY DEF Writes, Reads, Settings, Layouts
  <2>2. \A p \in VetoOptions.writes : p.field[1] # "trig_delay"
    BY DEF VetoOptions, Setting, Flag, ByteAt, Piece, Field
  <2> QED
    BY <1>1, <1>2, <2>1, <2>2, VetoOptionsWhole
<1>10. Recovers("attenuation")
  <2>1. Writes["attenuation"] = ChannelBytes("attenuation", 50) /\ Reads["attenuation"] = ChannelBytes("attenuation", 50)
    BY DEF Writes, Reads, Settings, Layouts, Attenuation, Setting
  <2>2. \A p \in ChannelBytes("attenuation", 50) : p.field[1] # "trig_delay"
    BY DEF ChannelBytes, Piece
  <2>3. Sound(ChannelBytes("attenuation", 50)) /\ Whole(ChannelBytes("attenuation", 50))
    <3>1. "attenuation" # "threshold" /\ 50 \in Nat
      OBVIOUS
    <3> QED
      BY <3>1, ChannelBytesWhole
  <2> QED
    BY <1>1, <1>2, <2>1, <2>2, <2>3
<1>11. Recovers("trigger_delays")
  <2>1. Writes["trigger_delays"] = ChannelBytes("delay", 61) /\ Reads["trigger_delays"] = ChannelBytes("delay", 61)
    BY DEF Writes, Reads, Settings, Layouts, TriggerDelays, Setting
  <2>2. \A p \in ChannelBytes("delay", 61) : p.field[1] # "trig_delay"
    BY DEF ChannelBytes, Piece
  <2>3. Sound(ChannelBytes("delay", 61)) /\ Whole(ChannelBytes("delay", 61))
    <3>1. "delay" # "threshold" /\ 61 \in Nat
      OBVIOUS
    <3> QED
      BY <3>1, ChannelBytesWhole
  <2> QED
    BY <1>1, <1>2, <2>1, <2>2, <2>3
<1> QED
  BY <1>3, <1>4, <1>5, <1>6, <1>7, <1>8, <1>9, <1>10, <1>11

\* The four bits of a pretrigger.
LEMMA PretriggerRecovers == Recovers("pretrigger")
<1> DEFINE s == "pretrigger"
           f == <<"pretrigger", 0, 8>>
           P == [field |-> f, reg |-> 76, at |-> 0, lo |-> 0, n |-> 4]
<1>1. s \in Settings /\ Writes[s] = {P} /\ Reads[s] = {P}
  BY DEF Writes, Reads, Settings, Layouts, Pretrigger, Setting, Piece, Field
<1>2. /\ P.field = f /\ P.reg = 76 /\ P.at = 0 /\ P.lo = 0 /\ P.n = 4
      /\ f[1] = "pretrigger" /\ f[3] = 8
  OBVIOUS
<1> HIDE DEF P, f
<1>3. Sound({P}) /\ FieldsOf({P}) = {f}
  BY <1>2, FS_Singleton DEF Sound, FieldsOf
<1>4. Finds(s, f)
  <2> SUFFICES ASSUME NEW v \in Values({f}), NEW words, ReadFrom({P}, {P}, v, words)
               PROVE  Unpacked({P}, words)[f] = Held(s, v)[f]
    BY <1>1, <1>3 DEF Finds
  <2>1. v[f] \in Nat /\ Kept(f, v) = v[f]
    <3>1. v \in Values(FieldsOf({P})) /\ f \in FieldsOf({P}) /\ Uncut(f)
      BY <1>2, <1>3 DEF Uncut
    <3> QED
      BY <3>1, KeptIs
  <2>2. PICK x \in Nat, y \in Nat : x = v[f] /\ y = x % Pow(4) /\ y < Pow(4)
    BY <2>1, PowersAre
  <2>3. Held(s, v)[f] = y
    <3>1. f \in FieldsOf(Writes[s])
      BY <1>1, <1>3
    <3>2. Held(s, v)[f] = v[f] % 16
      BY <1>2, <3>1 DEF Held
    <3> QED
      BY <2>2, <3>2, PowersAre
  <2>4. \A i \in 0 .. 3 : Bit(y, i) = Bit(x, i)
    <3>1. \A i \in 0 .. 3 : i \in 0 .. 23 /\ i < 4 /\ 4 \in 0 .. 24
      OBVIOUS
    <3> QED
      BY <2>2, <3>1, BitsCut
  <2>5. \A i \in 0 .. 3 : Meets(P, P, f, i)
    BY <1>2 DEF Meets, InField
  <2>6. BitsBack({P}, {P}, v, f, 4, y)
    BY <1>2, <2>1, <2>2, <2>4, <2>5 DEF BitsBack
  <2> QED
    BY <1>3, <2>3, <2>6, FieldBack
<1> QED
  BY <1>1, <1>3, <1>4, ByField DEF RegsOf

\* Three bytes, and all of them at once.
LEMMA TriggerMaskRecovers == Recovers("trigger_mask")
<1> DEFINE s == "trigger_mask"
           f == <<"mask", 0, 24>>
           P == [field |-> f, reg |-> 80, at |-> 0, lo |-> 0, n |-> 24]
           Q(b) == [field |-> f, reg |-> 80, at |-> 8 * b, lo |-> 8 * b, n |-> 8]
           W == {Q(0), Q(1), Q(2)}
<1>1. s \in Settings /\ Writes[s] = W /\ Reads[s] = {P}
  <2>1. Writes[s] = {Q(b) : b \in 0 .. 2}
    BY DEF Writes, Reads, Settings, Layouts, TriggerMask, ThreeBytes, Setting, Piece, Field
  <2>2. {Q(b) : b \in 0 .. 2} = W
    <3>1. \A b \in 0 .. 2 : b = 0 \/ b = 1 \/ b = 2
      OBVIOUS
    <3> QED
      BY <3>1
  <2> QED
    BY <2>1, <2>2 DEF Writes, Reads, Settings, Layouts, TriggerMask, ThreeBytes, Setting, Piece, Field
<1>2. /\ P.field = f /\ P.reg = 80 /\ P.at = 0 /\ P.lo = 0 /\ P.n = 24
      /\ f[1] = "mask" /\ f[3] = 24
      /\ \A b \in 0 .. 2 : Q(b).field = f /\ Q(b).reg = 80 /\ Q(b).at = 8 * b /\ Q(b).lo = 8 * b /\ Q(b).n = 8
  OBVIOUS
<1> HIDE DEF P, f, Q
<1>3. Sound({P}) /\ FieldsOf({P}) = {f} /\ RegsOf({P}) = {80}
  <2>1. IsFiniteSet({P})
    BY FS_Singleton
  <2>2. FieldsOf({P}) = {f} /\ RegsOf({P}) = {80}
    BY <1>2 DEF FieldsOf, RegsOf
  <2> QED
    BY <1>2, <2>1, <2>2 DEF Sound
<1>4. Sound(W) /\ FieldsOf(W) = {f} /\ RegsOf(W) = {80}
  <2>1. IsFiniteSet(W)
    BY FewAreFinite
  <2> QED
    BY <1>2, <2>1 DEF Sound, FieldsOf, RegsOf
<1>5. FullyRead({P}, W, f)
  <2>1. ASSUME NEW i \in 0 .. 23 PROVE \E q \in W : Meets(P, q, f, i)
    <3>1. \/ Meets(P, Q(0), f, i) \/ Meets(P, Q(1), f, i) \/ Meets(P, Q(2), f, i)
      BY <1>2 DEF Meets, InField
    <3> QED
      BY <3>1
  <2> QED
    BY <1>2, <1>3, <1>4, <2>1 DEF FullyRead
<1> HIDE DEF W
<1>6. Finds(s, f)
  <2>1. \A v : Held(s, v)[f] = v[f]
    BY <1>1, <1>2, <1>4 DEF Held
  <2> QED
    BY <1>1, <1>2, <1>5, <2>1, FullBack DEF Finds, Uncut
<1> QED
  BY <1>1, <1>3, <1>4, <1>6, ByField

\* Twelve bits of a holdoff; the other four that are read are not written.
LEMMA HoldoffRecovers == Recovers("holdoff")
<1> DEFINE s == "holdoff"
           f == <<"holdoff", 0, 16>>
           P == [field |-> f, reg |-> 81, at |-> 0, lo |-> 0, n |-> 8]
           Q == [field |-> f, reg |-> 81, at |-> 8, lo |-> 8, n |-> 8]
           H == [field |-> f, reg |-> 81, at |-> 8, lo |-> 8, n |-> 4]
<1>1. s \in Settings /\ Writes[s] = {H, P} /\ Reads[s] = {P, Q}
  BY DEF Writes, Reads, Settings, Layouts, Holdoff, TwoBytes, Setting, Piece, Field
<1>2. /\ P.field = f /\ P.reg = 81 /\ P.at = 0 /\ P.lo = 0 /\ P.n = 8
      /\ Q.field = f /\ Q.reg = 81 /\ Q.at = 8 /\ Q.lo = 8 /\ Q.n = 8
      /\ H.field = f /\ H.reg = 81 /\ H.at = 8 /\ H.lo = 8 /\ H.n = 4
      /\ f[1] = "holdoff" /\ f[3] = 16
  OBVIOUS
<1> HIDE DEF P, Q, H, f
<1>3. Sound({P, Q}) /\ FieldsOf({P, Q}) = {f} /\ RegsOf({P, Q}) = {81}
  <2>1. IsFiniteSet({P, Q})
    BY FewAreFinite
  <2>2. FieldsOf({P, Q}) = {f} /\ RegsOf({P, Q}) = {81}
    BY <1>2 DEF FieldsOf, RegsOf
  <2> QED
    BY <1>2, <2>1, <2>2 DEF Sound
<1>4. Sound({H, P}) /\ FieldsOf({H, P}) = {f} /\ RegsOf({H, P}) = {81}
  <2>1. IsFiniteSet({H, P})
    BY FewAreFinite
  <2>2. FieldsOf({H, P}) = {f} /\ RegsOf({H, P}) = {81}
    BY <1>2 DEF FieldsOf, RegsOf
  <2> QED
    BY <1>2, <2>1, <2>2 DEF Sound
<1>5. Finds(s, f)
  <2> SUFFICES ASSUME NEW v \in Values({f}), NEW words, ReadFrom({P, Q}, {H, P}, v, words)
               PROVE  Unpacked({P, Q}, words)[f] = Held(s, v)[f]
    BY <1>1, <1>4 DEF Finds
  <2>1. v[f] \in Nat /\ Kept(f, v) = v[f]
    <3>1. v \in Values(FieldsOf({H, P})) /\ f \in FieldsOf({H, P}) /\ Uncut(f)
      BY <1>2, <1>4 DEF Uncut
    <3> QED
      BY <3>1, KeptIs
  <2>2. PICK x \in Nat, y \in Nat : x = v[f] /\ y = x % Pow(12) /\ y < Pow(12)
    BY <2>1, PowersAre
  <2>3. Held(s, v)[f] = y
    <3>1. f \in FieldsOf(Writes[s])
      BY <1>1, <1>4
    <3>2. Held(s, v)[f] = v[f] % 4096
      BY <1>2, <3>1 DEF Held
    <3> QED
      BY <2>2, <3>2, PowersAre
  <2>4. \A i \in 0 .. 11 : Bit(y, i) = Bit(x, i)
    <3>1. \A i \in 0 .. 11 : i \in 0 .. 23 /\ i < 12 /\ 12 \in 0 .. 24
      OBVIOUS
    <3> QED
      BY <2>2, <3>1, BitsCut
  <2>5. \A i \in 0 .. 11 : Meets(P, P, f, i) \/ Meets(Q, H, f, i)
    BY <1>2 DEF Meets, InField
  <2>6. \A i \in 12 .. 15 : Bit(y, i) = 0
    <3>1. \A i \in 12 .. 15 : i \in 12 .. 23 /\ 12 \in 0 .. 24
      OBVIOUS
    <3> QED
      BY <2>2, <3>1, HighBits
  <2>7. \A i \in 12 .. 15 : Dropped({P, Q}, {H, P}, f, i)
    BY <1>2 DEF Dropped, InField, InReg
  <2>8. ASSUME NEW i \in 0 .. 15
        PROVE  \/ Bit(y, i) = Bit(Kept(f, v), i) /\ \E p \in {P, Q}, q \in {H, P} : Meets(p, q, f, i)
               \/ Bit(y, i) = 0 /\ Dropped({P, Q}, {H, P}, f, i)
    <3>1. CASE i \in 0 .. 11
      BY <2>1, <2>2, <2>4, <2>5, <3>1
    <3>2. CASE i \in 12 .. 15
      BY <2>6, <2>7, <3>2
    <3> QED
      BY <3>1, <3>2
  <2>9. y < Pow(16)
    BY <2>2, PowersAre
  <2>10. BitsBack({P, Q}, {H, P}, v, f, 16, y)
    BY <1>2, <2>8, <2>9 DEF BitsBack
  <2> QED
    BY <1>3, <2>3, <2>10, FieldBack
<1> QED
  BY <1>1, <1>3, <1>4, <1>5, ByField

\* Of the low byte of a delay, one bit is written, and it is read whole.
LEMMA TrigDelayBits ==
    ASSUME NEW x \in Nat, x < Pow(16)
    PROVE  LET y == (x \div 256) * 256 + 8 * ((x \div 8) % 2)
           IN  /\ y \in Nat /\ y < Pow(16)
               /\ \A i \in 0 .. 15 : Bit(y, i) = IF i = 3 \/ i \in 8 .. 15 THEN Bit(x, i) ELSE 0
<1>1. PICK u \in Nat : u = (x \div 256) * 256 /\ u = Bits(x, 8, 8) * 2^8 /\ u <= 65280
  <2>1. x \div 256 \in 0 .. 255
    BY PowersAre
  <2>2. Bits(x, 8, 8) = x \div 256
    BY <2>1 DEF Bits
  <2> QED
    BY <2>1, <2>2
<1>2. PICK w \in Nat : w = 8 * ((x \div 8) % 2) /\ w = Bits(x, 3, 1) * 2^3 /\ w <= 8
  <2>1. (x \div 8) % 2 \in 0 .. 1
    OBVIOUS
  <2>2. Bits(x, 3, 1) = (x \div 8) % 2
    BY DEF Bits
  <2> QED
    BY <2>1, <2>2
<1>3. \A i \in 0 .. 23 : Bit(u, i) = IF i \in 8 .. 15 THEN Bit(x, i) ELSE 0
  <2>1. PICK a \in 0 .. 24 : a = 8 /\ a + a <= 24
    OBVIOUS
  <2>2. a + a <= 24
    BY <2>1
  <2>3. \A i \in 0 .. 23 :
            Bit(Bits(x, a, a) * 2^a, i) = IF i \in a .. a + a - 1 THEN Bit(x, a + (i - a)) ELSE 0
    BY <2>2, PutBits
  <2>4. \A i \in 0 .. 23 : 8 + (i - 8) = i
    OBVIOUS
  <2> QED
    BY <1>1, <2>1, <2>3, <2>4
<1>4. \A i \in 0 .. 23 : Bit(w, i) = IF i = 3 THEN Bit(x, i) ELSE 0
  <2>1. PICK a \in 0 .. 24, n \in 0 .. 24 : a = 3 /\ n = 1
    OBVIOUS
  <2>2. a + n <= 24
    BY <2>1
  <2>3. \A i \in 0 .. 23 :
            Bit(Bits(x, a, n) * 2^a, i) = IF i \in a .. a + n - 1 THEN Bit(x, a + (i - a)) ELSE 0
    BY <2>2, PutBits
  <2>4. \A i \in 0 .. 23 : 3 + (i - 3) = i /\ (i \in 3 .. 3 + 1 - 1 <=> i = 3)
    OBVIOUS
  <2> QED
    BY <1>2, <2>1, <2>3, <2>4
<1>5. \A i \in 0 .. 23 : Bit(u, i) = 0 \/ Bit(w, i) = 0
  BY <1>3, <1>4
<1>6. \A i \in 0 .. 23 : Bit(u + w, i) = Bit(u, i) + Bit(w, i)
  BY <1>5, BitsAdd
<1>7. \A i \in 0 .. 23 : Bit(x, i) \in {0, 1}
  BY BitType
<1>8. ASSUME NEW i \in 0 .. 15
      PROVE  Bit(u + w, i) = IF i = 3 \/ i \in 8 .. 15 THEN Bit(x, i) ELSE 0
  BY <1>3, <1>4, <1>6, <1>7
<1>9. u + w \in Nat /\ u + w < Pow(16)
  BY <1>1, <1>2, PowersAre
<1> QED
  BY <1>1, <1>2, <1>8, <1>9

LEMMA ExtTriggerRecovers == Recovers("ext_trigger")
<1> DEFINE s == "ext_trigger"
           f == <<"use_as_trigger", 0, 1>>
           g == <<"trig_delay", 0, 16>>
           A == [field |-> f, reg |-> 75, at |-> 0, lo |-> 0, n |-> 1]
           B == [field |-> g, reg |-> 75, at |-> 16, lo |-> 8, n |-> 8]
           C == [field |-> g, reg |-> 75, at |-> 11, lo |-> 3, n |-> 1]
           D == [field |-> g, reg |-> 75, at |-> 8, lo |-> 0, n |-> 8]
           W == {A, B, C}
           R == {A, D, B}
<1>1. s \in Settings /\ Writes[s] = W /\ Reads[s] = R
  BY DEF Writes, Reads, Settings, Layouts, ExtTrigger, TwoBytes, Flag, Setting, Piece, Field
<1>2. /\ A.field = f /\ A.reg = 75 /\ A.at = 0 /\ A.lo = 0 /\ A.n = 1
      /\ B.field = g /\ B.reg = 75 /\ B.at = 16 /\ B.lo = 8 /\ B.n = 8
      /\ C.field = g /\ C.reg = 75 /\ C.at = 11 /\ C.lo = 3 /\ C.n = 1
      /\ D.field = g /\ D.reg = 75 /\ D.at = 8 /\ D.lo = 0 /\ D.n = 8
      /\ f[1] = "use_as_trigger" /\ f[3] = 1 /\ g[1] = "trig_delay" /\ g[3] = 16 /\ f # g
  OBVIOUS
<1> HIDE DEF A, B, C, D, f, g
<1>3. Sound(W) /\ FieldsOf(W) = {f, g} /\ RegsOf(W) = {75}
  <2>1. IsFiniteSet(W)
    BY FewAreFinite
  <2>2. FieldsOf(W) = {f, g} /\ RegsOf(W) = {75}
    BY <1>2 DEF FieldsOf, RegsOf
  <2> QED
    BY <1>2, <2>1, <2>2 DEF Sound
<1>4. Sound(R) /\ FieldsOf(R) = {f, g} /\ RegsOf(R) = {75}
  <2>1. IsFiniteSet(R)
    BY FewAreFinite
  <2>2. FieldsOf(R) = {f, g} /\ RegsOf(R) = {75}
    BY <1>2 DEF FieldsOf, RegsOf
  <2> QED
    BY <1>2, <2>1, <2>2 DEF Sound
<1>5. Finds(s, f)
  <2>1. Meets(A, A, f, 0)
    BY <1>2 DEF Meets, InField
  <2>2. \A i \in 0 .. f[3] - 1 : i = 0
    BY <1>2
  <2>3. FullyRead(R, W, f)
    BY <1>2, <1>3, <1>4, <2>1, <2>2 DEF FullyRead
  <2>4. \A v : Held(s, v)[f] = v[f]
    BY <1>1, <1>2, <1>3 DEF Held
  <2> HIDE DEF W, R
  <2> QED
    BY <1>1, <1>2, <2>3, <2>4, FullBack DEF Finds, Uncut
<1>6. Finds(s, g)
  <2> SUFFICES ASSUME NEW v \in Values({f, g}), NEW words, ReadFrom(R, W, v, words)
               PROVE  Unpacked(R, words)[g] = Held(s, v)[g]
    BY <1>1, <1>3 DEF Finds
  <2>1. v[g] \in Nat /\ v[g] < Pow(16) /\ Kept(g, v) = v[g]
    <3>1. v \in Values(FieldsOf(W)) /\ g \in FieldsOf(W) /\ Uncut(g)
      BY <1>2, <1>3 DEF Uncut
    <3>2. v[g] \in Nat /\ v[g] < 2^g[3] /\ Kept(g, v) = v[g]
      BY <3>1, KeptIs
    <3>3. 2^g[3] = Pow(16)
      BY <1>2 DEF Pow
    <3> QED
      BY <3>2, <3>3
  <2>2. PICK x \in Nat : x = v[g] /\ x < Pow(16)
    BY <2>1
  <2>3. PICK y \in Nat : /\ y = (x \div 256) * 256 + 8 * ((x \div 8) % 2)
                         /\ y < Pow(16)
                         /\ \A i \in 0 .. 15 : Bit(y, i) = IF i = 3 \/ i \in 8 .. 15 THEN Bit(x, i) ELSE 0
    BY <2>2, TrigDelayBits
  <2>4. Held(s, v)[g] = y
    <3>1. g \in FieldsOf(Writes[s])
      BY <1>1, <1>3
    <3>2. Held(s, v)[g] = (v[g] \div 256) * 256 + 8 * ((v[g] \div 8) % 2)
      BY <1>2, <3>1 DEF Held
    <3> QED
      BY <2>2, <2>3, <3>2
  <2>5. ASSUME NEW i \in 0 .. 15
        PROVE  \/ Bit(y, i) = Bit(Kept(g, v), i) /\ \E p \in R, q \in W : Meets(p, q, g, i)
               \/ Bit(y, i) = 0 /\ Dropped(R, W, g, i)
    <3>1. CASE i = 3
      <4>1. Meets(D, C, g, i)
        BY <1>2, <3>1 DEF Meets, InField
      <4> QED
        BY <2>1, <2>2, <2>3, <3>1, <4>1
    <3>2. CASE i \in 8 .. 15
      <4>1. Meets(B, B, g, i)
        BY <1>2, <3>2 DEF Meets, InField
      <4> QED
        BY <2>1, <2>2, <2>3, <3>2, <4>1
    <3>3. CASE i # 3 /\ i \notin 8 .. 15
      <4>1. Dropped(R, W, g, i)
        BY <1>2, <3>3 DEF Dropped, InField, InReg
      <4> QED
        BY <2>3, <3>3, <4>1
    <3> QED
      BY <3>1, <3>2, <3>3
  <2>6. \A p \in R : p.field = g => p.lo + p.n <= 16
    BY <1>2
  <2>7. g[3] = 16
    BY <1>2
  <2> HIDE DEF R, W
  <2>8. BitsBack(R, W, v, g, 16, y)
    BY <2>3, <2>5, <2>6, <2>7 DEF BitsBack
  <2> QED
    BY <1>4, <2>4, <2>8, FieldBack
<1> QED
  BY <1>1, <1>3, <1>4, <1>5, <1>6, ByField

\* A holdoff in two bytes, and two whole fields.
LEMMA DynamicMaskingRecovers == Recovers("dynamic_masking")
<1> DEFINE s == "dynamic_masking"
           f == <<"enable", 0, 1>>
           g == <<"threshold", 0, 8>>
           h == <<"holdoff", 0, 16>>
           A == [field |-> f, reg |-> 93, at |-> 8, lo |-> 0, n |-> 1]
           B == [field |-> g, reg |-> 93, at |-> 0, lo |-> 0, n |-> 8]
           C == [field |-> h, reg |-> 94, at |-> 0, lo |-> 0, n |-> 8]
           D == [field |-> h, reg |-> 94, at |-> 8, lo |-> 8, n |-> 8]
           W == {A, B, C, D}
<1>1. s \in Settings /\ Writes[s] = W /\ Reads[s] = W
  BY DEF Writes, Reads, Settings, Layouts, DynamicMasking, TwoBytes, Flag, ByteAt, Setting, Piece, Field
<1>2. /\ A.field = f /\ A.reg = 93 /\ A.at = 8 /\ A.lo = 0 /\ A.n = 1
      /\ B.field = g /\ B.reg = 93 /\ B.at = 0 /\ B.lo = 0 /\ B.n = 8
      /\ C.field = h /\ C.reg = 94 /\ C.at = 0 /\ C.lo = 0 /\ C.n = 8
      /\ D.field = h /\ D.reg = 94 /\ D.at = 8 /\ D.lo = 8 /\ D.n = 8
      /\ f[3] = 1 /\ g[3] = 8 /\ h[3] = 16 /\ f # g /\ f # h /\ g # h
      /\ f[1] = "enable" /\ g[1] = "threshold" /\ h[1] = "holdoff"
  OBVIOUS
<1> HIDE DEF A, B, C, D, f, g, h
<1>3. Sound(W) /\ FieldsOf(W) = {f, g, h}
  <2>1. IsFiniteSet(W)
    BY FewAreFinite
  <2>2. FieldsOf(W) = {f, g, h}
    BY <1>2 DEF FieldsOf
  <2> QED
    BY <1>2, <2>1, <2>2 DEF Sound
<1>4. ASSUME NEW k \in {f, g, h} PROVE FullyRead(W, W, k) /\ Uncut(k) /\ k[1] # "trig_delay"
  <2>1. ASSUME NEW i \in 0 .. k[3] - 1 PROVE \E p \in W : Meets(p, p, k, i)
    <3>1. CASE k = f
      <4>1. Meets(A, A, k, i)
        BY <1>2, <3>1 DEF Meets, InField
      <4> QED
        BY <4>1
    <3>2. CASE k = g
      <4>1. Meets(B, B, k, i)
        BY <1>2, <3>2 DEF Meets, InField
      <4> QED
        BY <4>1
    <3>3. CASE k = h
      <4>1. Meets(C, C, k, i) \/ Meets(D, D, k, i)
        BY <1>2, <3>3 DEF Meets, InField
      <4> QED
        BY <4>1
    <3> QED
      BY <3>1, <3>2, <3>3
  <2>2. k[3] \in 1 .. 24 /\ Uncut(k) /\ k[1] # "trig_delay"
    BY <1>2 DEF Uncut
  <2>3. \A p \in W : p.field = k => p.lo + p.n <= k[3]
    BY <1>2
  <2> QED
    BY <1>3, <2>1, <2>2, <2>3 DEF FullyRead
<1> HIDE DEF W
<1>5. ASSUME NEW k \in {f, g, h} PROVE Finds(s, k)
  <2>1. \A v : Held(s, v)[k] = v[k]
    BY <1>1, <1>3, <1>4 DEF Held
  <2> QED
    BY <1>1, <1>4, <2>1, FullBack DEF Finds
<1> QED
  BY <1>1, <1>3, <1>5, ByField

\* The thresholds: twenty bits of the values, cut to what fits them.
LEMMA ThresholdsRecover == Recovers("thresholds")
<1> DEFINE s == "thresholds"
           Beams == 0 .. NumBeams - 1
           F(i) == <<"threshold", i, 21>>
           P(i, at, n) == [field |-> F(i), reg |-> 129 + i, at |-> at, lo |-> at, n |-> n]
           Q(at, n) == {P(i, at, n) : i \in Beams}
           W == Q(0, 20)
           R == Q(0, 8) \cup Q(8, 8) \cup Q(16, 4)
<1>1. s \in Settings /\ Writes[s] = W /\ Reads[s] = R
  BY DEF Writes, Reads, Settings, Layouts, Thresholds, ThresholdPieces, Setting, Piece
<1>2. \A i \in Beams : \A at, n :
          /\ P(i, at, n).field = F(i) /\ P(i, at, n).reg = 129 + i
          /\ P(i, at, n).at = at /\ P(i, at, n).lo = at /\ P(i, at, n).n = n
          /\ F(i)[1] = "threshold" /\ F(i)[3] = 21
  OBVIOUS
<1>3. \A i, j \in Beams : 129 + i = 129 + j \/ F(i) = F(j) => i = j
  OBVIOUS
<1>4. ASSUME NEW at, NEW n PROVE IsFiniteSet(Q(at, n))
  <2> DEFINE k == [i \in Beams |-> P(i, at, n)]
  <2>1. PICK a \in Int, b \in Int : a = 0 /\ b = NumBeams - 1
    BY NumbersAssumption
  <2>2. IsFiniteSet(a .. b)
    BY FS_Interval
  <2>3. DOMAIN k = Beams /\ IsFiniteSet(Beams) /\ \A i \in Beams : k[i] = P(i, at, n)
    BY <2>1, <2>2
  <2> HIDE DEF k, Beams, P
  <2>4. IsFiniteSet({k[i] : i \in Beams})
    BY <2>3, ImageIsFinite
  <2>5. {k[i] : i \in Beams} = Q(at, n)
    BY <2>3
  <2> QED
    BY <2>4, <2>5
<1>5. \A at, n : \A p \in Q(at, n) : \E i \in Beams : p = P(i, at, n)
  OBVIOUS
<1>6. \A i \in Beams : \A at, n : P(i, at, n) \in Q(at, n)
  OBVIOUS
<1>7. \A at, n : \A p \in Q(at, n) :
          \E i \in Beams : /\ p.field = F(i) /\ p.reg = 129 + i /\ p.at = at /\ p.lo = at /\ p.n = n
                           /\ p = P(i, at, n)
  BY <1>2, <1>5
<1> HIDE DEF P, Q, F, Beams
<1>8. IsFiniteSet(W) /\ IsFiniteSet(R)
  <2>1. IsFiniteSet(Q(0, 8) \cup Q(8, 8))
    BY <1>4, FS_Union
  <2> QED
    BY <1>4, <2>1, FS_Union
<1>9. \A p \in R : p \in Q(0, 8) \/ p \in Q(8, 8) \/ p \in Q(16, 4)
  OBVIOUS
<1>10. Sound(W)
  <2>1. \A p \in W : p.at \in 0 .. 24 /\ p.lo \in 0 .. 24 /\ p.n \in 0 .. 24 /\ p.at + p.n <= 24 /\ p.lo + p.n <= 24
    BY <1>7
  <2>2. \A p, q \in W : p.reg = q.reg \/ p.field = q.field => p = q
    BY <1>3, <1>7
  <2> QED
    BY <1>8, <2>1, <2>2 DEF Sound
<1>11. Sound(R)
  <2>1. \A p \in R : p.at \in 0 .. 24 /\ p.lo \in 0 .. 24 /\ p.n \in 0 .. 24 /\ p.at + p.n <= 24 /\ p.lo + p.n <= 24
    BY <1>7, <1>9
  <2>2. ASSUME NEW p \in R, NEW q \in R, p # q, p.reg = q.reg \/ p.field = q.field
        PROVE  p.at + p.n <= q.at \/ q.at + q.n <= p.at
    <3>1. p \in Q(0, 8) \/ p \in Q(8, 8) \/ p \in Q(16, 4)
      BY <1>9
    <3>2. q \in Q(0, 8) \/ q \in Q(8, 8) \/ q \in Q(16, 4)
      BY <1>9
    <3> HIDE DEF R
    <3>3. \A at, n : ~(p \in Q(at, n) /\ q \in Q(at, n))
      BY <1>3, <1>7, <2>2
    <3>4. \A at, n : /\ p \in Q(at, n) => p.at = at /\ p.n = n
                     /\ q \in Q(at, n) => q.at = at /\ q.n = n
      BY <1>7
    <3> QED
      BY <3>1, <3>2, <3>3, <3>4
  <2>3. \A p \in R : p.at = p.lo
    BY <1>7, <1>9
  <2> QED
    BY <1>8, <2>1, <2>2, <2>3 DEF Sound
<1>12. /\ \A i \in Beams : F(i) \in FieldsOf(R) /\ F(i) \in FieldsOf(W) /\ 129 + i \in RegsOf(W)
       /\ \A f \in FieldsOf(R) \cup FieldsOf(W) : \E i \in Beams : f = F(i)
       /\ \A r \in RegsOf(R) : \E i \in Beams : r = 129 + i
  BY <1>2, <1>6, <1>7, <1>9 DEF FieldsOf, RegsOf
<1>13. ASSUME NEW i \in Beams PROVE Finds(s, F(i))
  <2> DEFINE f == F(i)
  <2> HIDE DEF R, W
  <2> SUFFICES ASSUME NEW v \in Values(FieldsOf(W)), NEW words, ReadFrom(R, W, v, words)
               PROVE  Unpacked(R, words)[f] = Held(s, v)[f]
    BY <1>1 DEF Finds
  <2>1. v[f] \in Nat
    BY <1>12, KeptIs
  <2>2. PICK x \in Nat, y \in Nat : x = v[f] /\ y = Min({x, Threshold}) /\ y = Kept(f, v) /\ y < Pow(20)
    <3>1. Threshold = 1048575 /\ Pow(20) = 1048576
      BY PowersAre DEF Threshold
    <3>2. Kept(f, v) = IF v[f] > Threshold THEN Threshold ELSE v[f]
      BY <1>2 DEF Kept, Clipped
    <3>3. PICK x \in Nat : x = v[f]
      BY <2>1
    <3>4. Min({x, Threshold}) = IF x > Threshold THEN Threshold ELSE x
      BY <3>1 DEF Min
    <3>5. Kept(f, v) \in Nat /\ Kept(f, v) < Pow(20)
      BY <3>1, <3>2, <3>3
    <3> QED
      BY <3>2, <3>3, <3>4, <3>5
  <2>3. Held(s, v)[f] = y
    <3>1. f \in FieldsOf(Writes[s])
      BY <1>1, <1>12
    <3>2. Held(s, v)[f] = Min({v[f], Threshold})
      BY <1>2, <3>1 DEF Held
    <3> QED
      BY <2>2, <3>2
  <2>4. ASSUME NEW b \in 0 .. 19 PROVE \E p \in R, q \in W : Meets(p, q, f, b)
    <3> DEFINE q == P(i, 0, 20)
    <3>1. q \in W /\ P(i, 0, 8) \in R /\ P(i, 8, 8) \in R /\ P(i, 16, 4) \in R
      BY <1>6 DEF R, W
    <3>2. Meets(P(i, 0, 8), q, f, b) \/ Meets(P(i, 8, 8), q, f, b) \/ Meets(P(i, 16, 4), q, f, b)
      BY <1>2 DEF Meets, InField
    <3> QED
      BY <3>1, <3>2
  <2>5. \A p \in R : p.lo + p.n <= 20
    BY <1>7, <1>9
  <2>6. f[3] = 21
    BY <1>2
  <2> HIDE DEF f
  <2>7. BitsBack(R, W, v, f, 20, y)
    BY <2>2, <2>4, <2>5, <2>6 DEF BitsBack
  <2> QED
    BY <1>12, <2>3, <2>7, FieldBack DEF f
<1> HIDE DEF R, W
<1>14. RegsOf(R) \subseteq RegsOf(W) /\ FieldsOf(R) = FieldsOf(W)
  BY <1>12
<1>15. \A f \in FieldsOf(W) : Finds(s, f)
  BY <1>12, <1>13
<1> QED
  BY <1>1, <1>10, <1>11, <1>14, <1>15, ByField

\* The getter of each setting finds in its registers what the setter has made of the value
\* that it was given: all of it, but for the bits that are cut in Held.
THEOREM GettersInvertSetters == \A s \in Settings : Recovers(s)
<1>1. \A s \in Settings :
          s \in {"pretrigger", "channel_mask", "trigger_mask", "thresholds", "attenuation",
                 "trigger_enables", "polarization", "holdoff", "trigger_output", "ext_trigger",
                 "verification", "trigger_delays", "low_pass", "dynamic_masking", "veto_options"}
  BY DEF Settings, Layouts
<1> QED
  BY <1>1, WholeSettings, PretriggerRecovers, TriggerMaskRecovers, HoldoffRecovers,
     ExtTriggerRecovers, DynamicMaskingRecovers, ThresholdsRecover

-----------------------------------------------------------------------------
\* Where the settings are.

FirstReg == [pretrigger |-> 76, channel_mask |-> 48, trigger_mask |-> 80, thresholds |->
             129, attenuation |-> 50, trigger_enables |-> 82, polarization |-> 79,
             holdoff |-> 81, trigger_output |-> 83, ext_trigger |-> 75, verification |->
             85, trigger_delays |-> 61, low_pass |-> 90, dynamic_masking |-> 93,
             veto_options |-> 95]
LastReg  == [pretrigger |-> 76, channel_mask |-> 48, trigger_mask |-> 80, thresholds |->
             128 + NumBeams, attenuation |-> 52, trigger_enables |-> 82, polarization
             |-> 79, holdoff |-> 81, trigger_output |-> 83, ext_trigger |-> 75,
             verification |-> 85, trigger_delays |-> 63, low_pass |-> 90,
             dynamic_masking |-> 94, veto_options |-> 97]
Region(s) == FirstReg[s] .. LastReg[s]

\* No register belongs to two settings, and no field is wider than a word.
LEMMA RegionsApart ==
    /\ \A s \in Settings : \A p \in Writes[s] : p.reg \in Region(s) /\ p.field[3] \in 1 .. 24
    /\ \A s, t \in Settings : s # t => Region(s) \cap Region(t) = {}
<1>1. ASSUME NEW p \in Writes["pretrigger"] PROVE p.reg \in 76 .. 76 /\ p.field[3] \in 1 .. 24
  <2>1. p \in Pretrigger.writes
    BY DEF Writes, Settings, Layouts
  <2> QED
    BY <2>1, NumbersAssumption DEF Pretrigger, Setting, Flag, ByteAt, TwoBytes, ThreeBytes, Piece, Field
<1>2. ASSUME NEW p \in Writes["channel_mask"] PROVE p.reg \in 48 .. 48 /\ p.field[3] \in 1 .. 24
  <2>1. p \in ChannelMask.writes
    BY DEF Writes, Settings, Layouts
  <2> QED
    BY <2>1, NumbersAssumption DEF ChannelMask, Setting, Flag, ByteAt, TwoBytes, ThreeBytes, Piece, Field
<1>3. ASSUME NEW p \in Writes["trigger_mask"] PROVE p.reg \in 80 .. 80 /\ p.field[3] \in 1 .. 24
  <2>1. p \in TriggerMask.writes
    BY DEF Writes, Settings, Layouts
  <2> QED
    BY <2>1, NumbersAssumption DEF TriggerMask, Setting, Flag, ByteAt, TwoBytes, ThreeBytes, Piece, Field
<1>4. ASSUME NEW p \in Writes["thresholds"] PROVE p.reg \in 129 .. 128 + NumBeams /\ p.field[3] \in 1 .. 24
  <2>1. p \in Thresholds.writes
    BY DEF Writes, Settings, Layouts
  <2> QED
    BY <2>1, NumbersAssumption DEF Thresholds, Setting, Flag, ByteAt, TwoBytes, ThreeBytes, Piece, Field, ThresholdPieces
<1>5. ASSUME NEW p \in Writes["attenuation"] PROVE p.reg \in 50 .. 52 /\ p.field[3] \in 1 .. 24
  <2>1. p \in Attenuation.writes
    BY DEF Writes, Settings, Layouts
  <2> QED
    BY <2>1, NumbersAssumption DEF Attenuation, Setting, Flag, ByteAt, TwoBytes, ThreeBytes, Piece, Field, ChannelBytes, NumChan
<1>6. ASSUME NEW p \in Writes["trigger_enables"] PROVE p.reg \in 82 .. 82 /\ p.field[3] \in 1 .. 24
  <2>1. p \in TriggerEnables.writes
    BY DEF Writes, Settings, Layouts
  <2> QED
    BY <2>1, NumbersAssumption DEF TriggerEnables, Setting, Flag, ByteAt, TwoBytes, ThreeBytes, Piece, Field
<1>7. ASSUME NEW p \in Writes["polarization"] PROVE p.reg \in 79 .. 79 /\ p.field[3] \in 1 .. 24
  <2>1. p \in Polarization.writes
    BY DEF Writes, Settings, Layouts
  <2> QED
    BY <2>1, NumbersAssumption DEF Polarization, Setting, Flag, ByteAt, TwoBytes, ThreeBytes, Piece, Field
<1>8. ASSUME NEW p \in Writes["holdoff"] PROVE p.reg \in 81 .. 81 /\ p.field[3] \in 1 .. 24
  <2>1. p \in Holdoff.writes
    BY DEF Writes, Settings, Layouts
  <2> QED
    BY <2>1, NumbersAssumption DEF Holdoff, Setting, Flag, ByteAt, TwoBytes, ThreeBytes, Piece, Field
<1>9. ASSUME NEW p \in Writes["trigger_output"] PROVE p.reg \in 83 .. 83 /\ p.field[3] \in 1 .. 24
  <2>1. p \in TriggerOutput.writes
    BY DEF Writes, Settings, Layouts
  <2> QED
    BY <2>1, NumbersAssumption DEF TriggerOutput, Setting, Flag, ByteAt, TwoBytes, ThreeBytes, Piece, Field
<1>10. ASSUME NEW p \in Writes["ext_trigger"] PROVE p.reg \in 75 .. 75 /\ p.field[3] \in 1 .. 24
  <2>1. p \in ExtTrigger.writes
    BY DEF Writes, Settings, Layouts
  <2> QED
    BY <2>1, NumbersAssumption DEF ExtTrigger, Setting, Flag, ByteAt, TwoBytes, ThreeBytes, Piece, Field
<1>11. ASSUME NEW p \in Writes["verification"] PROVE p.reg \in 85 .. 85 /\ p.field[3] \in 1 .. 24
  <2>1. p \in Verification.writes
    BY DEF Writes, Settings, Layouts
  <2> QED
    BY <2>1, NumbersAssumption DEF Verification, Setting, Flag, ByteAt, TwoBytes, ThreeBytes, Piece, Field
<1>12. ASSUME NEW p \in Writes["trigger_delays"] PROVE p.reg \in 61 .. 63 /\ p.field[3] \in 1 .. 24
  <2>1. p \in TriggerDelays.writes
    BY DEF Writes, Settings, Layouts
  <2> QED
    BY <2>1, NumbersAssumption DEF TriggerDelays, Setting, Flag, ByteAt, TwoBytes, ThreeBytes, Piece, Field, ChannelBytes, NumChan
<1>13. ASSUME NEW p \in Writes["low_pass"] PROVE p.reg \in 90 .. 90 /\ p.field[3] \in 1 .. 24
  <2>1. p \in LowPass.writes
    BY DEF Writes, Settings, Layouts
  <2> QED
    BY <2>1, NumbersAssumption DEF LowPass, Setting, Flag, ByteAt, TwoBytes, ThreeBytes, Piece, Field
<1>14. ASSUME NEW p \in Writes["dynamic_masking"] PROVE p.reg \in 93 .. 94 /\ p.field[3] \in 1 .. 24
  <2>1. p \in DynamicMasking.writes
    BY DEF Writes, Settings, Layouts
  <2> QED
    BY <2>1, NumbersAssumption DEF DynamicMasking, Setting, Flag, ByteAt, TwoBytes, ThreeBytes, Piece, Field
<1>15. ASSUME NEW p \in Writes["veto_options"] PROVE p.reg \in 95 .. 97 /\ p.field[3] \in 1 .. 24
  <2>1. p \in VetoOptions.writes
    BY DEF Writes, Settings, Layouts
  <2> QED
    BY <2>1, NumbersAssumption DEF VetoOptions, Setting, Flag, ByteAt, TwoBytes, ThreeBytes, Piece, Field
<1>16. \A s \in Settings :
          s \in {"pretrigger", "channel_mask", "trigger_mask", "thresholds", "attenuation",
                 "trigger_enables", "polarization", "holdoff", "trigger_output", "ext_trigger",
                 "verification", "trigger_delays", "low_pass", "dynamic_masking", "veto_options"}
  BY DEF Settings, Layouts
<1>17. /\ FirstReg["pretrigger"] = 76 /\ LastReg["pretrigger"] = 76
       /\ FirstReg["channel_mask"] = 48 /\ LastReg["channel_mask"] = 48
       /\ FirstReg["trigger_mask"] = 80 /\ LastReg["trigger_mask"] = 80
       /\ FirstReg["thresholds"] = 129 /\ LastReg["thresholds"] = 128 + NumBeams
       /\ FirstReg["attenuation"] = 50 /\ LastReg["attenuation"] = 52
       /\ FirstReg["trigger_enables"] = 82 /\ LastReg["trigger_enables"] = 82
       /\ FirstReg["polarization"] = 79 /\ LastReg["polarization"] = 79
       /\ FirstReg["holdoff"] = 81 /\ LastReg["holdoff"] = 81
       /\ FirstReg["trigger_output"] = 83 /\ LastReg["trigger_output"] = 83
       /\ FirstReg["ext_trigger"] = 75 /\ LastReg["ext_trigger"] = 75
       /\ FirstReg["verification"] = 85 /\ LastReg["verification"] = 85
       /\ FirstReg["trigger_delays"] = 61 /\ LastReg["trigger_delays"] = 63
       /\ FirstReg["low_pass"] = 90 /\ LastReg["low_pass"] = 90
       /\ FirstReg["dynamic_masking"] = 93 /\ LastReg["dynamic_masking"] = 94
       /\ FirstReg["veto_options"] = 95 /\ LastReg["veto_options"] = 97
  BY DEF FirstReg, LastReg
<1>18. \A s \in Settings : \A p \in Writes[s] : p.reg \in Region(s) /\ p.field[3] \in 1 .. 24
  <2> SUFFICES ASSUME NEW s \in Settings, NEW p \in Writes[s]
               PROVE  p.reg \in Region(s) /\ p.field[3] \in 1 .. 24
    OBVIOUS
  <2>1. CASE s = "pretrigger"
    BY <1>1, <1>17, <2>1 DEF Region
  <2>2. CASE s = "channel_mask"
    BY <1>2, <1>17, <2>2 DEF Region
  <2>3. CASE s = "trigger_mask"
    BY <1>3, <1>17, <2>3 DEF Region
  <2>4. CASE s = "thresholds"
    BY <1>4, <1>17, <2>4 DEF Region
  <2>5. CASE s = "attenuation"
    BY <1>5, <1>17, <2>5 DEF Region
  <2>6. CASE s = "trigger_enables"
    BY <1>6, <1>17, <2>6 DEF Region
  <2>7. CASE s = "polarization"
    BY <1>7, <1>17, <2>7 DEF Region
  <2>8. CASE s = "holdoff"
    BY <1>8, <1>17, <2>8 DEF Region
  <2>9. CASE s = "trigger_output"
    BY <1>9, <1>17, <2>9 DEF Region
  <2>10. CASE s = "ext_trigger"
    BY <1>10, <1>17, <2>10 DEF Region
  <2>11. CASE s = "verification"
    BY <1>11, <1>17, <2>11 DEF Region
  <2>12. CASE s = "trigger_delays"
    BY <1>12, <1>17, <2>12 DEF Region
  <2>13. CASE s = "low_pass"
    BY <1>13, <1>17, <2>13 DEF Region
  <2>14. CASE s = "dynamic_masking"
    BY <1>14, <1>17, <2>14 DEF Region
  <2>15. CASE s = "veto_options"
    BY <1>15, <1>17, <2>15 DEF Region
  <2> QED
    BY <1>16, <2>1, <2>2, <2>3, <2>4, <2>5, <2>6, <2>7, <2>8, <2>9, <2>10, <2>11, <2>12, <2>13, <2>14, <2>15
<1>19. ASSUME NEW s \in Settings, NEW t \in Settings, s # t
       PROVE  LastReg[s] < FirstReg[t] \/ LastReg[t] < FirstReg[s]
  <2>1. CASE s = "pretrigger"
    BY <1>16, <1>17, <1>19, <2>1, NumbersAssumption
  <2>2. CASE s = "channel_mask"
    BY <1>16, <1>17, <1>19, <2>2, NumbersAssumption
  <2>3. CASE s = "trigger_mask"
    BY <1>16, <1>17, <1>19, <2>3, NumbersAssumption
  <2>4. CASE s = "thresholds"
    BY <1>16, <1>17, <1>19, <2>4, NumbersAssumption
  <2>5. CASE s = "attenuation"
    BY <1>16, <1>17, <1>19, <2>5, NumbersAssumption
  <2>6. CASE s = "trigger_enables"
    BY <1>16, <1>17, <1>19, <2>6, NumbersAssumption
  <2>7. CASE s = "polarization"
    BY <1>16, <1>17, <1>19, <2>7, NumbersAssumption
  <2>8. CASE s = "holdoff"
    BY <1>16, <1>17, <1>19, <2>8, NumbersAssumption
  <2>9. CASE s = "trigger_output"
    BY <1>16, <1>17, <1>19, <2>9, NumbersAssumption
  <2>10. CASE s = "ext_trigger"
    BY <1>16, <1>17, <1>19, <2>10, NumbersAssumption
  <2>11. CASE s = "verification"
    BY <1>16, <1>17, <1>19, <2>11, NumbersAssumption
  <2>12. CASE s = "trigger_delays"
    BY <1>16, <1>17, <1>19, <2>12, NumbersAssumption
  <2>13. CASE s = "low_pass"
    BY <1>16, <1>17, <1>19, <2>13, NumbersAssumption
  <2>14. CASE s = "dynamic_masking"
    BY <1>16, <1>17, <1>19, <2>14, NumbersAssumption
  <2>15. CASE s = "veto_options"
    BY <1>16, <1>17, <1>19, <2>15, NumbersAssumption
  <2> QED
    BY <1>16, <2>1, <2>2, <2>3, <2>4, <2>5, <2>6, <2>7, <2>8, <2>9, <2>10, <2>11, <2>12, <2>13, <2>14, <2>15
<1>20. \A s \in Settings : FirstReg[s] \in Int /\ LastReg[s] \in Int
  BY <1>16, <1>17, NumbersAssumption
<1>21. \A s, t \in Settings : s # t => Region(s) \cap Region(t) = {}
  BY <1>19, <1>20 DEF Region
<1> QED
  BY <1>18, <1>21

\* The values that are set fit their fields.
LEMMA ValuesFit == \A s \in Settings : ValueOf(s) \in Values(FieldsOf(Writes[s]))
<1> SUFFICES ASSUME NEW s \in Settings PROVE ValueOf(s) \in Values(FieldsOf(Writes[s]))
  OBVIOUS
<1>1. ASSUME NEW f \in FieldsOf(Writes[s]) PROVE Pattern(f) \in Nat /\ Pattern(f) < 2^f[3]
  <2>1. f[3] \in 1 .. 24
    BY RegionsApart DEF FieldsOf
  <2>2. Pow(f[3]) \in Nat \ {0}
    BY <2>1, Doubles
  <2>3. 715827 % Pow(f[3]) \in Nat /\ 715827 % Pow(f[3]) < Pow(f[3])
    BY <2>2, Division
  <2> QED
    BY <2>3 DEF Pow, Pattern
<1> QED
  BY <1>1 DEF ValueOf, AllOf, Values

-----------------------------------------------------------------------------
\* The records.

LEMMA PartSound == ASSUME NEW W, Sound(W), NEW R \in SUBSET W PROVE Sound(R)
<1>1. IsFiniteSet(R)
  BY FS_Subset DEF Sound
<1> QED
  BY <1>1 DEF Sound

\* Every bit of the field is read.
AllRead(P, f) ==
    f[3] \in 1 .. 24 /\ \A i \in 0 .. f[3] - 1 : \E p \in P : p.field = f /\ i \in InField(p)

\* No field is given more bits than it has.
Fits(P) == \A p \in P : p.lo + p.n <= p.field[3]

\* A layout that reads all bits of its fields, and none of a register twice.
Complete(P) == Sound(P) /\ \A f \in FieldsOf(P) : AllRead(P, f)

LEMMA FullIsComplete ==
    ASSUME NEW P, Sound(P), \A f \in FieldsOf(P) : FullyRead(P, P, f)
    PROVE  Complete(P) /\ Fits(P)
<1>1. \A f \in FieldsOf(P) : AllRead(P, f)
  BY DEF FullyRead, Meets, AllRead
<1>2. \A p \in P : p.field \in FieldsOf(P)
  BY DEF FieldsOf
<1>3. Fits(P)
  BY <1>2 DEF FullyRead, Fits
<1> QED
  BY <1>1, <1>3 DEF Complete

LEMMA CompleteIsReadWhole == ASSUME NEW P, Complete(P) PROVE ReadWhole(P)
<1>1. \A p \in P : /\ p.at \in 0 .. 24 /\ p.lo \in 0 .. 24 /\ p.n \in 0 .. 24 /\ p.at + p.n <= 24
  BY DEF Complete, Sound
<1>2. ASSUME NEW p \in P, NEW q \in P, p # q PROVE BitsIn(p) \cap BitsIn(q) = {}
  <2>1. p.reg = q.reg => p.at + p.n <= q.at \/ q.at + q.n <= p.at
    BY <1>2 DEF Complete, Sound
  <2>2. p.at \in Int /\ p.n \in Int /\ q.at \in Int /\ q.n \in Int
    BY <1>1
  <2>3. p.reg = q.reg => (p.at .. p.at + p.n - 1) \cap (q.at .. q.at + q.n - 1) = {}
    BY <2>1, <2>2
  <2> QED
    BY <2>3 DEF BitsIn
<1>3. ASSUME NEW x \in UNION {{f} \X (0 .. f[3] - 1) : f \in FieldsOf(P)}
      PROVE  x \in UNION {BitsOf(p) : p \in P}
  <2>1. PICK f \in FieldsOf(P) : \E b \in 0 .. f[3] - 1 : x = <<f, b>>
    OBVIOUS
  <2> PICK b \in 0 .. f[3] - 1 : x = <<f, b>>
    BY <2>1
  <2>2. PICK p \in P : p.field = f /\ b \in InField(p)
    BY DEF Complete, AllRead
  <2>3. x \in BitsOf(p)
    BY <2>2 DEF BitsOf, InField
  <2> QED
    BY <2>3
<1> QED
  BY <1>1, <1>2, <1>3 DEF ReadWhole

LEMMA CompleteLoses == ASSUME NEW P, Complete(P), Fits(P) PROVE Lost(P) = {}
<1> SUFFICES ASSUME NEW x \in Lost(P) PROVE FALSE
  OBVIOUS
<1>1. PICK p \in P : x \in BitsOf(p)
  BY DEF Lost
<1>2. PICK b \in p.lo .. p.lo + p.n - 1 : x = <<p.field, b>> /\ b >= p.field[3]
  BY <1>1 DEF Lost, BitsOf
<1>3. p.field[3] \in 1 .. 24
  BY DEF FieldsOf, Complete, AllRead
<1>4. p.lo \in Int /\ p.n \in Int /\ p.lo + p.n <= p.field[3]
  BY DEF Complete, Sound, Fits
<1> QED
  BY <1>2, <1>3, <1>4

LEMMA LostOfUnion == \A P, Q : Lost(Q) = {} => Lost(P \cup Q) = Lost(P)
<1>1. ASSUME NEW S, NEW x PROVE x \in Lost(S) <=> (\E p \in S : x \in BitsOf(p)) /\ x[2] >= x[1][3]
  BY DEF Lost
<1> SUFFICES ASSUME NEW P, NEW Q, Lost(Q) = {} PROVE Lost(P \cup Q) = Lost(P)
  OBVIOUS
<1>2. ASSUME NEW x PROVE x \in Lost(P \cup Q) <=> x \in Lost(P)
  <2>1. x \notin Lost(Q)
    OBVIOUS
  <2>2. (\E p \in P \cup Q : x \in BitsOf(p)) <=> (\E p \in P : x \in BitsOf(p)) \/ (\E p \in Q : x \in BitsOf(p))
    OBVIOUS
  <2>3. x \in Lost(P) <=> (\E p \in P : x \in BitsOf(p)) /\ x[2] >= x[1][3]
    BY <1>1
  <2>4. x \in Lost(Q) <=> (\E p \in Q : x \in BitsOf(p)) /\ x[2] >= x[1][3]
    BY <1>1
  <2>5. x \in Lost(P \cup Q) <=> (\E p \in P \cup Q : x \in BitsOf(p)) /\ x[2] >= x[1][3]
    BY <1>1
  <2> QED
    BY <2>1, <2>2, <2>3, <2>4, <2>5, Zenon
<1> QED
  BY <1>2, Zenon

\* The samples are values that the fields can have.
LEMMA SinglesFit ==
    ASSUME NEW F, \A f \in F : f[3] \in 1 .. 24, NEW v \in Single(F)
    PROVE  v \in Values(F)
<1>1. PICK f \in F : \E x \in {Pattern(f), 2^f[3] - 1} : v = [g \in F |-> IF g = f THEN x ELSE 0]
  BY DEF Single
<1> PICK x \in {Pattern(f), 2^f[3] - 1} : v = [g \in F |-> IF g = f THEN x ELSE 0]
  BY <1>1
<1>2. \A g \in F : 2^g[3] \in Nat \ {0}
  <2>1. \A g \in F : Pow(g[3]) \in Nat \ {0}
    BY Doubles
  <2> QED
    BY <2>1 DEF Pow
<1>3. x \in Nat /\ x < 2^f[3]
  <2>1. 715827 % 2^f[3] \in Nat /\ 715827 % 2^f[3] < 2^f[3]
    BY <1>2, Division
  <2> QED
    BY <1>2, <2>1 DEF Pattern
<1>4. v \in [F -> Nat] /\ \A g \in F : v[g] < 2^g[3]
  BY <1>2, <1>3
<1> QED
  BY <1>4 DEF Values

\* It is enough that every bit is read from where the board puts it.
LEMMA FullInverts ==
    ASSUME NEW R, NEW W, Sound(R), Sound(W), RegsOf(R) \subseteq RegsOf(W),
           \A f \in FieldsOf(R) : FullyRead(R, W, f) /\ Uncut(f),
           \A f \in FieldsOf(W) : f[3] \in 1 .. 24
    PROVE  Inverts(R, W)
<1> SUFFICES ASSUME NEW v \in Single(FieldsOf(W)), NEW f \in FieldsOf(R)
             PROVE  Unpacked(R, Packed(W, v))[f] = v[f]
  BY DEF Inverts
<1>1. v \in Values(FieldsOf(W))
  BY SinglesFit
<1>2. PICK words : words = Packed(W, v)
  OBVIOUS
<1>3. ReadFrom(R, W, v, words)
  BY <1>1, <1>2, MadeIsRead DEF Made
<1> QED
  BY <1>1, <1>2, <1>3, FullBack

\* The header, as the comments of the register map have it.
LEMMA HeaderWhole ==
    /\ Sound(HeaderLayout) /\ Whole(HeaderLayout) /\ HeaderReads \subseteq HeaderLayout
    /\ RegsOf(HeaderReads) \subseteq RegsOf(HeaderLayout)
<1>1. PICK W :
    /\ W = HeaderLayout
    /\ W = {[field |-> <<"buffer_number", 0, 2>>, reg |-> 17, at |-> 22, lo |-> 0, n |-> 2],
            [field |-> <<"calpulser", 0, 1>>, reg |-> 17, at |-> 21, lo |-> 0, n |-> 1],
            [field |-> <<"pretrig_window", 0, 3>>, reg |-> 17, at |-> 17, lo |-> 0, n |-> 3],
            [field |-> <<"trig_type", 0, 2>>, reg |-> 17, at |-> 15, lo |-> 0, n |-> 2],
            [field |-> <<"trig_pol", 0, 4>>, reg |-> 17, at |-> 0, lo |-> 0, n |-> 4],
            [field |-> <<"gate_flag", 0, 1>>, reg |-> 18, at |-> 23, lo |-> 0, n |-> 1],
            [field |-> <<"channel_mask", 0, 8>>, reg |-> 18, at |-> 15, lo |-> 0, n |-> 8],
            [field |-> <<"trig_beams", 0, 15>>, reg |-> 18, at |-> 0, lo |-> 0, n |-> 15]}
  BY DEF HeaderLayout, Flag, Piece, Field
<1>2. HeaderReads \subseteq HeaderLayout
  BY DEF HeaderReads, HeaderLayout
<1>3. IsFiniteSet(HeaderLayout)
  BY FewAreFinite DEF HeaderLayout
<1>4. Whole(W)
  BY <1>1 DEF Whole
<1>5. \A p \in W : p.at \in 0 .. 24 /\ p.lo \in 0 .. 24 /\ p.n \in 0 .. 24 /\ p.at + p.n <= 24 /\ p.lo + p.n <= 24
  BY <1>1
<1>6. \A p, q \in W : p # q => /\ p.field # q.field
                               /\ p.reg = q.reg => p.at + p.n <= q.at \/ q.at + q.n <= p.at
  BY <1>1
<1>7. RegsOf(HeaderReads) \subseteq RegsOf(HeaderLayout)
  BY <1>2 DEF RegsOf
<1> QED
  BY <1>1, <1>2, <1>3, <1>4, <1>5, <1>6, <1>7 DEF Sound

LEMMA HeaderInverts ==
    Inverts(HeaderReads, HeaderLayout) /\ ReadWhole(HeaderReads) /\ Lost(HeaderReads) = {}
<1>1. Sound(HeaderReads)
  BY HeaderWhole, PartSound
<1>2. Whole(HeaderReads)
  BY HeaderWhole DEF Whole
<1>3. \A f \in FieldsOf(HeaderReads) : FullyRead(HeaderReads, HeaderLayout, f) /\ Uncut(f)
  BY HeaderWhole, WholeIsFull
<1>4. \A f \in FieldsOf(HeaderReads) : FullyRead(HeaderReads, HeaderReads, f)
  <2>1. HeaderReads \subseteq HeaderReads
    OBVIOUS
  <2> QED
    BY <1>1, <1>2, <2>1, WholeIsFull
<1>5. \A f \in FieldsOf(HeaderLayout) : f[3] \in 1 .. 24
  BY HeaderWhole DEF Whole, FieldsOf
<1>6. Inverts(HeaderReads, HeaderLayout)
  BY <1>1, <1>3, <1>5, HeaderWhole, FullInverts
<1> QED
  BY <1>1, <1>4, <1>6, FullIsComplete, CompleteIsReadWhole, CompleteLoses

\* Layouts without a common field or register.
Apart(P, Q) == FieldsOf(P) \cap FieldsOf(Q) = {} /\ RegsOf(P) \cap RegsOf(Q) = {}

LEMMA UnionApart == \A P, Q, R : Apart(P, R) /\ Apart(Q, R) => Apart(P \cup Q, R)
<1>1. \A P, Q : /\ FieldsOf(P \cup Q) = FieldsOf(P) \cup FieldsOf(Q)
                /\ RegsOf(P \cup Q) = RegsOf(P) \cup RegsOf(Q)
  BY DEF FieldsOf, RegsOf
<1> QED
  BY <1>1 DEF Apart

LEMMA ApartComplete ==
    ASSUME NEW P, Complete(P), NEW Q, Complete(Q), Apart(P, Q)
    PROVE  Complete(P \cup Q)
<1>1. PICK S : S = P \cup Q /\ IsFiniteSet(S)
  BY FS_Union DEF Complete, Sound
<1>2. /\ \A p \in P : p.field \in FieldsOf(P) /\ p.reg \in RegsOf(P)
      /\ \A q \in Q : q.field \in FieldsOf(Q) /\ q.reg \in RegsOf(Q)
  BY DEF FieldsOf, RegsOf
<1>3. \A p \in P, q \in Q : p.field # q.field /\ p.reg # q.reg
  BY <1>2 DEF Apart
<1>4. Sound(S)
  BY <1>1, <1>3 DEF Complete, Sound
<1>5. ASSUME NEW f \in FieldsOf(S) PROVE AllRead(S, f)
  <2>1. f \in FieldsOf(P) \/ f \in FieldsOf(Q)
    BY <1>1 DEF FieldsOf
  <2>2. AllRead(P, f) \/ AllRead(Q, f)
    BY <2>1 DEF Complete
  <2> QED
    BY <1>1, <2>2 DEF AllRead
<1> QED
  BY <1>1, <1>4, <1>5 DEF Complete

LEMMA ThreeBytesComplete ==
    ASSUME NEW name, NEW reg
    PROVE  /\ Complete(ThreeBytes(name, reg)) /\ Lost(ThreeBytes(name, reg)) = {}
           /\ FieldsOf(ThreeBytes(name, reg)) = {<<name, 0, 24>>}
           /\ RegsOf(ThreeBytes(name, reg)) = {reg}
<1> DEFINE f == <<name, 0, 24>>
           Q(b) == [field |-> f, reg |-> reg, at |-> 8 * b, lo |-> 8 * b, n |-> 8]
           W == {Q(0), Q(1), Q(2)}
<1>1. ThreeBytes(name, reg) = W
  <2>1. ThreeBytes(name, reg) = {Q(b) : b \in 0 .. 2}
    BY DEF ThreeBytes, Piece, Field
  <2>2. \A b \in 0 .. 2 : b = 0 \/ b = 1 \/ b = 2
    OBVIOUS
  <2> QED
    BY <2>1, <2>2
<1>2. /\ f[3] = 24
      /\ \A b \in 0 .. 2 : Q(b).field = f /\ Q(b).reg = reg /\ Q(b).at = 8 * b /\ Q(b).lo = 8 * b /\ Q(b).n = 8
  OBVIOUS
<1> HIDE DEF f, Q
<1>3. Sound(W) /\ FieldsOf(W) = {f} /\ RegsOf(W) = {reg}
  <2>1. IsFiniteSet(W)
    BY FewAreFinite
  <2> QED
    BY <1>2, <2>1 DEF Sound, FieldsOf, RegsOf
<1>4. FullyRead(W, W, f)
  <2>1. ASSUME NEW i \in 0 .. 23 PROVE \E p \in W, q \in W : Meets(p, q, f, i)
    <3>1. \/ Meets(Q(0), Q(0), f, i) \/ Meets(Q(1), Q(1), f, i) \/ Meets(Q(2), Q(2), f, i)
      BY <1>2 DEF Meets, InField
    <3> QED
      BY <3>1
  <2> QED
    BY <1>2, <1>3, <2>1 DEF FullyRead
<1>5. Complete(W) /\ Lost(W) = {}
  BY <1>3, <1>4, FullIsComplete, CompleteLoses
<1> QED
  BY <1>1, <1>3, <1>5 DEF f

LEMMA StatusComplete == Complete(StatusReads) /\ Lost(StatusReads) = {}
<1> DEFINE A == ThreeBytes("latched_pps_low", 44)
           B == ThreeBytes("latched_pps_high", 45)
           C == ThreeBytes("dynamic_beam_mask", 34)
           f == <<"veto_status", 0, 2>>
           P == [field |-> f, reg |-> 33, at |-> 0, lo |-> 0, n |-> 2]
<1>1. StatusReads = ((A \cup B) \cup C) \cup {P}
  BY DEF StatusReads, Piece, Field
<1>2. /\ Lost(A) = {} /\ Lost(B) = {} /\ Lost(C) = {}
      /\ Complete(A) /\ FieldsOf(A) = {<<"latched_pps_low", 0, 24>>} /\ RegsOf(A) = {44}
      /\ Complete(B) /\ FieldsOf(B) = {<<"latched_pps_high", 0, 24>>} /\ RegsOf(B) = {45}
      /\ Complete(C) /\ FieldsOf(C) = {<<"dynamic_beam_mask", 0, 24>>} /\ RegsOf(C) = {34}
  BY ThreeBytesComplete
<1>3. P.field = f /\ P.reg = 33 /\ P.at = 0 /\ P.lo = 0 /\ P.n = 2 /\ f[1] = "veto_status" /\ f[3] = 2
  OBVIOUS
<1>4. f # <<"latched_pps_low", 0, 24>> /\ f # <<"latched_pps_high", 0, 24>> /\ f # <<"dynamic_beam_mask", 0, 24>>
  OBVIOUS
<1> HIDE DEF A, B, C, P, f
<1>5. Complete({P}) /\ Lost({P}) = {} /\ FieldsOf({P}) = {f} /\ RegsOf({P}) = {33}
  <2>1. IsFiniteSet({P}) /\ FieldsOf({P}) = {f} /\ RegsOf({P}) = {33}
    <3>1. FieldsOf({P}) = {f} /\ RegsOf({P}) = {33}
      BY <1>3 DEF FieldsOf, RegsOf
    <3> QED
      BY <3>1, FS_Singleton
  <2>2. Sound({P})
    BY <1>3, <2>1 DEF Sound
  <2>3. Whole({P}) /\ {P} \subseteq {P}
    BY <1>3 DEF Whole
  <2>4. FullyRead({P}, {P}, f)
    BY <2>1, <2>2, <2>3, WholeIsFull
  <2> QED
    BY <2>1, <2>2, <2>4, FullIsComplete, CompleteLoses
<1>6. Apart(A, B) /\ Apart(A, C) /\ Apart(B, C)
  BY <1>2 DEF Apart
<1>7. Apart(A, {P}) /\ Apart(B, {P}) /\ Apart(C, {P})
  BY <1>2, <1>4, <1>5 DEF Apart
<1>8. Complete((A \cup B) \cup C)
  BY <1>2, <1>6, UnionApart, ApartComplete
<1>9. Complete(((A \cup B) \cup C) \cup {P})
  BY <1>5, <1>7, <1>8, UnionApart, ApartComplete
<1>10. Lost(((A \cup B) \cup C) \cup {P}) = {}
  <2>1. Lost(A \cup B) = {}
    BY <1>2, LostOfUnion, Zenon
  <2>2. Lost((A \cup B) \cup C) = {}
    BY <1>2, <2>1, LostOfUnion, Zenon
  <2> QED
    BY <1>5, <2>2, LostOfUnion, Zenon
<1> QED
  BY <1>1, <1>9, <1>10

\* The upper three of the bits for the day go nowhere.
LEMMA FwinfoComplete ==
    Complete(FwinfoReads) /\ Lost(FwinfoReads) = {Field("day", 5)} \X (5 .. 7)
<1> DEFINE A == ThreeBytes("dna_low", 4)
           B == ThreeBytes("dna_mid", 5)
           C == TwoBytes("dna_hi", 6, 0)
           V == {[field |-> <<"major", 0, 4>>, reg |-> 1, at |-> 4, lo |-> 0, n |-> 4],
                 [field |-> <<"minor", 0, 4>>, reg |-> 1, at |-> 0, lo |-> 0, n |-> 4],
                 [field |-> <<"master", 0, 1>>, reg |-> 1, at |-> 16, lo |-> 0, n |-> 1]}
           D == {[field |-> <<"day", 0, 5>>, reg |-> 2, at |-> 0, lo |-> 0, n |-> 8],
                 [field |-> <<"month", 0, 4>>, reg |-> 2, at |-> 8, lo |-> 0, n |-> 4],
                 [field |-> <<"year", 0, 12>>, reg |-> 2, at |-> 12, lo |-> 0, n |-> 4],
                 [field |-> <<"year", 0, 12>>, reg |-> 2, at |-> 16, lo |-> 4, n |-> 8]}
<1>1. FwinfoReads = (((V \cup D) \cup A) \cup B) \cup C
  BY DEF FwinfoReads, Flag, Piece, Field
<1>2. /\ Lost(A) = {} /\ Lost(B) = {}
      /\ Complete(A) /\ FieldsOf(A) = {<<"dna_low", 0, 24>>} /\ RegsOf(A) = {4}
      /\ Complete(B) /\ FieldsOf(B) = {<<"dna_mid", 0, 24>>} /\ RegsOf(B) = {5}
  BY ThreeBytesComplete
<1>3. Complete(C) /\ Lost(C) = {} /\ FieldsOf(C) = {<<"dna_hi", 0, 16>>} /\ RegsOf(C) = {6}
  <2> DEFINE f == <<"dna_hi", 0, 16>>
             p == [field |-> f, reg |-> 6, at |-> 0, lo |-> 0, n |-> 8]
             q == [field |-> f, reg |-> 6, at |-> 8, lo |-> 8, n |-> 8]
  <2>1. C = {p, q}
    BY DEF TwoBytes, Piece, Field
  <2>2. /\ f[3] = 16
        /\ p.field = f /\ p.reg = 6 /\ p.at = 0 /\ p.lo = 0 /\ p.n = 8
        /\ q.field = f /\ q.reg = 6 /\ q.at = 8 /\ q.lo = 8 /\ q.n = 8
    OBVIOUS
  <2> HIDE DEF f, p, q, C
  <2>3. Sound({p, q}) /\ FieldsOf({p, q}) = {f} /\ RegsOf({p, q}) = {6}
    <3>1. IsFiniteSet({p, q})
      BY FewAreFinite
    <3> QED
      BY <2>2, <3>1 DEF Sound, FieldsOf, RegsOf
  <2>4. FullyRead({p, q}, {p, q}, f)
    <3>1. \A i \in 0 .. 15 : Meets(p, p, f, i) \/ Meets(q, q, f, i)
      BY <2>2 DEF Meets, InField
    <3> QED
      BY <2>2, <2>3, <3>1 DEF FullyRead
  <2>5. Complete({p, q}) /\ Lost({p, q}) = {}
    BY <2>3, <2>4, FullIsComplete, CompleteLoses
  <2> QED
    BY <2>1, <2>3, <2>5 DEF f
<1>4. Complete(V) /\ Lost(V) = {} /\ RegsOf(V) = {1} /\ FieldsOf(V) = {<<"major", 0, 4>>, <<"minor", 0, 4>>, <<"master", 0, 1>>}
  <2>1. IsFiniteSet(V)
    BY FewAreFinite
  <2>2. /\ RegsOf(V) = {1} /\ FieldsOf(V) = {<<"major", 0, 4>>, <<"minor", 0, 4>>, <<"master", 0, 1>>}
        /\ Whole(V)
    BY DEF RegsOf, FieldsOf, Whole
  <2>3. Sound(V)
    BY <2>1 DEF Sound
  <2>4. V \subseteq V
    OBVIOUS
  <2> HIDE DEF V
  <2> QED
    BY <2>2, <2>3, <2>4, WholeIsFull, FullIsComplete, CompleteLoses
<1>5. /\ Complete(D) /\ RegsOf(D) = {2} /\ FieldsOf(D) = {<<"day", 0, 5>>, <<"month", 0, 4>>, <<"year", 0, 12>>}
      /\ Lost(D) = {<<"day", 0, 5>>} \X (5 .. 7)
  <2>1. PICK f, g, h, p, q, x, y :
            /\ f = <<"day", 0, 5>> /\ g = <<"month", 0, 4>> /\ h = <<"year", 0, 12>>
            /\ D = {p, q, x, y}
            /\ p = [field |-> f, reg |-> 2, at |-> 0, lo |-> 0, n |-> 8]
            /\ q = [field |-> g, reg |-> 2, at |-> 8, lo |-> 0, n |-> 4]
            /\ x = [field |-> h, reg |-> 2, at |-> 12, lo |-> 0, n |-> 4]
            /\ y = [field |-> h, reg |-> 2, at |-> 16, lo |-> 4, n |-> 8]
    OBVIOUS
  <2>2. /\ f # g /\ f # h /\ g # h /\ f[3] = 5 /\ g[3] = 4 /\ h[3] = 12
        /\ p.field = f /\ p.reg = 2 /\ p.at = 0 /\ p.lo = 0 /\ p.n = 8
        /\ q.field = g /\ q.reg = 2 /\ q.at = 8 /\ q.lo = 0 /\ q.n = 4
        /\ x.field = h /\ x.reg = 2 /\ x.at = 12 /\ x.lo = 0 /\ x.n = 4
        /\ y.field = h /\ y.reg = 2 /\ y.at = 16 /\ y.lo = 4 /\ y.n = 8
    BY <2>1
  <2> DEFINE E == {p, q, x, y}
  <2>3. Sound(E) /\ FieldsOf(E) = {f, g, h} /\ RegsOf(E) = {2}
    <3>1. IsFiniteSet(E)
      BY FewAreFinite
    <3>2. FieldsOf(E) = {f, g, h} /\ RegsOf(E) = {2}
      BY <2>2 DEF FieldsOf, RegsOf
    <3> QED
      BY <2>2, <3>1, <3>2 DEF Sound
  <2>4. AllRead(E, f)
    <3>1. \A i \in 0 .. 4 : i \in InField(p)
      BY <2>2 DEF InField
    <3> QED
      BY <2>2, <3>1 DEF AllRead
  <2>5. AllRead(E, g)
    <3>1. \A i \in 0 .. 3 : i \in InField(q)
      BY <2>2 DEF InField
    <3> QED
      BY <2>2, <3>1 DEF AllRead
  <2>6. AllRead(E, h)
    <3>1. \A i \in 0 .. 11 : i \in InField(x) \/ i \in InField(y)
      BY <2>2 DEF InField
    <3> QED
      BY <2>2, <3>1 DEF AllRead
  <2>7. Complete(E)
    BY <2>3, <2>4, <2>5, <2>6 DEF Complete
  <2>8. /\ BitsOf(p) = {<<f, b>> : b \in 0 .. 7} /\ BitsOf(q) = {<<g, b>> : b \in 0 .. 3}
        /\ BitsOf(x) = {<<h, b>> : b \in 0 .. 3} /\ BitsOf(y) = {<<h, b>> : b \in 4 .. 11}
    BY <2>2 DEF BitsOf
  <2>9. \A z : z \in Lost(E) <=> \E b \in 5 .. 7 : z = <<f, b>>
    <3>1. \A z : z \in Lost(E) <=> /\ z[2] >= z[1][3]
                                   /\ z \in BitsOf(p) \cup BitsOf(q) \cup BitsOf(x) \cup BitsOf(y)
      BY DEF Lost
    <3>2. \A b : /\ <<f, b>>[2] = b /\ <<f, b>>[1][3] = 5
                 /\ <<g, b>>[2] = b /\ <<g, b>>[1][3] = 4
                 /\ <<h, b>>[2] = b /\ <<h, b>>[1][3] = 12
      BY <2>2
    <3>3. ASSUME NEW z, z \in Lost(E) PROVE \E b \in 5 .. 7 : z = <<f, b>>
      <4>1. PICK b : \/ z = <<f, b>> /\ b \in 0 .. 7
                     \/ z = <<g, b>> /\ b \in 0 .. 3
                     \/ z = <<h, b>> /\ b \in 0 .. 11
        BY <2>8, <3>1, <3>3
      <4>2. z[2] >= z[1][3]
        BY <3>1, <3>3
      <4> QED
        BY <3>2, <4>1, <4>2
    <3>4. ASSUME NEW b \in 5 .. 7 PROVE <<f, b>> \in Lost(E)
      <4>1. <<f, b>> \in BitsOf(p) /\ <<f, b>>[2] >= <<f, b>>[1][3]
        BY <2>8, <3>2
      <4> QED
        BY <3>1, <4>1
    <3> QED
      BY <3>3, <3>4
  <2>10. Lost(E) = {f} \X (5 .. 7)
    BY <2>9
  <2> QED
    BY <2>1, <2>3, <2>7, <2>10
<1> HIDE DEF A, B, C, D, V
<1>6. Apart(V, D) /\ Apart(V, A) /\ Apart(D, A) /\ Apart(V, B) /\ Apart(D, B) /\ Apart(A, B)
  BY <1>2, <1>4, <1>5 DEF Apart
<1>7. Apart(V, C) /\ Apart(D, C) /\ Apart(A, C) /\ Apart(B, C)
  BY <1>2, <1>3, <1>4, <1>5 DEF Apart
<1>8. Complete((V \cup D) \cup A)
  BY <1>2, <1>4, <1>5, <1>6, UnionApart, ApartComplete
<1>9. Complete(((V \cup D) \cup A) \cup B)
  BY <1>2, <1>6, <1>8, UnionApart, ApartComplete
<1>10. Complete((((V \cup D) \cup A) \cup B) \cup C)
  BY <1>3, <1>7, <1>9, UnionApart, ApartComplete
<1>11. Lost((((V \cup D) \cup A) \cup B) \cup C) = Lost(D)
  <2>1. Lost(V \cup D) = Lost(D)
    <3>1. Lost(D \cup V) = Lost(D) /\ D \cup V = V \cup D
      BY <1>4, LostOfUnion
    <3> QED
      BY <3>1, Zenon
  <2>2. Lost((V \cup D) \cup A) = Lost(D)
    BY <1>2, <2>1, LostOfUnion, Zenon
  <2>3. Lost(((V \cup D) \cup A) \cup B) = Lost(D)
    BY <1>2, <2>2, LostOfUnion, Zenon
  <2> QED
    BY <1>3, <2>3, LostOfUnion, Zenon
<1> QED
  BY <1>1, <1>5, <1>10, <1>11 DEF Field

-----------------------------------------------------------------------------
\* The scalers, by their place among all values.

Places == 0 .. NumValues - 1

LEMMA PlaceNumbers ==
    /\ NumValues \in Nat /\ NumValues % 2 = 1
    /\ \A i \in Places : /\ i \in Nat /\ i \div (1 + NumBeams) \in 0 .. NumScalers - 1
                         /\ i % (1 + NumBeams) \in 0 .. NumBeams
                         /\ i = (i \div (1 + NumBeams)) * (1 + NumBeams) + (i % (1 + NumBeams))
    /\ \A k \in 0 .. NumScalers - 1, b \in 0 .. NumBeams :
           /\ k * (1 + NumBeams) + b \in Places
           /\ (k * (1 + NumBeams) + b) \div (1 + NumBeams) = k
           /\ (k * (1 + NumBeams) + b) % (1 + NumBeams) = b
<1>1. PICK d \in Nat \ {0} : d = 1 + NumBeams /\ NumBeams \in Nat /\ NumScalers \in Nat \ {0}
  BY NumbersAssumption
<1>2. NumValues = NumScalers * d /\ NumValues \in Nat /\ NumValues % 2 = 1
  BY <1>1, NumbersAssumption DEF NumValues
<1>3. ASSUME NEW i \in Places
      PROVE  /\ i \in Nat /\ i \div d \in 0 .. NumScalers - 1 /\ i % d \in 0 .. NumBeams
             /\ i = (i \div d) * d + (i % d)
  <2>1. i \in Nat /\ i < NumScalers * d
    BY <1>2 DEF Places
  <2>2. i \div d \in Nat /\ i % d \in Nat /\ i % d < d /\ i = (i \div d) * d + (i % d)
    BY <2>1, Division
  <2>3. PICK q \in Nat : q = i \div d
    BY <2>2
  <2>4. q * d < NumScalers * d
    <3>1. PICK r \in Nat : r = i % d /\ i = q * d + r
      BY <2>2, <2>3
    <3>2. q * d \in Nat /\ NumScalers * d \in Nat
      BY <1>1
    <3> QED
      BY <2>1, <3>1, <3>2
  <2>5. q < NumScalers
    <3>1. \A m \in Nat : q = NumScalers + m => q * d = NumScalers * d + m * d /\ m * d \in Nat
      BY <1>1
    <3>2. q >= NumScalers => \E m \in Nat : q = NumScalers + m
      <4>1. q >= NumScalers => q - NumScalers \in Nat /\ q = NumScalers + (q - NumScalers)
        BY <1>1
      <4> QED
        BY <4>1
    <3>3. q * d \in Nat /\ NumScalers * d \in Nat
      BY <1>1
    <3> QED
      BY <1>1, <2>4, <3>1, <3>2, <3>3
  <2>6. i % d <= NumBeams
    BY <1>1, <2>2
  <2> QED
    BY <1>1, <2>1, <2>2, <2>3, <2>5, <2>6
<1>4. ASSUME NEW k \in 0 .. NumScalers - 1, NEW b \in 0 .. NumBeams
      PROVE  k * d + b \in Places /\ (k * d + b) \div d = k /\ (k * d + b) % d = b
  <2>1. k \in Nat /\ b \in Nat /\ b < d
    BY <1>1
  <2>2. PICK m \in Nat : NumScalers = (k + 1) + m
    <3>1. NumScalers - (k + 1) \in Nat /\ NumScalers = (k + 1) + (NumScalers - (k + 1))
      BY <1>1
    <3> QED
      BY <3>1
  <2>3. NumScalers * d = k * d + d + m * d /\ m * d \in Nat /\ k * d \in Nat
    BY <1>1, <2>1, <2>2
  <2>4. k * d + b \in 0 .. NumScalers * d - 1
    BY <1>1, <2>1, <2>3
  <2> QED
    BY <1>2, <2>1, <2>4, Divided DEF Places
<1> QED
  BY <1>1, <1>2, <1>3, <1>4

LEMMA ScalerFieldsDiffer ==
    /\ \A i, j \in Places : ScalerField(i) = ScalerField(j) => i = j
    /\ \A i \in Places : ScalerField(i)[3] = 12 /\ ScalerField(i)[1] # "threshold"
<1>1. \A i \in Places : ScalerField(i)[3] = 12 /\ ScalerField(i)[1] # "threshold"
  BY DEF ScalerField
<1>2. ASSUME NEW i \in Places, NEW j \in Places, ScalerField(i) = ScalerField(j)
      PROVE  i = j
  <2>1. PICK d \in Nat \ {0}, e \in Nat \ {0} : d = 1 + NumBeams /\ e = NumBeams
    BY NumbersAssumption
  <2>2. PICK k \in Nat, b \in Nat : /\ k = i \div d /\ b = i % d /\ b <= e /\ i = k * d + b
    BY <2>1, PlaceNumbers
  <2>3. PICK m \in Nat, c \in Nat : /\ m = j \div d /\ c = j % d /\ c <= e /\ j = m * d + c
    BY <2>1, PlaceNumbers
  <2>4. /\ b = 0 => ScalerField(i) = <<"global", k, 12>>
        /\ b # 0 => ScalerField(i) = <<"beam", k * e + b - 1, 12>>
    BY <2>1, <2>2 DEF ScalerField
  <2>5. /\ c = 0 => ScalerField(j) = <<"global", m, 12>>
        /\ c # 0 => ScalerField(j) = <<"beam", m * e + c - 1, 12>>
    BY <2>1, <2>3 DEF ScalerField
  <2>6. b = 0 <=> c = 0
    BY <1>2, <2>4, <2>5
  <2>7. CASE b = 0
    <3>1. k = m
      BY <1>2, <2>4, <2>5, <2>6, <2>7
    <3> QED
      BY <2>2, <2>3, <2>6, <2>7, <3>1
  <2>8. CASE b # 0
    <3>1. k * e + b - 1 = m * e + c - 1
      BY <1>2, <2>4, <2>5, <2>6, <2>8
    <3>2. PICK x \in Nat, y \in Nat : x = b - 1 /\ y = c - 1 /\ x < e /\ y < e
      BY <2>2, <2>3, <2>6, <2>8
    <3>3. k * e + x = m * e + y
      <4>1. k * e \in Nat /\ m * e \in Nat
        BY <2>1
      <4> QED
        BY <3>1, <3>2, <4>1
    <3>4. k = m /\ x = y
      <4>1. /\ (k * e + x) \div e = k /\ (k * e + x) % e = x
            /\ (m * e + y) \div e = m /\ (m * e + y) % e = y
        BY <2>1, <3>2, Divided
      <4> QED
        BY <3>3, <4>1
    <3>5. b = c
      BY <3>2, <3>4
    <3> QED
      BY <2>2, <2>3, <3>4, <3>5
  <2> QED
    BY <2>7, <2>8
<1> QED
  BY <1>1, <1>2

\* The board puts a scaler into one half of a register; of the even ones the low byte is
\* read first, of the odd ones the low four bits.
Cut(i)    == IF i % 2 = 0 THEN 8 ELSE 4
Stored(i) == Piece(ScalerField(i), i \div 2, 12 * (i % 2), 0, 12)
Low(i)    == Piece(ScalerField(i), i \div 2, 12 * (i % 2), 0, Cut(i))
High(i)   == Piece(ScalerField(i), i \div 2, 12 * (i % 2) + Cut(i), Cut(i), 12 - Cut(i))

LEMMA Halves ==
    /\ \A i \in Nat : i \div 2 \in Nat /\ i % 2 \in {0, 1} /\ i = 2 * (i \div 2) + (i % 2)
    /\ \A r \in Nat : /\ (2 * r) \div 2 = r /\ (2 * r) % 2 = 0
                      /\ (2 * r + 1) \div 2 = r /\ (2 * r + 1) % 2 = 1
OBVIOUS

LEMMA LayoutByPlace == ScalerLayout = {Stored(i) : i \in Places}
<1> DEFINE d == 1 + NumBeams
           P(k, b) == Piece(IF b = 0 THEN <<"global", k, 12>> ELSE <<"beam", k * NumBeams + b - 1, 12>>,
                            (k * d + b) \div 2, 12 * ((k * d + b) % 2), 0, 12)
<1>1. ScalerLayout = UNION {{P(k, b) : b \in 0 .. NumBeams} : k \in 0 .. NumScalers - 1}
  BY DEF ScalerLayout
<1>2. ASSUME NEW k \in 0 .. NumScalers - 1, NEW b \in 0 .. NumBeams
      PROVE  k * d + b \in Places /\ P(k, b) = Stored(k * d + b)
  <2>1. PICK i \in Places : i = k * d + b /\ i \div d = k /\ i % d = b
    BY PlaceNumbers
  <2>2. ScalerField(i) = IF b = 0 THEN <<"global", k, 12>> ELSE <<"beam", k * NumBeams + b - 1, 12>>
    BY <2>1 DEF ScalerField
  <2> QED
    BY <2>1, <2>2 DEF Stored
<1>3. ASSUME NEW i \in Places
      PROVE  \E k \in 0 .. NumScalers - 1, b \in 0 .. NumBeams : i = k * d + b
  BY PlaceNumbers
<1> HIDE DEF P, d
<1>4. \A x : x \in ScalerLayout <=> \E k \in 0 .. NumScalers - 1, b \in 0 .. NumBeams : x = P(k, b)
  BY <1>1
<1>5. \A x : x \in ScalerLayout <=> \E i \in Places : x = Stored(i)
  BY <1>2, <1>3, <1>4
<1> QED
  BY <1>5

LEMMA ReadsByPlace == ScalerReads = {Low(i) : i \in Places} \cup {High(i) : i \in Places}
<1>1. ASSUME NEW i \in Places
      PROVE  LET r == i \div 2
             IN  /\ i % 2 = 0 => i = 2 * r /\ FirstPieces(r) = {Low(i), High(i)}
                 /\ i % 2 = 1 => i = 2 * r + 1 /\ SecondPieces(r) = {Low(i), High(i)}
  <2>1. PICK r \in Nat : r = i \div 2 /\ i % 2 \in {0, 1} /\ i = 2 * r + (i % 2)
    BY PlaceNumbers, Halves
  <2>2. CASE i % 2 = 0
    <3>1. i = 2 * r /\ Cut(i) = 8
      BY <2>1, <2>2 DEF Cut
    <3>2. /\ Low(i) = Piece(ScalerField(i), r, 0, 0, 8)
          /\ High(i) = Piece(ScalerField(i), r, 8, 8, 4)
      BY <2>1, <2>2, <3>1 DEF Low, High
    <3>3. FirstPieces(r) = {Low(i), High(i)}
      BY <3>1, <3>2 DEF FirstPieces
    <3> QED
      BY <2>1, <2>2, <3>1, <3>3
  <2>3. CASE i % 2 = 1
    <3>1. i = 2 * r + 1 /\ Cut(i) = 4
      BY <2>1, <2>3 DEF Cut
    <3>2. /\ Low(i) = Piece(ScalerField(i), r, 12, 0, 4)
          /\ High(i) = Piece(ScalerField(i), r, 16, 4, 8)
      BY <2>1, <2>3, <3>1 DEF Low, High
    <3>3. SecondPieces(r) = {Low(i), High(i)}
      BY <3>1, <3>2 DEF SecondPieces
    <3> QED
      BY <2>1, <2>3, <3>1, <3>3
  <2> QED
    BY <2>1, <2>2, <2>3
<1>2. PICK n \in Nat : NumValues = 2 * n + 1 /\ NumScalerRegisters = n + 1
  <2>1. NumValues = 2 * (NumValues \div 2) + 1 /\ NumValues \div 2 \in Nat
    BY PlaceNumbers, Halves
  <2> QED
    BY <2>1 DEF NumScalerRegisters
<1>3. ASSUME NEW r \in 0 .. NumScalerRegisters - 1
      PROVE  /\ 2 * r \in Places /\ FirstPieces(r) = {Low(2 * r), High(2 * r)}
             /\ 2 * r + 1 < NumValues =>
                    2 * r + 1 \in Places /\ SecondPieces(r) = {Low(2 * r + 1), High(2 * r + 1)}
  <2>1. 2 * r \in Places /\ (2 * r + 1 < NumValues => 2 * r + 1 \in Places)
    BY <1>2 DEF Places
  <2>2. /\ (2 * r) \div 2 = r /\ (2 * r) % 2 = 0 /\ (2 * r + 1) \div 2 = r /\ (2 * r + 1) % 2 = 1
    BY <1>2, Halves
  <2> QED
    BY <1>1, <2>1, <2>2
<1>4. ASSUME NEW i \in Places
      PROVE  \E r \in 0 .. NumScalerRegisters - 1 : i = 2 * r \/ (i = 2 * r + 1 /\ 2 * r + 1 < NumValues)
  <2>1. PICK r \in Nat : i = 2 * r \/ i = 2 * r + 1
    <3>1. i \in Nat
      BY PlaceNumbers
    <3>2. i \div 2 \in Nat /\ (i = 2 * (i \div 2) \/ i = 2 * (i \div 2) + 1)
      BY <3>1, Halves
    <3> QED
      BY <3>2
  <2>2. r \in 0 .. NumScalerRegisters - 1 /\ i < NumValues
    BY <1>2, <2>1 DEF Places
  <2> QED
    BY <2>1, <2>2
<1>5. \A x : x \in ScalerReads <=>
          \E r \in 0 .. NumScalerRegisters - 1 :
              x \in FirstPieces(r) \/ (2 * r + 1 < NumValues /\ x \in SecondPieces(r))
  BY DEF ScalerReads
<1>6. \A x : x \in ScalerReads <=> \E i \in Places : x = Low(i) \/ x = High(i)
  <2> SUFFICES ASSUME NEW x PROVE x \in ScalerReads <=> \E i \in Places : x = Low(i) \/ x = High(i)
    OBVIOUS
  <2>1. ASSUME x \in ScalerReads PROVE \E i \in Places : x = Low(i) \/ x = High(i)
    BY <1>3, <1>5, <2>1
  <2>2. ASSUME NEW i \in Places, x = Low(i) \/ x = High(i) PROVE x \in ScalerReads
    <3>1. PICK r \in 0 .. NumScalerRegisters - 1 : i = 2 * r \/ (i = 2 * r + 1 /\ 2 * r + 1 < NumValues)
      BY <1>4
    <3>2. x \in FirstPieces(r) \/ (2 * r + 1 < NumValues /\ x \in SecondPieces(r))
      BY <1>3, <2>2, <3>1
    <3> QED
      BY <1>5, <3>2
  <2> QED
    BY <2>1, <2>2
<1> QED
  BY <1>6

LEMMA ImagesFinite == \A f : DOMAIN f = Places => IsFiniteSet({f[i] : i \in Places})
<1>1. IsFiniteSet(Places)
  <2>1. PICK a \in Int, b \in Int : a = 0 /\ b = NumValues - 1
    BY PlaceNumbers
  <2>2. IsFiniteSet(a .. b)
    BY FS_Interval
  <2> QED
    BY <2>1, <2>2 DEF Places
<1> QED
  BY <1>1, ImageIsFinite

\* Two places in one register are the halves of it.
LEMMA OtherHalf ==
    \A i, j \in Places : i # j /\ i \div 2 = j \div 2 => 12 * (i % 2) # 12 * (j % 2)
BY PlaceNumbers, Halves

LEMMA ScalersComplete ==
    /\ Sound(ScalerReads) /\ Sound(ScalerLayout)
    /\ FieldsOf(ScalerReads) = {ScalerField(i) : i \in Places}
    /\ FieldsOf(ScalerLayout) = {ScalerField(i) : i \in Places}
    /\ RegsOf(ScalerReads) \subseteq RegsOf(ScalerLayout)
    /\ \A i \in Places : /\ FullyRead(ScalerReads, ScalerLayout, ScalerField(i))
                         /\ FullyRead(ScalerReads, ScalerReads, ScalerField(i))
<1> DEFINE R == {Low(i) : i \in Places} \cup {High(i) : i \in Places}
           W == {Stored(i) : i \in Places}
<1>1. ASSUME NEW i \in Places
      PROVE  /\ Low(i).field = ScalerField(i) /\ Low(i).reg = i \div 2 /\ Low(i).lo = 0
             /\ Low(i).at = 12 * (i % 2) /\ Low(i).n = Cut(i)
             /\ High(i).field = ScalerField(i) /\ High(i).reg = i \div 2 /\ High(i).lo = Cut(i)
             /\ High(i).at = 12 * (i % 2) + Cut(i) /\ High(i).n = 12 - Cut(i)
             /\ Stored(i).field = ScalerField(i) /\ Stored(i).reg = i \div 2 /\ Stored(i).lo = 0
             /\ Stored(i).at = 12 * (i % 2) /\ Stored(i).n = 12
  BY DEF Low, High, Stored, Piece
<1>2. \A i \in Places : Cut(i) \in {4, 8} /\ 12 * (i % 2) \in {0, 12}
  BY PlaceNumbers, Halves DEF Cut
<1>3. \A p \in R : \E i \in Places : p = Low(i) \/ p = High(i)
  OBVIOUS
<1>4. \A p \in W : \E i \in Places : p = Stored(i)
  OBVIOUS
<1>5. \A i \in Places : Low(i) \in R /\ High(i) \in R /\ Stored(i) \in W
  OBVIOUS
<1>6. IsFiniteSet(R) /\ IsFiniteSet(W)
  <2> DEFINE f == [i \in Places |-> Low(i)]
             g == [i \in Places |-> High(i)]
             h == [i \in Places |-> Stored(i)]
  <2>1. /\ {f[i] : i \in Places} = {Low(i) : i \in Places}
        /\ {g[i] : i \in Places} = {High(i) : i \in Places}
        /\ {h[i] : i \in Places} = W
    OBVIOUS
  <2>2. DOMAIN f = Places /\ DOMAIN g = Places /\ DOMAIN h = Places
    OBVIOUS
  <2> HIDE DEF f, g, h
  <2>3. IsFiniteSet({f[i] : i \in Places}) /\ IsFiniteSet({g[i] : i \in Places}) /\ IsFiniteSet({h[i] : i \in Places})
    BY <2>2, ImagesFinite
  <2>4. IsFiniteSet({f[i] : i \in Places} \cup {g[i] : i \in Places})
    BY <2>3, FS_Union
  <2> QED
    BY <2>1, <2>3, <2>4
<1> HIDE DEF R, W
<1>7. \A p \in R \cup W : /\ p.at \in 0 .. 24 /\ p.lo \in 0 .. 24 /\ p.n \in 0 .. 24
                          /\ p.at + p.n <= 24 /\ p.lo + p.n <= 24
  BY <1>1, <1>2, <1>3, <1>4
\* All bits of a piece are in the half of the register that belongs to its place.
<1>8. ASSUME NEW p \in R \cup W
      PROVE  \E i \in Places : /\ p.field = ScalerField(i) /\ p.reg = i \div 2
                               /\ 12 * (i % 2) <= p.at /\ p.at + p.n <= 12 * (i % 2) + 12
                               /\ p \in {Low(i), High(i), Stored(i)}
  BY <1>1, <1>2, <1>3, <1>4
<1>9. ASSUME NEW p \in R \cup W, NEW q \in R \cup W, p.field # q.field, p.reg = q.reg
      PROVE  p.at + p.n <= q.at \/ q.at + q.n <= p.at
  <2>1. PICK i \in Places : /\ p.field = ScalerField(i) /\ p.reg = i \div 2
                            /\ 12 * (i % 2) <= p.at /\ p.at + p.n <= 12 * (i % 2) + 12
    BY <1>8
  <2>2. PICK j \in Places : /\ q.field = ScalerField(j) /\ q.reg = j \div 2
                            /\ 12 * (j % 2) <= q.at /\ q.at + q.n <= 12 * (j % 2) + 12
    BY <1>8
  <2>3. i # j /\ i \div 2 = j \div 2
    BY <1>9, <2>1, <2>2
  <2>4. PICK a \in {0, 12}, b \in {0, 12} : a = 12 * (i % 2) /\ b = 12 * (j % 2) /\ a # b
    BY <1>2, <2>3, OtherHalf
  <2>5. p.at \in Int /\ p.n \in Int /\ q.at \in Int /\ q.n \in Int
    BY <1>7
  <2>6. a <= p.at /\ p.at + p.n <= a + 12 /\ b <= q.at /\ q.at + q.n <= b + 12
    BY <2>1, <2>2, <2>4
  <2> QED
    BY <2>4, <2>5, <2>6
<1>10. ASSUME NEW p \in R, NEW q \in R, p # q, p.field = q.field
       PROVE  /\ p.at + p.n <= q.at \/ q.at + q.n <= p.at
              /\ p.lo + p.n <= q.lo \/ q.lo + q.n <= p.lo
  <2>1. PICK i \in Places : p \in {Low(i), High(i)}
    BY <1>3
  <2>2. PICK j \in Places : q \in {Low(j), High(j)}
    BY <1>3
  <2>3. i = j
    BY <1>1, <1>10, <2>1, <2>2, ScalerFieldsDiffer
  <2>4. (p = Low(i) /\ q = High(i)) \/ (p = High(i) /\ q = Low(i))
    BY <1>10, <2>1, <2>2, <2>3
  <2> QED
    BY <1>1, <1>2, <2>4
<1>11. Sound(R)
  BY <1>6, <1>7, <1>9, <1>10 DEF Sound
<1>12. Sound(W)
  <2>1. ASSUME NEW p \in W, NEW q \in W, p # q PROVE p.field # q.field
    <3>1. PICK i \in Places : p = Stored(i)
      BY <1>4
    <3>2. PICK j \in Places : q = Stored(j)
      BY <1>4
    <3> QED
      BY <1>1, <2>1, <3>1, <3>2, ScalerFieldsDiffer
  <2> QED
    BY <1>6, <1>7, <1>9, <2>1 DEF Sound
<1>13. FieldsOf(R) = {ScalerField(i) : i \in Places} /\ FieldsOf(W) = {ScalerField(i) : i \in Places}
  BY <1>1, <1>3, <1>4, <1>5 DEF FieldsOf
<1>14. RegsOf(R) \subseteq RegsOf(W)
  BY <1>1, <1>3, <1>5 DEF RegsOf
<1>15. ASSUME NEW i \in Places
       PROVE  FullyRead(R, W, ScalerField(i)) /\ FullyRead(R, R, ScalerField(i))
  <2>1. PICK f : f = ScalerField(i) /\ f[3] = 12 /\ f \in FieldsOf(R) /\ f \in FieldsOf(W)
    BY <1>13, ScalerFieldsDiffer
  <2>2. ASSUME NEW p \in R, p.field = f PROVE p.lo + p.n <= 12
    BY <1>1, <1>2, <1>3
  <2>3. PICK n \in {4, 8}, h \in {0, 12} : n = Cut(i) /\ h = 12 * (i % 2)
    BY <1>2
  <2>4. ASSUME NEW b \in 0 .. 11
        PROVE  \/ Meets(Low(i), Stored(i), f, b) /\ Meets(Low(i), Low(i), f, b)
               \/ Meets(High(i), Stored(i), f, b) /\ Meets(High(i), High(i), f, b)
    BY <1>1, <2>1, <2>3 DEF Meets, InField
  <2>5. \A b \in 0 .. 11 : /\ \E p \in R, q \in W : Meets(p, q, f, b)
                           /\ \E p \in R, q \in R : Meets(p, q, f, b)
    BY <1>5, <2>4
  <2> QED
    BY <2>1, <2>2, <2>5 DEF FullyRead
<1>16. ScalerReads = R /\ ScalerLayout = W
  BY LayoutByPlace, ReadsByPlace DEF R, W
<1> QED
  BY <1>11, <1>12, <1>13, <1>14, <1>15, <1>16

\* All that libbeacon reads has the values that the board has put there, for any numbers of
\* beams and scalers, and nothing of it is lost but what of the byte for the day of the
\* firmware is past the five bits of its field.
THEOREM RecordsAreTrue == Spec => []RecordsTrue
<1>1. Inverts(ScalerReads, ScalerLayout) /\ FieldsOf(ScalerReads) = FieldsOf(ScalerLayout)
  <2>1. \A f \in FieldsOf(ScalerReads) : FullyRead(ScalerReads, ScalerLayout, f) /\ Uncut(f)
    BY ScalersComplete, ScalerFieldsDiffer DEF Uncut
  <2>2. \A f \in FieldsOf(ScalerLayout) : f[3] \in 1 .. 24
    BY ScalersComplete, ScalerFieldsDiffer
  <2> QED
    BY <2>1, <2>2, ScalersComplete, FullInverts
<1>2. ASSUME NEW s \in Settings, NEW v \in Single(FieldsOf(Writes[s]))
      PROVE  Unpacked(Reads[s], Packed(Writes[s], v)) = Held(s, v)
  <2>1. \A f \in FieldsOf(Writes[s]) : f[3] \in 1 .. 24
    BY RegionsApart DEF FieldsOf
  <2>2. v \in Values(FieldsOf(Writes[s]))
    BY <2>1, SinglesFit
  <2>3. Made(Writes[s], v, Packed(Writes[s], v))
    BY DEF Made
  <2> QED
    BY <2>2, <2>3, GettersInvertSetters DEF Recovers
<1>3. ReadWhole(ScalerReads) /\ Lost(ScalerReads) = {}
  <2>1. \A f \in FieldsOf(ScalerReads) : FullyRead(ScalerReads, ScalerReads, f)
    BY ScalersComplete
  <2> QED
    BY <2>1, ScalersComplete, FullIsComplete, CompleteIsReadWhole, CompleteLoses
<1>4. /\ ReadWhole(StatusReads) /\ Lost(StatusReads) = {}
      /\ ReadWhole(FwinfoReads) /\ Lost(FwinfoReads) = {Field("day", 5)} \X (5 .. 7)
  BY StatusComplete, FwinfoComplete, CompleteIsReadWhole
<1>5. RecordsTrue
  BY <1>1, <1>2, <1>3, <1>4, HeaderInverts DEF RecordsTrue
<1> QED
  BY <1>5, PTL

-----------------------------------------------------------------------------
\* Times.

LEMMA CarriedTotal ==
    ASSUME NEW s \in Nat, NEW n \in Nat
    PROVE  Total(Carried(s, n)) = s * NS + n
<1>1. NS \in Nat /\ (s + 1) * NS = s * NS + NS
  BY ClockAssumption
<1>2. CASE n > NS
  BY <1>1, <1>2 DEF Total, Carried
<1>3. CASE ~(n > NS)
  BY <1>1, <1>3 DEF Total, Carried
<1> QED
  BY <1>2, <1>3

\* The time that a reset takes as its own is the middle of the times before and after it,
\* as long as the sum of the seconds fits its 32 bits.
THEOREM StartTimeIsMiddle ==
    ASSUME NEW A \in Time, NEW B \in Time, A.sec + B.sec < U32
    PROVE  /\ Total(AvgTime(A, B)) = (Total(A) + Total(B)) \div 2
           /\ AvgTime(A, B).nsec \in 0 .. NS
<1> DEFINE S == A.sec + B.sec
           N == A.nsec + B.nsec
           half == IF S % 2 = 1 THEN NS \div 2 ELSE 0
<1>1. A.sec \in Nat /\ B.sec \in Nat /\ A.nsec \in 0 .. NS - 1 /\ B.nsec \in 0 .. NS - 1
  BY DEF Time
<1>2. S \in Nat /\ N \in Nat /\ N <= 2 * NS - 2 /\ NS \in Nat /\ U32 \in Nat /\ NS > 0 /\ NS % 2 = 0
  BY <1>1, ClockAssumption
<1>3. S % U32 = S
  BY <1>1, <1>2
<1>4. PICK m \in Nat : NS = 2 * m
  <2>1. NS = 2 * (NS \div 2) /\ NS \div 2 \in Nat
    BY <1>2
  <2> QED
    BY <2>1
<1>5. AvgTime(A, B) = Carried(S \div 2, (N \div 2) + half)
  BY <1>3 DEF AvgTime
<1>6. half \in Nat /\ S \div 2 \in Nat /\ N \div 2 \in Nat
  BY <1>2, <1>4
<1>7. Total(AvgTime(A, B)) = (S \div 2) * NS + (N \div 2) + half
  <2> HIDE DEF half, S, N
  <2> QED
    BY <1>5, <1>6, CarriedTotal, <1>2
<1>8. Total(A) + Total(B) = S * NS + N
  <2>1. \A a, b, c \in Nat : (a + b) * c = a * c + b * c
    OBVIOUS
  <2> QED
    BY <1>1, <1>2, <2>1 DEF Total
<1>9. (S * NS + N) \div 2 = (S \div 2) * NS + (N \div 2) + half
  <2> HIDE DEF S, N
  <2>1. PICK k \in Nat : S = 2 * k \/ S = 2 * k + 1
    <3>1. S \div 2 \in Nat /\ (S = 2 * (S \div 2) \/ S = 2 * (S \div 2) + 1)
      BY <1>2
    <3> QED
      BY <3>1, Zenon
  <2>2. CASE S = 2 * k
    <3>1. half = 0 /\ S \div 2 = k
      BY <2>2
    <3>2. S * NS = 2 * (k * NS) /\ k * NS \in Nat
      BY <2>2, <1>2
    <3> HIDE DEF half
    <3> QED
      BY <3>1, <3>2, <1>2
  <2>3. CASE S = 2 * k + 1
    <3>1. half = m /\ S \div 2 = k
      BY <2>3, <1>4
    <3>2. S * NS = 2 * (k * NS) + 2 * m /\ k * NS \in Nat
      BY <2>3, <1>2, <1>4
    <3> HIDE DEF half
    <3> QED
      BY <3>1, <3>2, <1>2
  <2> QED
    BY <2>1, <2>2, <2>3
<1>10. AvgTime(A, B).nsec \in 0 .. NS
  <2>1. (N \div 2) + half \in 0 .. (NS - 1) + m
    BY <1>2, <1>4
  <2>2. \A s \in Nat, n \in 0 .. (NS - 1) + m : Carried(s, n).nsec \in 0 .. NS
    BY <1>2, <1>4 DEF Carried
  <2> HIDE DEF half, N
  <2> QED
    BY <1>5, <1>6, <2>1, <2>2
<1> QED
  BY <1>7, <1>8, <1>9, <1>10

\* The whole seconds of the rounded sum: those of the exact one, and one more in the last
\* few ticks of a second.
LEMMA WholeSeconds ==
    ASSUME NEW start, start.sec \in Nat, NEW ticks \in Nat
    PROVE  DoubleSum(start, ticks) \div RES
               = start.sec + (ticks \div HZ) + (IF RoundsUp(ticks) THEN 1 ELSE 0)
<1> DEFINE q == ticks \div HZ
           r == ticks % HZ
           Y == 2 * RES * r + HZ
           D == 2 * HZ
           k == Y \div D
           up == IF RoundsUp(ticks) THEN 1 ELSE 0
<1>1. HZ \in Nat /\ HZ > 0 /\ RES \in Nat /\ RES > 0
  BY ClockAssumption
<1>2. q \in Nat /\ r \in 0 .. HZ - 1 /\ ticks = q * HZ + r
  BY <1>1, SMTT(30)
<1>3. RoundsUp(ticks) <=> 2 * RES * (HZ - r) <= HZ
  BY DEF RoundsUp
<1> HIDE DEF q, r
<1>4. RES * r \in Nat /\ RES * HZ \in Nat /\ RES * r <= RES * HZ
  BY <1>1, <1>2, SMTT(30)
<1>5. 2 * RES * (HZ - r) = 2 * (RES * HZ) - 2 * (RES * r)
  BY <1>1, <1>2, SMTT(30)
<1>6. D \in Nat /\ D > 0 /\ Y \in Nat /\ Y = 2 * (RES * r) + HZ
  BY <1>1, <1>2, <1>4, SMTT(30)
<1>7. 2 * ticks * RES + HZ = (q * RES) * D + Y
  BY <1>1, <1>2, SMTT(30)
<1>8. q * RES \in Nat /\ start.sec * RES \in Nat
  BY <1>1, <1>2
<1>9. \A a, b, d \in Nat : d > 0 => (a * d + b) \div d = a + (b \div d)
  BY SMTT(30)
<1>10. (2 * ticks * RES + HZ) \div D = q * RES + k
  <2> DEFINE a == q * RES
  <2>1. a \in Nat
    BY <1>8
  <2> HIDE DEF a, D, Y
  <2>2. (a * D + Y) \div D = a + (Y \div D)
    BY <1>6, <1>9, <2>1, Zenon
  <2> QED
    BY <1>7, <2>2 DEF a
<1>11. k \in Nat /\ k * D <= Y /\ Y < (k + 1) * D
  <2> HIDE DEF D, Y
  <2> QED
    BY <1>6, SMTT(30)
<1>12. Y < (RES + 1) * D
  <2>1. (RES + 1) * D = 2 * (RES * HZ) + 2 * HZ
    BY <1>1, SMTT(30)
  <2> QED
    BY <1>1, <1>4, <1>6, <2>1
<1>13. RoundsUp(ticks) <=> RES * D <= Y
  <2>1. RES * D = 2 * (RES * HZ)
    BY <1>1, SMTT(30)
  <2> QED
    BY <1>1, <1>3, <1>4, <1>5, <1>6, <2>1
<1>14. k \in 0 .. RES /\ (k = RES <=> RoundsUp(ticks))
  <2> HIDE DEF D, Y, k
  <2>1. k <= RES
    <3>1. ~(k >= RES + 1)
      BY <1>1, <1>6, <1>11, <1>12, SMTT(30)
    <3> QED
      BY <1>1, <1>11, <3>1
  <2>2. RES * D <= Y => k = RES
    <3>1. RES * D <= Y => ~(k + 1 <= RES)
      BY <1>1, <1>6, <1>11, SMTT(30)
    <3> QED
      BY <1>1, <1>11, <2>1, <3>1
  <2>3. k = RES => RES * D <= Y
    BY <1>11
  <2> QED
    BY <1>1, <1>11, <1>13, <2>1, <2>2, <2>3
<1>15. DoubleSum(start, ticks) = (start.sec + q) * RES + k
  <2>1. (start.sec + q) * RES = start.sec * RES + q * RES
    BY <1>1, <1>2, SMTT(30)
  <2> HIDE DEF k
  <2> QED
    BY <1>8, <1>10, <1>11, <2>1 DEF DoubleSum, D
<1>16. ((start.sec + q) * RES + k) \div RES = (start.sec + q) + (k \div RES)
  <2> DEFINE a == start.sec + q
  <2>1. a \in Nat
    BY <1>2
  <2> HIDE DEF a, k
  <2>2. (a * RES + k) \div RES = a + (k \div RES)
    BY <1>1, <1>9, <1>11, <2>1, Zenon
  <2> QED
    BY <2>2 DEF a
<1>17. k \div RES = up
  <2> HIDE DEF k
  <2>1. CASE k = RES
    BY <1>1, <1>14, <2>1, SMTT(30)
  <2>2. CASE k # RES
    BY <1>1, <1>14, <2>2, SMTT(30)
  <2> QED
    BY <2>1, <2>2
<1> QED
  BY <1>15, <1>16, <1>17 DEF q

\* The approximate time of a trigger is its number of ticks after the start, to the
\* nanosecond below, whatever is carried; but a trigger in the last few ticks of a second
\* is given one second too much, because its seconds are rounded and its nanoseconds not.
THEOREM TriggerTimeFollows ==
    ASSUME NEW start, start.sec \in Nat, start.nsec \in 0 .. NS, NEW ticks \in Nat
    PROVE  Total(ApproxTriggerTime(start, ticks))
               = Total(start) + ((ticks * NS) \div HZ) + (IF RoundsUp(ticks) THEN NS ELSE 0)
<1> DEFINE q == ticks \div HZ
           r == ticks % HZ
           up == IF RoundsUp(ticks) THEN 1 ELSE 0
<1>1. NS \in Nat /\ HZ \in Nat /\ HZ > 0
  BY ClockAssumption
<1>2. q \in Nat /\ r \in Nat /\ ticks = q * HZ + r /\ up \in Nat
  BY <1>1, SMTT(30)
<1>3. DoubleSum(start, ticks) \div RES = start.sec + q + up
  BY WholeSeconds
<1>4. up * NS = IF RoundsUp(ticks) THEN NS ELSE 0
  BY <1>1
<1> HIDE DEF q, up
<1>5. r * NS \in Nat /\ q * NS \in Nat /\ up * NS \in Nat /\ start.sec * NS \in Nat
  BY <1>1, <1>2
<1>6. (r * NS) \div HZ \in Nat
  <2> HIDE DEF r
  <2> QED
    BY <1>1, <1>5
<1>7. Total(ApproxTriggerTime(start, ticks))
          = (start.sec + q + up) * NS + (start.nsec + ((r * NS) \div HZ))
  <2>1. start.sec + q + up \in Nat /\ start.nsec + ((r * NS) \div HZ) \in Nat
    BY <1>1, <1>2, <1>6
  <2> QED
    BY <1>3, <2>1, CarriedTotal DEF ApproxTriggerTime
<1> HIDE DEF r
<1>8. ticks * NS = (q * NS) * HZ + r * NS
  BY <1>1, <1>2, SMTT(30)
<1>9. \A a, b \in Nat : (a * HZ + b) \div HZ = a + (b \div HZ)
  BY <1>1, SMTT(30)
<1>10. (ticks * NS) \div HZ = q * NS + ((r * NS) \div HZ)
  BY <1>5, <1>8, <1>9
<1>11. (start.sec + q + up) * NS = start.sec * NS + q * NS + up * NS
  BY <1>1, <1>2, SMTT(30)
<1> QED
  BY <1>4, <1>5, <1>6, <1>7, <1>10, <1>11 DEF Total

\* The property that the run samples, for any of its constants: a start time in the middle
\* of the times before and after the reset, and triggers at their distance from it.
THEOREM TimesAreTrue == Spec => []TimesTrue
<1>1. TimesTrue
  <2> SUFFICES ASSUME NEW A \in Instants(0 .. 2), NEW B \in Instants(0 .. 2),
                      A.sec + B.sec < U32
               PROVE  LET start == AvgTime(A, B)
                      IN  /\ Total(start) = (Total(A) + Total(B)) \div 2
                          /\ start.nsec \in 0 .. NS
                          /\ \A ticks \in 0 .. 2 * HZ :
                                 LET t == ApproxTriggerTime(start, ticks)
                                 IN  Total(t) = Total(start) + ((ticks * NS) \div HZ)
                                                + (IF RoundsUp(ticks) THEN NS ELSE 0)
    BY DEF TimesTrue
  <2> DEFINE start == AvgTime(A, B)
  <2>1. A \in Time /\ B \in Time
    BY DEF Instants, Time
  <2>2. /\ Total(start) = (Total(A) + Total(B)) \div 2
        /\ start.nsec \in 0 .. NS
    BY <2>1, StartTimeIsMiddle
  <2>3. start.sec \in Nat
    <3>1. ((A.sec + B.sec) % U32) \div 2 \in Nat
      BY ClockAssumption DEF Instants
    <3>2. \A s \in Nat : \A n : Carried(s, n).sec \in Nat
      BY DEF Carried
    <3> QED
      BY <3>1, <3>2 DEF AvgTime
  <2>4. 0 .. 2 * HZ \subseteq Nat
    BY ClockAssumption
  <2>5. ASSUME NEW ticks \in 0 .. 2 * HZ
        PROVE  Total(ApproxTriggerTime(start, ticks))
                   = Total(start) + ((ticks * NS) \div HZ) + (IF RoundsUp(ticks) THEN NS ELSE 0)
    <3> HIDE DEF start
    <3> QED
      BY <2>2, <2>3, <2>4, TriggerTimeFollows
  <2> QED
    BY <2>2, <2>5
<1> QED
  BY <1>1, PTL
=============================================================================
