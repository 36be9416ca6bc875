------------------------------ MODULE ChecksumProofs ------------------------------
(* Theorems about Fletcher, for bodies of any bytes cut in any number of pieces, and from *)
(* them the property of BeaconFile that looks at samples.  The folds that Fletcher is     *)
(* made of are reasoned about through the fold over the first places of a sequence, which *)
(* is shown to exist, and to go on byte by byte, by way of a smallest counterexample.     *)
EXTENDS BeaconFile, SequenceTheorems, WellFoundedInduction, TLAPS

-----------------------------------------------------------------------------
\* A set of numbers has a smallest.

Less == OpToRel(<, Nat)

LEMMA LessDef == \A x, y \in Nat : <<x, y>> \in Less <=> x < y
BY Zenon DEF Less, OpToRel

LEMMA Smallest ==
    ASSUME NEW S \in SUBSET Nat, S # {}
    PROVE  \E x \in S : \A y \in S : x <= y
<1>1. IsWellFoundedOn(Less, Nat)
  BY NatLessThanWellFounded, Zenon DEF Less
<1>2. PICK x \in S : \A y \in S : ~ (<<y, x>> \in Less)
  BY <1>1, WFMin, Zenon
<1>3. ASSUME NEW y \in S PROVE x <= y
  <2>1. x \in Nat /\ y \in Nat
    OBVIOUS
  <2>2. ~ (y < x)
    BY <1>2, <1>3, <2>1, LessDef
  <2> QED
    BY <2>1, <2>2
<1> QED
  BY <1>3

LEMMA LargestIs == ASSUME NEW n \in Nat, NEW s \in SUBSET (1 .. n), s # {}
                   PROVE  Max(s) \in s /\ \A y \in s : y <= Max(s)
<1> DEFINE T == {n - x : x \in s}
<1>1. PICK t \in T : \A u \in T : t <= u
  <2>1. \A x \in s : n - x \in Nat
    OBVIOUS
  <2>2. T \in SUBSET Nat /\ T # {}
    BY <2>1
  <2> HIDE DEF T
  <2> QED
    BY <2>2, Smallest
<1>2. PICK x \in s : t = n - x
  OBVIOUS
<1>3. \A y \in s : n - x <= n - y
  BY <1>1, <1>2
<1>4. \A y \in s : x >= y
  BY <1>3
<1> QED
  BY <1>4 DEF Max

-----------------------------------------------------------------------------
\* The folds of Fletcher: of the bytes of a piece, of their sum, and of the pieces.

Step(kind, v, x) == CASE kind = "byte"  -> AddByte(v, x)
                      [] kind = "sum"   -> v + x
                      [] kind = "piece" -> FletcherAppend(x, v)

\* g is the fold over each set of the first n places of buf.
Folds(kind, base, buf, n, g) ==
    g = [s \in SUBSET (1 .. n) |->
            IF s = {} THEN base ELSE Step(kind, g[s \ {Max(s)}], buf[Max(s)])]

LEMMA FoldsExist == \A kind, base, buf : \A n \in Nat : \E g : Folds(kind, base, buf, n, g)
<1> SUFFICES ASSUME NEW kind, NEW base, NEW buf PROVE \A n \in Nat : \E g : Folds(kind, base, buf, n, g)
  OBVIOUS
<1> DEFINE bad == {n \in Nat : ~ \E g : Folds(kind, base, buf, n, g)}
<1>1. SUFFICES ASSUME bad # {} PROVE FALSE
  OBVIOUS
<1>2. PICK n \in bad : \A m \in bad : n <= m
  <2>1. bad \in SUBSET Nat
    OBVIOUS
  <2> HIDE DEF bad
  <2> QED
    BY <1>1, <2>1, Smallest
<1>3. n \in Nat /\ ~ \E g : Folds(kind, base, buf, n, g)
  OBVIOUS
<1>4. CASE n = 0
  <2> DEFINE g == [s \in SUBSET (1 .. 0) |-> base]
  <2>1. \A s \in SUBSET (1 .. 0) : s = {}
    OBVIOUS
  <2>2. Folds(kind, base, buf, 0, g)
    BY <2>1 DEF Folds
  <2> QED
    BY <1>3, <1>4, <2>2
<1>5. CASE n # 0
  <2>1. PICK m \in Nat : n = m + 1
    <3>1. n - 1 \in Nat /\ n = (n - 1) + 1
      BY <1>3, <1>5
    <3> QED
      BY <3>1
  <2>2. PICK g : Folds(kind, base, buf, m, g)
    <3>1. m \notin bad
      BY <1>2, <2>1
    <3> QED
      BY <3>1
  <2> DEFINE h == [s \in SUBSET (1 .. n) |->
                      IF n \in s THEN Step(kind, g[s \ {n}], buf[n]) ELSE g[s]]
  <2>3. ASSUME NEW s \in SUBSET (1 .. n)
        PROVE  h[s] = IF s = {} THEN base ELSE Step(kind, h[s \ {Max(s)}], buf[Max(s)])
    <3>1. CASE n \in s
      <4>1. Max(s) = n
        <5>1. Max(s) \in s /\ n <= Max(s)
          BY <1>3, <3>1, LargestIs
        <5>2. Max(s) \in 1 .. n
          BY <5>1
        <5> QED
          BY <1>3, <5>1, <5>2
      <4>2. s \ {n} \in SUBSET (1 .. n) /\ n \notin s \ {n}
        OBVIOUS
      <4>3. h[s \ {n}] = g[s \ {n}]
        BY <4>2
      <4> QED
        BY <3>1, <4>1, <4>3
    <3>2. CASE n \notin s
      <4>1. s \in SUBSET (1 .. m)
        BY <1>3, <2>1, <3>2
      <4>2. g[s] = IF s = {} THEN base ELSE Step(kind, g[s \ {Max(s)}], buf[Max(s)])
        BY <2>2, <4>1 DEF Folds
      <4>3. s \ {Max(s)} \in SUBSET (1 .. n) /\ n \notin s \ {Max(s)}
        BY <3>2
      <4>4. h[s \ {Max(s)}] = g[s \ {Max(s)}] /\ h[s] = g[s]
        BY <3>2, <4>3
      <4> QED
        BY <4>2, <4>4
    <3> QED
      BY <3>1, <3>2
  <2>4. Folds(kind, base, buf, n, h)
    BY <2>3 DEF Folds
  <2> QED
    BY <1>3, <2>4
<1> QED
  BY <1>4, <1>5

\* h goes along the fold of buf, from base.
Along(kind, base, buf, h) ==
    /\ DOMAIN h = 0 .. Len(buf) /\ h[0] = base
    /\ \A k \in 1 .. Len(buf) : h[k] = Step(kind, h[k - 1], buf[k])

LEMMA FoldAlong ==
    ASSUME NEW kind, NEW base, NEW X, NEW buf \in Seq(X), NEW g, Folds(kind, base, buf, Len(buf), g)
    PROVE  \E h : Along(kind, base, buf, h) /\ g[1 .. Len(buf)] = h[Len(buf)]
<1>1. PICK n \in Nat : n = Len(buf)
  OBVIOUS
<1> DEFINE h == [k \in 0 .. n |-> g[1 .. k]]
<1>2. Folds(kind, base, buf, n, g)
  BY <1>1
<1>3. h[0] = base
  <2>1. 1 .. 0 = {} /\ {} \in SUBSET (1 .. n)
    OBVIOUS
  <2> QED
    BY <1>2, <2>1 DEF Folds
<1>4. ASSUME NEW k \in 1 .. n PROVE h[k] = Step(kind, h[k - 1], buf[k])
  <2>1. PICK m \in Nat : k = m + 1 /\ m \in 0 .. n /\ k - 1 = m
    <3>1. k - 1 \in Nat /\ k = (k - 1) + 1 /\ k - 1 \in 0 .. n
      OBVIOUS
    <3> QED
      BY <3>1
  <2>2. 1 .. k \in SUBSET (1 .. n) /\ k \in 1 .. k
    OBVIOUS
  <2>3. (1 .. k) \ {k} = 1 .. m
    BY <2>1
  <2>4. Max(1 .. k) = k
    <3>1. 1 .. k # {}
      BY <2>2
    <3>2. Max(1 .. k) \in 1 .. k /\ k <= Max(1 .. k)
      BY <2>2, <3>1, LargestIs
    <3> QED
      BY <3>2
  <2>5. 1 .. k # {}
    BY <2>2
  <2>6. g[1 .. k] = Step(kind, g[1 .. m], buf[k])
    BY <1>2, <2>2, <2>3, <2>4, <2>5 DEF Folds
  <2> QED
    BY <2>1, <2>6
<1>5. Along(kind, base, buf, h) /\ h[n] = g[1 .. n]
  BY <1>1, <1>3, <1>4 DEF Along
<1> QED
  BY <1>1, <1>5

LEMMA BytesAlong ==
    ASSUME NEW base, NEW X, NEW buf \in Seq(X)
    PROVE  \E h : Along("byte", base, buf, h) /\ FoldLeft(AddByte, base, buf) = h[Len(buf)]
<1> DEFINE F(g) == g = [s \in SUBSET DOMAIN buf |->
                           IF s = {} THEN base ELSE AddByte(g[s \ {Max(s)}], buf[Max(s)])]
<1>1. FoldLeft(AddByte, base, buf) = (CHOOSE g : F(g))[DOMAIN buf]
  BY DEF FoldLeft, MapThenFoldSet
<1>2. \A g : F(g) <=> Folds("byte", base, buf, Len(buf), g)
  <2>1. DOMAIN buf = 1 .. Len(buf)
    OBVIOUS
  <2> QED
    BY <2>1 DEF Folds, Step
<1>3. \E g : F(g)
  <2>1. Len(buf) \in Nat
    OBVIOUS
  <2> QED
    BY <1>2, <2>1, FoldsExist
<1> HIDE DEF F
<1>4. PICK g : F(g) /\ FoldLeft(AddByte, base, buf) = g[DOMAIN buf]
  BY <1>1, <1>3
<1>5. Folds("byte", base, buf, Len(buf), g)
  BY <1>2, <1>4
<1>6. \E h : Along("byte", base, buf, h) /\ g[1 .. Len(buf)] = h[Len(buf)]
  BY <1>5, FoldAlong
<1>7. DOMAIN buf = 1 .. Len(buf)
  OBVIOUS
<1> QED
  BY <1>4, <1>6, <1>7, Zenon

LEMMA SumAlong ==
    ASSUME NEW base, NEW X, NEW buf \in Seq(X)
    PROVE  \E h : Along("sum", base, buf, h) /\ FoldLeft(LAMBDA n, b : n + b, base, buf) = h[Len(buf)]
<1> DEFINE F(g) == g = [s \in SUBSET DOMAIN buf |->
                           IF s = {} THEN base ELSE g[s \ {Max(s)}] + buf[Max(s)]]
<1>1. FoldLeft(LAMBDA n, b : n + b, base, buf) = (CHOOSE g : F(g))[DOMAIN buf]
  BY DEF FoldLeft, MapThenFoldSet
<1>2. \A g : F(g) <=> Folds("sum", base, buf, Len(buf), g)
  <2>1. DOMAIN buf = 1 .. Len(buf)
    OBVIOUS
  <2> QED
    BY <2>1 DEF Folds, Step
<1>3. \E g : F(g)
  <2>1. Len(buf) \in Nat
    OBVIOUS
  <2> QED
    BY <1>2, <2>1, FoldsExist
<1> HIDE DEF F
<1>4. PICK g : F(g) /\ FoldLeft(LAMBDA n, b : n + b, base, buf) = g[DOMAIN buf]
  BY <1>1, <1>3
<1>5. Folds("sum", base, buf, Len(buf), g)
  BY <1>2, <1>4
<1>6. \E h : Along("sum", base, buf, h) /\ g[1 .. Len(buf)] = h[Len(buf)]
  BY <1>5, FoldAlong
<1>7. DOMAIN buf = 1 .. Len(buf)
  OBVIOUS
<1> QED
  BY <1>4, <1>6, <1>7, Zenon

LEMMA PiecesAlong ==
    ASSUME NEW base, NEW X, NEW buf \in Seq(X)
    PROVE  \E h : Along("piece", base, buf, h) /\ FoldLeft(LAMBDA cksum, b : FletcherAppend(b, cksum), base, buf) = h[Len(buf)]
<1> DEFINE F(g) == g = [s \in SUBSET DOMAIN buf |->
                           IF s = {} THEN base ELSE FletcherAppend(buf[Max(s)], g[s \ {Max(s)}])]
<1>1. FoldLeft(LAMBDA cksum, b : FletcherAppend(b, cksum), base, buf) = (CHOOSE g : F(g))[DOMAIN buf]
  BY DEF FoldLeft, MapThenFoldSet
<1>2. \A g : F(g) <=> Folds("piece", base, buf, Len(buf), g)
  <2>1. DOMAIN buf = 1 .. Len(buf)
    OBVIOUS
  <2> QED
    BY <2>1 DEF Folds, Step
<1>3. \E g : F(g)
  <2>1. Len(buf) \in Nat
    OBVIOUS
  <2> QED
    BY <1>2, <2>1, FoldsExist
<1> HIDE DEF F
<1>4. PICK g : F(g) /\ FoldLeft(LAMBDA cksum, b : FletcherAppend(b, cksum), base, buf) = g[DOMAIN buf]
  BY <1>1, <1>3
<1>5. Folds("piece", base, buf, Len(buf), g)
  BY <1>2, <1>4
<1>6. \E h : Along("piece", base, buf, h) /\ g[1 .. Len(buf)] = h[Len(buf)]
  BY <1>5, FoldAlong
<1>7. DOMAIN buf = 1 .. Len(buf)
  OBVIOUS
<1> QED
  BY <1>4, <1>6, <1>7, Zenon

LEMMA Upwards ==
    ASSUME NEW n \in Nat, NEW good, 0 \in good, \A k \in 1 .. n : k - 1 \in good => k \in good
    PROVE  \A k \in 0 .. n : k \in good
<1> DEFINE bad == {k \in 0 .. n : k \notin good}
<1>1. SUFFICES ASSUME bad # {} PROVE FALSE
  OBVIOUS
<1>2. PICK k \in bad : \A m \in bad : k <= m
  <2>1. bad \in SUBSET Nat
    OBVIOUS
  <2> HIDE DEF bad
  <2> QED
    BY <1>1, <2>1, Smallest
<1>3. k \in 1 .. n /\ k - 1 \in 0 .. n /\ ~(k <= k - 1)
  OBVIOUS
<1>4. k - 1 \in good
  BY <1>2, <1>3
<1> QED
  BY <1>2, <1>3, <1>4

-----------------------------------------------------------------------------
\* The two sums of a piece, byte by byte.

Bytes == 0 .. 255
Word  == {n \in Nat : n <= 65535}

LEMMA WordIs == \A x : x \in Word <=> x \in Nat /\ x <= 65535
BY DEF Word

\* The two sums after one more byte.
First(a, x)  == (a + x) % 255
Second(a, c) == (c + ((a + c) % 255)) % 65536

LEMMA FirstType == \A a \in Nat, x \in Bytes : First(a, x) \in 0 .. 254 /\ First(a, x) \in Nat
BY DEF First, Bytes

LEMMA SecondType == \A a \in Nat, c \in Nat : Second(a, c) \in Word
<1> SUFFICES ASSUME NEW a \in Nat, NEW c \in Nat PROVE Second(a, c) \in Word
  OBVIOUS
<1>1. PICK r \in Nat : r = (a + c) % 255
  OBVIOUS
<1>2. (c + r) % 65536 \in Nat /\ (c + r) % 65536 <= 65535
  OBVIOUS
<1> QED
  BY <1>1, <1>2 DEF Second, Word

LEMMA Adding ==
    \A a \in Nat, c \in Nat, x \in Bytes :
        AddByte(<<a, c>>, x) = <<First(a, x), Second(First(a, x), c)>>
<1>1. 2^16 = 65536
  OBVIOUS
<1> QED
  BY <1>1 DEF AddByte, First, Second

\* a and c are the first and the second sum after each byte of buf.
ByteSums(buf, append, a, c) ==
    /\ a[0] = append % 256 /\ c[0] = append \div 256
    /\ \A k \in 0 .. Len(buf) : a[k] \in Nat /\ c[k] \in Word
    /\ \A k \in 1 .. Len(buf) : /\ a[k] = First(a[k - 1], buf[k])
                                /\ c[k] = Second(a[k], c[k - 1])

LEMMA HalvesOfWord ==
    \A w \in Word : /\ w % 256 \in Nat /\ w \div 256 \in Nat /\ w % 256 \in Bytes
                    /\ w \div 256 \in Word
BY DEF Word, Bytes

LEMMA SumsExist ==
    ASSUME NEW buf \in Seq(Bytes), NEW append \in Word
    PROVE  \E a, c : /\ ByteSums(buf, append, a, c)
                     /\ FletcherAppend(buf, append) = a[Len(buf)] + 256 * (c[Len(buf)] % 256)
<1> DEFINE n == Len(buf)
           base == <<append % 256, append \div 256>>
<1>1. PICK h : Along("byte", base, buf, h) /\ FoldLeft(AddByte, base, buf) = h[n]
  BY BytesAlong
<1>2. FletcherAppend(buf, append) = h[n][1] + 256 * (h[n][2] % 256)
  BY <1>1 DEF FletcherAppend
<1>3. n \in Nat /\ \A k \in 1 .. n : buf[k] \in Bytes /\ k - 1 \in 0 .. n
  OBVIOUS
<1> DEFINE good == {k \in 0 .. n : \E a \in Nat, c \in Word : h[k] = <<a, c>>}
<1>4. h[0] = <<append % 256, append \div 256>> /\ \A k \in 1 .. n : h[k] = AddByte(h[k - 1], buf[k])
  BY <1>1 DEF Along, Step
<1> HIDE DEF n
<1>5. ASSUME NEW k \in 1 .. n, NEW a \in Nat, NEW c \in Word, h[k - 1] = <<a, c>>
      PROVE  /\ h[k] = <<First(a, buf[k]), Second(First(a, buf[k]), c)>>
             /\ First(a, buf[k]) \in Nat /\ Second(First(a, buf[k]), c) \in Word
  <2>1. c \in Nat /\ buf[k] \in Bytes
    BY <1>3, WordIs
  <2>2. h[k] = AddByte(<<a, c>>, buf[k])
    BY <1>4, <1>5
  <2>3. h[k] = <<First(a, buf[k]), Second(First(a, buf[k]), c)>>
    BY <2>1, <2>2, Adding, Zenon
  <2>4. First(a, buf[k]) \in Nat
    BY <2>1, FirstType, Zenon
  <2>5. Second(First(a, buf[k]), c) \in Word
    BY <2>1, <2>4, SecondType
  <2> QED
    BY <2>3, <2>4, <2>5
<1>6. ASSUME NEW k \in 1 .. n, k - 1 \in good PROVE k \in good
  <2>1. PICK a \in Nat, c \in Word : h[k - 1] = <<a, c>>
    BY <1>6
  <2>2. PICK d \in Nat, e \in Word : h[k] = <<d, e>>
    BY <1>5, <2>1, Zenon
  <2>3. k \in 0 .. n
    BY <1>3
  <2> QED
    BY <2>2, <2>3
<1>7. 0 \in good
  <2>1. append % 256 \in Nat /\ append \div 256 \in Word /\ 0 \in 0 .. n
    BY <1>3, HalvesOfWord
  <2> QED
    BY <1>4, <2>1, Zenon
<1>8. \A k \in 0 .. n : k \in good
  <2> HIDE DEF good
  <2> QED
    BY <1>3, <1>6, <1>7, Upwards
<1> DEFINE a == [k \in 0 .. n |-> h[k][1]]
           c == [k \in 0 .. n |-> h[k][2]]
<1>9. ASSUME NEW k \in 0 .. n PROVE a[k] \in Nat /\ c[k] \in Word /\ h[k] = <<a[k], c[k]>>
  <2>1. PICK d \in Nat, e \in Word : h[k] = <<d, e>>
    BY <1>8
  <2>2. a[k] = d /\ c[k] = e
    BY <2>1
  <2> HIDE DEF a, c
  <2> QED
    BY <2>1, <2>2
<1>10. ASSUME NEW k \in 1 .. n
       PROVE  a[k] = First(a[k - 1], buf[k]) /\ c[k] = Second(a[k], c[k - 1])
  <2>1. k \in 0 .. n /\ k - 1 \in 0 .. n
    BY <1>3
  <2> HIDE DEF a, c
  <2>2. PICK d, e : d = a[k - 1] /\ e = c[k - 1] /\ d \in Nat /\ e \in Word /\ h[k - 1] = <<d, e>>
    BY <1>9, <2>1
  <2>3. h[k] = <<First(d, buf[k]), Second(First(d, buf[k]), e)>>
    BY <1>5, <2>2
  <2>4. h[k] = <<a[k], c[k]>>
    BY <1>9, <2>1
  <2>5. a[k] = First(d, buf[k]) /\ c[k] = Second(First(d, buf[k]), e)
    BY <2>3, <2>4
  <2> QED
    BY <2>2, <2>5
<1>11. a[0] = append % 256 /\ c[0] = append \div 256 /\ a[n] = h[n][1] /\ c[n] = h[n][2]
  BY <1>3, <1>4
<1> HIDE DEF a, c
<1>12. ByteSums(buf, append, a, c)
  BY <1>9, <1>10, <1>11 DEF ByteSums, n
<1> QED
  BY <1>2, <1>11, <1>12 DEF n

\* The checksum of two sums.
Packs(cksum, a, c) == cksum \in Word /\ cksum % 256 = a /\ cksum \div 256 = c % 256

LEMMA PackSums ==
    ASSUME NEW a \in 0 .. 254, NEW c \in Word, NEW cksum, cksum = a + 256 * (c % 256)
    PROVE  Packs(cksum, a, c)
<1>1. PICK d \in 0 .. 255 : d = c % 256
  BY HalvesOfWord DEF Bytes
<1>2. a + 256 * d \in Nat /\ a + 256 * d <= 65535
  OBVIOUS
<1>3. (a + 256 * d) % 256 = a /\ (a + 256 * d) \div 256 = d
  OBVIOUS
<1>4. a + 256 * d \in Word
  BY <1>2 DEF Word
<1>5. Packs(a + 256 * d, a, c)
  BY <1>1, <1>3, <1>4 DEF Packs
<1>6. cksum = a + 256 * d
  BY <1>1
<1> QED
  BY <1>5, <1>6

LEMMA ChecksumBytes ==
    ASSUME NEW buf \in Seq(Bytes), NEW append \in Word, buf # <<>>,
           NEW a, NEW c, ByteSums(buf, append, a, c),
           FletcherAppend(buf, append) = a[Len(buf)] + 256 * (c[Len(buf)] % 256)
    PROVE  /\ Packs(FletcherAppend(buf, append), a[Len(buf)], c[Len(buf)])
           /\ a[Len(buf)] \in 0 .. 254
<1>1. PICK n \in Nat : n = Len(buf)
  OBVIOUS
<1>2. n \in 1 .. n /\ n - 1 \in 0 .. n /\ n \in 0 .. n /\ buf[n] \in Bytes
  BY <1>1
<1>3. a[n] = First(a[n - 1], buf[n]) /\ a[n - 1] \in Nat /\ c[n] \in Word
  BY <1>1, <1>2 DEF ByteSums
<1>4. a[n] \in 0 .. 254
  BY <1>2, <1>3, FirstType
<1>5. FletcherAppend(buf, append) = a[n] + 256 * (c[n] % 256)
  BY <1>1
<1>6. Packs(FletcherAppend(buf, append), a[n], c[n])
  BY <1>3, <1>4, <1>5, PackSums
<1> QED
  BY <1>1, <1>4, <1>6, Zenon

LEMMA FletcherIs ==
    ASSUME NEW buf \in Seq(Bytes), NEW append \in Word
    PROVE  \E a, c : /\ ByteSums(buf, append, a, c)
                     /\ buf # <<>> => /\ Packs(FletcherAppend(buf, append), a[Len(buf)], c[Len(buf)])
                                      /\ a[Len(buf)] \in 0 .. 254
                     /\ buf = <<>> => FletcherAppend(buf, append) = append
<1>1. PICK a, c : /\ ByteSums(buf, append, a, c)
                  /\ FletcherAppend(buf, append) = a[Len(buf)] + 256 * (c[Len(buf)] % 256)
  BY SumsExist
<1>2. ASSUME buf # <<>>
      PROVE  /\ Packs(FletcherAppend(buf, append), a[Len(buf)], c[Len(buf)])
             /\ a[Len(buf)] \in 0 .. 254
  BY <1>1, <1>2, ChecksumBytes
<1>3. ASSUME buf = <<>> PROVE FletcherAppend(buf, append) = append
  <2>1. Len(buf) = 0
    BY <1>3
  <2>2. a[0] = append % 256 /\ c[0] = append \div 256
    BY <1>1 DEF ByteSums
  <2>3. (append % 256) + 256 * ((append \div 256) % 256) = append
    BY SMTT(30) DEF Word
  <2> QED
    BY <1>1, <2>1, <2>2, <2>3, Zenon
<1> QED
  BY <1>1, <1>2, <1>3, Zenon

LEMMA ElementsOf == \A buf \in Seq(Bytes) : \A k \in 1 .. Len(buf) : buf[k] \in Bytes
OBVIOUS

-----------------------------------------------------------------------------
\* A byte that changes.

LEMMA FirstKeeps ==
    \A a, b \in 0 .. 254, x \in Bytes : a # b => First(a, x) # First(b, x)
BY DEF First, Bytes

\* The bytes that the checksum tells from each other.
Told(x, y) == x # y /\ {x, y} # {0, 255}

LEMMA FirstChanges == \A a, x, y \in Bytes : Told(x, y) => First(a, x) # First(a, y)
<1>1. ASSUME NEW a \in 0 .. 255, NEW x \in Bytes, NEW y \in Bytes, x # y, {x, y} # {0, 255}
      PROVE  (a + x) % 255 # (a + y) % 255
  <2>1. ~(x = 0 /\ y = 255) /\ ~(x = 255 /\ y = 0)
    BY <1>1
  <2>2. x \in 0 .. 255 /\ y \in 0 .. 255
    BY DEF Bytes
  <2> QED
    BY <1>1, <2>1, <2>2
<1> QED
  BY <1>1, ZenonT(30) DEF Told, First, Bytes

\* other is buf with another byte at i.
ChangedAt(buf, other, i) ==
    /\ i \in 1 .. Len(buf) /\ Len(other) = Len(buf)
    /\ \A k \in 1 .. Len(buf) : k # i => other[k] = buf[k]
    /\ Told(other[i], buf[i])

LEMMA ChangeInSums ==
    ASSUME NEW append \in Word, NEW buf \in Seq(Bytes), NEW other \in Seq(Bytes), NEW i,
           ChangedAt(buf, other, i), NEW a, NEW c, NEW d, NEW e,
           ByteSums(buf, append, a, c), ByteSums(other, append, d, e)
    PROVE  a[Len(buf)] # d[Len(buf)]
<1>1. PICK n \in Nat : n = Len(buf) /\ n = Len(other)
  BY DEF ChangedAt
<1>2. \A k \in 1 .. n : buf[k] \in Bytes /\ other[k] \in Bytes /\ k - 1 \in 0 .. n
  <2>1. \A k \in 1 .. Len(buf) : buf[k] \in Bytes
    BY ElementsOf, Zenon
  <2>2. \A k \in 1 .. Len(other) : other[k] \in Bytes
    BY ElementsOf, Zenon
  <2>3. \A k \in 1 .. n : k - 1 \in 0 .. n
    OBVIOUS
  <2> QED
    BY <1>1, <2>1, <2>2, <2>3, Zenon
<1>3. a[0] = d[0] /\ a[0] \in Bytes
  BY HalvesOfWord DEF ByteSums
<1>4. \A k \in 1 .. n : a[k] = First(a[k - 1], buf[k]) /\ d[k] = First(d[k - 1], other[k])
  BY <1>1 DEF ByteSums
<1>5. \A k \in 0 .. n : a[k] \in Nat /\ d[k] \in Nat
  BY <1>1 DEF ByteSums
<1>6. i \in 1 .. n /\ (\A k \in 1 .. n : k # i => other[k] = buf[k])
      /\ Told(other[i], buf[i])
  BY <1>1 DEF ChangedAt
<1>7. \A k \in 1 .. n : a[k] \in 0 .. 254 /\ d[k] \in 0 .. 254
  <2> SUFFICES ASSUME NEW k \in 1 .. n PROVE a[k] \in 0 .. 254 /\ d[k] \in 0 .. 254
    OBVIOUS
  <2>1. PICK p \in Nat, q \in Nat, x \in Bytes, y \in Bytes :
            p = a[k - 1] /\ q = d[k - 1] /\ x = buf[k] /\ y = other[k]
    BY <1>2, <1>5
  <2>2. First(p, x) \in 0 .. 254 /\ First(q, y) \in 0 .. 254
    BY DEF First, Bytes
  <2> QED
    BY <1>4, <2>1, <2>2
<1> DEFINE good == {k \in 0 .. n : /\ k < i => a[k] = d[k]
                                   /\ k >= i => a[k] # d[k]}
<1>8. 0 \in good
  BY <1>3, <1>6
<1>9. ASSUME NEW k \in 1 .. n, k - 1 \in good PROVE k \in good
  <2>1. CASE k < i
    <3>1. a[k - 1] = d[k - 1] /\ other[k] = buf[k]
      BY <1>6, <1>9, <2>1
    <3>2. a[k] = d[k]
      BY <1>4, <3>1
    <3> QED
      BY <1>6, <2>1, <3>2
  <2>2. CASE k = i
    <3>1. a[k - 1] = d[k - 1]
      BY <1>6, <1>9, <2>2
    <3>2. a[k - 1] \in Bytes
      <4>1. CASE k = 1
        BY <1>3, <4>1
      <4>2. CASE k # 1
        <5>1. k - 1 \in 1 .. n
          BY <4>2
        <5> QED
          BY <1>7, <5>1 DEF Bytes
      <4> QED
        BY <4>1, <4>2
    <3>3. PICK p \in Bytes, x \in Bytes, y \in Bytes :
              p = a[k - 1] /\ x = buf[k] /\ y = other[k]
      BY <1>2, <3>2
    <3>4. First(p, y) # First(p, x)
      BY <1>6, <2>2, <3>3, FirstChanges
    <3>5. a[k] # d[k]
      BY <1>4, <3>1, <3>3, <3>4
    <3> QED
      BY <2>2, <3>5
  <2>3. CASE k > i
    <3>1. a[k - 1] # d[k - 1] /\ other[k] = buf[k] /\ k - 1 \in 1 .. n
      BY <1>6, <1>9, <2>3
    <3>2. PICK p \in 0 .. 254, q \in 0 .. 254, x \in Bytes :
              p = a[k - 1] /\ q = d[k - 1] /\ x = buf[k]
      BY <1>2, <1>7, <3>1
    <3>3. First(p, x) # First(q, x)
      BY <3>1, <3>2, FirstKeeps
    <3>4. a[k] # d[k]
      BY <1>4, <3>1, <3>2, <3>3
    <3> QED
      BY <1>6, <2>3, <3>4
  <2> QED
    BY <1>6, <2>1, <2>2, <2>3
<1>10. n \in good
  <2> HIDE DEF good
  <2>1. \A k \in 0 .. n : k \in good
    BY <1>8, <1>9, Upwards
  <2> QED
    BY <2>1
<1> QED
  BY <1>1, <1>6, <1>10

\* A checksum sees a byte of a piece that changes, unless from 0 to 255 or back: its low
\* byte differs, whatever the checksum of the pieces before.
THEOREM ChangedByteIsSeen ==
    ASSUME NEW append \in Word, NEW buf \in Seq(Bytes), NEW other \in Seq(Bytes), NEW i,
           ChangedAt(buf, other, i)
    PROVE  FletcherAppend(other, append) % 256 # FletcherAppend(buf, append) % 256
<1>1. buf # <<>> /\ other # <<>>
  BY DEF ChangedAt
<1>2. PICK a, c : ByteSums(buf, append, a, c) /\ Packs(FletcherAppend(buf, append), a[Len(buf)], c[Len(buf)])
  BY <1>1, FletcherIs
<1>3. PICK d, e : ByteSums(other, append, d, e) /\ Packs(FletcherAppend(other, append), d[Len(other)], e[Len(other)])
  BY <1>1, FletcherIs
<1>4. a[Len(buf)] # d[Len(buf)]
  BY <1>2, <1>3, ChangeInSums
<1>5. Len(buf) = Len(other)
  BY DEF ChangedAt
<1> QED
  BY <1>2, <1>3, <1>4, <1>5, Zenon DEF Packs

\* Two checksums whose low bytes differ; 255 is no low byte of a checksum.
Apart(x, y) == x % 256 \in 0 .. 254 /\ y % 256 \in 0 .. 254 /\ x % 256 # y % 256

\* The bytes that follow do not make up for it.
THEOREM DamageStays ==
    ASSUME NEW buf \in Seq(Bytes), NEW x \in Word, NEW y \in Word,
           Apart(x, y)
    PROVE  FletcherAppend(buf, x) % 256 # FletcherAppend(buf, y) % 256
<1>1. PICK a, c : /\ ByteSums(buf, x, a, c)
                  /\ buf # <<>> => Packs(FletcherAppend(buf, x), a[Len(buf)], c[Len(buf)])
                  /\ buf = <<>> => FletcherAppend(buf, x) = x
  BY FletcherIs
<1>2. PICK d, e : /\ ByteSums(buf, y, d, e)
                  /\ buf # <<>> => Packs(FletcherAppend(buf, y), d[Len(buf)], e[Len(buf)])
                  /\ buf = <<>> => FletcherAppend(buf, y) = y
  BY FletcherIs
<1>3. CASE buf = <<>>
  BY <1>1, <1>2, <1>3, Zenon DEF Apart
<1>4. CASE buf # <<>>
  <2>1. PICK n \in Nat : n = Len(buf)
    OBVIOUS
  <2>2. \A k \in 1 .. n : buf[k] \in Bytes /\ k - 1 \in 0 .. n
    BY <2>1
  <2>3. \A k \in 1 .. n : a[k] = First(a[k - 1], buf[k]) /\ d[k] = First(d[k - 1], buf[k])
    BY <1>1, <1>2, <2>1 DEF ByteSums
  <2>4. \A k \in 0 .. n : a[k] \in Nat /\ d[k] \in Nat
    BY <1>1, <1>2, <2>1 DEF ByteSums
  <2> DEFINE good == {k \in 0 .. n : a[k] \in 0 .. 254 /\ d[k] \in 0 .. 254 /\ a[k] # d[k]}
  <2>5. 0 \in good
    <3>1. a[0] = x % 256 /\ d[0] = y % 256
      BY <1>1, <1>2 DEF ByteSums
    <3>2. a[0] \in 0 .. 254 /\ d[0] \in 0 .. 254 /\ a[0] # d[0]
      BY <3>1, Zenon DEF Apart
    <3> QED
      BY <3>2
  <2>6. ASSUME NEW k \in 1 .. n, k - 1 \in good PROVE k \in good
    <3>1. PICK p \in 0 .. 254, q \in 0 .. 254, z \in Bytes :
              p = a[k - 1] /\ q = d[k - 1] /\ z = buf[k] /\ p # q
      BY <2>2, <2>6
    <3>2. First(p, z) # First(q, z)
      BY <3>1, FirstKeeps
    <3>3. First(p, z) \in 0 .. 254 /\ First(q, z) \in 0 .. 254
      BY DEF First, Bytes
    <3>4. a[k] = First(p, z) /\ d[k] = First(q, z) /\ k \in 0 .. n
      BY <2>3, <3>1
    <3> QED
      BY <3>2, <3>3, <3>4
  <2>7. n \in good
    <3> HIDE DEF good
    <3>1. \A k \in 0 .. n : k \in good
      BY <2>5, <2>6, Upwards
    <3> QED
      BY <3>1
  <2>8. a[n] # d[n]
    BY <2>7
  <2> QED
    BY <1>1, <1>2, <1>4, <2>1, <2>8, Zenon DEF Packs
<1> QED
  BY <1>3, <1>4

LEMMA AppendType ==
    ASSUME NEW buf \in Seq(Bytes), NEW x \in Word, x % 256 \in 0 .. 254
    PROVE  FletcherAppend(buf, x) \in Word /\ FletcherAppend(buf, x) % 256 \in 0 .. 254
<1>1. PICK a, c : /\ ByteSums(buf, x, a, c)
                  /\ buf # <<>> => /\ Packs(FletcherAppend(buf, x), a[Len(buf)], c[Len(buf)])
                                   /\ a[Len(buf)] \in 0 .. 254
                  /\ buf = <<>> => FletcherAppend(buf, x) = x
  BY FletcherIs
<1>2. CASE buf = <<>>
  BY <1>1, <1>2, Zenon
<1>3. CASE buf # <<>>
  BY <1>1, <1>3, Zenon DEF Packs
<1> QED
  BY <1>2, <1>3

\* The checksums of more and more pieces of a body.
Checksums(body, h) ==
    /\ Fletcher16(body) = h[Len(body)] /\ h[0] = 0
    /\ \A k \in 1 .. Len(body) : h[k] = FletcherAppend(body[k], h[k - 1])
    /\ \A k \in 0 .. Len(body) : h[k] \in Word /\ h[k] % 256 \in 0 .. 254

LEMMA BodyIs == ASSUME NEW body \in Seq(Seq(Bytes)) PROVE \E h : Checksums(body, h)
<1>1. PICK n \in Nat : n = Len(body)
  OBVIOUS
<1>2. PICK h : Along("piece", 0, body, h) /\ Fletcher16(body) = h[Len(body)]
  BY PiecesAlong DEF Fletcher16
<1>3. h[0] = 0 /\ \A k \in 1 .. n : h[k] = FletcherAppend(body[k], h[k - 1])
  BY <1>1, <1>2 DEF Along, Step
<1>4. \A k \in 1 .. n : body[k] \in Seq(Bytes)
  <2>1. \A k \in 1 .. Len(body) : body[k] \in Seq(Bytes)
    OBVIOUS
  <2> QED
    BY <1>1, <2>1, Zenon
<1> DEFINE good == {k \in 0 .. n : h[k] \in Word /\ h[k] % 256 \in 0 .. 254}
<1>5. 0 \in good
  BY <1>3 DEF Word
<1>6. ASSUME NEW k \in 1 .. n, k - 1 \in good PROVE k \in good
  <2>1. PICK x \in Word, buf \in Seq(Bytes) : x = h[k - 1] /\ x % 256 \in 0 .. 254 /\ buf = body[k]
    BY <1>4, <1>6
  <2>2. FletcherAppend(buf, x) \in Word /\ FletcherAppend(buf, x) % 256 \in 0 .. 254
    BY <2>1, AppendType
  <2>3. h[k] = FletcherAppend(buf, x) /\ k \in 0 .. n
    BY <1>3, <2>1
  <2> QED
    BY <2>2, <2>3
<1>7. \A k \in 0 .. n : k \in good
  <2> HIDE DEF good
  <2> QED
    BY <1>5, <1>6, Upwards
<1>8. \A k \in 0 .. n : h[k] \in Word /\ h[k] % 256 \in 0 .. 254
  BY <1>7
<1> QED
  BY <1>1, <1>2, <1>3, <1>8, Zenon DEF Checksums

\* The checksum of a body sees a byte of it that changes, wherever the body is cut in
\* pieces, unless the byte changes from 0 to 255 or back.
THEOREM ChangeIsSeen ==
    ASSUME NEW body \in Seq(Seq(Bytes)), NEW other \in Seq(Seq(Bytes)), Len(other) = Len(body),
           NEW j \in 1 .. Len(body), NEW i, ChangedAt(body[j], other[j], i),
           \A k \in 1 .. Len(body) : k # j => other[k] = body[k]
    PROVE  Fletcher16(other) # Fletcher16(body)
<1>1. PICK h : Checksums(body, h)
  BY BodyIs
<1>2. PICK g : Checksums(other, g)
  BY BodyIs
<1>3. PICK n \in Nat : n = Len(body) /\ n = Len(other)
  OBVIOUS
<1>4. j \in 1 .. n /\ n \in 0 .. n
  BY <1>3
<1>5. \A k \in 1 .. n : body[k] \in Seq(Bytes) /\ other[k] \in Seq(Bytes)
  <2>1. \A k \in 1 .. Len(body) : body[k] \in Seq(Bytes)
    OBVIOUS
  <2>2. \A k \in 1 .. Len(other) : other[k] \in Seq(Bytes)
    OBVIOUS
  <2> QED
    BY <1>3, <2>1, <2>2, Zenon
<1>6. \A k \in 1 .. n : /\ h[k] = FletcherAppend(body[k], h[k - 1])
                        /\ g[k] = FletcherAppend(other[k], g[k - 1])
  BY <1>1, <1>2, <1>3, Zenon DEF Checksums
<1>7. \A k \in 0 .. n : /\ h[k] \in Word /\ h[k] % 256 \in 0 .. 254
                        /\ g[k] \in Word /\ g[k] % 256 \in 0 .. 254
  BY <1>1, <1>2, <1>3, Zenon DEF Checksums
<1>8. \A k \in 1 .. n : k # j => other[k] = body[k]
  BY <1>3, Zenon
<1> DEFINE good == {k \in 0 .. n : /\ k < j => h[k] = g[k]
                                   /\ k >= j => h[k] % 256 # g[k] % 256}
<1>9. 0 \in good
  BY <1>1, <1>2, <1>4 DEF Checksums
<1>10. ASSUME NEW k \in 1 .. n, k - 1 \in good PROVE k \in good
  <2>1. k \in 0 .. n /\ k - 1 \in 0 .. n
    OBVIOUS
  <2>2. PICK x \in Word, y \in Word, p \in Seq(Bytes), q \in Seq(Bytes) :
            /\ x = h[k - 1] /\ y = g[k - 1] /\ p = body[k] /\ q = other[k]
            /\ x % 256 \in 0 .. 254 /\ y % 256 \in 0 .. 254
    BY <1>5, <1>7, <2>1
  <2>3. h[k] = FletcherAppend(p, x) /\ g[k] = FletcherAppend(q, y)
    BY <1>6, <2>2
  <2>4. CASE k < j
    <3>1. x = y /\ p = q
      BY <1>4, <1>8, <1>10, <2>2, <2>4
    <3>2. h[k] = g[k]
      BY <2>3, <3>1
    <3> QED
      BY <1>4, <2>1, <2>4, <3>2
  <2>5. CASE k = j
    <3>1. x = y
      BY <1>4, <1>10, <2>2, <2>5
    <3>2. ChangedAt(p, q, i)
      BY <2>2, <2>5
    <3>3. FletcherAppend(q, x) % 256 # FletcherAppend(p, x) % 256
      BY <3>2, ChangedByteIsSeen
    <3>4. h[k] % 256 # g[k] % 256
      BY <2>3, <3>1, <3>3, Zenon
    <3> QED
      BY <1>4, <2>1, <2>5, <3>4
  <2>6. CASE k > j
    <3>1. x % 256 # y % 256
      BY <1>4, <1>10, <2>1, <2>2, <2>6
    <3>5. Apart(x, y)
      BY <2>2, <3>1 DEF Apart
    <3>2. p = q
      BY <1>4, <1>8, <2>2, <2>6
    <3>3. FletcherAppend(p, x) % 256 # FletcherAppend(p, y) % 256
      BY <3>5, DamageStays
    <3>4. h[k] % 256 # g[k] % 256
      BY <2>3, <3>2, <3>3, Zenon
    <3> QED
      BY <1>4, <2>1, <2>6, <3>4
  <2> QED
    BY <1>4, <2>4, <2>5, <2>6
<1>11. \A k \in 0 .. n : k \in good
  <2> HIDE DEF good
  <2> QED
    BY <1>9, <1>10, Upwards
<1>12. h[n] % 256 # g[n] % 256
  BY <1>4, <1>11
<1> QED
  BY <1>1, <1>2, <1>3, <1>12, Zenon DEF Checksums

-----------------------------------------------------------------------------
\* The first sum.

\* The sum of the bytes.
Total(base, buf) == FoldLeft(LAMBDA n, b : n + b, base, buf)

LEMMA AddModulo == \A n \in Nat, x \in Bytes : ((n % 255) + x) % 255 = (n + x) % 255
BY DEF Bytes

\* The low byte of a checksum is the sum of the bytes and of the low byte before.
THEOREM FirstSumOfBytes ==
    ASSUME NEW append \in Word, NEW buf \in Seq(Bytes), buf # <<>>
    PROVE  FletcherAppend(buf, append) % 256 = Total(append % 256, buf) % 255
<1>1. PICK a, c : /\ ByteSums(buf, append, a, c)
                  /\ Packs(FletcherAppend(buf, append), a[Len(buf)], c[Len(buf)])
  BY FletcherIs
<1>2. PICK s : /\ Along("sum", append % 256, buf, s)
               /\ Total(append % 256, buf) = s[Len(buf)]
  BY SumAlong DEF Total
<1>3. PICK m \in Nat : m = Len(buf)
  OBVIOUS
<1>4. m # 0 /\ m \in 0 .. m
  BY <1>3
<1>5. \A k \in 1 .. m : buf[k] \in Bytes
  BY <1>3, ElementsOf, Zenon
<1>6. a[0] = append % 256 /\ s[0] = append % 256 /\ append % 256 \in Nat
  BY <1>1, <1>2, HalvesOfWord DEF ByteSums, Along
<1>7. \A k \in 1 .. m : a[k] = First(a[k - 1], buf[k]) /\ s[k] = s[k - 1] + buf[k]
  BY <1>1, <1>2, <1>3 DEF ByteSums, Along, Step
<1> DEFINE good == {k \in 0 .. m : /\ s[k] \in Nat
                                   /\ k = 0 => a[k] = s[k]
                                   /\ k # 0 => a[k] = s[k] % 255}
<1>8. 0 \in good
  BY <1>6
<1>9. ASSUME NEW k \in 1 .. m, k - 1 \in good PROVE k \in good
  <2>1. PICK t \in Nat, x \in Bytes : t = s[k - 1] /\ x = buf[k]
    BY <1>5, <1>9
  <2>2. s[k] = t + x /\ t + x \in Nat
    <3>1. x \in Nat
      BY DEF Bytes
    <3> QED
      BY <1>7, <2>1, <3>1
  <2>3. a[k] = (t + x) % 255
    <3>1. CASE k = 1
      <4>1. a[k - 1] = t
        BY <1>9, <2>1, <3>1
      <4> QED
        BY <1>7, <2>1, <4>1 DEF First
    <3>2. CASE k # 1
      <4>1. a[k - 1] = t % 255
        BY <1>9, <2>1, <3>2
      <4>2. a[k] = ((t % 255) + x) % 255
        BY <1>7, <2>1, <4>1, ZenonT(30) DEF First
      <4> QED
        BY <4>2, AddModulo, ZenonT(30)
    <3> QED
      BY <3>1, <3>2
  <2>4. a[k] = s[k] % 255
    BY <2>2, <2>3, Zenon
  <2> QED
    BY <2>2, <2>4
<1>10. \A k \in 0 .. m : k \in good
  <2> HIDE DEF good
  <2> QED
    BY <1>8, <1>9, Upwards
<1>11. a[m] = s[m] % 255
  BY <1>4, <1>10
<1> HIDE DEF good
<1>12. FletcherAppend(buf, append) % 256 = a[m]
  BY <1>1, <1>3, Zenon DEF Packs
<1>13. Total(append % 256, buf) = s[m]
  BY <1>2, <1>3
<1> QED
  BY <1>11, <1>12, <1>13

-----------------------------------------------------------------------------
\* The second sum: two bytes at the end that change places.

LEMMA Quotient == \A n \in Nat : \E e \in Nat, r \in 0 .. 254 : r = n % 255 /\ n = 255 * e + r
<1> SUFFICES ASSUME NEW n \in Nat PROVE \E e \in Nat, r \in 0 .. 254 : r = n % 255 /\ n = 255 * e + r
  OBVIOUS
<1>1. n \div 255 \in Nat /\ n % 255 \in 0 .. 254 /\ n = 255 * (n \div 255) + (n % 255)
  OBVIOUS
<1> QED
  BY <1>1

\* The differences that the second sum does not see.
Unseen == {0, 127, -127, 128, -128, 255, -255}

LEMMA FirstStep ==
    ASSUME NEW a \in Bytes, NEW x \in Bytes
    PROVE  First(a, x) \in 0 .. 254 /\ \E e \in Nat : a + x = 255 * e + First(a, x)
<1>1. PICK m \in Nat : m = a + x
  BY DEF Bytes
<1>2. PICK e \in Nat, p \in 0 .. 254 : p = m % 255 /\ m = 255 * e + p
  BY Quotient
<1>3. First(a, x) = p
  BY <1>1, <1>2 DEF First
<1> QED
  BY <1>1, <1>2, <1>3

\* The second sum stays in 16 bits when it grows by n.
Room(c, n) == c + n <= 65535

\* The second sum grows by r, the rest of the division by 255.
Wound(p, c, e, r) == p + c = 255 * e + r /\ Second(p, c) = c + r

LEMMA SecondStep ==
    ASSUME NEW p \in 0 .. 254, NEW c \in Nat, Room(c, 254)
    PROVE  \E e \in Nat, r \in 0 .. 254 : Wound(p, c, e, r)
<1>1. PICK m \in Nat : m = p + c
  OBVIOUS
<1>2. PICK e \in Nat, r \in 0 .. 254 : r = m % 255 /\ m = 255 * e + r
  BY Quotient
<1>3. PICK n \in Nat : n = c + r /\ n < 65536
  BY DEF Room
<1>4. n % 65536 = n
  BY <1>3
<1>5. Second(p, c) = n % 65536
  BY <1>1, <1>2, <1>3 DEF Second
<1> QED
  BY <1>1, <1>2, <1>3, <1>4, <1>5 DEF Wound

\* What the second sum grows by in two bytes, as long as it stays in 16 bits.
Grown(a, c, x, y, e, t) ==
    /\ Second(First(First(a, x), y), Second(First(a, x), c)) = c + t
    /\ t = 2 * (a + x + c) + First(First(a, x), y) + c - 255 * e

LEMMA TwoSteps ==
    ASSUME NEW a \in Bytes, NEW c \in Nat, NEW x \in Bytes, NEW y \in Bytes, Room(c, 508)
    PROVE  \E e \in Int, t \in 0 .. 508 : Grown(a, c, x, y, e, t)
<1>1. PICK e1 \in Nat, p \in 0 .. 254 : a + x = 255 * e1 + p /\ First(a, x) = p
  <2>1. First(a, x) \in 0 .. 254 /\ \E e \in Nat : a + x = 255 * e + First(a, x)
    BY FirstStep
  <2> QED
    BY <2>1
<1>2. PICK e2 \in Nat, r \in 0 .. 254 : p + c = 255 * e2 + r /\ Second(p, c) = c + r
  <2>1. Room(c, 254)
    BY DEF Room
  <2>2. \E e \in Nat, r \in 0 .. 254 : Wound(p, c, e, r)
    BY <2>1, SecondStep
  <2> QED
    BY <2>2 DEF Wound
<1>3. PICK d \in Nat : d = c + r
  OBVIOUS
<1>4. PICK q \in 0 .. 254 : q = First(p, y)
  BY DEF First, Bytes
<1>5. PICK e3 \in Nat, s \in 0 .. 254 : q + d = 255 * e3 + s /\ Second(q, d) = d + s
  <2>1. Room(d, 254)
    BY <1>3 DEF Room
  <2>2. \E e \in Nat, s \in 0 .. 254 : Wound(q, d, e, s)
    BY <2>1, SecondStep
  <2> QED
    BY <2>2 DEF Wound
<1>6. PICK t \in 0 .. 508 : t = r + s
  OBVIOUS
<1>7. PICK e \in Int : e = 2 * e1 + 2 * e2 + e3
  OBVIOUS
<1>8. d + s = c + t
  BY <1>3, <1>6
<1>9. x \in Nat
  BY DEF Bytes
<1>15. a \in Nat
  BY DEF Bytes
<1>10. t = 2 * (a + x + c) + q + c - 255 * e
  BY <1>1, <1>2, <1>3, <1>5, <1>6, <1>7, <1>9, <1>15
<1>11. Second(p, c) = d
  BY <1>2, <1>3
<1>12. Second(First(First(a, x), y), Second(First(a, x), c)) = d + s
  BY <1>1, <1>4, <1>5, <1>11
<1>13. First(First(a, x), y) = q
  BY <1>1, <1>4
<1>14. Grown(a, c, x, y, e, t)
  BY <1>8, <1>10, <1>12, <1>13 DEF Grown
<1> QED
  BY <1>14

LEMMA FirstsMeet == \A a, x, y \in Bytes : First(First(a, x), y) = First(First(a, y), x)
BY DEF First, Bytes

\* What the high byte of the checksum keeps of two second sums is the same.
Alike(c, t, u) == (c + t) % 256 = (c + u) % 256

LEMMA ApartModulo ==
    ASSUME NEW c \in Nat, NEW t \in 0 .. 508, NEW u \in 0 .. 508, Alike(c, t, u)
    PROVE  t - u = -256 \/ t - u = 0 \/ t - u = 256
<1>1. PICK m \in Nat, n \in Nat : m = c + t /\ n = c + u
  OBVIOUS
<1>2. m - n \in -508 .. 508 /\ m % 256 = n % 256
  BY <1>1 DEF Alike
<1>3. m - n = -256 \/ m - n = 0 \/ m - n = 256
  BY <1>2
<1> QED
  BY <1>1, <1>3

LEMMA SwapSecond ==
    ASSUME NEW a \in Bytes, NEW c \in Nat, NEW x \in Bytes, NEW y \in Bytes, Room(c, 508),
           x - y \notin Unseen
    PROVE  Second(First(First(a, x), y), Second(First(a, x), c)) % 256
               # Second(First(First(a, y), x), Second(First(a, y), c)) % 256
<1>1. PICK e \in Int, t \in 0 .. 508 : Grown(a, c, x, y, e, t)
  BY TwoSteps
<1>2. PICK f \in Int, u \in 0 .. 508 : Grown(a, c, y, x, f, u)
  BY TwoSteps
<1>3. PICK q \in 0 .. 254 : q = First(First(a, x), y) /\ q = First(First(a, y), x)
  <2>1. First(First(a, x), y) \in 0 .. 254
    BY DEF First, Bytes
  <2>2. First(First(a, x), y) = First(First(a, y), x)
    BY FirstsMeet
  <2> QED
    BY <2>1, <2>2
<1>4. PICK d \in -255 .. 255 : d = x - y
  BY DEF Bytes
<1>5. PICK g \in Int : g = e - f
  OBVIOUS
<1>6. t = 2 * (a + x + c) + q + c - 255 * e /\ u = 2 * (a + y + c) + q + c - 255 * f
  BY <1>1, <1>2, <1>3 DEF Grown
<1>7. t - u = 2 * d - 255 * g
  <2>1. x \in Nat /\ y \in Nat
    BY DEF Bytes
  <2> QED
    BY <1>4, <1>5, <1>6, <2>1
<1>8. (c + t) % 256 # (c + u) % 256
  <2> SUFFICES ASSUME Alike(c, t, u) PROVE FALSE
    BY DEF Alike
  <2>1. t - u = -256 \/ t - u = 0 \/ t - u = 256
    BY ApartModulo, Zenon
  <2>2. d \in {0, 127, -127, 128, -128, 255, -255}
    BY <1>7, <2>1, SMTT(30)
  <2> QED
    BY <1>4, <2>2 DEF Unseen
<1> QED
  BY <1>1, <1>2, <1>8 DEF Grown

\* other is buf with its last two bytes swapped.
EndSwapped(buf, other, m) ==
    /\ Len(buf) = m + 2 /\ Len(other) = m + 2
    /\ \A k \in 1 .. m : other[k] = buf[k]
    /\ other[m + 1] = buf[m + 2] /\ other[m + 2] = buf[m + 1]

LEMMA SecondGrows ==
    ASSUME NEW m \in Nat, NEW a, NEW c, Room(c[0], 254 * m + 508),
           \A k \in 0 .. m : a[k] \in Nat /\ c[k] \in Nat,
           \A k \in 1 .. m : a[k] \in 0 .. 254 /\ c[k] = Second(a[k], c[k - 1])
    PROVE  Room(c[m], 508)
<1>1. PICK z \in Nat : z = c[0]
  OBVIOUS
<1> DEFINE good == {k \in 0 .. m : c[k] <= z + 254 * k}
<1>2. 0 \in good
  BY <1>1
<1>3. ASSUME NEW k \in 1 .. m, k - 1 \in good PROVE k \in good
  <2>1. PICK d \in Nat, p \in 0 .. 254 : d = c[k - 1] /\ p = a[k]
    OBVIOUS
  <2>2. d <= z + 254 * (k - 1)
    BY <1>3, <2>1
  <2>3. Room(d, 254)
    BY <1>1, <2>2 DEF Room
  <2>4. PICK e \in Nat, r \in 0 .. 254 : Wound(p, d, e, r)
    BY <2>3, SecondStep
  <2>5. c[k] = d + r
    BY <2>1, <2>4 DEF Wound
  <2> QED
    BY <2>2, <2>5
<1>4. \A k \in 0 .. m : k \in good
  <2> HIDE DEF good
  <2> QED
    BY <1>2, <1>3, Upwards
<1>5. c[m] <= z + 254 * m /\ c[m] \in Nat
  BY <1>4
<1> QED
  BY <1>1, <1>5 DEF Room

\* a and c are the sums after each of the first m bytes of buf.
Follow(a, c, buf, m) ==
    \A k \in 1 .. m : a[k] = First(a[k - 1], buf[k]) /\ c[k] = Second(a[k], c[k - 1])

\* The sums are the same as far as the bytes are.
LEMMA SumsAgree ==
    ASSUME NEW m \in Nat, NEW a, NEW c, NEW d, NEW e, NEW buf, NEW other,
           a[0] = d[0], c[0] = e[0], \A k \in 1 .. m : other[k] = buf[k],
           Follow(a, c, buf, m), Follow(d, e, other, m)
    PROVE  a[m] = d[m] /\ c[m] = e[m]
<1> DEFINE good == {k \in 0 .. m : a[k] = d[k] /\ c[k] = e[k]}
<1>1. 0 \in good
  OBVIOUS
<1>2. ASSUME NEW k \in 1 .. m, k - 1 \in good PROVE k \in good
  BY <1>2 DEF Follow
<1>3. \A k \in 0 .. m : k \in good
  <2> HIDE DEF good
  <2> QED
    BY <1>1, <1>2, Upwards
<1> QED
  BY <1>3

\* The checksum sees the last two bytes of a piece change places, unless they differ by
\* 127, 128 or 255, as long as the second sum stays in 16 bits.
THEOREM SwapIsSeen ==
    ASSUME NEW append \in Word, NEW buf \in Seq(Bytes), NEW other \in Seq(Bytes), NEW m \in Nat,
           EndSwapped(buf, other, m), Room(append \div 256, 254 * m + 508),
           buf[m + 1] - buf[m + 2] \notin Unseen
    PROVE  FletcherAppend(other, append) # FletcherAppend(buf, append)
<1>1. PICK n \in Nat : n = m + 2 /\ n = Len(buf) /\ n = Len(other) /\ n # 0
  BY DEF EndSwapped
<1>2. buf # <<>> /\ other # <<>>
  BY <1>1
<1>3. PICK a, c : ByteSums(buf, append, a, c) /\ Packs(FletcherAppend(buf, append), a[Len(buf)], c[Len(buf)])
  BY <1>2, FletcherIs
<1>4. PICK d, e : ByteSums(other, append, d, e) /\ Packs(FletcherAppend(other, append), d[Len(other)], e[Len(other)])
  BY <1>2, FletcherIs
<1>5. /\ a[0] = d[0] /\ c[0] = e[0] /\ c[0] = append \div 256 /\ a[0] \in Bytes
      /\ \A k \in 0 .. n : a[k] \in Nat /\ c[k] \in Nat
      /\ \A k \in 1 .. n : a[k] = First(a[k - 1], buf[k]) /\ c[k] = Second(a[k], c[k - 1])
      /\ \A k \in 1 .. n : d[k] = First(d[k - 1], other[k]) /\ e[k] = Second(d[k], e[k - 1])
  <2>1. \A x \in Word : x \in Nat
    BY DEF Word
  <2>2. append % 256 \in Bytes
    BY HalvesOfWord
  <2> QED
    BY <1>1, <1>3, <1>4, <2>1, <2>2, Zenon DEF ByteSums
<1>6. \A k \in 1 .. n : buf[k] \in Bytes
  BY <1>1, ElementsOf, Zenon
<1>7. 1 .. m \subseteq 1 .. n /\ 0 .. m \subseteq 0 .. n /\ m \in 0 .. n /\ m \in 0 .. m
      /\ m + 1 \in 1 .. n /\ m + 2 \in 1 .. n /\ (m + 1) - 1 = m /\ (m + 2) - 1 = m + 1
  BY <1>1
<1>8. /\ \A k \in 1 .. m : other[k] = buf[k]
      /\ other[m + 1] = buf[m + 2] /\ other[m + 2] = buf[m + 1]
  BY DEF EndSwapped
<1>9. a[m] = d[m] /\ c[m] = e[m]
  <2>1. Follow(a, c, buf, m) /\ Follow(d, e, other, m)
    BY <1>5, <1>7 DEF Follow
  <2>2. a[0] = d[0] /\ c[0] = e[0] /\ \A k \in 1 .. m : other[k] = buf[k]
    BY <1>5, <1>8, Zenon
  <2> QED
    BY <2>1, <2>2, SumsAgree
<1>10. \A k \in 1 .. m : a[k] \in 0 .. 254
  <2> SUFFICES ASSUME NEW k \in 1 .. m PROVE a[k] \in 0 .. 254
    OBVIOUS
  <2>1. k \in 1 .. n /\ k - 1 \in 0 .. n
    BY <1>1
  <2>2. PICK p \in Nat, x \in Bytes : p = a[k - 1] /\ x = buf[k]
    BY <1>5, <1>6, <2>1
  <2>3. First(p, x) \in 0 .. 254
    BY FirstType
  <2> QED
    BY <1>5, <2>1, <2>2, <2>3
<1>11. Room(c[m], 508)
  <2>1. Room(c[0], 254 * m + 508)
    BY <1>5, Zenon
  <2>2. \A k \in 0 .. m : a[k] \in Nat /\ c[k] \in Nat
    BY <1>5, <1>7
  <2>3. \A k \in 1 .. m : a[k] \in 0 .. 254 /\ c[k] = Second(a[k], c[k - 1])
    BY <1>5, <1>7, <1>10
  <2> QED
    BY <2>1, <2>2, <2>3, SecondGrows
<1>12. PICK p \in Bytes, s \in Nat, x \in Bytes, y \in Bytes :
           p = a[m] /\ s = c[m] /\ x = buf[m + 1] /\ y = buf[m + 2]
  <2>1. a[m] \in Bytes
    <3>1. CASE m = 0
      BY <1>5, <3>1
    <3>2. CASE m # 0
      BY <1>10, <3>2 DEF Bytes
    <3> QED
      BY <3>1, <3>2
  <2> QED
    BY <1>5, <1>6, <1>7, <2>1
<1>13. c[n] = Second(First(First(p, x), y), Second(First(p, x), s))
  <2>1. a[m + 1] = First(p, x) /\ c[m + 1] = Second(a[m + 1], s)
    BY <1>5, <1>7, <1>12, Zenon
  <2>2. a[m + 2] = First(a[m + 1], y) /\ c[m + 2] = Second(a[m + 2], c[m + 1])
    BY <1>5, <1>7, <1>12, Zenon
  <2> QED
    BY <1>1, <2>1, <2>2, Zenon
<1>14. e[n] = Second(First(First(p, y), x), Second(First(p, y), s))
  <2>1. d[m + 1] = First(p, y) /\ e[m + 1] = Second(d[m + 1], s)
    <3>1. d[m + 1] = First(d[m], other[m + 1]) /\ e[m + 1] = Second(d[m + 1], e[m])
      BY <1>5, <1>7, Zenon
    <3>2. d[m] = p /\ e[m] = s /\ other[m + 1] = y
      BY <1>8, <1>9, <1>12, Zenon
    <3> QED
      BY <3>1, <3>2, Zenon
  <2>2. d[m + 2] = First(d[m + 1], x) /\ e[m + 2] = Second(d[m + 2], e[m + 1])
    BY <1>5, <1>7, <1>8, <1>12, Zenon
  <2> QED
    BY <1>1, <2>1, <2>2, Zenon
<1>15. Room(s, 508) /\ x - y \notin Unseen
  BY <1>11, <1>12, Zenon
<1>16. c[n] % 256 # e[n] % 256
  <2>1. Second(First(First(p, x), y), Second(First(p, x), s)) % 256
            # Second(First(First(p, y), x), Second(First(p, y), s)) % 256
    BY <1>15, SwapSecond
  <2> QED
    BY <1>13, <1>14, <2>1, Zenon
<1> QED
  BY <1>1, <1>3, <1>4, <1>16, Zenon DEF Packs

-----------------------------------------------------------------------------
\* The samples.

\* The second pieces of the samples are among these.
Triples == [1 .. 3 -> Bytes]

LEMMA TripleIs ==
    ASSUME NEW r \in Triples
    PROVE  /\ r \in Seq(Bytes) /\ Len(r) = 3 /\ r # <<>> /\ DOMAIN r = 1 .. 3
           /\ r[1] \in Bytes /\ r[2] \in Bytes /\ r[3] \in Bytes
<1>1. r \in Seq(Bytes) /\ DOMAIN r = 1 .. 3
  BY SeqDef DEF Triples
<1>2. Len(r) = 3
  BY <1>1
<1> QED
  BY <1>1, <1>2 DEF Triples

LEMMA OneIs ==
    ASSUME NEW b \in Bytes
    PROVE  <<b>> \in Seq(Bytes) /\ Len(<<b>>) = 1 /\ <<b>> # <<>> /\ <<b>>[1] = b
OBVIOUS

LEMMA BodyOfTwo ==
    ASSUME NEW p \in Seq(Bytes), NEW q \in Seq(Bytes)
    PROVE  /\ Fletcher16(<<p, q>>) = FletcherAppend(q, FletcherAppend(p, 0))
           /\ <<p, q>> \in Seq(Seq(Bytes)) /\ Len(<<p, q>>) = 2
           /\ <<p, q>>[1] = p /\ <<p, q>>[2] = q
<1>1. PICK body \in Seq(Seq(Bytes)) : body = <<p, q>>
  <2>1. <<p, q>> \in Seq(Seq(Bytes))
    OBVIOUS
  <2> QED
    BY <2>1, Zenon
<1>2. Len(body) = 2 /\ body[1] = p /\ body[2] = q
  BY <1>1
<1>3. PICK h : Checksums(body, h)
  BY BodyIs
<1>4. h[1] = FletcherAppend(p, h[0]) /\ h[2] = FletcherAppend(q, h[1])
  BY <1>2, <1>3 DEF Checksums
<1>5. Fletcher16(body) = FletcherAppend(q, FletcherAppend(p, 0))
  BY <1>2, <1>3, <1>4, Zenon DEF Checksums
<1> QED
  BY <1>1, <1>2, <1>5, Zenon

LEMMA SumOfOne == ASSUME NEW z \in Nat, NEW b \in Bytes PROVE Total(z, <<b>>) = z + b
<1>1. PICK s \in Seq(Bytes) : s = <<b>> /\ Len(s) = 1 /\ s[1] = b
  BY OneIs
<1>2. PICK h : Along("sum", z, s, h) /\ Total(z, s) = h[Len(s)]
  BY SumAlong DEF Total
<1>3. h[0] = z /\ \A k \in 1 .. Len(s) : h[k] = h[k - 1] + s[k]
  BY <1>2 DEF Along, Step
<1>4. h[1] = h[0] + s[1]
  BY <1>1, <1>3
<1>5. Total(z, s) = z + b
  BY <1>1, <1>2, <1>3, <1>4, Zenon
<1> QED
  BY <1>1, <1>5, Zenon

LEMMA SumOfThree == ASSUME NEW z \in Nat, NEW r \in Triples PROVE Total(z, r) = z + r[1] + r[2] + r[3]
<1>1. r \in Seq(Bytes) /\ Len(r) = 3
  BY TripleIs
<1>2. PICK h : Along("sum", z, r, h) /\ Total(z, r) = h[Len(r)]
  BY <1>1, SumAlong DEF Total
<1>3. h[0] = z /\ \A k \in 1 .. Len(r) : h[k] = h[k - 1] + r[k]
  BY <1>2 DEF Along, Step
<1>4. h[1] = h[0] + r[1] /\ h[2] = h[1] + r[2] /\ h[3] = h[2] + r[3]
  BY <1>1, <1>3
<1> QED
  BY <1>1, <1>2, <1>3, <1>4, Zenon

LEMMA SumOfFour ==
    ASSUME NEW r \in Triples, NEW b \in Bytes
    PROVE  Total(0, <<b>> \o r) = 0 + b + r[1] + r[2] + r[3]
<1>1. r \in Seq(Bytes) /\ Len(r) = 3 /\ <<b>> \in Seq(Bytes) /\ Len(<<b>>) = 1 /\ <<b>>[1] = b
  BY TripleIs, OneIs
<1>2. PICK s \in Seq(Bytes) : s = <<b>> \o r
  BY <1>1, ConcatProperties
<1>3. Len(s) = 4 /\ s[1] = b /\ s[2] = r[1] /\ s[3] = r[2] /\ s[4] = r[3]
  <2>1. PICK one \in Seq(Bytes) : one = <<b>>
    BY <1>1
  <2>2. /\ Len(one \o r) = Len(one) + Len(r)
        /\ \A i \in 1 .. Len(one) + Len(r) :
               (one \o r)[i] = IF i <= Len(one) THEN one[i] ELSE r[i - Len(one)]
    BY <1>1, ConcatProperties
  <2>3. Len(one) = 1 /\ one[1] = b /\ s = one \o r
    BY <1>1, <1>2, <2>1
  <2> HIDE <2>1
  <2>4. /\ Len(s) = 4 /\ \A i \in 1 .. 4 : s[i] = IF i <= 1 THEN one[i] ELSE r[i - 1]
    BY <1>1, <2>2, <2>3
  <2> QED
    BY <2>3, <2>4
<1>4. PICK h : Along("sum", 0, s, h) /\ Total(0, s) = h[Len(s)]
  BY SumAlong DEF Total
<1>5. h[0] = 0 /\ \A k \in 1 .. Len(s) : h[k] = h[k - 1] + s[k]
  BY <1>4 DEF Along, Step
<1>6. h[1] = h[0] + s[1] /\ h[2] = h[1] + s[2] /\ h[3] = h[2] + s[3] /\ h[4] = h[3] + s[4]
  BY <1>3, <1>5
<1>7. h[1] = 0 + b /\ h[2] = h[1] + r[1] /\ h[3] = h[2] + r[2] /\ h[4] = h[3] + r[3]
  BY <1>3, <1>5, <1>6, Zenon
<1>8. h[4] = 0 + b + r[1] + r[2] + r[3]
  BY <1>7, Zenon
<1>9. Total(0, s) = h[4]
  BY <1>3, <1>4, Zenon
<1> QED
  BY <1>2, <1>8, <1>9, Zenon

LEMMA SampleSum ==
    ASSUME NEW b \in Bytes, NEW r \in Triples
    PROVE  Fletcher16(<<<<b>>, r>>) % 256 = Total(0, <<b>> \o r) % 255
<1>1. r \in Seq(Bytes) /\ r # <<>> /\ r[1] \in Bytes /\ r[2] \in Bytes /\ r[3] \in Bytes
  BY TripleIs
<1>2. PICK one \in Seq(Bytes) : one = <<b>>
  BY OneIs
<1>14. one # <<>>
  BY <1>2
<1>3. 0 \in Word /\ 0 % 256 = 0 /\ 0 % 256 \in 0 .. 254
  BY DEF Word
<1>4. PICK w \in Word : w = FletcherAppend(one, 0)
  BY <1>3, AppendType
<1>5. w % 256 = b % 255
  <2>1. FletcherAppend(one, 0) % 256 = Total(0, one) % 255
    <3>1. PICK o \in Word : o = 0 /\ o % 256 = 0
      BY <1>3
    <3>2. FletcherAppend(one, o) % 256 = Total(o % 256, one) % 255
      BY <1>14, FirstSumOfBytes
    <3> QED
      BY <3>1, <3>2
  <2>2. Total(0, <<b>>) = 0 + b
    BY SumOfOne
  <2>3. 0 + b = b
    BY DEF Bytes
  <2>4. Total(0, one) = b
    BY <1>2, <2>2, <2>3, Zenon
  <2> QED
    BY <1>4, <2>1, <2>4, Zenon
<1>6. PICK t \in 0 .. 254 : t = b % 255 /\ t = w % 256
  <2>1. b % 255 \in 0 .. 254
    BY DEF Bytes
  <2> QED
    BY <1>5, <2>1
<1>7. FletcherAppend(r, w) % 256 = Total(w % 256, r) % 255
  BY <1>1, FirstSumOfBytes
<1>8. Total(t, r) = t + r[1] + r[2] + r[3]
  BY SumOfThree
<1>9. (t + r[1] + r[2] + r[3]) % 255 = (0 + b + r[1] + r[2] + r[3]) % 255
  <2>1. PICK x \in Bytes, y \in Bytes, z \in Bytes : x = r[1] /\ y = r[2] /\ z = r[3]
    BY <1>1
  <2>2. t = b % 255
    BY <1>6
  <2>3. (t + x + y + z) % 255 = (0 + b + x + y + z) % 255
    BY <2>2 DEF Bytes
  <2> QED
    BY <2>1, <2>3, Zenon
<1>10. Total(0, <<b>> \o r) = 0 + b + r[1] + r[2] + r[3]
  BY SumOfFour
<1>11. Fletcher16(<<one, r>>) = FletcherAppend(r, w)
  <2>1. Fletcher16(<<one, r>>) = FletcherAppend(r, FletcherAppend(one, 0))
    BY <1>1, BodyOfTwo
  <2> QED
    BY <1>4, <2>1, Zenon
<1>12. FletcherAppend(r, w) % 256 = (0 + b + r[1] + r[2] + r[3]) % 255
  BY <1>6, <1>7, <1>8, <1>9
<1>13. FletcherAppend(r, w) % 256 = Total(0, <<b>> \o r) % 255
  BY <1>10, <1>12
<1> QED
  BY <1>2, <1>11, <1>13

LEMMA SampleChange ==
    ASSUME NEW one \in Seq(Bytes), NEW r \in Triples, NEW i \in 1 .. 3, NEW z \in Bytes,
           Told(z, r[i])
    PROVE  Fletcher16(<<one, [r EXCEPT ![i] = z]>>) # Fletcher16(<<one, r>>)
<1>1. PICK q \in Triples : q = [r EXCEPT ![i] = z]
  BY DEF Triples
<1>2. r \in Seq(Bytes) /\ Len(r) = 3 /\ DOMAIN r = 1 .. 3
  BY TripleIs
<1>3. q \in Seq(Bytes) /\ Len(q) = 3
  BY TripleIs
<1>4. ChangedAt(r, q, i)
  BY <1>1, <1>2, <1>3 DEF ChangedAt
<1>5. PICK body \in Seq(Seq(Bytes)) : body = <<one, r>> /\ Len(body) = 2 /\ body[1] = one /\ body[2] = r
  <2>1. /\ <<one, r>> \in Seq(Seq(Bytes)) /\ Len(<<one, r>>) = 2
        /\ <<one, r>>[1] = one /\ <<one, r>>[2] = r
    BY <1>2, BodyOfTwo
  <2> QED
    BY <2>1, Zenon
<1>6. PICK other \in Seq(Seq(Bytes)) : other = <<one, q>> /\ Len(other) = 2 /\ other[1] = one /\ other[2] = q
  <2>1. /\ <<one, q>> \in Seq(Seq(Bytes)) /\ Len(<<one, q>>) = 2
        /\ <<one, q>>[1] = one /\ <<one, q>>[2] = q
    BY <1>3, BodyOfTwo
  <2> QED
    BY <2>1, Zenon
<1>7. Fletcher16(other) # Fletcher16(body)
  <2>1. 2 \in 1 .. Len(body) /\ Len(other) = Len(body) /\ ChangedAt(body[2], other[2], i)
    BY <1>4, <1>5, <1>6
  <2>2. \A k \in 1 .. Len(body) : k # 2 => other[k] = body[k]
    BY <1>5, <1>6
  <2> QED
    BY <2>1, <2>2, ChangeIsSeen
<1> QED
  BY <1>1, <1>5, <1>6, <1>7, Zenon

LEMMA SampleSwap ==
    ASSUME NEW one \in Seq(Bytes), NEW r \in Triples, r[2] - r[3] \notin Unseen
    PROVE  Fletcher16(<<one, [r EXCEPT ![2] = r[3], ![3] = r[2]]>>) # Fletcher16(<<one, r>>)
<1>1. PICK q \in Triples : q = [r EXCEPT ![2] = r[3], ![3] = r[2]] /\ q[1] = r[1] /\ q[2] = r[3] /\ q[3] = r[2]
  <2>1. r[2] \in Bytes /\ r[3] \in Bytes /\ DOMAIN r = 1 .. 3
    BY TripleIs
  <2>2. PICK q : q = [r EXCEPT ![2] = r[3], ![3] = r[2]]
    OBVIOUS
  <2>3. q \in Triples
    BY <2>1, <2>2 DEF Triples
  <2>4. q[1] = r[1] /\ q[2] = r[3] /\ q[3] = r[2]
    BY <2>1, <2>2
  <2> QED
    BY <2>2, <2>3, <2>4, Zenon
<1>2. r \in Seq(Bytes) /\ Len(r) = 3
  BY TripleIs
<1>3. q \in Seq(Bytes) /\ Len(q) = 3
  BY TripleIs
<1>4. EndSwapped(r, q, 1)
  BY <1>1, <1>2, <1>3 DEF EndSwapped
<1>5. PICK w \in Word : w = FletcherAppend(one, 0)
  <2>1. 0 \in Word /\ 0 % 256 \in 0 .. 254
    BY DEF Word
  <2> QED
    BY <2>1, AppendType
<1>6. Room(w \div 256, 254 * 1 + 508)
  BY DEF Word, Room
<1>7. r[1 + 1] - r[1 + 2] \notin Unseen
  OBVIOUS
<1>8. FletcherAppend(q, w) # FletcherAppend(r, w)
  BY <1>2, <1>3, <1>4, <1>6, <1>7, SwapIsSeen
<1>9. Fletcher16(<<one, q>>) = FletcherAppend(q, FletcherAppend(one, 0))
  BY <1>3, BodyOfTwo
<1>10. Fletcher16(<<one, r>>) = FletcherAppend(r, FletcherAppend(one, 0))
  BY <1>2, BodyOfTwo
<1> QED
  BY <1>1, <1>5, <1>8, <1>9, <1>10, Zenon

\* What the samples of the checksum show of damage to a body, from the theorems about any
\* bodies.
THEOREM ChecksumDetectsDamage == Spec => []ChecksumDetects
<1>1. ASSUME NEW body \in SampleBodies PROVE ShowsDamage(body)
  <2>1. PICK x \in Bytes, r \in Triples : body = <<<<x>>, r>>
    <3>1. PICK x \in SampleBytes, r \in [1 .. 3 -> SampleBytes] : body = <<<<x>>, r>>
      BY DEF SampleBodies
    <3>2. x \in Bytes
      BY DEF SampleBytes, Bytes
    <3>3. r \in Triples
      <4>1. SampleBytes \subseteq Bytes
        BY DEF SampleBytes, Bytes
      <4> QED
        BY <4>1 DEF Triples
    <3> QED
      BY <3>1, <3>2, <3>3
  <2>2. body[1] = <<x>> /\ body[2] = r /\ <<x>> \in Seq(Bytes) /\ DOMAIN r = 1 .. 3
    BY <2>1, OneIs, TripleIs
  <2>3. Fletcher16(body) % 256 = Total(0, <<x>> \o r) % 255
    BY <2>1, SampleSum
  <2>4. \A i \in 1 .. 3, z \in Bytes :
            z # r[i] /\ {z, r[i]} # {0, 255} =>
                Fletcher16(<<<<x>>, [r EXCEPT ![i] = z]>>) # Fletcher16(body)
    BY <2>1, <2>2, SampleChange DEF Told
  <2>5. r[2] - r[3] \notin Unseen =>
            Fletcher16(<<<<x>>, [r EXCEPT ![2] = r[3], ![3] = r[2]]>>) # Fletcher16(body)
    BY <2>1, <2>2, SampleSwap
  <2>6. Fletcher16(body) % 256 = Total(0, body[1] \o body[2]) % 255
    BY <2>2, <2>3
  <2>7. \A i \in DOMAIN body[2], z \in 0 .. 255 :
            z # body[2][i] /\ {z, body[2][i]} # {0, 255} =>
                Fletcher16(<<body[1], [body[2] EXCEPT ![i] = z]>>) # Fletcher16(body)
    BY <2>2, <2>4, Zenon DEF Bytes
  <2>8. body[2][2] - body[2][3] \notin {0, 127, -127, 128, -128, 255, -255} =>
            Fletcher16(<<body[1], [body[2] EXCEPT ![2] = body[2][3], ![3] = body[2][2]]>>)
                # Fletcher16(body)
    BY <2>2, <2>5, Zenon DEF Unseen
  <2> QED
    BY <2>6, <2>7, <2>8, Zenon DEF ShowsDamage, Total
<1>2. ChecksumDetects
  BY <1>1 DEF ChecksumDetects, Detects
<1>3. Detects
  BY <1>1 DEF Detects
<1> QED
  BY <1>2, PTL
=============================================================================
