----------------------------- MODULE ZincProofs -----------------------------
(***************************************************************************)
(* ZincMemory for any width of limbs, any traces and any witness: the      *)
(* network permutes the rows, and what the constraints let through is the  *)
(* trace of a memory.                                                      *)
(***************************************************************************)
EXTENDS ZincMemory, FiniteSetTheorems, TLAPS

(***************************************************************************)
(* Powers.  A recursive function is the one that its equation defines once *)
(* some function satisfies the equation.                                   *)
(***************************************************************************)
\* A set of numbers that is not empty has a least element.
LEMMA Least ==
  ASSUME NEW T \in SUBSET Nat, T # {}
  PROVE  \E k \in T : \A l \in T : k <= l
<1>0. T \subseteq Nat /\ T # {}
  OBVIOUS
<1>1. PICK k \in T : \A l \in T : ~ (<<l, k>> \in OpToRel(<, Nat))
  BY <1>0, WFMin, NatLessThanWellFounded
<1>2. ASSUME NEW l \in T PROVE k <= l
  <2>1. l \in Nat /\ k \in Nat
    OBVIOUS
  <2>2. ~ (l < k)
    BY <1>1, <2>1 DEF OpToRel
  <2> QED BY <2>1, <2>2
<1> QED BY <1>2

\* g holds the powers of b up to the n-th.
PowersUpTo(b, n, g) ==
  /\ g \in [0 .. n -> Nat]
  /\ g[0] = 1
  /\ \A k \in 1 .. n : g[k] = b * g[k - 1]

LEMMA PowersUpToExist ==
  ASSUME NEW b \in Nat, NEW n \in Nat
  PROVE  \E g : PowersUpTo(b, n, g)
<1> DEFINE T == {m \in Nat : ~ \E g : PowersUpTo(b, m, g)}
<1>1. SUFFICES ASSUME T # {} PROVE FALSE
  OBVIOUS
<1>2. PICK m \in T : \A l \in T : m <= l
  BY <1>1, Least
<1>3. m # 0
  <2>1. PowersUpTo(b, 0, [k \in 0 .. 0 |-> 1])
    BY DEF PowersUpTo
  <2> QED BY <2>1, <1>2
<1>4. PICK g : PowersUpTo(b, m - 1, g)
  BY <1>2, <1>3
<1> DEFINE h == [k \in 0 .. m |-> IF k = m THEN b * g[m - 1] ELSE g[k]]
<1>5. PowersUpTo(b, m, h)
  <2>1. m \in Nat /\ m > 0 /\ m - 1 \in 0 .. m - 1
    BY <1>2, <1>3
  <2>2. b * g[m - 1] \in Nat
    BY <2>1, <1>4 DEF PowersUpTo
  <2>3. h \in [0 .. m -> Nat]
    BY <2>1, <2>2, <1>4 DEF PowersUpTo
  <2>4. h[0] = 1
    BY <2>1, <1>4 DEF PowersUpTo
  <2>5. ASSUME NEW k \in 1 .. m PROVE h[k] = b * h[k - 1]
    <3>1. CASE k = m
      BY <3>1, <2>1
    <3>2. CASE k # m
      <4>1. k \in 1 .. m - 1 /\ k - 1 \in 0 .. m /\ k - 1 # m
        BY <3>2, <2>1
      <4>2. h[k] = g[k] /\ h[k - 1] = g[k - 1]
        BY <4>1, <3>2
      <4> QED BY <4>1, <4>2, <1>4 DEF PowersUpTo
    <3> QED BY <3>1, <3>2
  <2> HIDE DEF h
  <2> QED BY <2>3, <2>4, <2>5 DEF PowersUpTo
<1> QED BY <1>2, <1>5

LEMMA PowersUpToUnique ==
  ASSUME NEW b \in Nat, NEW n \in Nat, NEW m \in Nat, NEW g, NEW h,
         PowersUpTo(b, n, g), PowersUpTo(b, m, h), NEW k \in 0 .. n, k <= m
  PROVE  g[k] = h[k]
<1> DEFINE T == {l \in 0 .. n : l <= m /\ g[l] # h[l]}
<1>1. SUFFICES ASSUME T # {} PROVE FALSE
  OBVIOUS
<1>2. PICK l \in T : \A i \in T : l <= i
  <2>1. T \in SUBSET Nat
    OBVIOUS
  <2> QED BY <2>1, <1>1, Least
<1>3. l # 0
  BY <1>2 DEF PowersUpTo
<1>4. l - 1 \in 0 .. n /\ l - 1 <= m /\ l \in 1 .. n /\ l \in 1 .. m
  BY <1>2, <1>3
<1>5. g[l - 1] = h[l - 1]
  BY <1>2, <1>4
<1> QED BY <1>2, <1>4, <1>5 DEF PowersUpTo

\* f holds all powers of b.
PowersOf(b, f) ==
  /\ f \in [Nat -> Nat]
  /\ f[0] = 1
  /\ \A n \in Nat : f[n + 1] = b * f[n]

LEMMA PowersExist ==
  ASSUME NEW b \in Nat
  PROVE  \E f : /\ f = [n \in Nat |-> IF n = 0 THEN 1 ELSE b * f[n - 1]]
                /\ PowersOf(b, f)
<1> DEFINE up(n) == CHOOSE g : PowersUpTo(b, n, g)
           f == [n \in Nat |-> up(n)[n]]
<1>1. ASSUME NEW n \in Nat PROVE PowersUpTo(b, n, up(n))
  BY PowersUpToExist
<1> HIDE DEF up
<1>2. f \in [Nat -> Nat]
  BY <1>1 DEF PowersUpTo
<1>3. f[0] = 1
  BY <1>1 DEF PowersUpTo
<1>4. ASSUME NEW n \in Nat PROVE f[n + 1] = b * f[n]
  <2>1. PowersUpTo(b, n + 1, up(n + 1)) /\ PowersUpTo(b, n, up(n))
    BY <1>1
  <2>2. n \in 0 .. n + 1 /\ n + 1 \in 1 .. n + 1 /\ (n + 1) - 1 = n
    OBVIOUS
  <2>3. up(n + 1)[n] = up(n)[n]
    BY <2>1, <2>2, PowersUpToUnique
  <2>4. up(n + 1)[n + 1] = b * up(n + 1)[n]
    BY <2>1, <2>2 DEF PowersUpTo
  <2>5. f[n + 1] = up(n + 1)[n + 1] /\ f[n] = up(n)[n]
    OBVIOUS
  <2> QED BY <2>3, <2>4, <2>5
<1> HIDE DEF f
<1>5. ASSUME NEW n \in Nat PROVE f[n] = IF n = 0 THEN 1 ELSE b * f[n - 1]
  <2>1. CASE n = 0
    BY <2>1, <1>3
  <2>2. CASE n # 0
    <3>1. n - 1 \in Nat /\ (n - 1) + 1 = n
      BY <2>2
    <3> QED BY <3>1, <2>2, <1>4
  <2> QED BY <2>1, <2>2
<1>6. f = [n \in Nat |-> IF n = 0 THEN 1 ELSE b * f[n - 1]]
  BY <1>2, <1>5
<1> QED BY <1>2, <1>3, <1>4, <1>6 DEF PowersOf

LEMMA PowersAreTheOnes ==
  ASSUME NEW b \in Nat, NEW f, f = [n \in Nat |-> IF n = 0 THEN 1 ELSE b * f[n - 1]]
  PROVE  PowersOf(b, f)
<1>1. PICK g : PowersOf(b, g)
  BY PowersExist
<1>2. ASSUME NEW n \in Nat PROVE f[n] = IF n = 0 THEN 1 ELSE b * f[n - 1]
  BY Zenon
<1>3. f[0] = 1
  BY <1>2
<1>4. ASSUME NEW n \in Nat PROVE f[n + 1] = b * f[n]
  BY <1>2
<1> DEFINE T == {n \in Nat : f[n] # g[n]}
<1>5. T = {}
  <2>1. SUFFICES ASSUME T # {} PROVE FALSE
    OBVIOUS
  <2>2. PICK m \in T : \A l \in T : m <= l
    BY <2>1, Least
  <2>3. m # 0
    BY <2>2, <1>1, <1>3 DEF PowersOf
  <2>4. m - 1 \in Nat /\ (m - 1) + 1 = m
    BY <2>2, <2>3
  <2>5. f[m - 1] = g[m - 1]
    BY <2>2, <2>4
  <2> QED BY <2>2, <2>4, <2>5, <1>1, <1>4 DEF PowersOf
<1>6. f \in [Nat -> Nat]
  <2>1. \A n \in Nat : f[n] \in Nat
    BY <1>5, <1>1 DEF PowersOf
  <2> QED BY <2>1
<1> QED BY <1>3, <1>4, <1>6 DEF PowersOf

LEMMA PowersOfTwo == PowersOf(2, PowerOf2)
<1>1. \E f : f = [n \in Nat |-> IF n = 0 THEN 1 ELSE 2 * f[n - 1]]
  BY PowersExist
<1>2. PowerOf2 = [n \in Nat |-> IF n = 0 THEN 1 ELSE 2 * PowerOf2[n - 1]]
  BY <1>1 DEF PowerOf2
<1> QED BY <1>2, PowersAreTheOnes

LEMMA PowersOfBase == PowersOf(LimbBase, PowerOfBase)
<1>0. LimbBase \in Nat
  BY ZincAssumption
<1>1. \E f : f = [n \in Nat |-> IF n = 0 THEN 1 ELSE LimbBase * f[n - 1]]
  BY <1>0, PowersExist
<1>2. PowerOfBase = [n \in Nat |-> IF n = 0 THEN 1 ELSE LimbBase * PowerOfBase[n - 1]]
  BY <1>1 DEF PowerOfBase
<1> QED BY <1>0, <1>2, PowersAreTheOnes

(***************************************************************************)
(* The switches of a layer.                                                *)
(***************************************************************************)
\* Quotient and remainder are determined by the division.
LEMMA Quotient ==
  ASSUME NEW s \in Nat, s > 0, NEW q \in Nat, NEW r \in 0 .. s - 1
  PROVE  (q * s + r) \div s = q
<1> DEFINE a == q * s + r
           d == a \div s
           e == a % s
<1>1. q * s \in Nat /\ a \in Nat
  OBVIOUS
<1>2. d \in Nat /\ e \in 0 .. s - 1 /\ a = s * d + e
  BY <1>1
<1>3. ASSUME d < q PROVE FALSE
  <2>1. s * d + s <= s * q
    <3>1. q - d - 1 \in Nat
      BY <1>2, <1>3
    <3>2. s * (q - d - 1) >= 0
      BY <3>1
    <3> QED BY <3>1, <3>2, <1>2
  <2> QED BY <2>1, <1>1, <1>2
<1>4. ASSUME q < d PROVE FALSE
  <2>1. s * q + s <= s * d
    <3>1. d - q - 1 \in Nat
      BY <1>2, <1>4
    <3>2. s * (d - q - 1) >= 0
      BY <3>1
    <3> QED BY <3>1, <3>2, <1>2
  <2> QED BY <2>1, <1>1, <1>2
<1> QED BY <1>2, <1>3, <1>4

LEMMA PowerOf2Type ==
  ASSUME NEW n \in Nat
  PROVE  PowerOf2[n] \in Nat /\ PowerOf2[n] > n
<1> DEFINE T == {m \in Nat : ~ PowerOf2[m] > m}
<1>0. PowerOf2 \in [Nat -> Nat] /\ PowerOf2[0] = 1
      /\ \A m \in Nat : PowerOf2[m + 1] = 2 * PowerOf2[m]
  BY PowersOfTwo DEF PowersOf
<1>1. T = {}
  <2>1. SUFFICES ASSUME T # {} PROVE FALSE
    OBVIOUS
  <2>2. PICK m \in T : \A l \in T : m <= l
    BY <2>1, Least
  <2>3. m # 0
    BY <2>2, <1>0
  <2>4. m - 1 \in Nat /\ (m - 1) + 1 = m /\ ~ (m <= m - 1)
    BY <2>2, <2>3
  <2>5. PowerOf2[m - 1] > m - 1
    BY <2>2, <2>4
  <2>6. PowerOf2[m] = 2 * PowerOf2[m - 1] /\ PowerOf2[m - 1] \in Nat
    BY <1>0, <2>4
  <2> QED BY <2>2, <2>5, <2>6, <2>4
<1> QED BY <1>0, <1>1

\* A greater power is a multiple of a lesser one.
LEMMA PowerOf2Multiple ==
  ASSUME NEW k \in Nat, NEW n \in Nat
  PROVE  \E q \in Nat : q > 0 /\ PowerOf2[k + n] = q * PowerOf2[k]
<1> DEFINE T == {m \in Nat : ~ \E q \in Nat : q > 0 /\ PowerOf2[k + m] = q * PowerOf2[k]}
<1>0. PowerOf2 \in [Nat -> Nat] /\ \A m \in Nat : PowerOf2[m + 1] = 2 * PowerOf2[m]
  BY PowersOfTwo DEF PowersOf
<1>1. T = {}
  <2>1. SUFFICES ASSUME T # {} PROVE FALSE
    OBVIOUS
  <2>2. PICK m \in T : \A l \in T : m <= l
    BY <2>1, Least
  <2>3. m # 0
    <3>1. PowerOf2[k + 0] = 1 * PowerOf2[k]
      BY <1>0
    <3> QED BY <3>1, <2>2
  <2>4. m - 1 \in Nat /\ ~ (m <= m - 1)
    BY <2>2, <2>3
  <2>5. PICK q \in Nat : q > 0 /\ PowerOf2[k + (m - 1)] = q * PowerOf2[k]
    BY <2>2, <2>4
  <2>6. k + (m - 1) \in Nat /\ (k + (m - 1)) + 1 = k + m
    BY <2>4, <2>2
  <2>7. PowerOf2[k + m] = 2 * (q * PowerOf2[k])
    BY <2>5, <2>6, <1>0
  <2>8. 2 * q \in Nat /\ 2 * q > 0
    BY <2>5
  <2>9. PowerOf2[k] \in Int /\ PowerOf2[k + m] = (2 * q) * PowerOf2[k]
    BY <2>7, <1>0
  <2> QED BY <2>8, <2>9, <2>2
<1> QED BY <1>1

LEMMA StrideBitType ==
  ASSUME NEW v \in Nat, v > 0, NEW l \in Layers(v)
  PROVE  StrideBit(v, l) \in 0 .. v - 1
BY DEF StrideBit, Layers, NumLayers

\* The wires of a layer are so many pairs of strides.
LEMMA StridesFit ==
  ASSUME NEW v \in Nat, v > 0, NEW l \in Layers(v)
  PROVE  \E m \in Nat : PowerOf2[v] = 2 * m * Stride(v, l)
<1> DEFINE k == StrideBit(v, l)
<1>1. k \in Nat /\ v - 1 - k \in Nat /\ k + 1 \in Nat /\ (k + 1) + (v - 1 - k) = v
  BY StrideBitType
<1> HIDE DEF k
<1>2. PICK q \in Nat : PowerOf2[(k + 1) + (v - 1 - k)] = q * PowerOf2[k + 1]
  BY <1>1, PowerOf2Multiple
<1>3. PowerOf2[k + 1] = 2 * PowerOf2[k] /\ PowerOf2[k] \in Nat
  BY <1>1, PowersOfTwo DEF PowersOf
<1>4. PowerOf2[v] = 2 * q * PowerOf2[k]
  BY <1>1, <1>2, <1>3
<1> QED BY <1>4 DEF Stride, k

\* The switch of a wire has the wire and its partner, which are its two wires.
LEMMA Partners ==
  ASSUME NEW v \in Nat, v > 0, NEW l \in Layers(v), NEW i \in Wires(v)
  PROVE  /\ Partner(v, l, i) \in Wires(v)
         /\ Partner(v, l, Partner(v, l, i)) = i
         /\ SwitchAt(v, l, Partner(v, l, i)) = SwitchAt(v, l, i)
         /\ SwitchAt(v, l, i) \in UpperWires(v, l)
         /\ i \in UpperWires(v, l) => SwitchAt(v, l, i) = i
<1> DEFINE s == Stride(v, l)
           q == i \div s
           r == i % s
           up(w) == IsUpper(w, StrideBit(v, l))
<1>1. s \in Nat /\ s > 0
  BY StrideBitType, PowerOf2Type DEF Stride
<1>2. PICK m \in Nat : PowerOf2[v] = 2 * m * s
  BY StridesFit
<1>3. \A w : up(w) <=> (w \div s) % 2 = 0
  BY DEF IsUpper, Stride
<1>4. i \in Nat /\ i < 2 * m * s
  BY <1>2, PowerOf2Type DEF Wires
<1> HIDE DEF s, up
<1>5. q \in Nat /\ r \in 0 .. s - 1 /\ i = q * s + r
  BY <1>1, <1>4
<1> HIDE DEF q, r
<1>6. q < 2 * m
  <2>1. ASSUME q >= 2 * m PROVE FALSE
    <3>1. (q - 2 * m) * s >= 0
      BY <2>1, <1>1, <1>5
    <3>2. q * s >= 2 * m * s
      BY <3>1, <1>1, <1>5
    <3> QED BY <3>2, <1>4, <1>5, <1>1
  <2> QED BY <2>1, <1>5
<1>7. up(i) <=> q % 2 = 0
  BY <1>3 DEF q
<1>8. CASE up(i)
  <2>1. q + 1 \in Nat /\ (q + 1) % 2 = 1 /\ q + 1 < 2 * m
    BY <1>8, <1>7, <1>5, <1>6
  <2>2. i + s = (q + 1) * s + r
    BY <1>5, <1>1
  <2>3. (i + s) \div s = q + 1
    BY <2>1, <2>2, <1>1, <1>5, Quotient
  <2>4. ~ up(i + s)
    BY <2>1, <2>3, <1>3
  <2>5. i + s < 2 * m * s
    <3>1. 2 * m - (q + 2) \in Nat
      BY <2>1, <1>5
    <3>2. (2 * m - (q + 2)) * s >= 0
      BY <3>1, <1>1
    <3>3. (q + 2) * s <= 2 * m * s
      BY <3>2, <1>1, <1>5
    <3> QED BY <3>3, <2>2, <1>5, <1>1
  <2>6. Partner(v, l, i) = i + s
    BY <1>8 DEF Partner, s, up
  <2>7. i + s \in Wires(v) /\ (i + s) - s = i
    BY <2>5, <1>1, <1>2, <1>4 DEF Wires
  <2>8. Partner(v, l, i + s) = i
    BY <2>4, <2>7 DEF Partner, s, up
  <2>9. SwitchAt(v, l, i) = i /\ SwitchAt(v, l, i + s) = i
    BY <1>8, <2>4, <2>8 DEF SwitchAt, up
  <2>10. i \in UpperWires(v, l)
    BY <1>8 DEF UpperWires, up
  <2> QED BY <2>6, <2>7, <2>8, <2>9, <2>10
<1>9. CASE ~ up(i)
  <2>1. q - 1 \in Nat /\ (q - 1) % 2 = 0
    BY <1>9, <1>7, <1>5
  <2>2. i - s = (q - 1) * s + r
    BY <1>5, <1>1
  <2>3. (i - s) \div s = q - 1
    BY <2>1, <2>2, <1>1, <1>5, Quotient
  <2>4. up(i - s)
    BY <2>1, <2>3, <1>3
  <2>5. i - s >= 0
    BY <2>1, <2>2, <1>1, <1>5
  <2>6. Partner(v, l, i) = i - s
    BY <1>9 DEF Partner, s, up
  <2>7. i - s \in Wires(v) /\ (i - s) + s = i
    BY <2>5, <1>1, <1>2, <1>4 DEF Wires
  <2>8. Partner(v, l, i - s) = i
    BY <2>4, <2>7 DEF Partner, s, up
  <2>9. SwitchAt(v, l, i) = i - s /\ SwitchAt(v, l, i - s) = i - s
    BY <1>9, <2>4, <2>6 DEF SwitchAt, up
  <2>10. i - s \in UpperWires(v, l)
    BY <2>4, <2>7 DEF UpperWires, up
  <2>11. i \notin UpperWires(v, l)
    BY <1>9 DEF UpperWires, up
  <2> QED BY <2>6, <2>7, <2>8, <2>9, <2>10, <2>11
<1> QED BY <1>8, <1>9

(***************************************************************************)
(* What the constraints say of the original trace: times increase.         *)
(***************************************************************************)
LEMMA LayoutType ==
  /\ PlTime \in Nat /\ PlTime > 0
  /\ PlDepth = PlTime + 2
  /\ PlDepth \in Nat
  /\ PlValue \in Nat /\ PlDepth < PlValue
  /\ PlInstr \in Nat /\ PlValue < PlInstr
  /\ LexLimbs = 0 .. PlTime + 1
  /\ Payload = 0 .. PlInstr
  /\ LimbBase \in Nat /\ LimbBase > 1
<1>1. /\ AddrLimbs \in Nat /\ AddrLimbs > 0
      /\ DepthLimbs \in Nat /\ DepthLimbs > 0
      /\ ValueLimbs \in Nat /\ ValueLimbs > 0
      /\ LimbBase \in Nat /\ LimbBase > 1
  BY ZincAssumption
<1> QED BY <1>1 DEF PlTime, PlDepth, PlValue, PlInstr, TimeLimbs, LexLimbs, Payload

LEMMA CellType ==
  ASSUME NEW row \in Row, NEW p \in Payload
  PROVE  row[p] \in Nat /\ row[p] < LimbBase
BY LayoutType DEF Row, Cells

LEMMA TimeOfType ==
  ASSUME NEW row \in Row
  PROVE  TimeOf(row) \in Nat
<1>1. PlTime \in Payload /\ PlTime + 1 \in Payload
  BY LayoutType
<1>2. row[PlTime] \in Nat /\ row[PlTime + 1] \in Nat
  BY <1>1, CellType
<1> QED BY <1>2, LayoutType DEF TimeOf

LEMMA NextIsLater ==
  ASSUME NEW cur \in Row, NEW next \in Row, NEW hi \in {0, 1},
         OriginalConstraints(cur, next, hi)
  PROVE  TimeOf(cur) < TimeOf(next)
<1> DEFINE a == cur[PlTime]
           b == cur[PlTime + 1]
           c == next[PlTime]
           d == next[PlTime + 1]
<1>1. PlTime \in Payload /\ PlTime + 1 \in Payload
  BY LayoutType
<1>2. /\ a \in Nat /\ b \in Nat /\ c \in Nat /\ d \in Nat
      /\ b < LimbBase /\ d < LimbBase /\ LimbBase \in Nat
  BY <1>1, CellType, LayoutType
<1>3. /\ (1 - hi) * (c - a) = 0
      /\ hi * (c - a) + (1 - hi) * (d - b) - 1 >= 0
  BY <1>2 DEF OriginalConstraints, Cells
<1>4. TimeOf(cur) = LimbBase * a + b /\ TimeOf(next) = LimbBase * c + d
  BY DEF TimeOf
<1> HIDE DEF a, b, c, d
<1>5. CASE hi = 0
  <2>1. c = a /\ d > b
    BY <1>5, <1>3, <1>2
  <2> QED BY <2>1, <1>2, <1>4
<1>6. CASE hi = 1
  <2>1. c - a - 1 \in Nat
    BY <1>6, <1>3, <1>2
  <2>2. LimbBase * (c - a - 1) >= 0
    BY <2>1, <1>2
  <2>3. LimbBase * a + LimbBase <= LimbBase * c
    BY <2>2, <1>2
  <2>4. LimbBase * a \in Nat /\ LimbBase * c \in Nat
    BY <1>2
  <2> QED BY <2>3, <2>4, <1>2, <1>4
<1> QED BY <1>5, <1>6

\* The constraints of every pair of neighbours.
OriginalRowsLinked(seq, n) ==
  \A i \in 0 .. n - 2 : \E hi \in {0, 1} : OriginalConstraints(seq[i], seq[i + 1], hi)

LEMMA TimesIncrease ==
  ASSUME NEW n \in Nat, NEW seq \in [0 .. n - 1 -> Row], OriginalRowsLinked(seq, n),
         NEW i \in 0 .. n - 1, NEW j \in 0 .. n - 1, i < j
  PROVE  TimeOf(seq[i]) < TimeOf(seq[j])
<1> DEFINE T == {k \in i + 1 .. n - 1 : ~ (TimeOf(seq[i]) < TimeOf(seq[k]))}
<1>1. SUFFICES ASSUME T # {} PROVE FALSE
  OBVIOUS
<1>2. PICK k \in T : \A l \in T : k <= l
  <2>1. T \in SUBSET Nat
    OBVIOUS
  <2> QED BY <2>1, <1>1, Least
<1>3. k - 1 \in 0 .. n - 2 /\ k - 1 \in 0 .. n - 1 /\ k \in 0 .. n - 1 /\ (k - 1) + 1 = k
  BY <1>2
<1>4. TimeOf(seq[k - 1]) < TimeOf(seq[k])
  <2>1. PICK hi \in {0, 1} : OriginalConstraints(seq[k - 1], seq[(k - 1) + 1], hi)
    BY <1>3 DEF OriginalRowsLinked
  <2>2. OriginalConstraints(seq[k - 1], seq[k], hi)
    BY <2>1, <1>3
  <2>3. seq[k - 1] \in Row /\ seq[k] \in Row
    BY <1>3
  <2> QED BY <2>2, <2>3, NextIsLater
<1>5. TimeOf(seq[i]) \in Nat /\ TimeOf(seq[k - 1]) \in Nat /\ TimeOf(seq[k]) \in Nat
  BY <1>3, TimeOfType
<1>6. CASE k - 1 = i
  BY <1>6, <1>4, <1>2
<1>7. CASE k - 1 # i
  <2>1. k - 1 \in i + 1 .. n - 1 /\ ~ (k <= k - 1)
    BY <1>7, <1>2
  <2>2. TimeOf(seq[i]) < TimeOf(seq[k - 1])
    BY <2>1, <1>2
  <2> QED BY <2>2, <1>4, <1>5, <1>2
<1> QED BY <1>6, <1>7

(***************************************************************************)
(* What the constraints say of the sorted trace.                           *)
(***************************************************************************)
\* Rows in the order of addresses, then of times: k is the first limb in which they differ.
LessAt(a, b, k) ==
  k \in LexLimbs /\ a[k] < b[k] /\ \A l \in LexLimbs : l < k => a[l] = b[l]

Less(a, b) == \E k \in LexLimbs : LessAt(a, b, k)

LEMMA LessTransitive ==
  ASSUME NEW a \in Row, NEW b \in Row, NEW c \in Row, Less(a, b), Less(b, c)
  PROVE  Less(a, c)
<1>1. PICK j \in LexLimbs : LessAt(a, b, j)
  BY DEF Less
<1>2. PICK k \in LexLimbs : LessAt(b, c, k)
  BY DEF Less
<1>3. \A p \in LexLimbs : a[p] \in Nat /\ b[p] \in Nat /\ c[p] \in Nat /\ p \in Nat
  BY CellType, LayoutType
<1>4. CASE j <= k
  <2>1. a[j] < c[j]
    BY <1>1, <1>2, <1>3, <1>4 DEF LessAt
  <2>2. \A l \in LexLimbs : l < j => a[l] = c[l]
    BY <1>1, <1>2, <1>3, <1>4 DEF LessAt
  <2> QED BY <2>1, <2>2 DEF Less, LessAt
<1>5. CASE k < j
  <2>1. a[k] < c[k]
    BY <1>1, <1>2, <1>3, <1>5 DEF LessAt
  <2>2. \A l \in LexLimbs : l < k => a[l] = c[l]
    BY <1>1, <1>2, <1>3, <1>5 DEF LessAt
  <2> QED BY <2>1, <2>2 DEF Less, LessAt
<1> QED BY <1>3, <1>4, <1>5

\* Of two rows of one address in this order the first is the earlier one.
LEMMA LessOfOneAddress ==
  ASSUME NEW a \in Row, NEW b \in Row, Less(a, b), SameAddress(a, b)
  PROVE  TimeOf(a) < TimeOf(b)
<1>1. PICK k \in LexLimbs : LessAt(a, b, k)
  BY DEF Less
<1>2. PlTime \in LexLimbs /\ PlTime + 1 \in LexLimbs /\ PlTime \in Nat
      /\ PlTime \in Payload /\ PlTime + 1 \in Payload
  BY LayoutType
<1>3. k \in {PlTime, PlTime + 1}
  <2>1. k \notin 0 .. PlTime - 1
    <3>1. ASSUME k \in 0 .. PlTime - 1 PROVE FALSE
      <4>1. a[k] = b[k]
        BY <3>1 DEF SameAddress, SamePart
      <4>2. k \in Payload
        BY LayoutType
      <4>3. a[k] \in Nat /\ b[k] \in Nat
        BY <4>2, CellType
      <4> QED BY <4>1, <4>3, <1>1 DEF LessAt
    <3> QED BY <3>1
  <2> QED BY <2>1, LayoutType
<1>4. /\ a[PlTime] \in Nat /\ a[PlTime + 1] \in Nat /\ a[PlTime + 1] < LimbBase
      /\ b[PlTime] \in Nat /\ b[PlTime + 1] \in Nat /\ LimbBase \in Nat
  BY <1>2, CellType, LayoutType
<1>5. CASE k = PlTime
  <2>1. b[PlTime] - a[PlTime] - 1 \in Nat
    BY <1>5, <1>1, <1>4 DEF LessAt
  <2>2. LimbBase * (b[PlTime] - a[PlTime] - 1) >= 0
    BY <2>1, <1>4
  <2>3. LimbBase * a[PlTime] + LimbBase <= LimbBase * b[PlTime]
    BY <2>2, <1>4
  <2>4. LimbBase * a[PlTime] \in Nat /\ LimbBase * b[PlTime] \in Nat
    BY <1>4
  <2> QED BY <2>3, <2>4, <1>4 DEF TimeOf
<1>6. CASE k = PlTime + 1
  <2>1. a[PlTime] = b[PlTime] /\ a[PlTime + 1] < b[PlTime + 1]
    BY <1>6, <1>1, <1>2 DEF LessAt
  <2> QED BY <2>1, <1>4 DEF TimeOf
<1> QED BY <1>3, <1>5, <1>6

LEMMA NextIsGreater ==
  ASSUME NEW cur \in Row, NEW next \in Row, NEW k \in LexLimbs, SortedConstraints(cur, next, k)
  PROVE  /\ Less(cur, next)
         /\ next[PlInstr] \in {0, 1}
         /\ next[PlInstr] = 0 => SameAddress(cur, next) /\ SameValue(cur, next)
<1> DEFINE d == [j \in LexLimbs |-> next[j] - cur[j]]
           same == IF k >= AddrLimbs THEN 1 ELSE 0
           w == same * (next[PlInstr] - 1)
<1>1. /\ next[PlInstr] * (next[PlInstr] - 1) = 0
      /\ \A j \in LexLimbs : j < k => d[j] = 0
      /\ d[k] - 1 \in Cells
      /\ \A p \in PlValue .. PlInstr - 1 : w * (next[p] - cur[p]) = 0
      /\ (1 - same) * (next[PlInstr] - 1) = 0
  BY DEF SortedConstraints
<1>2. \A p \in Payload : next[p] \in Nat /\ cur[p] \in Nat
  BY CellType
<1>3. LexLimbs \subseteq Payload /\ PlInstr \in Payload /\ PlValue .. PlInstr - 1 \subseteq Payload
      /\ 0 .. PlTime - 1 \subseteq LexLimbs
  BY LayoutType
<1>4. \A j \in LexLimbs : j < k => cur[j] = next[j]
  <2>1. \A j \in LexLimbs : d[j] = next[j] - cur[j]
    OBVIOUS
  <2>2. \A j \in LexLimbs : j < k => next[j] - cur[j] = 0
    BY <2>1, <1>1
  <2>3. \A j \in LexLimbs : next[j] \in Nat /\ cur[j] \in Nat
    BY <1>2, <1>3
  <2> QED BY <2>2, <2>3
<1>5. cur[k] < next[k]
  <2>1. next[k] - cur[k] - 1 \in Nat
    BY <1>1, LayoutType DEF Cells
  <2>2. next[k] \in Nat /\ cur[k] \in Nat
    BY <1>2, <1>3
  <2> QED BY <2>1, <2>2
<1>6. Less(cur, next)
  BY <1>4, <1>5 DEF Less, LessAt
<1>7. next[PlInstr] \in {0, 1}
  BY <1>1, <1>2, <1>3
<1>8. ASSUME next[PlInstr] = 0 PROVE SameAddress(cur, next) /\ SameValue(cur, next)
  <2>1. same = 1
    BY <1>1, <1>8
  <2>2. k >= PlTime
    BY <2>1 DEF PlTime
  <2>3. \A p \in 0 .. PlTime - 1 : p \in LexLimbs /\ p < k
    BY <2>2, <1>3, LayoutType
  <2>4. SameAddress(cur, next)
    BY <2>3, <1>4 DEF SameAddress, SamePart
  <2>5. w = -1
    BY <2>1, <1>8
  <2>6. \A p \in PlValue .. PlInstr - 1 : (-1) * (next[p] - cur[p]) = 0
    BY <2>5, <1>1
  <2>7. \A p \in PlValue .. PlInstr - 1 : next[p] \in Nat /\ cur[p] \in Nat
    BY <1>2, <1>3
  <2>8. \A p \in PlValue .. PlInstr - 1 : cur[p] = next[p]
    BY <2>6, <2>7
  <2> QED BY <2>4, <2>8 DEF SameValue, SamePart
<1> QED BY <1>6, <1>7, <1>8

\* The constraints of the first row and of every pair of neighbours.
SortedRowsLinked(seq, n) ==
  /\ FirstSorted(seq[0])
  /\ \A i \in 0 .. n - 2 : \E k \in LexLimbs : SortedConstraints(seq[i], seq[i + 1], k)

LEMMA SortedNeighbours ==
  ASSUME NEW n \in Nat, n > 0, NEW seq \in [0 .. n - 1 -> Row], SortedRowsLinked(seq, n),
         NEW i \in 1 .. n - 1
  PROVE  /\ i - 1 \in 0 .. n - 1 /\ i \in 0 .. n - 1
         /\ Less(seq[i - 1], seq[i])
         /\ seq[i][PlInstr] \in {0, 1}
         /\ seq[i][PlInstr] = 0 =>
              SameAddress(seq[i - 1], seq[i]) /\ SameValue(seq[i - 1], seq[i])
<1>1. i - 1 \in 0 .. n - 2 /\ i - 1 \in 0 .. n - 1 /\ i \in 0 .. n - 1 /\ (i - 1) + 1 = i
  OBVIOUS
<1>2. PICK k \in LexLimbs : SortedConstraints(seq[i - 1], seq[(i - 1) + 1], k)
  BY <1>1 DEF SortedRowsLinked
<1>3. SortedConstraints(seq[i - 1], seq[i], k) /\ seq[i - 1] \in Row /\ seq[i] \in Row
  BY <1>1, <1>2
<1> QED BY <1>1, <1>3, NextIsGreater

LEMMA RowsIncrease ==
  ASSUME NEW n \in Nat, n > 0, NEW seq \in [0 .. n - 1 -> Row], SortedRowsLinked(seq, n),
         NEW i \in 0 .. n - 1, NEW j \in 0 .. n - 1, i < j
  PROVE  Less(seq[i], seq[j])
<1> DEFINE T == {k \in i + 1 .. n - 1 : ~ Less(seq[i], seq[k])}
<1>1. SUFFICES ASSUME T # {} PROVE FALSE
  OBVIOUS
<1>2. PICK k \in T : \A l \in T : k <= l
  <2>1. T \in SUBSET Nat
    OBVIOUS
  <2> QED BY <2>1, <1>1, Least
<1>3. k \in 1 .. n - 1
  BY <1>2
<1>4. /\ k - 1 \in 0 .. n - 1 /\ k \in 0 .. n - 1
      /\ Less(seq[k - 1], seq[k])
  BY <1>3, SortedNeighbours
<1>5. CASE k - 1 = i
  BY <1>5, <1>4, <1>2
<1>6. CASE k - 1 # i
  <2>1. k - 1 \in i + 1 .. n - 1 /\ ~ (k <= k - 1)
    BY <1>6, <1>2
  <2>2. Less(seq[i], seq[k - 1])
    BY <2>1, <1>2
  <2>3. seq[i] \in Row /\ seq[k - 1] \in Row /\ seq[k] \in Row
    BY <1>4
  <2> QED BY <2>2, <2>3, <1>4, <1>2, LessTransitive
<1> QED BY <1>5, <1>6

\* Row w is the write that row i, a read or the write itself, is about: between them
\* only reads of the same address.
WriteOf(seq, w, i) ==
  /\ w \in 0 .. i
  /\ seq[w][PlInstr] = 1
  /\ SameAddress(seq[w], seq[i]) /\ SameValue(seq[w], seq[i])
  /\ \A k \in w + 1 .. i : seq[k][PlInstr] = 0

LEMMA EveryRowHasItsWrite ==
  ASSUME NEW n \in Nat, n > 0, NEW seq \in [0 .. n - 1 -> Row], SortedRowsLinked(seq, n),
         NEW i \in 0 .. n - 1
  PROVE  \E w \in 0 .. i : WriteOf(seq, w, i)
<1> DEFINE T == {k \in 0 .. n - 1 : ~ \E w \in 0 .. k : WriteOf(seq, w, k)}
<1>1. SUFFICES ASSUME T # {} PROVE FALSE
  OBVIOUS
<1>2. PICK k \in T : \A l \in T : k <= l
  <2>1. T \in SUBSET Nat
    OBVIOUS
  <2> QED BY <2>1, <1>1, Least
<1>3. k \in 0 .. n - 1 /\ k \in 0 .. k
  BY <1>2
<1>4. ASSUME seq[k][PlInstr] = 1 PROVE FALSE
  <2>1. WriteOf(seq, k, k)
    BY <1>4, <1>3 DEF WriteOf, SameAddress, SameValue, SamePart
  <2> QED BY <2>1, <1>2, <1>3
<1>5. seq[0][PlInstr] = 1
  <2>1. seq[0] \in Row /\ PlInstr \in Payload
    BY LayoutType
  <2>2. seq[0][PlInstr] \in Nat
    BY <2>1, CellType
  <2> QED BY <2>2 DEF SortedRowsLinked, FirstSorted
<1>6. k # 0
  BY <1>4, <1>5
<1>7. k \in 1 .. n - 1
  BY <1>6, <1>3
<1>8. /\ k - 1 \in 0 .. n - 1
      /\ seq[k][PlInstr] = 0
      /\ SameAddress(seq[k - 1], seq[k]) /\ SameValue(seq[k - 1], seq[k])
  BY <1>4, <1>7, SortedNeighbours
<1>9. PICK w \in 0 .. k - 1 : WriteOf(seq, w, k - 1)
  <2>1. ~ (k <= k - 1)
    BY <1>3
  <2> QED BY <2>1, <1>2, <1>8
<1>10. WriteOf(seq, w, k)
  <2>1. w \in 0 .. k
    BY <1>9, <1>7
  <2>2. SameAddress(seq[w], seq[k]) /\ SameValue(seq[w], seq[k])
    BY <1>8, <1>9 DEF WriteOf, SameAddress, SameValue, SamePart
  <2>3. \A l \in w + 1 .. k : l = k \/ l \in w + 1 .. k - 1
    BY <1>7, <1>9
  <2>4. \A l \in w + 1 .. k : seq[l][PlInstr] = 0
    BY <2>3, <1>8, <1>9 DEF WriteOf
  <2> QED BY <2>1, <2>2, <2>4, <1>9 DEF WriteOf
<1>11. w \in 0 .. k
  BY <1>10 DEF WriteOf
<1> QED BY <1>10, <1>11, <1>2

(***************************************************************************)
(* Soundness: rows that satisfy the constraints of the sorted trace, and   *)
(* that are permuted so that times increase, are the trace of a memory.    *)
(***************************************************************************)
\* p is a permutation of the first n numbers, and b is a permuted by it.
PermutedBy(p, a, b, n) ==
  /\ p \in [0 .. n - 1 -> 0 .. n - 1]
  /\ \A j \in 0 .. n - 1 : \E i \in 0 .. n - 1 : p[i] = j
  /\ \A i, j \in 0 .. n - 1 : p[i] = p[j] => i = j
  /\ \A i \in 0 .. n - 1 : b[i] = a[p[i]]

LEMMA ConstraintsAreSound ==
  ASSUME NEW n \in Nat, n > 0, NEW a \in [0 .. n - 1 -> Row], NEW b \in [0 .. n - 1 -> Row],
         NEW p, PermutedBy(p, a, b, n),
         SortedRowsLinked(a, n), FirstOriginal(b[0]), OriginalRowsLinked(b, n)
  PROVE  ValidTrace(b)
<1> DEFINE N == 0 .. n - 1
<1>0. DOMAIN b = N
  OBVIOUS
<1>1. p \in [N -> N]
      /\ (\A j \in N : \E i \in N : p[i] = j)
      /\ (\A i, j \in N : p[i] = p[j] => i = j)
      /\ (\A i \in N : b[i] = a[p[i]])
  BY DEF PermutedBy
<1>2. \A i \in N : a[i] \in Row /\ b[i] \in Row /\ TimeOf(a[i]) \in Nat /\ TimeOf(b[i]) \in Nat
  BY TimeOfType
<1>3. TimeOf(b[0]) = 0
  BY LayoutType DEF FirstOriginal, TimeOf
<1>4. \A i, j \in N : i < j => TimeOf(b[i]) < TimeOf(b[j])
  BY TimesIncrease
<1>5. \A i \in N : a[i][PlInstr] \in {0, 1}
  <2>1. SUFFICES ASSUME NEW i \in N PROVE a[i][PlInstr] \in {0, 1}
    OBVIOUS
  <2>2. CASE i = 0
    <3>1. a[0][PlInstr] \in Nat
      BY <2>2, <1>2, CellType, LayoutType
    <3> QED BY <3>1, <2>2 DEF SortedRowsLinked, FirstSorted
  <2>3. CASE i # 0
    BY <2>3, SortedNeighbours
  <2> QED BY <2>2, <2>3
<1>6. ASSUME NEW i \in N PROVE b[i][PlInstr] \in {0, 1}
  <2>1. p[i] \in N /\ b[i] = a[p[i]]
    BY <1>1
  <2> QED BY <2>1, <1>5
<1>7. ASSUME NEW w \in N, NEW i \in N, w < i, SameAddress(a[w], a[i])
      PROVE  TimeOf(a[w]) < TimeOf(a[i])
  BY <1>7, RowsIncrease, LessOfOneAddress, <1>2
<1>8. ConsistentReads(b)
  <2>1. SUFFICES ASSUME NEW i \in N, b[i][PlInstr] = 0
                 PROVE  \E w \in N :
                          /\ w < i /\ b[w][PlInstr] = 1
                          /\ SameAddress(b[w], b[i]) /\ SameValue(b[w], b[i])
                          /\ \A k \in N :
                               w < k /\ k < i /\ b[k][PlInstr] = 1 => ~ SameAddress(b[k], b[i])
    BY <1>0 DEF ConsistentReads
  <2>2. p[i] \in N /\ b[i] = a[p[i]] /\ a[p[i]][PlInstr] = 0
    BY <2>1, <1>1
  <2>3. PICK u \in 0 .. p[i] : WriteOf(a, u, p[i])
    BY <2>2, EveryRowHasItsWrite
  <2>4. u \in N /\ u <= p[i] /\ a[u][PlInstr] = 1
    BY <2>2, <2>3 DEF WriteOf
  <2>5. u # p[i] /\ u < p[i]
    BY <2>2, <2>4
  <2>6. SameAddress(a[u], a[p[i]]) /\ SameValue(a[u], a[p[i]])
    BY <2>3 DEF WriteOf
  <2>7. PICK w \in N : p[w] = u
    BY <2>4, <1>1
  <2>8. b[w] = a[u]
    BY <2>7, <1>1
  <2>9. TimeOf(b[w]) < TimeOf(b[i])
    BY <1>7, <2>4, <2>2, <2>5, <2>6, <2>8
  <2>10. w < i
    <3>1. ~ (i < w)
      BY <2>9, <1>4, <1>2
    <3>2. i # w
      BY <2>9, <1>2
    <3> QED BY <3>1, <3>2
  <2>11. ASSUME NEW k \in N, w < k, k < i, b[k][PlInstr] = 1, SameAddress(b[k], b[i])
         PROVE  FALSE
    <3>1. TimeOf(b[w]) < TimeOf(b[k]) /\ TimeOf(b[k]) < TimeOf(b[i])
      BY <2>11, <1>4
    <3>2. p[k] \in N /\ b[k] = a[p[k]]
      BY <1>1
    <3>3. SameAddress(a[p[k]], a[p[i]]) /\ SameAddress(a[p[k]], a[u]) /\ SameAddress(a[u], a[p[k]])
          /\ SameAddress(a[p[i]], a[p[k]])
      <4>1. SameAddress(a[p[k]], a[p[i]])
        BY <2>11, <3>2, <2>2
      <4> QED BY <4>1, <2>6 DEF SameAddress, SamePart
    <3>4. TimeOf(a[u]) < TimeOf(a[p[k]]) /\ TimeOf(a[p[k]]) < TimeOf(a[p[i]])
      BY <3>1, <3>2, <2>8, <2>2
    <3>5. TimeOf(a[u]) \in Nat /\ TimeOf(a[p[k]]) \in Nat /\ TimeOf(a[p[i]]) \in Nat
      BY <1>2, <2>4, <3>2, <2>2
    <3>6. ~ (p[k] < u)
      BY <1>7, <3>2, <2>4, <3>3, <3>4, <3>5
    <3>7. ~ (p[i] < p[k])
      BY <1>7, <3>2, <2>2, <3>3, <3>4, <3>5
    <3>8. p[k] # u /\ p[k] # p[i]
      BY <3>4, <3>5
    <3>9. p[k] \in u + 1 .. p[i]
      BY <3>6, <3>7, <3>8, <3>2, <2>2, <2>4
    <3>10. a[p[k]][PlInstr] = 0
      BY <3>9, <2>3 DEF WriteOf
    <3> QED BY <3>10, <3>2, <2>11
  <2>12. b[w][PlInstr] = 1 /\ SameAddress(b[w], b[i]) /\ SameValue(b[w], b[i])
    BY <2>8, <2>4, <2>6, <2>2
  <2> QED BY <2>7, <2>10, <2>11, <2>12
<1> QED BY <1>0, <1>3, <1>4, <1>6, <1>8 DEF ValidTrace

(***************************************************************************)
(* The network: every layer permutes the rows.                             *)
(***************************************************************************)
Permuted(a, b, n) == \E p : PermutedBy(p, a, b, n)

LEMMA WiresAre ==
  ASSUME NEW v \in Nat
  PROVE  /\ Wires(v) = 0 .. PowerOf2[v] - 1
         /\ PowerOf2[v] \in Nat /\ PowerOf2[v] > 0
BY PowerOf2Type DEF Wires

\* Swapping the wires of any set of switches of a layer.
Swapped(v, l, X, b) ==
  [i \in Wires(v) |-> IF SwitchAt(v, l, i) \in X THEN b[Partner(v, l, i)] ELSE b[i]]

LEMMA SwappingPermutes ==
  ASSUME NEW v \in Nat, v > 0, NEW l \in Layers(v), NEW X, NEW a, NEW b, NEW c,
         Permuted(a, b, PowerOf2[v]), c = Swapped(v, l, X, b)
  PROVE  Permuted(a, c, PowerOf2[v])
<1> DEFINE W == Wires(v)
           g(i) == IF SwitchAt(v, l, i) \in X THEN Partner(v, l, i) ELSE i
<1>0. W = 0 .. PowerOf2[v] - 1
  BY WiresAre
<1>1. PICK p : PermutedBy(p, a, b, PowerOf2[v])
  BY DEF Permuted
<1>2. /\ p \in [W -> W]
      /\ \A j \in W : \E i \in W : p[i] = j
      /\ \A i, j \in W : p[i] = p[j] => i = j
      /\ \A i \in W : b[i] = a[p[i]]
  BY <1>0, <1>1 DEF PermutedBy
<1>3. \A i \in W : c[i] = b[g(i)]
  BY DEF Swapped
<1>4. \A i \in W : g(i) \in W /\ g(g(i)) = i
  BY Partners
<1> HIDE DEF g, W
<1> DEFINE q == [i \in W |-> p[g(i)]]
<1>5. q \in [W -> W]
  BY <1>2, <1>4
<1>6. \A i \in W : q[i] = p[g(i)]
  OBVIOUS
<1> HIDE DEF q
<1>7. ASSUME NEW j \in W PROVE \E i \in W : q[i] = j
  <2>1. PICK i \in W : p[i] = j
    BY <1>2
  <2>2. q[g(i)] = j /\ g(i) \in W
    BY <2>1, <1>4, <1>6
  <2> QED BY <2>2
<1>8. ASSUME NEW i \in W, NEW j \in W, q[i] = q[j] PROVE i = j
  <2>1. g(i) = g(j)
    BY <1>8, <1>6, <1>4, <1>2
  <2> QED BY <2>1, <1>4
<1>9. ASSUME NEW i \in W PROVE c[i] = a[q[i]]
  BY <1>3, <1>4, <1>2, <1>6
<1>10. PermutedBy(q, a, c, PowerOf2[v])
  BY <1>0, <1>5, <1>7, <1>8, <1>9 DEF PermutedBy
<1> QED BY <1>10 DEF Permuted

LEMMA LayerSwaps ==
  ASSUME NEW v \in Nat, v > 0, NEW l \in Layers(v), NEW b, NEW bits
  PROVE  ApplyLayer(b, v, l, bits) = Swapped(v, l, {i \in Wires(v) : bits[i]}, b)
<1> DEFINE X == {i \in Wires(v) : bits[i]}
<1>1. \A i \in Wires(v) : SwitchAt(v, l, i) \in Wires(v)
  BY Partners DEF UpperWires
<1>2. \A i \in Wires(v) : SwitchAt(v, l, i) \in X <=> bits[SwitchAt(v, l, i)]
  BY <1>1
<1> HIDE DEF X
<1>3. ASSUME NEW i \in Wires(v)
      PROVE  (IF bits[SwitchAt(v, l, i)] THEN b[Partner(v, l, i)] ELSE b[i])
               = (IF SwitchAt(v, l, i) \in X THEN b[Partner(v, l, i)] ELSE b[i])
  <2>1. CASE bits[SwitchAt(v, l, i)]
    <3>1. SwitchAt(v, l, i) \in X
      BY <2>1, <1>2
    <3> QED BY <2>1, <3>1, Zenon
  <2>2. CASE ~ bits[SwitchAt(v, l, i)]
    <3>1. SwitchAt(v, l, i) \notin X
      BY <2>2, <1>2
    <3> QED BY <2>2, <3>1, Zenon
  <2> QED BY <2>1, <2>2, Zenon
<1>4. ApplyLayer(b, v, l, bits) = Swapped(v, l, X, b)
  BY <1>3, Zenon DEF ApplyLayer, Swapped
<1> QED BY <1>4 DEF X

LEMMA RowsEqual ==
  ASSUME NEW r \in Row, NEW q, q = [p \in Payload |-> q[p]], \A p \in Payload : q[p] = r[p]
  PROVE  q = r
BY DEF Row

\* The constraints of a layer with boolean switches have one solution: a swap.
LEMMA SolutionSwaps ==
  ASSUME NEW v \in Nat, v > 0, NEW l \in Layers(v), NEW b \in [Wires(v) -> Row],
         NEW s \in [UpperWires(v, l) -> {-1, 0, 1, 2}], BooleanSwitches(s)
  PROVE  SwapSolution(b, v, l, s) = Swapped(v, l, {i \in UpperWires(v, l) : s[i] = 1}, b)
<1> DEFINE X == {i \in UpperWires(v, l) : s[i] = 1}
           out(i) == LET j == Partner(v, l, i)
                         sw == s[SwitchAt(v, l, i)]
                     IN [p \in Payload |-> b[i][p] + sw * (b[j][p] - b[i][p])]
<1>1. ASSUME NEW i \in Wires(v)
      PROVE  out(i) = IF SwitchAt(v, l, i) \in X THEN b[Partner(v, l, i)] ELSE b[i]
  <2> DEFINE j == Partner(v, l, i)
             w == SwitchAt(v, l, i)
  <2>1. j \in Wires(v) /\ w \in UpperWires(v, l)
    BY Partners
  <2> HIDE DEF j, w
  <2>2. s[w] \in {0, 1}
    <3>1. s[w] \in {-1, 0, 1, 2} /\ s[w] * (s[w] - 1) = 0
      BY <2>1 DEF BooleanSwitches
    <3> QED BY <3>1
  <2>3. b[i] \in Row /\ b[j] \in Row
    BY <2>1
  <2>4. \A p \in Payload : b[i][p] \in Nat /\ b[j][p] \in Nat
    BY <2>3, CellType
  <2>5. out(i) = [p \in Payload |-> b[i][p] + s[w] * (b[j][p] - b[i][p])]
    BY DEF w, j
  <2> HIDE DEF out
  <2>6. \A p \in Payload : out(i)[p] = b[i][p] + s[w] * (b[j][p] - b[i][p])
    BY <2>5
  <2>7. out(i) = [p \in Payload |-> out(i)[p]]
    BY <2>5
  <2>8. CASE s[w] = 1
    <3>1. \A p \in Payload : out(i)[p] = b[j][p]
      BY <2>8, <2>6, <2>4
    <3>2. out(i) = b[j]
      BY <3>1, <2>7, <2>3, RowsEqual
    <3>3. w \in X
      BY <2>8, <2>1
    <3> QED BY <3>2, <3>3 DEF w, j
  <2>9. CASE s[w] = 0
    <3>1. \A p \in Payload : out(i)[p] = b[i][p]
      BY <2>9, <2>6, <2>4
    <3>2. out(i) = b[i]
      BY <3>1, <2>7, <2>3, RowsEqual
    <3>3. w \notin X
      BY <2>9
    <3> QED BY <3>2, <3>3 DEF w, j
  <2> QED BY <2>2, <2>8, <2>9
<1> HIDE DEF X
<1>2. SwapSolution(b, v, l, s) = [i \in Wires(v) |-> out(i)]
  BY DEF SwapSolution
<1> HIDE DEF out
<1>3. SwapSolution(b, v, l, s) = Swapped(v, l, X, b)
  BY <1>1, <1>2, Zenon DEF Swapped
<1> QED BY <1>3 DEF X

LEMMA SwappedType ==
  ASSUME NEW v \in Nat, v > 0, NEW l \in Layers(v), NEW b \in [Wires(v) -> Row], NEW X
  PROVE  Swapped(v, l, X, b) \in [Wires(v) -> Row]
BY Partners DEF Swapped

Copies(a, row) == {i \in DOMAIN a : a[i] = row}

\* A permutation leaves the number of copies of a row.
LEMMA PermutedKeepsCopies ==
  ASSUME NEW n \in Nat, NEW a \in [0 .. n - 1 -> Row], NEW b \in [0 .. n - 1 -> Row],
         Permuted(a, b, n), NEW row
  PROVE  Cardinality(Copies(a, row)) = Cardinality(Copies(b, row))
<1> DEFINE N == 0 .. n - 1
           A == {i \in N : a[i] = row}
           B == {i \in N : b[i] = row}
<1>0. DOMAIN a = N /\ DOMAIN b = N
  OBVIOUS
<1>1. PICK p : PermutedBy(p, a, b, n)
  BY DEF Permuted
<1>2. /\ p \in [N -> N]
      /\ \A j \in N : \E i \in N : p[i] = j
      /\ \A i, j \in N : p[i] = p[j] => i = j
      /\ \A i \in N : b[i] = a[p[i]]
  BY <1>1 DEF PermutedBy
<1>3. IsFiniteSet(B)
  <2>1. IsFiniteSet(N)
    BY FS_Interval
  <2>2. B \in SUBSET N
    OBVIOUS
  <2> QED BY <2>1, <2>2, FS_Subset
<1> DEFINE f == [i \in B |-> p[i]]
<1>4. f \in [B -> A]
  BY <1>2
<1>5. \A i, j \in B : f[i] = f[j] => i = j
  BY <1>2
<1>6. \A j \in A : \E i \in B : f[i] = j
  <2>1. SUFFICES ASSUME NEW j \in A PROVE \E i \in B : f[i] = j
    OBVIOUS
  <2>2. PICK i \in N : p[i] = j
    BY <1>2
  <2>3. i \in B
    BY <2>2, <1>2
  <2> QED BY <2>2, <2>3
<1> HIDE DEF A, B, f
<1>7. ExistsBijection(B, A)
  BY <1>4, <1>5, <1>6 DEF ExistsBijection, Bijection, Injection, Surjection, IsInjective
<1>8. Cardinality(A) = Cardinality(B)
  BY <1>3, <1>7, FS_Bijection
<1> QED BY <1>8, <1>0 DEF A, B, Copies

(***************************************************************************)
(* The witness builder: the sorted trace, the padding and the limbs.       *)
(***************************************************************************)
LEMMA PowerOfBaseType ==
  ASSUME NEW n \in Nat
  PROVE  PowerOfBase[n] \in Nat /\ PowerOfBase[n] > 0
<1>0. /\ PowerOfBase \in [Nat -> Nat] /\ PowerOfBase[0] = 1
      /\ \A m \in Nat : PowerOfBase[m + 1] = LimbBase * PowerOfBase[m]
      /\ LimbBase \in Nat /\ LimbBase > 1
  BY PowersOfBase, ZincAssumption DEF PowersOf
<1> DEFINE T == {m \in Nat : ~ PowerOfBase[m] > 0}
<1>1. T = {}
  <2>1. SUFFICES ASSUME T # {} PROVE FALSE
    OBVIOUS
  <2>2. PICK m \in T : \A l \in T : m <= l
    BY <2>1, Least
  <2>3. m # 0
    BY <2>2, <1>0
  <2>4. m - 1 \in Nat /\ (m - 1) + 1 = m /\ ~ (m <= m - 1)
    BY <2>2, <2>3
  <2>5. PowerOfBase[m - 1] > 0 /\ PowerOfBase[m - 1] \in Nat
    BY <2>2, <2>4, <1>0
  <2>6. PowerOfBase[m] = LimbBase * PowerOfBase[m - 1]
    BY <1>0, <2>4
  <2>7. LimbBase * PowerOfBase[m - 1] > 0
    BY <2>5, <1>0
  <2> QED BY <2>2, <2>6, <2>7
<1> QED BY <1>0, <1>1

LEMMA RecordType ==
  ASSUME NEW r \in TraceRecord
  PROVE  /\ r.time_log \in Nat /\ r.time_log < TimeEnd
         /\ r.address \in Nat /\ r.stack_depth \in Nat /\ r.value \in Nat
         /\ r.instruction \in {"Read", "Write"}
<1>1. \A width \in Nat : Words(width) \subseteq Nat /\ \A x \in Words(width) : x < PowerOfBase[width]
  BY PowerOfBaseType DEF Words
<1>2. TimeLimbs \in Nat /\ DepthLimbs \in Nat /\ AddrLimbs \in Nat /\ ValueLimbs \in Nat
  BY ZincAssumption DEF TimeLimbs
<1>3. /\ r.time_log \in Words(TimeLimbs) /\ r.stack_depth \in Words(DepthLimbs)
      /\ r.address \in Words(AddrLimbs) /\ r.value \in Words(ValueLimbs)
      /\ r.instruction \in {"Read", "Write"}
  BY DEF TraceRecord
<1> QED BY <1>1, <1>2, <1>3 DEF TimeEnd

LEMMA LimbType ==
  ASSUME NEW n \in Nat, NEW width \in Nat, NEW k \in 0 .. width - 1
  PROVE  Limb(n, width, k) \in Cells
<1> DEFINE b == PowerOfBase[width - 1 - k]
<1>1. width - 1 - k \in Nat
  OBVIOUS
<1>2. b \in Nat /\ b > 0
  BY <1>1, PowerOfBaseType
<1> HIDE DEF b
<1>3. n \div b \in Nat
  BY <1>2
<1>4. (n \div b) % LimbBase \in 0 .. LimbBase - 1
  BY <1>3, LayoutType
<1> QED BY <1>4 DEF Limb, Cells, b

LEMMA FromRecordType ==
  ASSUME NEW r \in TraceRecord
  PROVE  FromRecord(r) \in Row
<1> DEFINE c(p) == CASE p < PlTime -> Limb(r.address, AddrLimbs, p)
                     [] p \in PlTime .. PlDepth - 1 -> Limb(r.time_log, TimeLimbs, p - PlTime)
                     [] p \in PlDepth .. PlValue - 1 -> Limb(r.stack_depth, DepthLimbs, p - PlDepth)
                     [] p \in PlValue .. PlInstr - 1 -> Limb(r.value, ValueLimbs, p - PlValue)
                     [] p = PlInstr -> IF r.instruction = "Write" THEN 1 ELSE 0
<1>1. r.address \in Nat /\ r.time_log \in Nat /\ r.stack_depth \in Nat /\ r.value \in Nat
  BY RecordType
<1>2. /\ AddrLimbs \in Nat /\ TimeLimbs \in Nat /\ DepthLimbs \in Nat /\ ValueLimbs \in Nat
      /\ PlTime = AddrLimbs /\ PlDepth = PlTime + TimeLimbs
      /\ PlValue = PlDepth + DepthLimbs /\ PlInstr = PlValue + ValueLimbs
      /\ TimeLimbs = 2
  BY ZincAssumption DEF PlTime, PlDepth, PlValue, PlInstr, TimeLimbs
<1>3. ASSUME NEW p \in Payload PROVE c(p) \in Cells
  <2>0. p \in Nat /\ p <= PlInstr
    BY LayoutType
  <2>1. CASE p < PlTime
    <3>1. p \in 0 .. AddrLimbs - 1
      BY <2>0, <2>1, <1>2
    <3>2. Limb(r.address, AddrLimbs, p) \in Cells
      BY <3>1, <1>1, <1>2, LimbType
    <3>3. c(p) = Limb(r.address, AddrLimbs, p)
      BY <2>1, <2>0, <1>2
    <3> QED BY <3>2, <3>3
  <2>2. CASE p \in PlTime .. PlDepth - 1
    <3>1. p - PlTime \in 0 .. TimeLimbs - 1
      BY <2>0, <2>2, <1>2
    <3>2. Limb(r.time_log, TimeLimbs, p - PlTime) \in Cells
      BY <3>1, <1>1, <1>2, LimbType
    <3>3. c(p) = Limb(r.time_log, TimeLimbs, p - PlTime)
      BY <2>2, <2>0, <1>2
    <3> QED BY <3>2, <3>3
  <2>3. CASE p \in PlDepth .. PlValue - 1
    <3>1. p - PlDepth \in 0 .. DepthLimbs - 1
      BY <2>0, <2>3, <1>2
    <3>2. Limb(r.stack_depth, DepthLimbs, p - PlDepth) \in Cells
      BY <3>1, <1>1, <1>2, LimbType
    <3>3. c(p) = Limb(r.stack_depth, DepthLimbs, p - PlDepth)
      BY <2>3, <2>0, <1>2
    <3> QED BY <3>2, <3>3
  <2>4. CASE p \in PlValue .. PlInstr - 1
    <3>1. p - PlValue \in 0 .. ValueLimbs - 1
      BY <2>0, <2>4, <1>2
    <3>2. Limb(r.value, ValueLimbs, p - PlValue) \in Cells
      BY <3>1, <1>1, <1>2, LimbType
    <3>3. c(p) = Limb(r.value, ValueLimbs, p - PlValue)
      BY <2>4, <2>0, <1>2
    <3> QED BY <3>2, <3>3
  <2>5. CASE p = PlInstr
    <3>1. c(p) = IF r.instruction = "Write" THEN 1 ELSE 0
      BY <2>5, <1>2, LayoutType
    <3> QED BY <3>1, LayoutType DEF Cells
  <2> QED BY <2>0, <2>1, <2>2, <2>3, <2>4, <2>5, <1>2
<1>4. FromRecord(r) = [p \in Payload |-> c(p)]
  BY Zenon DEF FromRecord
<1> HIDE DEF c
<1> QED BY <1>3, <1>4 DEF Row

\* The size: the least power of two above the length, from the least size on.
LEMMA NumVarsForType ==
  ASSUME NEW n \in Nat
  PROVE  /\ NumVarsFor(n) \in MinVars .. n + MinVars
         /\ PowerOf2[NumVarsFor(n)] >= n + 1
         /\ \A u \in MinVars .. NumVarsFor(n) - 1 : PowerOf2[u] < n + 1
<1>0. MinVars \in Nat
  BY ZincAssumption
<1> DEFINE T == {v \in MinVars .. n + MinVars : PowerOf2[v] >= n + 1}
<1>1. n + MinVars \in T
  BY <1>0, PowerOf2Type
<1>2. PICK v \in T : \A u \in T : v <= u
  <2>1. T \in SUBSET Nat
    BY <1>0
  <2> QED BY <1>1, <2>1, Least
<1>3. \A u \in MinVars .. v - 1 : PowerOf2[u] < n + 1
  <2>1. SUFFICES ASSUME NEW u \in MinVars .. v - 1 PROVE PowerOf2[u] < n + 1
    OBVIOUS
  <2>2. u \in Nat /\ PowerOf2[u] \in Nat /\ u \in MinVars .. n + MinVars /\ u < v
    BY <1>0, <1>2, PowerOf2Type
  <2>3. u \notin T
    BY <2>2, <1>2
  <2> QED BY <2>2, <2>3
<1>4. v \in MinVars .. n + MinVars /\ PowerOf2[v] >= n + 1
  BY <1>2
<1> HIDE DEF T
<1> DEFINE fits(w) == PowerOf2[w] >= n + 1 /\ \A u \in MinVars .. w - 1 : PowerOf2[u] < n + 1
<1>5. \E w \in MinVars .. n + MinVars : fits(w)
  BY <1>3, <1>4
<1>6. NumVarsFor(n) = CHOOSE w \in MinVars .. n + MinVars : fits(w)
  BY DEF NumVarsFor
<1> HIDE DEF fits
<1>7. NumVarsFor(n) \in MinVars .. n + MinVars /\ fits(NumVarsFor(n))
  BY <1>5, <1>6
<1> QED BY <1>7 DEF fits

\* The times of the trace increase, as the builder checks.
TimesOfTraceIncrease ==
  \A i, j \in 1 .. Len(trace) : i < j => trace[i].time_log < trace[j].time_log

\* What the builder knows of a trace that it did not refuse.
CheckedTrace ==
  /\ trace # <<>>
  /\ trace[1].time_log = 0
  /\ TimesOfTraceIncrease
  /\ NumVarsFor(Len(trace)) <= MaxVars
  /\ LastTime + PowerOf2[NumVarsFor(Len(trace))] - Len(trace) < TimeEnd

LEMMA BuilderChecks ==
  ASSUME trace \in Seq(TraceRecord), Refusal = None
  PROVE  CheckedTrace
<1> DEFINE bad == \E i \in 2 .. Len(trace) : trace[i].time_log <= trace[i - 1].time_log
           same == trace[FirstBadPair].time_log = trace[FirstBadPair - 1].time_log
           first == trace[1].time_log = 0
           long == NumVarsFor(Len(trace)) > MaxVars
           late == LastTime + PowerOf2[NumVarsFor(Len(trace))] - Len(trace) >= TimeEnd
<1>1. Refusal = IF trace = <<>> THEN "EmptyTrace"
                ELSE IF ~ first THEN "FirstTimeNonZero"
                ELSE IF bad THEN IF same THEN "DuplicatedAccess" ELSE "TimeNotIncreasing"
                ELSE IF long THEN "TraceTooLong"
                ELSE IF late THEN "TimeLogOverflow" ELSE "none"
  BY DEF Refusal, None
<1>a. trace # <<>> /\ first /\ ~ bad /\ ~ long /\ ~ late
  <2> HIDE DEF bad, same, first, long, late
  <2> QED BY <1>1 DEF None
<1>2. \A i \in 2 .. Len(trace) : ~ (trace[i].time_log <= trace[i - 1].time_log)
  BY <1>a, Zenon
<1>3. \A i \in 1 .. Len(trace) : trace[i] \in TraceRecord /\ trace[i].time_log \in Nat
  <2>1. \A i \in 1 .. Len(trace) : trace[i] \in TraceRecord
    OBVIOUS
  <2>2. \A r \in TraceRecord : r.time_log \in Nat
    BY RecordType
  <2> QED BY <2>1, <2>2
<1>4. ASSUME NEW i \in 1 .. Len(trace), NEW j \in 1 .. Len(trace), i < j
      PROVE  trace[i].time_log < trace[j].time_log
  <2> DEFINE T == {k \in i + 1 .. Len(trace) : ~ (trace[i].time_log < trace[k].time_log)}
  <2>1. SUFFICES ASSUME T # {} PROVE FALSE
    BY <1>4
  <2>2. PICK k \in T : \A l \in T : k <= l
    <3>1. T \in SUBSET Nat
      OBVIOUS
    <3> QED BY <3>1, <2>1, Least
  <2>3. k \in 2 .. Len(trace) /\ k - 1 \in 1 .. Len(trace) /\ k \in 1 .. Len(trace)
    BY <2>2
  <2>4. trace[k - 1].time_log < trace[k].time_log
    BY <2>3, <1>2, <1>3
  <2>5. k - 1 # i
    BY <2>4, <2>2
  <2>6. k - 1 \in i + 1 .. Len(trace) /\ ~ (k <= k - 1)
    BY <2>5, <2>2
  <2>7. trace[i].time_log < trace[k - 1].time_log
    BY <2>6, <2>2
  <2> QED BY <2>7, <2>4, <2>3, <1>3, <2>2
<1>5. NumVarsFor(Len(trace)) <= MaxVars
  <2>1. NumVarsFor(Len(trace)) \in Int /\ MaxVars \in Int
    <3>1. Len(trace) \in Nat
      OBVIOUS
    <3>2. NumVarsFor(Len(trace)) \in MinVars .. Len(trace) + MinVars
      BY <3>1, NumVarsForType
    <3> QED BY <3>2, ZincAssumption
  <2> QED BY <2>1, <1>a
<1>6. LastTime + PowerOf2[NumVarsFor(Len(trace))] - Len(trace) < TimeEnd
  <2>1. /\ Len(trace) \in Nat /\ Len(trace) > 0 /\ LastTime \in Nat
    BY <1>a, <1>3 DEF LastTime
  <2>2. NumVarsFor(Len(trace)) \in Nat
    <3>1. NumVarsFor(Len(trace)) \in MinVars .. Len(trace) + MinVars /\ MinVars \in Nat
      BY <2>1, NumVarsForType, ZincAssumption
    <3> QED BY <3>1
  <2>3. PowerOf2[NumVarsFor(Len(trace))] \in Nat
    BY <2>2, PowerOf2Type
  <2>4. TimeEnd \in Nat
    BY PowerOfBaseType DEF TimeEnd, TimeLimbs
  <2> QED BY <2>1, <2>3, <2>4, <1>a
<1> QED BY <1>a, <1>4, <1>5, <1>6 DEF TimesOfTraceIncrease, CheckedTrace

(***************************************************************************)
(* SortedTrace puts every record at its rank.                              *)
(***************************************************************************)
Rank(r) == Cardinality({q \in Range(trace) : Before(q, r)})

LEMMA IntervalSize ==
  ASSUME NEW n \in Nat
  PROVE  /\ IsFiniteSet(1 .. n) /\ Cardinality(1 .. n) = n
         /\ IsFiniteSet(0 .. n - 1) /\ Cardinality(0 .. n - 1) = n
<1>1. IsFiniteSet(1 .. n) /\ Cardinality(1 .. n) = IF 1 > n THEN 0 ELSE n - 1 + 1
  BY FS_Interval
<1>2. IsFiniteSet(0 .. n - 1)
      /\ Cardinality(0 .. n - 1) = IF 0 > n - 1 THEN 0 ELSE (n - 1) - 0 + 1
  <2>1. 0 \in Int /\ n - 1 \in Int
    OBVIOUS
  <2> QED BY <2>1, FS_Interval
<1> QED BY <1>1, <1>2

LEMMA TraceRecords ==
  ASSUME trace \in Seq(TraceRecord), TimesOfTraceIncrease
  PROVE  /\ Range(trace) \subseteq TraceRecord
         /\ IsFiniteSet(Range(trace))
         /\ Cardinality(Range(trace)) = Len(trace)
         /\ \A r, q \in Range(trace) : r.time_log = q.time_log => r = q
<1> DEFINE R == Range(trace)
           D == 1 .. Len(trace)
<1>1. DOMAIN trace = D /\ Len(trace) \in Nat /\ \A i \in D : trace[i] \in TraceRecord
  OBVIOUS
<1>2. R = {trace[i] : i \in D}
  BY <1>1 DEF Range
<1>3. \A i, j \in D : trace[i].time_log = trace[j].time_log => i = j
  <2>1. \A i \in D : trace[i].time_log \in Nat
    BY <1>1, RecordType
  <2>2. \A i, j \in D : i < j => trace[i].time_log < trace[j].time_log
    BY DEF TimesOfTraceIncrease
  <2>3. \A i, j \in D : i < j \/ j < i \/ i = j
    OBVIOUS
  <2> QED BY <2>1, <2>2, <2>3
<1>4. \A r, q \in R : r.time_log = q.time_log => r = q
  BY <1>2, <1>3
<1>5. trace \in [D -> R]
  BY <1>1, <1>2
<1>6. ExistsBijection(D, R)
  <2>1. \A i, j \in D : trace[i] = trace[j] => i = j
    BY <1>3
  <2>2. \A r \in R : \E i \in D : trace[i] = r
    BY <1>2
  <2> HIDE DEF D, R
  <2> QED BY <1>5, <2>1, <2>2
          DEF ExistsBijection, Bijection, Injection, Surjection, IsInjective
<1>7. IsFiniteSet(D) /\ Cardinality(D) = Len(trace)
  BY <1>1, IntervalSize
<1>8. IsFiniteSet(R) /\ Cardinality(R) = Cardinality(D)
  BY <1>6, <1>7, FS_Bijection
<1> QED BY <1>1, <1>2, <1>4, <1>7, <1>8

LEMMA RankOrders ==
  ASSUME trace \in Seq(TraceRecord), TimesOfTraceIncrease,
         NEW q \in Range(trace), NEW r \in Range(trace), Before(q, r)
  PROVE  Rank(q) \in Nat /\ Rank(r) \in Nat /\ Rank(q) < Rank(r)
<1> DEFINE R == Range(trace)
           below(x) == {y \in R : Before(y, x)}
<1>1. \A x \in R : x.address \in Nat /\ x.time_log \in Nat
  BY TraceRecords, RecordType
<1>2. \A x \in R : IsFiniteSet(below(x)) /\ Cardinality(below(x)) \in Nat
  BY TraceRecords, FS_Subset, FS_CardinalityType
<1>3. below(q) \subseteq below(r)
  BY <1>1 DEF Before
<1>4. q \in below(r) /\ q \notin below(q)
  BY <1>1 DEF Before
<1>5. below(q) # below(r)
  BY <1>4
<1> HIDE DEF below
<1>6. Cardinality(below(q)) <= Cardinality(below(r))
      /\ (Cardinality(below(q)) = Cardinality(below(r)) => below(r) = below(q))
  BY <1>2, <1>3, FS_Subset
<1>7. Cardinality(below(q)) < Cardinality(below(r))
  BY <1>2, <1>5, <1>6
<1> QED BY <1>2, <1>7 DEF Rank, below

LEMMA RankIsBelowLength ==
  ASSUME trace \in Seq(TraceRecord), TimesOfTraceIncrease, NEW r \in Range(trace)
  PROVE  Rank(r) \in 0 .. Len(trace) - 1
<1> DEFINE R == Range(trace)
           below == {y \in R : Before(y, r)}
<1>1. r.address \in Nat /\ r.time_log \in Nat
  BY TraceRecords, RecordType
<1>2. r \notin below /\ below \in SUBSET R /\ r \in R
  BY <1>1 DEF Before
<1>3. IsFiniteSet(R) /\ Cardinality(R) = Len(trace) /\ Len(trace) \in Nat
  BY TraceRecords
<1>4. IsFiniteSet(R \ {r}) /\ Cardinality(R \ {r}) = Len(trace) - 1
  BY <1>2, <1>3, FS_RemoveElement
<1>5. below \in SUBSET (R \ {r})
  BY <1>2
<1>6. Cardinality(below) <= Len(trace) - 1 /\ IsFiniteSet(below)
  BY <1>4, <1>5, FS_Subset
<1>7. Cardinality(below) \in Nat
  BY <1>6, FS_CardinalityType
<1> HIDE DEF below
<1>8. Cardinality(below) \in 0 .. Len(trace) - 1
  BY <1>6, <1>7, <1>3
<1> QED BY <1>8 DEF Rank, below

LEMMA RankIsInjective ==
  ASSUME trace \in Seq(TraceRecord), TimesOfTraceIncrease,
         NEW r \in Range(trace), NEW q \in Range(trace), Rank(r) = Rank(q)
  PROVE  r = q
<1>1. \A x \in Range(trace) : x.address \in Nat /\ x.time_log \in Nat
  BY TraceRecords, RecordType
<1>2. ~ Before(r, q) /\ ~ Before(q, r)
  <2>1. ASSUME Before(r, q) PROVE FALSE
    <3>1. Rank(r) \in Nat /\ Rank(r) < Rank(q)
      BY <2>1, RankOrders
    <3> QED BY <3>1
  <2>2. ASSUME Before(q, r) PROVE FALSE
    <3>1. Rank(r) \in Nat /\ Rank(q) \in Nat /\ Rank(q) < Rank(r)
      BY <2>2, RankOrders
    <3> QED BY <3>1
  <2> QED BY <2>1, <2>2
<1>3. r.time_log = q.time_log
  BY <1>1, <1>2 DEF Before
<1> QED BY <1>3, TraceRecords

LEMMA SortedTraceRanks ==
  ASSUME trace \in Seq(TraceRecord), TimesOfTraceIncrease, NEW i \in 1 .. Len(trace)
  PROVE  SortedTrace[i] \in Range(trace) /\ Rank(SortedTrace[i]) = i - 1
<1> DEFINE R == Range(trace)
           D == 0 .. Len(trace) - 1
           f == [r \in R |-> Rank(r)]
<1>1. IsFiniteSet(R) /\ Cardinality(R) = Len(trace) /\ Len(trace) \in Nat
  BY TraceRecords
<1>2. IsFiniteSet(D) /\ Cardinality(D) = Len(trace)
  BY <1>1, IntervalSize
<1>3. f \in [R -> D]
  BY RankIsBelowLength
<1>4. \A r, q \in R : f[r] = f[q] => r = q
  BY RankIsInjective
<1>5. f \in Injection(R, D)
  <2> HIDE DEF f, R, D
  <2> QED BY <1>3, <1>4 DEF Injection, IsInjective
<1>6. f \in Surjection(R, D)
  <2> HIDE DEF f, R, D
  <2> QED BY <1>1, <1>2, <1>5, FS_Injection
<1>7. i - 1 \in D
  OBVIOUS
<1>8. PICK r \in R : f[r] = i - 1
  BY <1>6, <1>7 DEF Surjection
<1>9. \E x \in R : Rank(x) = i - 1
  BY <1>8
<1>10. SortedTrace[i] = CHOOSE x \in R : Rank(x) = i - 1
  <2>1. i \in DOMAIN trace
    OBVIOUS
  <2> QED BY <2>1, Zenon DEF SortedTrace, Rank
<1> QED BY <1>9, <1>10

LEMMA LastTimeType ==
  ASSUME trace \in Seq(TraceRecord), trace # <<>>
  PROVE  LastTime \in Nat
<1>1. trace[Len(trace)] \in TraceRecord
  OBVIOUS
<1> QED BY <1>1, RecordType DEF LastTime

LEMMA PaddedType ==
  ASSUME trace \in Seq(TraceRecord), CheckedTrace,
         NEW i \in Wires(NumVarsFor(Len(trace)))
  PROVE  /\ Padded(trace, NumVarsFor(Len(trace)))[i] \in TraceRecord
         /\ Padded(SortedTrace, NumVarsFor(Len(trace)))[i] \in TraceRecord
<1> DEFINE v == NumVarsFor(Len(trace))
<1>0. Len(trace) \in Nat /\ Len(trace) > 0 /\ TimesOfTraceIncrease
  BY DEF CheckedTrace
<1>a. v \in Nat /\ LastTime + PowerOf2[v] - Len(trace) < TimeEnd
  <2>1. v \in MinVars .. Len(trace) + MinVars /\ MinVars \in Nat
    BY <1>0, NumVarsForType, ZincAssumption
  <2>2. LastTime + PowerOf2[v] - Len(trace) < TimeEnd
    BY DEF CheckedTrace
  <2> HIDE DEF v
  <2> QED BY <2>1, <2>2
<1> HIDE DEF v
<1>b. PowerOf2[v] \in Nat /\ i \in 0 .. PowerOf2[v] - 1 /\ i \in Wires(v)
  BY <1>a, WiresAre DEF v
<1>1. ASSUME NEW k \in 1 .. Len(trace)
      PROVE  trace[k] \in TraceRecord /\ SortedTrace[k] \in TraceRecord
  BY <1>0, SortedTraceRanks, TraceRecords
<1>2. LastTime \in Nat /\ TimeEnd \in Nat
  BY <1>0, LastTimeType, PowerOfBaseType DEF CheckedTrace, TimeEnd, TimeLimbs
<1>3. ASSUME NEW n \in 0 .. PowerOf2[v] - Len(trace) PROVE PaddingRecord(n) \in TraceRecord
  <2>1. SortedTrace[Len(trace)] \in TraceRecord
    BY <1>0, <1>1
  <2>2. LastTime + n \in 0 .. TimeEnd - 1
    BY <1>2, <1>a, <1>b, <1>0
  <2>3. LastTime + n \in Words(TimeLimbs)
    BY <2>2 DEF Words, TimeEnd
  <2>4. PaddingRecord(n) = [SortedTrace[Len(trace)] EXCEPT !.time_log = LastTime + n, !.instruction = "Read"]
    BY DEF PaddingRecord
  <2> QED BY <2>1, <2>3, <2>4 DEF TraceRecord
<1>4. CASE i < Len(trace)
  <2>1. i + 1 \in 1 .. Len(trace)
    BY <1>0, <1>b, <1>4
  <2>2. Padded(trace, v)[i] = trace[i + 1] /\ Padded(SortedTrace, v)[i] = SortedTrace[i + 1]
    BY <1>b, <1>4 DEF Padded
  <2> QED BY <2>1, <2>2, <1>1 DEF v
<1>5. CASE ~ (i < Len(trace))
  <2>1. i + 1 - Len(trace) \in 0 .. PowerOf2[v] - Len(trace)
    BY <1>0, <1>b, <1>5
  <2>2. /\ Padded(trace, v)[i] = PaddingRecord(i + 1 - Len(trace))
        /\ Padded(SortedTrace, v)[i] = PaddingRecord(i + 1 - Len(trace))
    BY <1>b, <1>5 DEF Padded
  <2> QED BY <2>1, <2>2, <1>3 DEF v
<1> QED BY <1>4, <1>5

(***************************************************************************)
(* The inductive invariant of the two ends of the network.                 *)
(***************************************************************************)
WitnessStages ==
  {"link", "route", "block", "scan", "walk", "switch", "prove", "proved", "received"}

Witness ==
  /\ numVars \in Nat /\ numVars > 0
  /\ rows \in [Wires(numVars) -> Row]
  /\ net \in [Wires(numVars) -> Row]
  /\ Permuted(rows, net, PowerOf2[numVars])

Accepted ==
  /\ SortedRowsLinked(rows, PowerOf2[numVars])
  /\ FirstOriginal(net[0])
  /\ OriginalRowsLinked(net, PowerOf2[numVars])

ZincInv ==
  /\ trace \in Seq(TraceRecord)
  /\ layer \in Nat
  /\ stage = "free" => rows \in Seq(Row)
  /\ answer = "Verified" => stage = "ended"
  /\ stage \in WitnessStages \/ answer = "Verified" => Witness
  /\ stage \in {"proved", "received"} \/ answer = "Verified" => Accepted

LEMMA ZincInitial == Init => ZincInv
<1> SUFFICES ASSUME Init PROVE ZincInv
  OBVIOUS
<1>1. trace \in Seq(TraceRecord)
  <2>1. CASE trace \in Traces
    BY <2>1, ZincAssumption
  <2>2. CASE trace = <<>>
    BY <2>2
  <2> QED BY <2>1, <2>2 DEF Init
<1>2. stage \in {"build", "free"} /\ rows = <<>> /\ layer = 0 /\ answer = "none"
  BY DEF Init, None
<1> QED BY <1>1, <1>2 DEF ZincInv, WitnessStages

LEMMA RowsPermuteThemselves ==
  ASSUME NEW n \in Nat, NEW a
  PROVE  Permuted(a, a, n)
<1> DEFINE p == [i \in 0 .. n - 1 |-> i]
<1>1. \A i \in 0 .. n - 1 : p[i] = i
  OBVIOUS
<1>2. p \in [0 .. n - 1 -> 0 .. n - 1]
  OBVIOUS
<1> HIDE DEF p
<1>3. PermutedBy(p, a, a, n)
  BY <1>1, <1>2 DEF PermutedBy
<1> QED BY <1>3 DEF Permuted

LEMMA BuildMakesAWitness ==
  ASSUME trace \in Seq(TraceRecord), Build
  PROVE  Witness'
<1> DEFINE v == NumVarsFor(Len(trace))
<1>1. Refusal = None /\ numVars' = v /\ net' = rows'
      /\ rows' = [i \in Wires(v) |-> FromRecord(Padded(SortedTrace, v)[i])]
  BY DEF Build
<1>2. CheckedTrace
  BY <1>1, BuilderChecks
<1>3. v \in Nat /\ v > 0
  <2>1. Len(trace) \in Nat
    OBVIOUS
  <2>2. v \in MinVars .. Len(trace) + MinVars
    BY <2>1, NumVarsForType
  <2>3. MinVars \in Nat /\ MinVars > 0
    BY ZincAssumption
  <2> HIDE DEF v
  <2> QED BY <2>1, <2>2, <2>3
<1> HIDE DEF v
<1>4. \A i \in Wires(v) : FromRecord(Padded(SortedTrace, v)[i]) \in Row
  BY <1>2, PaddedType, FromRecordType DEF v
<1>5. rows' \in [Wires(v) -> Row]
  BY <1>1, <1>4
<1>6. Permuted(rows', net', PowerOf2[v])
  BY <1>1, <1>3, WiresAre, RowsPermuteThemselves
<1> QED BY <1>1, <1>3, <1>5, <1>6 DEF Witness, Permuted, PermutedBy, Wires

LEMMA WitnessBecomes ==
  ASSUME numVars \in Nat, numVars > 0, numVars' = numVars, rows' = rows,
         rows \in [Wires(numVars) -> Row], net' \in [Wires(numVars) -> Row],
         Permuted(rows, net', PowerOf2[numVars])
  PROVE  Witness'
<1>1. /\ numVars' \in Nat /\ numVars' > 0
      /\ rows' \in [Wires(numVars') -> Row] /\ net' \in [Wires(numVars') -> Row]
      /\ Permuted(rows', net', PowerOf2[numVars'])
  OBVIOUS
<1>2. Permuted(rows, net, PowerOf2[numVars])'
  BY <1>1 DEF Permuted, PermutedBy
<1>3. rows' \in [Wires(numVars)' -> Row] /\ net' \in [Wires(numVars)' -> Row]
  BY <1>1 DEF Wires
<1> QED BY <1>1, <1>2, <1>3 DEF Witness

LEMMA SwitchKeepsTheWitness ==
  ASSUME Witness, layer \in Nat, Switch
  PROVE  Witness'
<1>1. /\ numVars \in Nat /\ numVars > 0
      /\ rows \in [Wires(numVars) -> Row]
      /\ net \in [Wires(numVars) -> Row]
      /\ Permuted(rows, net, PowerOf2[numVars])
  BY DEF Witness
<1>2. layer \in Layers(numVars)
  BY <1>1 DEF Switch, Layers, NumLayers
<1> DEFINE X == {i \in Wires(numVars) : switches[layer][i]}
<1>3. net' = Swapped(numVars, layer, X, net)
  <2>1. net' = ApplyLayer(net, numVars, layer, switches[layer])
    BY DEF Switch
  <2> QED BY <2>1, <1>1, <1>2, LayerSwaps
<1> HIDE DEF X
<1>4. net' \in [Wires(numVars) -> Row]
  BY <1>1, <1>2, <1>3, SwappedType
<1>5. Permuted(rows, net', PowerOf2[numVars])
  BY <1>1, <1>2, <1>3, SwappingPermutes
<1>6. numVars' = numVars /\ rows' = rows
  BY DEF Switch, routeVars
<1> QED BY <1>1, <1>4, <1>5, <1>6, WitnessBecomes

LEMMA FreeNetworkMakesAWitness ==
  ASSUME rows \in Seq(Row), FreeNetwork
  PROVE  Witness'
<1>1. FreeVars \in Nat /\ FreeVars > 0
  BY ZincAssumption
<1>2. /\ numVars' = FreeVars /\ net' = rows' /\ Len(rows) = PowerOf2[FreeVars]
      /\ rows' = [i \in Wires(FreeVars) |-> rows[i + 1]]
  BY DEF FreeNetwork
<1>3. \A i \in Wires(FreeVars) : i + 1 \in 1 .. Len(rows)
  BY <1>1, <1>2, WiresAre
<1>4. rows' \in [Wires(FreeVars) -> Row]
  BY <1>2, <1>3
<1>5. Permuted(rows', net', PowerOf2[numVars'])
  BY <1>1, <1>2, WiresAre, RowsPermuteThemselves
<1>6. Permuted(rows, net, PowerOf2[numVars])'
  BY <1>5 DEF Permuted, PermutedBy
<1>7. numVars' \in Nat /\ numVars' > 0 /\ rows' \in [Wires(numVars)' -> Row]
  BY <1>1, <1>2, <1>4 DEF Wires
<1> QED BY <1>2, <1>6, <1>7 DEF Witness, Wires

LEMMA FreeSwitchKeepsTheWitness ==
  ASSUME Witness, layer \in Nat, FreeSwitch
  PROVE  Witness'
<1>1. /\ numVars \in Nat /\ numVars > 0
      /\ rows \in [Wires(numVars) -> Row]
      /\ net \in [Wires(numVars) -> Row]
      /\ Permuted(rows, net, PowerOf2[numVars])
  BY DEF Witness
<1>2. layer \in Layers(numVars)
  BY <1>1 DEF FreeSwitch, Layers, NumLayers
<1>3. PICK s \in [UpperWires(numVars, layer) -> {-1, 0, 1, 2}] :
        BooleanSwitches(s) /\ net' = SwapSolution(net, numVars, layer, s)
  BY DEF FreeSwitch
<1> DEFINE X == {i \in UpperWires(numVars, layer) : s[i] = 1}
<1>4. net' = Swapped(numVars, layer, X, net)
  BY <1>1, <1>2, <1>3, SolutionSwaps
<1> HIDE DEF X
<1>5. net' \in [Wires(numVars) -> Row]
  BY <1>1, <1>2, <1>4, SwappedType
<1>6. Permuted(rows, net', PowerOf2[numVars])
  BY <1>1, <1>2, <1>4, SwappingPermutes
<1>7. numVars' = numVars /\ rows' = rows
  BY DEF FreeSwitch, routeVars
<1> QED BY <1>1, <1>5, <1>6, <1>7, WitnessBecomes

LEMMA ProveAccepts ==
  ASSUME Witness, Prove
  PROVE  Accepted
<1> DEFINE n == PowerOf2[numVars]
<1>1. n \in Nat /\ n > 0 /\ Wires(numVars) \ {PowerOf2[numVars] - 1} = 0 .. n - 2
  <2>1. n \in Nat /\ n > 0 /\ Wires(numVars) = 0 .. n - 1
    BY WiresAre DEF Witness
  <2> QED BY <2>1
<1>2. /\ FirstSorted(rows[0]) /\ FirstOriginal(net[0])
      /\ \A i \in 0 .. n - 2 :
           /\ \E k \in LexLimbs : SortedConstraints(rows[i], rows[i + 1], k)
           /\ \E hi \in {0, 1} : OriginalConstraints(net[i], net[i + 1], hi)
  BY <1>1 DEF Prove, Satisfied
<1> QED BY <1>2 DEF Accepted, SortedRowsLinked, OriginalRowsLinked

LEMMA RoutingKeeps ==
  ASSUME Routing
  PROVE  /\ numVars' = numVars /\ perm' = perm
         /\ stage \in {"route", "block", "scan", "walk"}
         /\ stage' \in {"block", "scan", "walk", "panicked"}
<1>1. CASE Route
  BY <1>1 DEF Route
<1>2. CASE NotAPermutation
  BY <1>2 DEF NotAPermutation
<1>3. CASE MiddleBlock
  BY <1>3 DEF MiddleBlock
<1>4. CASE OpenBlock
  BY <1>4 DEF OpenBlock
<1>5. CASE StartWalk
  BY <1>5 DEF StartWalk
<1>6. CASE Walk
  BY <1>6 DEF Walk
<1>7. CASE CloseBlock
  BY <1>7 DEF CloseBlock, Colored
<1> QED BY <1>1, <1>2, <1>3, <1>4, <1>5, <1>6, <1>7 DEF Routing

LEMMA ZincStep == ZincInv /\ [Next]_vars => ZincInv'
<1> SUFFICES ASSUME ZincInv, [Next]_vars PROVE ZincInv'
  OBVIOUS
<1>0. /\ trace \in Seq(TraceRecord) /\ layer \in Nat
      /\ stage = "free" => rows \in Seq(Row)
      /\ answer = "Verified" => stage = "ended"
      /\ stage \in WitnessStages => Witness
      /\ stage \in {"proved", "received"} => Accepted
      /\ answer = "Verified" => Witness /\ Accepted
  BY DEF ZincInv
<1> DEFINE Same == UNCHANGED <<numVars, rows, net>>
<1>a. ASSUME Same, Witness PROVE Witness'
  BY <1>a DEF Witness
<1>b. ASSUME Same, Accepted PROVE Accepted'
  BY <1>b DEF Accepted
<1> HIDE DEF Witness, Accepted
<1>1. CASE Refuse
  <2>1. answer' \in {Refusal} /\ stage = "build" /\ stage' = "ended" /\ Same
        /\ trace' = trace /\ layer' = layer
    BY <1>1 DEF Refuse
  <2>2. Refusal # "Verified"
    BY DEF Refusal, None
  <2> QED BY <2>1, <2>2, <1>0 DEF ZincInv, WitnessStages
<1>2. CASE Build
  <2>1. Witness'
    BY <1>2, <1>0, BuildMakesAWitness
  <2>2. stage = "build" /\ stage' = "link" /\ answer' = answer /\ trace' = trace /\ layer' = layer
    BY <1>2 DEF Build
  <2> QED BY <2>1, <2>2, <1>0 DEF ZincInv, WitnessStages
<1>3. CASE Link
  <2>1. stage = "link" /\ stage' = "route" /\ Same
        /\ answer' = answer /\ trace' = trace /\ layer' = layer
    BY <1>3 DEF Link
  <2>2. Witness'
    BY <2>1, <1>0, <1>a DEF WitnessStages
  <2> QED BY <2>1, <2>2, <1>0 DEF ZincInv, WitnessStages
<1>4. CASE Routing /\ UNCHANGED <<free, trace, rows, net, layer, linked, answer, header>>
  <2>1. /\ stage \in {"route", "block", "scan", "walk"}
        /\ stage' \in {"block", "scan", "walk", "panicked"}
        /\ Same /\ answer' = answer /\ trace' = trace /\ layer' = layer
    BY <1>4, RoutingKeeps
  <2>2. Witness'
    BY <2>1, <1>0, <1>a DEF WitnessStages
  <2> QED BY <2>1, <2>2, <1>0 DEF ZincInv, WitnessStages
<1>5. CASE Switch
  <2>1. stage = "block" /\ stage' = stage /\ answer' = answer /\ trace' = trace
        /\ layer' = layer + 1
    BY <1>5 DEF Switch, Routed, routeVars
  <2>2. Witness
    BY <2>1, <1>0 DEF WitnessStages
  <2>3. Witness'
    BY <1>5, <2>2, <1>0, SwitchKeepsTheWitness
  <2> QED BY <2>1, <2>3, <1>0 DEF ZincInv, WitnessStages
<1>6. CASE Built
  <2>1. /\ stage = "block" /\ stage' \in {"prove", "ended"}
        /\ answer' \in {answer, "UnsortedTrace"}
        /\ Same /\ trace' = trace /\ layer' = layer
    BY <1>6 DEF Built, Routed
  <2>2. Witness'
    BY <2>1, <1>0, <1>a DEF WitnessStages
  <2> QED BY <2>1, <2>2, <1>0 DEF ZincInv, WitnessStages
<1>7. CASE FreeRow
  <2>1. /\ stage = "free" /\ stage' = "free" /\ answer' = answer /\ trace' = trace
        /\ layer' = layer
    BY <1>7 DEF FreeRow, routeVars
  <2>2. PICK row \in FreeRows : rows' = Append(rows, row)
    BY <1>7 DEF FreeRow
  <2>3. row \in Row
    BY ZincAssumption
  <2>4. rows' \in Seq(Row)
    BY <2>1, <2>2, <2>3, <1>0
  <2> QED BY <2>1, <2>4, <1>0 DEF ZincInv, WitnessStages
<1>8. CASE FreeNetwork
  <2>1. stage = "free" /\ stage' = "switch" /\ answer' = answer /\ trace' = trace /\ layer' = layer
    BY <1>8 DEF FreeNetwork
  <2>2. Witness'
    BY <1>8, <2>1, <1>0, FreeNetworkMakesAWitness
  <2> QED BY <2>1, <2>2, <1>0 DEF ZincInv, WitnessStages
<1>9. CASE FreeSwitch
  <2>1. stage = "switch" /\ stage' = stage /\ answer' = answer /\ trace' = trace
        /\ layer' = layer + 1
    BY <1>9 DEF FreeSwitch, routeVars
  <2>2. Witness
    BY <2>1, <1>0 DEF WitnessStages
  <2>3. Witness'
    BY <1>9, <2>2, <1>0, FreeSwitchKeepsTheWitness
  <2> QED BY <2>1, <2>3, <1>0 DEF ZincInv, WitnessStages
<1>10. CASE FreeDone
  <2>1. stage = "switch" /\ stage' = "prove" /\ answer' = answer /\ trace' = trace
        /\ layer' = layer /\ Same
    BY <1>10 DEF FreeDone
  <2>2. Witness'
    BY <2>1, <1>0, <1>a DEF WitnessStages
  <2> QED BY <2>1, <2>2, <1>0 DEF ZincInv, WitnessStages
<1>11. CASE Prove
  <2>1. stage = "prove" /\ stage' = "proved" /\ answer' = "Ok" /\ trace' = trace
        /\ layer' = layer /\ Same
    BY <1>11 DEF Prove
  <2>2. Witness
    BY <2>1, <1>0 DEF WitnessStages
  <2>3. Accepted
    BY <1>11, <2>2, ProveAccepts
  <2>4. Witness' /\ Accepted'
    BY <2>1, <2>2, <2>3, <1>a, <1>b
  <2> QED BY <2>1, <2>4, <1>0 DEF ZincInv, WitnessStages
<1>12. CASE ProverFails
  <2>1. /\ stage = "prove" /\ stage' \in {"ended", "panicked"}
        /\ answer' \in {"Prover", answer}
        /\ trace' = trace /\ layer' = layer
    BY <1>12 DEF ProverFails
  <2> QED BY <2>1, <1>0 DEF ZincInv, WitnessStages
<1>13. CASE FromBytes
  <2>1. stage = "proved" /\ stage' = "received" /\ answer' = answer /\ trace' = trace
        /\ layer' = layer /\ Same
    BY <1>13 DEF FromBytes
  <2>2. Witness' /\ Accepted'
    BY <2>1, <1>0, <1>a, <1>b DEF WitnessStages
  <2> QED BY <2>1, <2>2, <1>0 DEF ZincInv, WitnessStages
<1>14. CASE Malformed
  <2>1. stage = "proved" /\ stage' = "ended" /\ answer' = "MalformedProof" /\ trace' = trace
        /\ layer' = layer
    BY <1>14 DEF Malformed
  <2> QED BY <2>1, <1>0 DEF ZincInv, WitnessStages
<1>15. CASE Verify
  <2>1. stage = "received" /\ stage' = "ended" /\ trace' = trace /\ layer' = layer /\ Same
    BY <1>15 DEF Verify
  <2>2. Witness' /\ Accepted'
    BY <2>1, <1>0, <1>a, <1>b DEF WitnessStages
  <2> QED BY <2>1, <2>2, <1>0 DEF ZincInv, WitnessStages
<1>16. CASE UNCHANGED vars
  <2>1. /\ stage' = stage /\ answer' = answer /\ trace' = trace /\ layer' = layer
        /\ rows' = rows /\ Same
    BY <1>16 DEF vars, routeVars
  <2> QED BY <2>1, <1>0, <1>a, <1>b DEF ZincInv
<1> QED BY <1>1, <1>2, <1>3, <1>4, <1>5, <1>6, <1>7, <1>8, <1>9, <1>10, <1>11, <1>12,
           <1>13, <1>14, <1>15, <1>16 DEF Next

LEMMA ZincAlways == Spec => []ZincInv
BY ZincInitial, ZincStep, PTL DEF Spec

\* A proof that verifies is the proof of a memory: whatever rows, selectors and
\* switches a prover commits to, constrain_general lets no other trace through.
THEOREM ProvedTracesAreValid == Spec => []ProvedIsValid
<1>1. ZincInv => ProvedIsValid
  <2> SUFFICES ASSUME ZincInv, answer = "Verified" PROVE ValidTrace(net)
    BY DEF ProvedIsValid
  <2> DEFINE n == PowerOf2[numVars]
  <2>1. Witness /\ Accepted
    BY DEF ZincInv
  <2>2. n \in Nat /\ n > 0 /\ Wires(numVars) = 0 .. n - 1
    BY <2>1, WiresAre DEF Witness
  <2>3. rows \in [0 .. n - 1 -> Row] /\ net \in [0 .. n - 1 -> Row]
    BY <2>1, <2>2 DEF Witness
  <2>4. PICK p : PermutedBy(p, rows, net, n)
    BY <2>1 DEF Witness, Permuted
  <2>5. SortedRowsLinked(rows, n) /\ FirstOriginal(net[0]) /\ OriginalRowsLinked(net, n)
    BY <2>1 DEF Accepted
  <2> HIDE DEF n
  <2> QED BY <2>2, <2>3, <2>4, <2>5, ConstraintsAreSound
<1> QED BY <1>1, ZincAlways, PTL

\* apply_layer, and the constrained swaps, move whole rows: what is proved about the
\* sorted rows and about the original ones is about the same records.
THEOREM RecordsAreTheSame == Spec => []SameRecords
<1>1. ZincInv => SameRecords
  <2> SUFFICES ASSUME ZincInv, stage = "prove", NEW row
               PROVE  Cardinality({i \in DOMAIN rows : rows[i] = row})
                        = Cardinality({i \in DOMAIN net : net[i] = row})
    BY DEF SameRecords
  <2> DEFINE n == PowerOf2[numVars]
  <2>1. Witness
    BY DEF ZincInv, WitnessStages
  <2>2. n \in Nat /\ Wires(numVars) = 0 .. n - 1
    BY <2>1, WiresAre DEF Witness
  <2>3. rows \in [0 .. n - 1 -> Row] /\ net \in [0 .. n - 1 -> Row] /\ Permuted(rows, net, n)
    BY <2>1, <2>2 DEF Witness
  <2> HIDE DEF n
  <2>4. Cardinality(Copies(rows, row)) = Cardinality(Copies(net, row))
    BY <2>2, <2>3, PermutedKeepsCopies
  <2> QED BY <2>4 DEF Copies
<1> QED BY <1>1, ZincAlways, PTL

(***************************************************************************)
(* The permutation between the two orderings.                              *)
(***************************************************************************)
\* A remainder below twice the divisor.
LEMMA Remainder ==
  ASSUME NEW n \in Nat, n > 0, NEW a \in 0 .. 2 * n - 1
  PROVE  a % n = IF a < n THEN a ELSE a - n
<1>1. a % n = a - n * (a \div n)
  OBVIOUS
<1>2. CASE a < n
  <2>1. a \in 0 .. n - 1 /\ 0 * n + a = a
    BY <1>2
  <2>2. a \div n = 0
    BY <2>1, Quotient
  <2> QED BY <1>1, <1>2, <2>2
<1>3. CASE ~ (a < n)
  <2>1. a - n \in 0 .. n - 1 /\ 1 * n + (a - n) = a
    BY <1>3
  <2>2. a \div n = 1
    BY <2>1, Quotient
  <2> QED BY <1>1, <1>3, <2>2
<1> QED BY <1>2, <1>3

LEMMA Division ==
  ASSUME NEW t \in Nat, NEW b \in Nat, b > 0
  PROVE  /\ t = b * (t \div b) + (t % b)
         /\ t \div b \in Nat /\ t % b \in 0 .. b - 1
         /\ t < b * b => t \div b < b
<1>1. /\ t = b * (t \div b) + (t % b)
      /\ t \div b \in Nat /\ t % b \in 0 .. b - 1
  OBVIOUS
<1>2. ASSUME t < b * b PROVE t \div b < b
  <2> DEFINE d == t \div b
  <2>1. d \in Nat /\ b * d <= t
    BY <1>1
  <2> HIDE DEF d
  <2>2. SUFFICES ASSUME d >= b PROVE FALSE
    BY <2>1 DEF d
  <2>3. b * (d - b) >= 0
    BY <2>1, <2>2
  <2>4. b * d >= b * b
    BY <2>1, <2>3
  <2> QED BY <2>1, <2>4, <1>2
<1> QED BY <1>1, <1>2

\* The limbs of a time give the time back.
LEMMA TimeOfRecord ==
  ASSUME NEW r \in TraceRecord
  PROVE  TimeOf(FromRecord(r)) = r.time_log
<1> DEFINE t == r.time_log
           B == LimbBase
<1>1. t \in Nat /\ t < TimeEnd
  BY RecordType
<1>2. /\ PowerOfBase[0] = 1 /\ PowerOfBase[1] = B /\ PowerOfBase[2] = B * B
      /\ B \in Nat /\ B > 1 /\ B > 0
  <2>1. /\ PowerOfBase[0] = 1
        /\ \A n \in Nat : PowerOfBase[n + 1] = B * PowerOfBase[n]
    BY PowersOfBase DEF PowersOf
  <2>2. B \in Nat /\ B > 1
    BY LayoutType
  <2>3. PowerOfBase[0 + 1] = B * PowerOfBase[0] /\ PowerOfBase[1 + 1] = B * PowerOfBase[1]
    BY <2>1
  <2> QED BY <2>1, <2>2, <2>3
<1>3. TimeEnd = B * B
  BY <1>2 DEF TimeEnd, TimeLimbs
<1>4. FromRecord(r)[PlTime] = Limb(t, TimeLimbs, 0)
      /\ FromRecord(r)[PlTime + 1] = Limb(t, TimeLimbs, 1)
  <2>1. /\ PlTime \in Payload /\ PlTime + 1 \in Payload
        /\ ~ (PlTime < PlTime) /\ ~ (PlTime + 1 < PlTime)
        /\ PlTime \in PlTime .. PlDepth - 1 /\ PlTime + 1 \in PlTime .. PlDepth - 1
        /\ PlTime - PlTime = 0 /\ (PlTime + 1) - PlTime = 1
        /\ PlTime \notin PlDepth .. PlValue - 1 /\ PlTime + 1 \notin PlDepth .. PlValue - 1
        /\ PlTime \notin PlValue .. PlInstr - 1 /\ PlTime + 1 \notin PlValue .. PlInstr - 1
        /\ PlTime # PlInstr /\ PlTime + 1 # PlInstr
    BY LayoutType
  <2> QED BY <2>1 DEF FromRecord
<1>5. Limb(t, TimeLimbs, 0) = (t \div B) % B /\ Limb(t, TimeLimbs, 1) = (t \div 1) % B
  BY <1>2 DEF Limb, TimeLimbs
<1> HIDE DEF t, B
<1>6. /\ t = B * (t \div B) + (t % B)
      /\ t \div B \in Nat /\ t % B \in 0 .. B - 1
  BY <1>1, <1>2, Division
<1>7. t \div B < B
  BY <1>1, <1>2, <1>3, Division
<1>8. (t \div B) % B = t \div B
  <2>1. t \div B \in 0 .. 2 * B - 1
    BY <1>6, <1>7, <1>2
  <2> QED BY <2>1, <1>7, <1>2, Remainder
<1>9. t \div 1 = t
  BY <1>1
<1>11. FromRecord(r)[PlTime] = t \div B /\ FromRecord(r)[PlTime + 1] = t % B
  BY <1>4, <1>5, <1>8, <1>9 DEF t
<1>12. TimeOf(FromRecord(r)) = B * (t \div B) + (t % B)
  BY <1>11 DEF TimeOf, B
<1>13. TimeOf(FromRecord(r)) = t
  BY <1>6, <1>12, Zenon
<1> QED BY <1>13 DEF t

Original(i) == Padded(trace, NumVarsFor(Len(trace)))[i]
Sorted(i) == Padded(SortedTrace, NumVarsFor(Len(trace)))[i]
AllWires == Wires(NumVarsFor(Len(trace)))

LEMMA SizeFits ==
  ASSUME trace \in Seq(TraceRecord), CheckedTrace
  PROVE  /\ Len(trace) \in Nat /\ Len(trace) > 0
         /\ NumVarsFor(Len(trace)) \in Nat /\ NumVarsFor(Len(trace)) > 0
         /\ NumVarsFor(Len(trace)) \in MinVars .. MaxVars
         /\ AllWires = 0 .. PowerOf2[NumVarsFor(Len(trace))] - 1
         /\ PowerOf2[NumVarsFor(Len(trace))] \in Nat
         /\ Len(trace) < PowerOf2[NumVarsFor(Len(trace))]
<1> DEFINE v == NumVarsFor(Len(trace))
<1>1. Len(trace) \in Nat /\ Len(trace) > 0
  BY DEF CheckedTrace
<1>2. v \in MinVars .. Len(trace) + MinVars /\ PowerOf2[v] >= Len(trace) + 1 /\ v <= MaxVars
  BY <1>1, NumVarsForType DEF CheckedTrace
<1>3. MinVars \in Nat /\ MinVars > 0 /\ MaxVars \in Nat
  BY ZincAssumption
<1> HIDE DEF v
<1>4. v \in Nat /\ v > 0 /\ v \in MinVars .. MaxVars
  BY <1>1, <1>2, <1>3
<1>5. PowerOf2[v] \in Nat /\ AllWires = 0 .. PowerOf2[v] - 1
  BY <1>4, WiresAre DEF AllWires, v
<1> QED BY <1>1, <1>2, <1>4, <1>5 DEF v

\* The time of the original row i, padding included.
LEMMA OriginalTimes ==
  ASSUME trace \in Seq(TraceRecord), CheckedTrace, NEW i \in AllWires
  PROVE  /\ i < Len(trace) => /\ i + 1 \in 1 .. Len(trace)
                              /\ Original(i) = trace[i + 1]
                              /\ Sorted(i) = SortedTrace[i + 1]
         /\ ~ (i < Len(trace)) =>
              /\ Original(i).time_log = LastTime + (i + 1 - Len(trace))
              /\ Sorted(i) = Original(i)
<1>1. Len(trace) \in Nat /\ i \in Nat /\ Len(trace) > 0
  BY SizeFits
<1>2. ASSUME i < Len(trace)
      PROVE  i + 1 \in 1 .. Len(trace) /\ Original(i) = trace[i + 1] /\ Sorted(i) = SortedTrace[i + 1]
  BY <1>1, <1>2 DEF Original, Sorted, Padded, AllWires
<1>3. ASSUME ~ (i < Len(trace))
      PROVE  /\ Original(i).time_log = LastTime + (i + 1 - Len(trace))
             /\ Sorted(i) = Original(i)
  <2>1. Original(i) = PaddingRecord(i + 1 - Len(trace)) /\ Sorted(i) = PaddingRecord(i + 1 - Len(trace))
    BY <1>3 DEF Original, Sorted, Padded, AllWires
  <2>2. SortedTrace[Len(trace)] \in TraceRecord
    BY <1>1, SortedTraceRanks, TraceRecords DEF CheckedTrace
  <2>3. PaddingRecord(i + 1 - Len(trace)).time_log = LastTime + (i + 1 - Len(trace))
    BY <2>2 DEF PaddingRecord, TraceRecord
  <2> QED BY <2>1, <2>3
<1> QED BY <1>2, <1>3

LEMMA OriginalTimesIncrease ==
  ASSUME trace \in Seq(TraceRecord), CheckedTrace,
         NEW i \in AllWires, NEW j \in AllWires, i < j
  PROVE  Original(i).time_log < Original(j).time_log
<1>1. Len(trace) \in Nat /\ i \in Nat /\ j \in Nat /\ Len(trace) > 0 /\ TimesOfTraceIncrease
      /\ trace # <<>>
  BY SizeFits DEF CheckedTrace
<1>2. LastTime \in Nat /\ LastTime = trace[Len(trace)].time_log
  BY <1>1, LastTimeType DEF LastTime
<1>3. \A k \in 1 .. Len(trace) : trace[k].time_log \in Nat /\ trace[k].time_log <= LastTime
  <2>1. SUFFICES ASSUME NEW k \in 1 .. Len(trace)
                 PROVE  trace[k].time_log \in Nat /\ trace[k].time_log <= LastTime
    OBVIOUS
  <2>2. trace[k] \in TraceRecord
    OBVIOUS
  <2>3. trace[k].time_log \in Nat
    BY <2>2, RecordType
  <2>4. CASE k = Len(trace)
    BY <2>3, <2>4, <1>2
  <2>5. CASE k # Len(trace)
    <3>1. k < Len(trace) /\ Len(trace) \in 1 .. Len(trace)
      BY <2>5, <1>1
    <3>2. trace[k].time_log < trace[Len(trace)].time_log
      BY <3>1, <1>1 DEF TimesOfTraceIncrease
    <3> QED BY <3>2, <2>3, <1>2
  <2> QED BY <2>4, <2>5
<1>4. CASE j < Len(trace)
  <2>1. /\ i + 1 \in 1 .. Len(trace) /\ j + 1 \in 1 .. Len(trace) /\ i + 1 < j + 1
        /\ Original(i) = trace[i + 1] /\ Original(j) = trace[j + 1]
    BY <1>1, <1>4, OriginalTimes
  <2> QED BY <2>1, <1>1 DEF TimesOfTraceIncrease
<1>5. CASE ~ (j < Len(trace)) /\ i < Len(trace)
  <2>1. i + 1 \in 1 .. Len(trace) /\ Original(i) = trace[i + 1]
        /\ Original(j).time_log = LastTime + (j + 1 - Len(trace))
    BY <1>5, OriginalTimes
  <2> QED BY <2>1, <1>3, <1>5, <1>1, <1>2
<1>6. CASE ~ (i < Len(trace))
  <2>1. ~ (j < Len(trace))
    BY <1>6, <1>1
  <2>2. Original(i).time_log = LastTime + (i + 1 - Len(trace))
        /\ Original(j).time_log = LastTime + (j + 1 - Len(trace))
    BY <1>6, <2>1, OriginalTimes
  <2> QED BY <2>2, <1>1, <1>2
<1> QED BY <1>4, <1>5, <1>6

\* Both orderings hold the same records.
LEMMA SortedIsOriginal ==
  ASSUME trace \in Seq(TraceRecord), CheckedTrace
  PROVE  /\ \A i \in AllWires : \E j \in AllWires : Sorted(i) = Original(j)
         /\ \A j \in AllWires : \E i \in AllWires : Sorted(i) = Original(j)
<1>1. /\ Len(trace) \in Nat /\ Len(trace) > 0 /\ TimesOfTraceIncrease
      /\ \A k \in 1 .. Len(trace) : k - 1 \in AllWires /\ k - 1 < Len(trace) /\ (k - 1) + 1 = k
  BY SizeFits DEF CheckedTrace
<1>2. ASSUME NEW i \in AllWires PROVE \E j \in AllWires : Sorted(i) = Original(j)
  <2>1. CASE i < Len(trace)
    <3>1. i + 1 \in 1 .. Len(trace) /\ Sorted(i) = SortedTrace[i + 1]
      BY <2>1, OriginalTimes
    <3>2. Sorted(i) \in Range(trace)
      BY <3>1, <1>1, SortedTraceRanks
    <3>3. PICK k \in 1 .. Len(trace) : Sorted(i) = trace[k]
      BY <3>2 DEF Range
    <3>4. Original(k - 1) = trace[k]
      <4>1. Original(k - 1) = trace[(k - 1) + 1]
        BY <1>1, <3>3, OriginalTimes
      <4> QED BY <4>1, <1>1, <3>3
    <3> QED BY <3>3, <3>4, <1>1
  <2>2. CASE ~ (i < Len(trace))
    BY <2>2, OriginalTimes
  <2> QED BY <2>1, <2>2
<1>3. ASSUME NEW j \in AllWires PROVE \E i \in AllWires : Sorted(i) = Original(j)
  <2>1. CASE j < Len(trace)
    <3>1. j + 1 \in 1 .. Len(trace) /\ Original(j) = trace[j + 1]
      BY <2>1, OriginalTimes
    <3>2. Original(j) \in Range(trace)
      BY <3>1 DEF Range
    <3> DEFINE k == Rank(Original(j)) + 1
    <3>3. k \in 1 .. Len(trace) /\ k - 1 = Rank(Original(j))
      BY <3>2, <1>1, RankIsBelowLength
    <3> HIDE DEF k
    <3>4. SortedTrace[k] \in Range(trace) /\ Rank(SortedTrace[k]) = Rank(Original(j))
      BY <3>3, <1>1, SortedTraceRanks
    <3>5. SortedTrace[k] = Original(j)
      BY <3>2, <3>4, <1>1, RankIsInjective
    <3>6. Sorted(k - 1) = SortedTrace[k]
      <4>1. Sorted(k - 1) = SortedTrace[(k - 1) + 1]
        BY <1>1, <3>3, OriginalTimes
      <4> QED BY <4>1, <1>1, <3>3
    <3> QED BY <3>5, <3>6, <3>3, <1>1
  <2>2. CASE ~ (j < Len(trace))
    BY <2>2, OriginalTimes
  <2> QED BY <2>1, <2>2
<1> QED BY <1>2, <1>3

Permutations(n) ==
  {p \in [0 .. n - 1 -> 0 .. n - 1] : \A i, j \in 0 .. n - 1 : p[i] = p[j] => i = j}

\* The rows that the builder commits to.
SortedRows == [i \in AllWires |-> FromRecord(Sorted(i))]

\* Times are unique, so each original row has one row of the sorted trace with its time.
LEMMA LinkIsAPermutation ==
  ASSUME trace \in Seq(TraceRecord), CheckedTrace, NEW p,
         p = [j \in AllWires |->
                CHOOSE i \in AllWires : TimeOf(SortedRows[i]) = Original(j).time_log]
  PROVE  /\ p \in Permutations(PowerOf2[NumVarsFor(Len(trace))])
         /\ \A j \in AllWires : SortedRows[p[j]] = FromRecord(Original(j))
<1>0. AllWires = 0 .. PowerOf2[NumVarsFor(Len(trace))] - 1
  BY SizeFits
<1>1. \A i \in AllWires : Sorted(i) \in TraceRecord /\ Original(i) \in TraceRecord
  BY PaddedType DEF Sorted, Original, AllWires
<1>2. \A i \in AllWires : TimeOf(SortedRows[i]) = Sorted(i).time_log
  BY <1>1, TimeOfRecord DEF SortedRows
<1>3. ASSUME NEW j \in AllWires
      PROVE  p[j] \in AllWires /\ Sorted(p[j]).time_log = Original(j).time_log
  <2>1. PICK i \in AllWires : Sorted(i) = Original(j)
    BY SortedIsOriginal
  <2>2. \E k \in AllWires : TimeOf(SortedRows[k]) = Original(j).time_log
    BY <2>1, <1>2
  <2>3. p[j] = CHOOSE k \in AllWires : TimeOf(SortedRows[k]) = Original(j).time_log
    OBVIOUS
  <2>4. p[j] \in AllWires /\ TimeOf(SortedRows[p[j]]) = Original(j).time_log
    BY <2>2, <2>3
  <2> QED BY <2>4, <1>2
<1>4. ASSUME NEW i \in AllWires, NEW j \in AllWires, Original(i).time_log = Original(j).time_log
      PROVE  i = j
  <2>1. i \in Int /\ j \in Int
    BY <1>0
  <2>2. Original(i).time_log \in Nat
    BY <1>1, RecordType
  <2>3. ~ (i < j)
    BY <1>4, <2>2, OriginalTimesIncrease
  <2>4. ~ (j < i)
    BY <1>4, <2>2, OriginalTimesIncrease
  <2> QED BY <2>1, <2>3, <2>4
<1>5. ASSUME NEW j \in AllWires PROVE Sorted(p[j]) = Original(j)
  <2>1. PICK k \in AllWires : Sorted(p[j]) = Original(k)
    BY <1>3, SortedIsOriginal
  <2>2. Original(k).time_log = Original(j).time_log
    BY <2>1, <1>3
  <2>3. k = j
    BY <2>2, <1>4
  <2> QED BY <2>1, <2>3
<1>6. ASSUME NEW i \in AllWires, NEW j \in AllWires, p[i] = p[j] PROVE i = j
  <2>1. Original(i) = Original(j)
    BY <1>5, <1>6
  <2> QED BY <2>1, <1>4
<1>7. p \in [AllWires -> AllWires]
  BY <1>3
<1>8. p \in Permutations(PowerOf2[NumVarsFor(Len(trace))])
  BY <1>0, <1>6, <1>7 DEF Permutations
<1>9. \A j \in AllWires : SortedRows[p[j]] = FromRecord(Original(j))
  BY <1>3, <1>5 DEF SortedRows
<1> QED BY <1>8, <1>9

LEMMA PermutationsAreOnto ==
  ASSUME NEW n \in Nat, NEW p \in Permutations(n), NEW j \in 0 .. n - 1
  PROVE  \E i \in 0 .. n - 1 : p[i] = j
<1> DEFINE N == 0 .. n - 1
<1>1. IsFiniteSet(N) /\ Cardinality(N) = n
  BY IntervalSize
<1>2. p \in [N -> N] /\ \A i, k \in N : p[i] = p[k] => i = k
  BY DEF Permutations
<1> HIDE DEF N
<1>3. p \in Injection(N, N)
  BY <1>2 DEF Injection, IsInjective
<1>4. p \in Surjection(N, N)
  BY <1>1, <1>3, FS_Injection
<1> QED BY <1>4 DEF Surjection, N

(***************************************************************************)
(* A block of the router: h is half of its size.  Mates are mates of each  *)
(* other, and no input is its own mate.                                    *)
(***************************************************************************)
Opposite(h, i) == (i + h) % (2 * h)

LEMMA Opposites ==
  ASSUME NEW h \in Nat, h > 0, NEW i \in 0 .. 2 * h - 1
  PROVE  /\ Opposite(h, i) \in 0 .. 2 * h - 1
         /\ Opposite(h, i) = IF i < h THEN i + h ELSE i - h
         /\ Opposite(h, i) # i
         /\ Opposite(h, Opposite(h, i)) = i
<1>1. ASSUME NEW k \in 0 .. 2 * h - 1
      PROVE  Opposite(h, k) = IF k < h THEN k + h ELSE k - h
  <2>1. 2 * h \in Nat /\ 2 * h > 0 /\ k + h \in 0 .. 2 * (2 * h) - 1
    OBVIOUS
  <2>2. (k + h) % (2 * h) = IF k + h < 2 * h THEN k + h ELSE k + h - 2 * h
    BY <2>1, Remainder
  <2>3. k + h < 2 * h <=> k < h
    OBVIOUS
  <2>4. k + h - 2 * h = k - h
    OBVIOUS
  <2> QED BY <2>2, <2>3, <2>4 DEF Opposite
<1>2. Opposite(h, i) = IF i < h THEN i + h ELSE i - h
  BY <1>1
<1>3. Opposite(h, i) \in 0 .. 2 * h - 1 /\ Opposite(h, i) # i
  BY <1>2
<1>4. Opposite(h, Opposite(h, i)) = i
  BY <1>1, <1>2, <1>3
<1> QED BY <1>2, <1>3, <1>4

Through(p, h, i) == p[Opposite(h, InverseOf(p, i))]

LEMMA InverseIs ==
  ASSUME NEW n \in Nat, NEW p \in Permutations(n), NEW j \in 0 .. n - 1
  PROVE  /\ InverseOf(p, j) \in 0 .. n - 1 /\ p[InverseOf(p, j)] = j
         /\ p[j] \in 0 .. n - 1 /\ InverseOf(p, p[j]) = j
<1>0. DOMAIN p = 0 .. n - 1 /\ p \in [0 .. n - 1 -> 0 .. n - 1]
      /\ \A i, k \in 0 .. n - 1 : p[i] = p[k] => i = k
  BY DEF Permutations
<1>1. ASSUME NEW k \in 0 .. n - 1
      PROVE  InverseOf(p, k) \in 0 .. n - 1 /\ p[InverseOf(p, k)] = k
  <2>1. \E i \in 0 .. n - 1 : p[i] = k
    BY PermutationsAreOnto
  <2> QED BY <2>1, <1>0 DEF InverseOf
<1>2. p[j] \in 0 .. n - 1
  BY <1>0
<1>3. InverseOf(p, p[j]) = j
  BY <1>0, <1>1, <1>2
<1> QED BY <1>1, <1>2, <1>3

LEMMA ExitMates ==
  ASSUME NEW h \in Nat, h > 0, NEW p \in Permutations(2 * h), NEW i \in 0 .. 2 * h - 1
  PROVE  /\ Through(p, h, i) \in 0 .. 2 * h - 1
         /\ Through(p, h, i) # i
         /\ Through(p, h, Through(p, h, i)) = i
<1>0. 2 * h \in Nat
  OBVIOUS
<1> DEFINE j == InverseOf(p, i)
           o == Opposite(h, j)
<1>1. j \in 0 .. 2 * h - 1 /\ p[j] = i
  BY <1>0, InverseIs
<1> HIDE DEF j
<1>2. o \in 0 .. 2 * h - 1 /\ o # j /\ Opposite(h, o) = j
  BY <1>1, Opposites
<1> HIDE DEF o
<1>3. Through(p, h, i) = p[o]
  BY DEF Through, o, j
<1>4. p[o] \in 0 .. 2 * h - 1 /\ InverseOf(p, p[o]) = o
  BY <1>0, <1>2, InverseIs
<1>5. p[o] # i
  BY <1>1, <1>2 DEF Permutations
<1>6. Through(p, h, p[o]) = i
  BY <1>4, <1>2, <1>1 DEF Through
<1> QED BY <1>3, <1>4, <1>5, <1>6

(***************************************************************************)
(* The colouring of a block, for any two ways of pairing its inputs off.   *)
(***************************************************************************)
PairsOff(e, N) == e \in [N -> N] /\ \A i \in N : e[i] # i /\ e[e[i]] = i

Colorings(N) == [N -> {0, 1, Uncolored}]

\* Between walks mates have opposite colours, or none.
Balanced(c, e, x, N) ==
  \A i \in N : c[i] # Uncolored => c[e[i]] = 1 - c[i] /\ c[x[i]] = 1 - c[i]

\* On a walk that came from s to input a, about to be coloured k, only the input it came
\* from, and s, miss a mate of the opposite colour.  It comes by an exit to colour 0, and by
\* an entry to colour 1.
Walking(c, e, x, N, a, s, k) ==
  /\ a \in N /\ s \in N /\ k \in {0, 1}
  /\ c[a] = Uncolored
  /\ a = s => k = 0
  /\ a # s => /\ c[s] = 0
              /\ k = 0 => c[x[a]] = 1 - k
              /\ k = 1 => c[e[a]] = 1 - k
  /\ \A i \in N : c[i] # Uncolored =>
       \/ c[e[i]] = 1 - c[i]
       \/ e[i] = a /\ k = 1 /\ c[i] = 1 - k
  /\ \A i \in N : c[i] # Uncolored =>
       \/ c[x[i]] = 1 - c[i]
       \/ x[i] = a /\ k = 0 /\ c[i] = 1 - k
       \/ i = s

LEMMA WalksStart ==
  ASSUME NEW N, NEW e, NEW x, NEW c \in Colorings(N), Balanced(c, e, x, N),
         NEW s \in N, c[s] = Uncolored
  PROVE  Walking(c, e, x, N, s, s, 0)
BY DEF Balanced, Walking

LEMMA WalksGoOn ==
  ASSUME NEW N, NEW e, NEW x, PairsOff(e, N), PairsOff(x, N), NEW c \in Colorings(N),
         NEW a, NEW s, NEW k, Walking(c, e, x, N, a, s, k),
         NEW d, d = [c EXCEPT ![a] = k], NEW t, t = IF k = 0 THEN e[a] ELSE x[a]
  PROVE  /\ d \in Colorings(N)
         /\ t = s => Balanced(d, e, x, N)
         /\ t # s => Walking(d, e, x, N, t, s, 1 - k)
<1>0. /\ a \in N /\ s \in N /\ k \in {0, 1}
      /\ c[a] = Uncolored
      /\ a = s => k = 0
      /\ a # s => c[s] = 0
      /\ a # s /\ k = 0 => c[x[a]] = 1 - k
      /\ a # s /\ k = 1 => c[e[a]] = 1 - k
  BY DEF Walking
<1>1. \A i \in N : c[i] # Uncolored =>
        \/ c[e[i]] = 1 - c[i]
        \/ e[i] = a /\ k = 1 /\ c[i] = 1 - k
  BY DEF Walking
<1>2. \A i \in N : c[i] # Uncolored =>
        \/ c[x[i]] = 1 - c[i]
        \/ x[i] = a /\ k = 0 /\ c[i] = 1 - k
        \/ i = s
  BY DEF Walking
<1>3. /\ \A i \in N : e[i] \in N /\ e[i] # i /\ e[e[i]] = i
      /\ \A i \in N : x[i] \in N /\ x[i] # i /\ x[x[i]] = i
  BY DEF PairsOff
<1>4. /\ Uncolored = 255
      /\ \A i \in N : c[i] \in {0, 1, 255}
      /\ d \in [N -> {0, 1, 255}]
      /\ d[a] = k
      /\ \A i \in N : i # a => d[i] = c[i]
  BY <1>0 DEF Colorings, Uncolored
<1>5. d \in Colorings(N)
  BY <1>4 DEF Colorings
<1> HIDE DEF Balanced, Walking
<1>6. CASE k = 0
  <2>1. k = 0 /\ t = e[a] /\ t \in N /\ t # a
    BY <1>6, <1>0, <1>3
  <2>2. c[t] = Uncolored
    <3>1. SUFFICES ASSUME c[t] # Uncolored PROVE FALSE
      OBVIOUS
    <3>2. c[e[t]] = 1 - c[t]
      BY <3>1, <2>1, <1>1, <1>6
    <3>3. e[t] = a /\ c[t] \in {0, 1}
      BY <2>1, <1>3, <3>1, <1>4
    <3> QED BY <3>2, <3>3, <1>0, <1>4
  <2>3. t # s
    <3>1. ASSUME t = s PROVE FALSE
      <4>1. a # s
        BY <3>1, <2>1
      <4> QED BY <4>1, <3>1, <2>2, <1>0, <1>4
    <3> QED BY <3>1
  <2>4. d[s] = 0
    BY <1>0, <1>4, <2>1
  <2>5. d[t] = Uncolored /\ d[e[t]] = k /\ e[t] = a
    BY <2>1, <2>2, <1>3, <1>4
  <2>6. ASSUME NEW i \in N, d[i] # Uncolored
        PROVE  d[e[i]] = 1 - d[i] \/ (e[i] = t /\ d[i] = k)
    <3>1. CASE i = a
      BY <3>1, <1>4, <2>1
    <3>2. CASE i # a
      <4>1. d[i] = c[i] /\ c[e[i]] = 1 - c[i] /\ c[i] \in {0, 1}
        BY <3>2, <1>4, <1>1, <1>6, <2>6
      <4>2. e[i] # a
        BY <4>1, <1>0, <1>4
      <4> QED BY <4>1, <4>2, <1>3, <1>4
    <3> QED BY <3>1, <3>2
  <2>7. ASSUME NEW i \in N, d[i] # Uncolored
        PROVE  d[x[i]] = 1 - d[i] \/ i = s
    <3>1. CASE i = a
      <4>1. CASE a = s
        BY <4>1, <3>1
      <4>2. CASE a # s
        <5>1. c[x[a]] = 1 - k /\ x[a] # a /\ x[a] \in N
          BY <4>2, <1>0, <1>6, <1>3
        <5> QED BY <5>1, <3>1, <1>4
      <4> QED BY <4>1, <4>2
    <3>2. CASE i # a
      <4>1. d[i] = c[i] /\ c[i] \in {0, 1}
        BY <3>2, <1>4, <2>7
      <4>2. CASE c[x[i]] = 1 - c[i]
        <5>1. x[i] # a
          BY <4>1, <4>2, <1>0, <1>4
        <5> QED BY <4>1, <4>2, <5>1, <1>3, <1>4
      <4>3. CASE x[i] = a /\ c[i] = 1 - k
        BY <4>3, <4>1, <1>4, <2>1
      <4>4. CASE i = s
        BY <4>4
      <4> QED BY <4>1, <4>2, <4>3, <4>4, <1>2, <1>4
    <3> QED BY <3>1, <3>2
  <2>8. 1 - k \in {0, 1} /\ 1 - (1 - k) = k
    BY <1>6, <2>1
  <2>9. Walking(d, e, x, N, t, s, 1 - k)
    BY <2>1, <2>3, <2>4, <2>5, <2>6, <2>7, <2>8, <1>0, <1>6 DEF Walking
  <2> QED BY <2>3, <2>9, <1>5
<1>7. CASE k = 1
  <2>1. k = 1 /\ t = x[a] /\ t \in N /\ t # a /\ a # s /\ c[s] = 0
    BY <1>7, <1>0, <1>3
  <2>2. x[t] = a
    BY <2>1, <1>3, <1>0
  <2>3. c[t] # Uncolored => t = s
    <3>1. SUFFICES ASSUME c[t] # Uncolored, t # s PROVE FALSE
      OBVIOUS
    <3>2. c[x[t]] = 1 - c[t] /\ c[t] \in {0, 1}
      BY <3>1, <2>1, <1>2, <1>4, <1>7
    <3> QED BY <3>2, <2>2, <1>0, <1>4
  <2>4. ASSUME NEW i \in N, d[i] # Uncolored
        PROVE  d[e[i]] = 1 - d[i]
    <3>1. CASE i = a
      <4>1. c[e[a]] = 1 - k /\ e[a] # a /\ e[a] \in N
        BY <2>1, <1>0, <1>7, <1>3
      <4> QED BY <4>1, <3>1, <1>4
    <3>2. CASE i # a
      <4>1. d[i] = c[i] /\ c[i] \in {0, 1}
        BY <3>2, <1>4, <2>4
      <4>2. CASE c[e[i]] = 1 - c[i]
        <5>1. e[i] # a
          BY <4>1, <4>2, <1>0, <1>4
        <5> QED BY <4>1, <4>2, <5>1, <1>3, <1>4
      <4>3. CASE e[i] = a /\ c[i] = 1 - k
        BY <4>3, <4>1, <1>4, <2>1
      <4> QED BY <4>1, <4>2, <4>3, <1>1, <1>4
    <3> QED BY <3>1, <3>2
  <2>5. ASSUME NEW i \in N, d[i] # Uncolored
        PROVE  d[x[i]] = 1 - d[i] \/ i = s \/ (i = a /\ x[i] = t)
    <3>1. CASE i = a
      BY <3>1, <2>1
    <3>2. CASE i # a
      <4>1. d[i] = c[i] /\ c[i] \in {0, 1}
        BY <3>2, <1>4, <2>5
      <4>2. CASE c[x[i]] = 1 - c[i]
        <5>1. x[i] # a
          BY <4>1, <4>2, <1>0, <1>4
        <5> QED BY <4>1, <4>2, <5>1, <1>3, <1>4
      <4>3. CASE i = s
        BY <4>3
      <4> QED BY <4>1, <4>2, <4>3, <1>2, <1>4, <1>7
    <3> QED BY <3>1, <3>2
  <2>6. CASE t = s
    <3>1. d[s] = 0 /\ d[a] = 1 /\ x[s] = a /\ x[a] = s
      BY <2>1, <2>2, <2>6, <1>4
    <3>2. ASSUME NEW i \in N, d[i] # Uncolored PROVE d[x[i]] = 1 - d[i]
      <4>1. CASE i = s
        BY <4>1, <3>1
      <4>2. CASE i = a
        BY <4>2, <3>1
      <4> QED BY <4>1, <4>2, <3>2, <2>5
    <3>3. Balanced(d, e, x, N)
      BY <2>4, <3>2 DEF Balanced
    <3> QED BY <3>3, <2>6, <1>5
  <2>7. CASE t # s
    <3>1. c[t] = Uncolored /\ d[t] = Uncolored
      BY <2>7, <2>3, <2>1, <1>4
    <3>2. d[s] = 0 /\ d[x[t]] = k
      BY <2>1, <2>2, <1>0, <1>4
    <3>3. 1 - k \in {0, 1} /\ 1 - (1 - k) = k
      BY <1>7, <2>1
    <3>4. \A i \in N : d[i] # Uncolored =>
            \/ d[x[i]] = 1 - d[i]
            \/ x[i] = t /\ d[i] = k
            \/ i = s
      BY <2>5, <1>4
    <3>5. Walking(d, e, x, N, t, s, 1 - k)
      BY <2>1, <2>4, <2>7, <3>1, <3>2, <3>3, <3>4, <1>0, <1>7 DEF Walking
    <3> QED BY <3>5, <2>7, <1>5
  <2> QED BY <2>6, <2>7
<1> QED BY <1>0, <1>6, <1>7

\* The position among the outputs j and j + h whose source has colour k.
Chosen(p, h, c, k, j) == IF c[p[j]] = k THEN j ELSE j + h

MatesDiffer(p, h, c) ==
  \A i \in 0 .. 2 * h - 1 : c[i] # c[Opposite(h, i)] /\ c[i] # c[Through(p, h, i)]

LEMMA ChosenHasItsColor ==
  ASSUME NEW h \in Nat, h > 0, NEW p \in Permutations(2 * h),
         NEW c \in [0 .. 2 * h - 1 -> {0, 1}], MatesDiffer(p, h, c),
         NEW k \in {0, 1}, NEW j \in 0 .. h - 1
  PROVE  /\ Chosen(p, h, c, k, j) \in 0 .. 2 * h - 1
         /\ p[Chosen(p, h, c, k, j)] \in 0 .. 2 * h - 1
         /\ c[p[Chosen(p, h, c, k, j)]] = k
<1>0. 2 * h \in Nat /\ j \in 0 .. 2 * h - 1 /\ j + h \in 0 .. 2 * h - 1
  OBVIOUS
<1>1. p[j] \in 0 .. 2 * h - 1 /\ p[j + h] \in 0 .. 2 * h - 1 /\ InverseOf(p, p[j]) = j
  BY <1>0, InverseIs
<1>2. Through(p, h, p[j]) = p[j + h]
  <2>1. Opposite(h, j) = j + h
    BY <1>0, Opposites
  <2> QED BY <2>1, <1>1 DEF Through
<1>3. c[p[j]] # c[p[j + h]] /\ c[p[j]] \in {0, 1} /\ c[p[j + h]] \in {0, 1}
  BY <1>1, <1>2 DEF MatesDiffer
<1>4. CASE c[p[j]] = k
  BY <1>4, <1>0, <1>1 DEF Chosen
<1>5. CASE c[p[j]] # k
  BY <1>5, <1>0, <1>1, <1>3 DEF Chosen
<1> QED BY <1>4, <1>5

\* The place of x in its half of a block.
InHalf(h, x) == IF x < h THEN x ELSE x - h

LEMMA SubNetworkIsAPermutation ==
  ASSUME NEW h \in Nat, h > 0, NEW p \in Permutations(2 * h),
         NEW c \in [0 .. 2 * h - 1 -> {0, 1}], MatesDiffer(p, h, c), NEW k \in {0, 1},
         NEW q, q = [j \in 0 .. h - 1 |-> IF c[p[j]] = k THEN p[j] % h ELSE p[j + h] % h]
  PROVE  /\ q \in Permutations(h)
         /\ \A j \in 0 .. h - 1 : q[j] = InHalf(h, p[Chosen(p, h, c, k, j)])
<1> DEFINE s(j) == p[Chosen(p, h, c, k, j)]
<1>0. \A j \in 0 .. h - 1 : q[j] = s(j) % h
  BY DEF Chosen
<1>1. \A j \in 0 .. h - 1 : /\ Chosen(p, h, c, k, j) \in 0 .. 2 * h - 1
                            /\ s(j) \in 0 .. 2 * h - 1 /\ c[s(j)] = k
  BY ChosenHasItsColor
<1>2. \A i, j \in 0 .. h - 1 : s(i) = s(j) => i = j
  <2>1. \A i, j \in 0 .. h - 1 : s(i) = s(j) => Chosen(p, h, c, k, i) = Chosen(p, h, c, k, j)
    BY <1>1 DEF Permutations
  <2>2. \A i, j \in 0 .. h - 1 : Chosen(p, h, c, k, i) = Chosen(p, h, c, k, j) => i = j
    BY DEF Chosen
  <2> QED BY <2>1, <2>2
<1> HIDE DEF s
<1>3. ASSUME NEW j \in 0 .. h - 1 PROVE q[j] = IF s(j) < h THEN s(j) ELSE s(j) - h
  <2>1. q[j] = s(j) % h /\ s(j) \in 0 .. 2 * h - 1
    BY <1>0, <1>1
  <2>2. s(j) % h = IF s(j) < h THEN s(j) ELSE s(j) - h
    BY <2>1, Remainder
  <2> QED BY <2>1, <2>2
<1>4. ASSUME NEW j \in 0 .. h - 1 PROVE q[j] \in 0 .. h - 1
  <2>1. s(j) \in 0 .. 2 * h - 1
    BY <1>1
  <2>2. q[j] = IF s(j) < h THEN s(j) ELSE s(j) - h
    BY <1>3
  <2> QED BY <2>1, <2>2
<1>5. ASSUME NEW i \in 0 .. h - 1, NEW j \in 0 .. h - 1, q[i] = q[j] PROVE i = j
  <2>1. CASE s(i) = s(j)
    BY <2>1, <1>2
  <2>2. CASE s(i) # s(j)
    <3>1. s(i) = Opposite(h, s(j))
      <4>1. Opposite(h, s(j)) = IF s(j) < h THEN s(j) + h ELSE s(j) - h
        BY <1>1, Opposites
      <4> QED BY <4>1, <2>2, <1>3, <1>5, <1>1
    <3>2. c[s(i)] # c[s(j)]
      BY <3>1, <1>1 DEF MatesDiffer
    <3> QED BY <3>2, <1>1
  <2> QED BY <2>1, <2>2
<1>6. q \in [0 .. h - 1 -> 0 .. h - 1]
  BY <1>4
<1>7. q \in Permutations(h)
  BY <1>5, <1>6 DEF Permutations
<1> QED BY <1>3, <1>7 DEF s, InHalf

(***************************************************************************)
(* The inductive invariant of the router.                                  *)
(***************************************************************************)
\* Blocks of a network on 2^v wires: at depth d they permute 2^(v - d) wires.
GoodBlocks(v) ==
  UNION {[perm : Permutations(PowerOf2[v - d]), base : Nat, depth : {d}] : d \in 0 .. v - 1}

BlockWires == DOMAIN Block.perm
MatesOfEntry == [i \in BlockWires |-> EntryMate(i)]
MatesOfExit == [i \in BlockWires |-> ExitMate(i)]

\* Where a walk is.  It alternates as the colours do.
WalkType == [start : Nat, at : Nat, color : {0}, viaEntry : {TRUE}]
            \cup [start : Nat, at : Nat, color : {1}, viaEntry : {FALSE}]

\* What the builder has linked, and what the router is to realize.
Linked ==
  /\ CheckedTrace
  /\ numVars = NumVarsFor(Len(trace))
  /\ rows = SortedRows

ToRoute ==
  /\ perm \in Permutations(PowerOf2[numVars])
  /\ \A j \in AllWires : rows[perm[j]] = FromRecord(Original(j))

RouterInv ==
  /\ stage \in {"link", "route", "block", "scan", "walk"} => Linked
  /\ stage \in {"route", "block", "scan", "walk"} => ToRoute
  /\ stage \in {"block", "scan", "walk"} => blocks \in Seq(GoodBlocks(numVars))
  /\ stage \in {"scan", "walk"} => /\ blocks # <<>> /\ Size > 2
                                   /\ color \in Colorings(BlockWires)
  /\ stage = "scan" => Balanced(color, MatesOfEntry, MatesOfExit, BlockWires)
  /\ stage = "walk" =>
       /\ walk \in WalkType
       /\ Walking(color, MatesOfEntry, MatesOfExit, BlockWires, walk.at, walk.start, walk.color)

LEMMA GoodBlock ==
  ASSUME NEW v \in Nat, NEW b \in GoodBlocks(v)
  PROVE  /\ b.depth \in 0 .. v - 1 /\ b.base \in Nat
         /\ b.perm \in Permutations(PowerOf2[v - b.depth])
         /\ b = [perm |-> b.perm, base |-> b.base, depth |-> b.depth]
<1>1. PICK d \in 0 .. v - 1 : b \in [perm : Permutations(PowerOf2[v - d]), base : Nat, depth : {d}]
  BY DEF GoodBlocks
<1> QED BY <1>1

LEMMA GoodBlockIs ==
  ASSUME NEW v \in Nat, NEW d \in 0 .. v - 1, NEW p \in Permutations(PowerOf2[v - d]), NEW b \in Nat
  PROVE  [perm |-> p, base |-> b, depth |-> d] \in GoodBlocks(v)
BY DEF GoodBlocks

LEMMA PowerOf2Twice ==
  ASSUME NEW k \in Nat, k > 0
  PROVE  PowerOf2[k] = 2 * PowerOf2[k - 1]
<1>1. k - 1 \in Nat /\ (k - 1) + 1 = k
  OBVIOUS
<1> QED BY <1>1, PowersOfTwo DEF PowersOf

LEMMA PowerOf2Zero == PowerOf2[0] = 1
BY PowersOfTwo DEF PowersOf

LEMMA HeadBlock ==
  ASSUME NEW v \in Nat, blocks \in Seq(GoodBlocks(v)), blocks # <<>>
  PROVE  /\ Block \in GoodBlocks(v)
         /\ Half \in Nat /\ Half > 0 /\ Size = 2 * Half
         /\ Half = PowerOf2[v - Block.depth - 1]
         /\ Size > 2 => Block.depth + 1 \in 0 .. v - 1
         /\ Block.perm \in Permutations(2 * Half)
         /\ BlockWires = 0 .. 2 * Half - 1
         /\ \A i \in BlockWires : /\ EntryMate(i) = Opposite(Half, i)
                                  /\ ExitMate(i) = Through(Block.perm, Half, i)
<1>1. Block \in GoodBlocks(v)
  BY DEF Block
<1>2. /\ Block.depth \in 0 .. v - 1
      /\ Block.perm \in Permutations(PowerOf2[v - Block.depth])
  BY <1>1, GoodBlock
<1> DEFINE k == v - Block.depth
           m == PowerOf2[k - 1]
<1>3. k \in Nat /\ k > 0 /\ k - 1 \in Nat
  BY <1>2
<1>4. PowerOf2[k] = 2 * m /\ m \in Nat /\ m > 0
  <2> HIDE DEF k
  <2>1. PowerOf2[k] = 2 * PowerOf2[k - 1]
    BY <1>3, PowerOf2Twice
  <2>2. PowerOf2[k - 1] \in Nat /\ PowerOf2[k - 1] > 0
    BY <1>3, PowerOf2Type
  <2> QED BY <2>1, <2>2
<1>5. BlockWires = 0 .. 2 * m - 1
  BY <1>2, <1>4 DEF Permutations, BlockWires
<1>6. Size = 2 * m
  <2>1. 2 * m \in Nat
    BY <1>4
  <2> HIDE DEF m
  <2> QED BY <2>1, <1>5, IntervalSize DEF Size, BlockWires
<1>7. Half = m
  BY <1>4, <1>6 DEF Half
<1>8. ASSUME Size > 2 PROVE Block.depth + 1 \in 0 .. v - 1
  <2>1. k # 1
    <3>1. ASSUME k = 1 PROVE FALSE
      <4>1. m = 1
        BY <3>1, PowerOf2Zero
      <4> QED BY <4>1, <1>6, <1>8
    <3> QED BY <3>1
  <2> QED BY <2>1, <1>2, <1>3
<1>9. \A i \in BlockWires : /\ EntryMate(i) = Opposite(Half, i)
                            /\ ExitMate(i) = Through(Block.perm, Half, i)
  BY <1>6, <1>7 DEF EntryMate, ExitMate, Opposite, Through
<1> QED BY <1>1, <1>2, <1>4, <1>5, <1>6, <1>7, <1>8, <1>9

LEMMA MatesPairOff ==
  ASSUME NEW v \in Nat, blocks \in Seq(GoodBlocks(v)), blocks # <<>>
  PROVE  PairsOff(MatesOfEntry, BlockWires) /\ PairsOff(MatesOfExit, BlockWires)
<1> DEFINE p == Block.perm
           h == Half
<1>1. /\ h \in Nat /\ h > 0 /\ p \in Permutations(2 * h) /\ BlockWires = 0 .. 2 * h - 1
      /\ \A i \in BlockWires : /\ EntryMate(i) = Opposite(h, i)
                               /\ ExitMate(i) = Through(p, h, i)
  BY HeadBlock
<1> HIDE DEF p, h
<1>2. /\ \A i \in BlockWires : MatesOfEntry[i] = Opposite(h, i)
      /\ \A i \in BlockWires : MatesOfExit[i] = Through(p, h, i)
  BY <1>1 DEF MatesOfEntry, MatesOfExit
<1>3. ASSUME NEW i \in BlockWires
      PROVE  /\ Opposite(h, i) \in BlockWires /\ Opposite(h, i) # i
             /\ Opposite(h, Opposite(h, i)) = i
  <2>1. i \in 0 .. 2 * h - 1
    BY <1>1
  <2> QED BY <2>1, <1>1, Opposites
<1>4. ASSUME NEW i \in BlockWires
      PROVE  /\ Through(p, h, i) \in BlockWires /\ Through(p, h, i) # i
             /\ Through(p, h, Through(p, h, i)) = i
  <2>1. i \in 0 .. 2 * h - 1
    BY <1>1
  <2> QED BY <2>1, <1>1, ExitMates
<1>5. MatesOfEntry \in [BlockWires -> BlockWires]
  BY <1>1, <1>3 DEF MatesOfEntry
<1>6. MatesOfExit \in [BlockWires -> BlockWires]
  BY <1>1, <1>4 DEF MatesOfExit
<1>7. PairsOff(MatesOfEntry, BlockWires)
  BY <1>2, <1>3, <1>5 DEF PairsOff
<1>8. PairsOff(MatesOfExit, BlockWires)
  BY <1>2, <1>4, <1>6 DEF PairsOff
<1> QED BY <1>7, <1>8

LEMMA LinkedType ==
  ASSUME trace \in Seq(TraceRecord), Linked
  PROVE  /\ numVars \in Nat /\ numVars > 0
         /\ AllWires = Wires(numVars)
         /\ PowerOf2[numVars] \in Nat
BY SizeFits DEF Linked, AllWires

LEMMA TraceStays ==
  ASSUME trace' = trace
  PROVE  /\ CheckedTrace' = CheckedTrace /\ SortedRows' = SortedRows
         /\ AllWires' = AllWires /\ \A j : Original(j)' = Original(j)
BY DEF CheckedTrace, TimesOfTraceIncrease, LastTime, SortedRows, AllWires, Sorted, Original,
       Padded, SortedTrace, PaddingRecord

LEMMA BuildLinks ==
  ASSUME trace \in Seq(TraceRecord), Build
  PROVE  Linked'
<1>1. /\ Refusal = None /\ numVars' = NumVarsFor(Len(trace)) /\ trace' = trace
      /\ rows' = [i \in Wires(NumVarsFor(Len(trace))) |->
                    FromRecord(Padded(SortedTrace, NumVarsFor(Len(trace)))[i])]
  BY DEF Build
<1>2. CheckedTrace
  BY <1>1, BuilderChecks
<1>3. CheckedTrace' /\ SortedRows' = SortedRows
  BY <1>1, <1>2, TraceStays
<1>4. rows' = SortedRows
  BY <1>1 DEF SortedRows, AllWires, Sorted
<1> QED BY <1>1, <1>3, <1>4 DEF Linked

LEMMA LinkedStays ==
  ASSUME Linked, trace' = trace, numVars' = numVars, rows' = rows
  PROVE  Linked'
<1>1. CheckedTrace' = CheckedTrace /\ SortedRows' = SortedRows
  BY TraceStays
<1> QED BY <1>1 DEF Linked

LEMMA ToRouteStays ==
  ASSUME ToRoute, trace' = trace, numVars' = numVars, rows' = rows, perm' = perm
  PROVE  ToRoute'
<1>1. AllWires' = AllWires /\ \A j : Original(j)' = Original(j)
  BY TraceStays
<1> QED BY <1>1 DEF ToRoute

LEMMA LinkFindsThePermutation ==
  ASSUME trace \in Seq(TraceRecord), Linked, Link
  PROVE  ToRoute'
<1>1. CheckedTrace /\ numVars = NumVarsFor(Len(trace)) /\ rows = SortedRows
  BY DEF Linked
<1>2. /\ trace' = trace /\ numVars' = numVars /\ rows' = rows
      /\ perm' = [j \in AllWires |->
                    CHOOSE i \in AllWires : TimeOf(SortedRows[i]) = Original(j).time_log]
  BY <1>1 DEF Link, AllWires, Original
<1>3. /\ perm' \in Permutations(PowerOf2[numVars])
      /\ \A j \in AllWires : SortedRows[perm'[j]] = FromRecord(Original(j))
  BY <1>1, <1>2, LinkIsAPermutation
<1>4. AllWires' = AllWires /\ \A j : Original(j)' = Original(j)
  BY <1>2, TraceStays
<1> QED BY <1>1, <1>2, <1>3, <1>4 DEF ToRoute

LEMMA RouteOpensOneBlock ==
  ASSUME numVars \in Nat, numVars > 0, perm \in Permutations(PowerOf2[numVars]), Route
  PROVE  blocks' \in Seq(GoodBlocks(numVars))
<1>1. 0 \in 0 .. numVars - 1 /\ numVars - 0 = numVars
  OBVIOUS
<1>2. [perm |-> perm, base |-> 0, depth |-> 0] \in GoodBlocks(numVars)
  BY <1>1, GoodBlockIs
<1> QED BY <1>2 DEF Route

LEMMA OpenedBlockIsBlank ==
  ASSUME OpenBlock
  PROVE  /\ color' \in Colorings(BlockWires)
         /\ Balanced(color', MatesOfEntry, MatesOfExit, BlockWires)
<1>1. color' = [i \in BlockWires |-> Uncolored]
  BY DEF OpenBlock, BlockWires
<1> QED BY <1>1 DEF Colorings, Balanced

LEMMA StartedWalkIsOne ==
  ASSUME color \in Colorings(BlockWires), Balanced(color, MatesOfEntry, MatesOfExit, BlockWires),
         BlockWires \subseteq Nat, StartWalk
  PROVE  /\ walk' \in WalkType
         /\ Walking(color, MatesOfEntry, MatesOfExit, BlockWires,
                    walk'.at, walk'.start, walk'.color)
<1>1. PICK s \in DOMAIN color :
        /\ color[s] = Uncolored
        /\ walk' = [start |-> s, at |-> s, color |-> 0, viaEntry |-> TRUE]
  BY DEF StartWalk
<1>2. s \in BlockWires /\ s \in Nat
  BY DEF Colorings
<1>3. walk' \in WalkType /\ walk'.at = s /\ walk'.start = s /\ walk'.color = 0
  BY <1>1, <1>2 DEF WalkType
<1>4. Walking(color, MatesOfEntry, MatesOfExit, BlockWires, s, s, 0)
  BY <1>1, <1>2, WalksStart
<1> QED BY <1>3, <1>4

LEMMA UpdatedWalk ==
  ASSUME NEW w, NEW u, NEW s, NEW a, NEW c, NEW e, NEW at, NEW d, NEW f,
         w = [start |-> s, at |-> a, color |-> c, viaEntry |-> e],
         u = [w EXCEPT !.at = at, !.color = d, !.viaEntry = f]
  PROVE  u = [start |-> s, at |-> at, color |-> d, viaEntry |-> f]
OBVIOUS

LEMMA NextByEntry ==
  ASSUME walk \in [start : Nat, at : Nat, color : {0}, viaEntry : {TRUE}], NEW next \in Nat,
         walk' = [walk EXCEPT !.at = next, !.color = 1 - @, !.viaEntry = ~ @]
  PROVE  /\ walk' \in [start : Nat, at : Nat, color : {1}, viaEntry : {FALSE}]
         /\ walk'.at = next /\ walk'.start = walk.start /\ walk'.color = 1 - walk.color
         /\ walk.color = 0 /\ walk.viaEntry = TRUE
<1>1. walk.start \in Nat /\ walk.at \in Nat /\ walk.color \in {0} /\ walk.viaEntry \in {TRUE}
  BY Zenon
<1>2. walk.color = 0 /\ walk.viaEntry = TRUE
  BY <1>1, Zenon
<1>3. walk = [start |-> walk.start, at |-> walk.at, color |-> walk.color, viaEntry |-> walk.viaEntry]
  OBVIOUS
<1>4. PICK s, a \in Nat : walk = [start |-> s, at |-> a, color |-> 0, viaEntry |-> TRUE]
  BY <1>1, <1>2, <1>3, Zenon
<1>5. walk' = [walk EXCEPT !.at = next, !.color = 1, !.viaEntry = FALSE]
  <2>1. walk' = [walk EXCEPT !.at = next, !.color = 1 - walk.color, !.viaEntry = ~ walk.viaEntry]
    OBVIOUS
  <2>2. (~ walk.viaEntry) = FALSE /\ 1 - walk.color = 1
    BY <1>2
  <2> QED BY <2>1, <2>2, Zenon
<1>6. walk' = [start |-> s, at |-> next, color |-> 1, viaEntry |-> FALSE]
  <2> DEFINE w == walk
             u == walk'
  <2>1. /\ w = [start |-> s, at |-> a, color |-> 0, viaEntry |-> TRUE]
        /\ u = [w EXCEPT !.at = next, !.color = 1, !.viaEntry = FALSE]
    BY <1>4, <1>5, Zenon
  <2> HIDE DEF w, u
  <2>2. u = [start |-> s, at |-> next, color |-> 1, viaEntry |-> FALSE]
    BY <2>1, UpdatedWalk
  <2> QED BY <2>2 DEF u
<1>7. walk' \in [start : Nat, at : Nat, color : {1}, viaEntry : {FALSE}]
  <2>1. [start |-> s, at |-> next, color |-> 1, viaEntry |-> FALSE]
          \in [start : Nat, at : Nat, color : {1}, viaEntry : {FALSE}]
    BY Zenon
  <2> QED BY <2>1, <1>6, Zenon
<1>8. walk'.at = next /\ walk'.start = s /\ walk'.color = 1 /\ walk.start = s
  BY <1>4, <1>6
<1> QED BY <1>2, <1>7, <1>8

LEMMA NextByExit ==
  ASSUME walk \in [start : Nat, at : Nat, color : {1}, viaEntry : {FALSE}], NEW next \in Nat,
         walk' = [walk EXCEPT !.at = next, !.color = 1 - @, !.viaEntry = ~ @]
  PROVE  /\ walk' \in [start : Nat, at : Nat, color : {0}, viaEntry : {TRUE}]
         /\ walk'.at = next /\ walk'.start = walk.start /\ walk'.color = 1 - walk.color
         /\ walk.color = 1 /\ walk.viaEntry = FALSE
<1>1. walk.start \in Nat /\ walk.at \in Nat /\ walk.color \in {1} /\ walk.viaEntry \in {FALSE}
  BY Zenon
<1>2. walk.color = 1 /\ walk.viaEntry = FALSE
  BY <1>1, Zenon
<1>3. walk = [start |-> walk.start, at |-> walk.at, color |-> walk.color, viaEntry |-> walk.viaEntry]
  OBVIOUS
<1>4. PICK s, a \in Nat : walk = [start |-> s, at |-> a, color |-> 1, viaEntry |-> FALSE]
  BY <1>1, <1>2, <1>3, Zenon
<1>5. walk' = [walk EXCEPT !.at = next, !.color = 0, !.viaEntry = TRUE]
  <2>1. walk' = [walk EXCEPT !.at = next, !.color = 1 - walk.color, !.viaEntry = ~ walk.viaEntry]
    OBVIOUS
  <2>2. (~ walk.viaEntry) = TRUE /\ 1 - walk.color = 0
    BY <1>2
  <2> QED BY <2>1, <2>2, Zenon
<1>6. walk' = [start |-> s, at |-> next, color |-> 0, viaEntry |-> TRUE]
  <2> DEFINE w == walk
             u == walk'
  <2>1. /\ w = [start |-> s, at |-> a, color |-> 1, viaEntry |-> FALSE]
        /\ u = [w EXCEPT !.at = next, !.color = 0, !.viaEntry = TRUE]
    BY <1>4, <1>5, Zenon
  <2> HIDE DEF w, u
  <2>2. u = [start |-> s, at |-> next, color |-> 0, viaEntry |-> TRUE]
    BY <2>1, UpdatedWalk
  <2> QED BY <2>2 DEF u
<1>7. walk' \in [start : Nat, at : Nat, color : {0}, viaEntry : {TRUE}]
  <2>1. [start |-> s, at |-> next, color |-> 0, viaEntry |-> TRUE]
          \in [start : Nat, at : Nat, color : {0}, viaEntry : {TRUE}]
    BY Zenon
  <2> QED BY <2>1, <1>6, Zenon
<1>8. walk'.at = next /\ walk'.start = s /\ walk'.color = 0 /\ walk.start = s
  BY <1>4, <1>6
<1> QED BY <1>2, <1>7, <1>8

LEMMA NextOfWalk ==
  ASSUME walk \in WalkType, NEW next \in Nat,
         walk' = [walk EXCEPT !.at = next, !.color = 1 - @, !.viaEntry = ~ @]
  PROVE  /\ walk' \in WalkType
         /\ walk'.at = next /\ walk'.start = walk.start /\ walk'.color = 1 - walk.color
         /\ walk.color \in {0, 1} /\ (walk.viaEntry <=> walk.color = 0)
<1>1. CASE walk \in [start : Nat, at : Nat, color : {0}, viaEntry : {TRUE}]
  <2>1. /\ walk' \in WalkType
        /\ walk'.at = next /\ walk'.start = walk.start /\ walk'.color = 1 - walk.color
        /\ walk.color = 0
    BY <1>1, NextByEntry DEF WalkType
  <2>2. walk.viaEntry = TRUE
    BY <1>1, NextByEntry, Zenon
  <2>3. walk.viaEntry <=> walk.color = 0
    BY <2>1, <2>2, Zenon
  <2> QED BY <2>1, <2>3, Zenon
<1>2. CASE walk \in [start : Nat, at : Nat, color : {1}, viaEntry : {FALSE}]
  <2>1. /\ walk' \in WalkType
        /\ walk'.at = next /\ walk'.start = walk.start /\ walk'.color = 1 - walk.color
        /\ walk.color = 1 /\ 1 # 0
    <3>1. /\ walk' \in [start : Nat, at : Nat, color : {0}, viaEntry : {TRUE}]
          /\ walk'.at = next /\ walk'.start = walk.start /\ walk'.color = 1 - walk.color
          /\ walk.color = 1
      BY <1>2, NextByExit, Zenon
    <3>2. walk' \in WalkType
      BY <3>1, Zenon DEF WalkType
    <3> QED BY <3>1, <3>2
  <2>2. walk.viaEntry = FALSE
    BY <1>2, NextByExit, Zenon
  <2>3. walk.viaEntry <=> walk.color = 0
    BY <2>1, <2>2, Zenon
  <2>4. walk.color \in {0, 1}
    BY <2>1, Zenon
  <2> QED BY <2>1, <2>3, <2>4, Zenon
<1> QED BY <1>1, <1>2, Zenon DEF WalkType

LEMMA WalkGoesOn ==
  ASSUME NEW v \in Nat, blocks \in Seq(GoodBlocks(v)), blocks # <<>>,
         color \in Colorings(BlockWires), walk \in WalkType,
         Walking(color, MatesOfEntry, MatesOfExit, BlockWires, walk.at, walk.start, walk.color),
         Walk
  PROVE  /\ color' \in Colorings(BlockWires)
         /\ stage' \in {"scan", "walk"}
         /\ stage' = "scan" => Balanced(color', MatesOfEntry, MatesOfExit, BlockWires)
         /\ stage' = "walk" =>
              /\ walk' \in WalkType
              /\ Walking(color', MatesOfEntry, MatesOfExit, BlockWires,
                         walk'.at, walk'.start, walk'.color)
<1> DEFINE next == IF walk.viaEntry THEN MatesOfEntry[walk.at] ELSE MatesOfExit[walk.at]
<1>0. walk.at \in BlockWires
  BY DEF Walking
<1>1. /\ color' = [color EXCEPT ![walk.at] = walk.color]
      /\ walk' = [walk EXCEPT !.at = next, !.color = 1 - @, !.viaEntry = ~ @]
      /\ stage' = IF next = walk.start THEN "scan" ELSE "walk"
  BY <1>0 DEF Walk, MatesOfEntry, MatesOfExit
<1>2. PairsOff(MatesOfEntry, BlockWires) /\ PairsOff(MatesOfExit, BlockWires)
  BY MatesPairOff
<1>3. BlockWires \subseteq Nat
  BY HeadBlock
<1>4. next \in Nat
  BY <1>0, <1>2, <1>3 DEF PairsOff
<1>5. next = IF walk.viaEntry THEN MatesOfEntry[walk.at] ELSE MatesOfExit[walk.at]
  OBVIOUS
<1> HIDE DEF next
<1>6. /\ walk' \in WalkType
      /\ walk'.at = next /\ walk'.start = walk.start /\ walk'.color = 1 - walk.color
      /\ walk.color \in {0, 1} /\ (walk.viaEntry <=> walk.color = 0)
  BY <1>1, <1>4, NextOfWalk
<1>7. next = IF walk.color = 0 THEN MatesOfEntry[walk.at] ELSE MatesOfExit[walk.at]
  BY <1>5, <1>6
<1>8. /\ color' \in Colorings(BlockWires)
      /\ next = walk.start => Balanced(color', MatesOfEntry, MatesOfExit, BlockWires)
      /\ next # walk.start =>
           Walking(color', MatesOfEntry, MatesOfExit, BlockWires,
                   next, walk.start, 1 - walk.color)
  <2> DEFINE a == walk.at
             s == walk.start
             c == walk.color
             d == color'
  <2>1. /\ Walking(color, MatesOfEntry, MatesOfExit, BlockWires, a, s, c)
        /\ next = IF c = 0 THEN MatesOfEntry[a] ELSE MatesOfExit[a]
        /\ d = [color EXCEPT ![a] = c]
    BY <1>1, <1>7
  <2> HIDE DEF a, s, c, d
  <2>2. /\ d \in Colorings(BlockWires)
        /\ next = s => Balanced(d, MatesOfEntry, MatesOfExit, BlockWires)
        /\ next # s => Walking(d, MatesOfEntry, MatesOfExit, BlockWires, next, s, 1 - c)
    BY <1>2, <2>1, WalksGoOn
  <2> QED BY <2>2 DEF a, s, c, d
<1> QED BY <1>1, <1>6, <1>8

LEMMA ColoredBlockSplits ==
  ASSUME NEW v \in Nat, blocks \in Seq(GoodBlocks(v)), blocks # <<>>,
         color \in Colorings(BlockWires), Balanced(color, MatesOfEntry, MatesOfExit, BlockWires),
         \A i \in DOMAIN color : color[i] # Uncolored
  PROVE  /\ color \in [0 .. 2 * Half - 1 -> {0, 1}]
         /\ MatesDiffer(Block.perm, Half, color)
<1>1. /\ Half \in Nat /\ Half > 0 /\ BlockWires = 0 .. 2 * Half - 1
      /\ \A i \in BlockWires : /\ EntryMate(i) = Opposite(Half, i)
                               /\ ExitMate(i) = Through(Block.perm, Half, i)
  BY HeadBlock
<1>2. DOMAIN color = BlockWires /\ \A i \in BlockWires : color[i] \in {0, 1}
  BY DEF Colorings
<1>3. color \in [BlockWires -> {0, 1}]
  BY <1>2 DEF Colorings
<1>4. \A i \in BlockWires : color[MatesOfEntry[i]] = 1 - color[i] /\ color[MatesOfExit[i]] = 1 - color[i]
  BY <1>2 DEF Balanced
<1>5. \A i \in BlockWires : /\ color[Opposite(Half, i)] = 1 - color[i]
                            /\ color[Through(Block.perm, Half, i)] = 1 - color[i]
  BY <1>1, <1>4 DEF MatesOfEntry, MatesOfExit
<1>6. MatesDiffer(Block.perm, Half, color)
  <2>1. SUFFICES ASSUME NEW i \in BlockWires
                 PROVE  color[i] # color[Opposite(Half, i)] /\ color[i] # color[Through(Block.perm, Half, i)]
    BY <1>1 DEF MatesDiffer
  <2>2. color[i] \in {0, 1} /\ color[Opposite(Half, i)] = 1 - color[i]
        /\ color[Through(Block.perm, Half, i)] = 1 - color[i]
    BY <1>2, <1>5
  <2> QED BY <2>2
<1> QED BY <1>1, <1>3, <1>6

LEMMA ClosedBlockIsSplit ==
  ASSUME NEW v \in Nat, blocks \in Seq(GoodBlocks(v)), blocks # <<>>, Size > 2,
         color \in Colorings(BlockWires), Balanced(color, MatesOfEntry, MatesOfExit, BlockWires),
         CloseBlock
  PROVE  blocks' \in Seq(GoodBlocks(v))
<1>1. color \in [0 .. 2 * Half - 1 -> {0, 1}] /\ MatesDiffer(Block.perm, Half, color)
  <2>1. \A i \in DOMAIN color : color[i] # Uncolored
    BY DEF CloseBlock, Colored
  <2> QED BY <2>1, ColoredBlockSplits
<1>2. /\ Half \in Nat /\ Half > 0 /\ Half = PowerOf2[v - Block.depth - 1]
      /\ Block.depth + 1 \in 0 .. v - 1
      /\ Block.perm \in Permutations(2 * Half)
      /\ Block.base \in Nat /\ Block.depth \in Nat
  BY HeadBlock, GoodBlock
<1>3. ASSUME NEW c \in {0, 1} PROVE SubPerm(c) \in Permutations(Half)
  <2> DEFINE p == Block.perm
             h == Half
  <2>1. SubPerm(c) = [j \in 0 .. h - 1 |->
                        IF color[p[j]] = c THEN p[j] % h ELSE p[j + h] % h]
    BY DEF SubPerm
  <2>2. /\ h \in Nat /\ h > 0 /\ p \in Permutations(2 * h)
        /\ color \in [0 .. 2 * h - 1 -> {0, 1}] /\ MatesDiffer(p, h, color)
    BY <1>1, <1>2
  <2> HIDE DEF p, h
  <2>3. SubPerm(c) \in Permutations(h)
    BY <2>1, <2>2, SubNetworkIsAPermutation
  <2> QED BY <2>3 DEF h
<1>4. v - (Block.depth + 1) = v - Block.depth - 1
  BY <1>2
<1>5. [perm |-> SubPerm(0), base |-> Block.base, depth |-> Block.depth + 1] \in GoodBlocks(v)
  BY <1>2, <1>3, <1>4, GoodBlockIs
<1>6. [perm |-> SubPerm(1), base |-> Block.base + Half, depth |-> Block.depth + 1] \in GoodBlocks(v)
  <2>1. Block.base + Half \in Nat
    BY <1>2
  <2> QED BY <2>1, <1>2, <1>3, <1>4, GoodBlockIs
<1>7. Tail(blocks) \in Seq(GoodBlocks(v))
  OBVIOUS
<1>8. blocks' = <<[perm |-> SubPerm(0), base |-> Block.base, depth |-> Block.depth + 1],
                  [perm |-> SubPerm(1), base |-> Block.base + Half, depth |-> Block.depth + 1]>>
                \o Tail(blocks)
  BY DEF CloseBlock
<1> QED BY <1>5, <1>6, <1>7, <1>8

LEMMA BlockStays ==
  ASSUME blocks' = blocks
  PROVE  /\ BlockWires' = BlockWires /\ Size' = Size
         /\ MatesOfEntry' = MatesOfEntry /\ MatesOfExit' = MatesOfExit
BY DEF BlockWires, Block, Size, Half, MatesOfEntry, MatesOfExit, EntryMate, ExitMate, InverseOf

LEMMA RoutingKeepsRouterInv ==
  ASSUME ZincInv, RouterInv, Routing, UNCHANGED <<trace, rows>>
  PROVE  RouterInv'
<1>0. /\ trace \in Seq(TraceRecord)
      /\ stage \in {"route", "block", "scan", "walk"} => Linked /\ ToRoute
      /\ stage \in {"block", "scan", "walk"} => blocks \in Seq(GoodBlocks(numVars))
      /\ stage \in {"scan", "walk"} => /\ blocks # <<>> /\ Size > 2
                                       /\ color \in Colorings(BlockWires)
      /\ stage = "scan" => Balanced(color, MatesOfEntry, MatesOfExit, BlockWires)
      /\ stage = "walk" => /\ walk \in WalkType
                           /\ Walking(color, MatesOfEntry, MatesOfExit, BlockWires,
                                      walk.at, walk.start, walk.color)
  BY DEF ZincInv, RouterInv
<1>a. stage \in {"route", "block", "scan", "walk"} /\ numVars' = numVars /\ perm' = perm
  BY RoutingKeeps
<1>b. Linked' /\ ToRoute'
  BY <1>0, <1>a, LinkedStays, ToRouteStays
<1>c. numVars \in Nat /\ numVars > 0 /\ perm \in Permutations(PowerOf2[numVars])
  BY <1>0, <1>a, LinkedType DEF ToRoute
<1> HIDE DEF Linked, ToRoute, Balanced, Walking
<1>1. CASE Route
  <2>1. stage' = "block"
    BY <1>1 DEF Route
  <2>2. blocks' \in Seq(GoodBlocks(numVars'))
    BY <1>1, <1>a, <1>c, RouteOpensOneBlock
  <2> QED BY <2>1, <2>2, <1>b DEF RouterInv
<1>2. CASE NotAPermutation
  <2>1. stage' = "panicked"
    BY <1>2 DEF NotAPermutation
  <2> QED BY <2>1 DEF RouterInv
<1>3. CASE MiddleBlock
  <2>1. stage = "block" /\ stage' = "block" /\ blocks # <<>> /\ blocks' = Tail(blocks)
    BY <1>3 DEF MiddleBlock
  <2>2. blocks' \in Seq(GoodBlocks(numVars'))
    BY <2>1, <1>0, <1>a
  <2> QED BY <2>1, <2>2, <1>b DEF RouterInv
<1>4. CASE OpenBlock
  <2>1. stage = "block" /\ stage' = "scan" /\ blocks # <<>> /\ Size > 2 /\ blocks' = blocks
    BY <1>4 DEF OpenBlock
  <2>2. /\ color' \in Colorings(BlockWires)
        /\ Balanced(color', MatesOfEntry, MatesOfExit, BlockWires)
    BY <1>4, OpenedBlockIsBlank
  <2>3. /\ blocks' \in Seq(GoodBlocks(numVars'))
        /\ blocks' # <<>> /\ Size' > 2 /\ color' \in Colorings(BlockWires')
        /\ Balanced(color', MatesOfEntry', MatesOfExit', BlockWires')
    BY <2>1, <2>2, <1>0, <1>a, BlockStays
  <2>4. Balanced(color, MatesOfEntry, MatesOfExit, BlockWires)'
    BY <2>3 DEF Balanced
  <2> QED BY <2>1, <2>3, <2>4, <1>b DEF RouterInv
<1>5. CASE StartWalk
  <2>1. stage = "scan" /\ stage' = "walk" /\ blocks' = blocks /\ color' = color
    BY <1>5 DEF StartWalk
  <2>2. BlockWires \subseteq Nat
    BY <2>1, <1>0, <1>c, HeadBlock
  <2>3. /\ walk' \in WalkType
        /\ Walking(color, MatesOfEntry, MatesOfExit, BlockWires,
                   walk'.at, walk'.start, walk'.color)
    BY <1>5, <2>1, <2>2, <1>0, StartedWalkIsOne
  <2>4. /\ blocks' \in Seq(GoodBlocks(numVars'))
        /\ blocks' # <<>> /\ Size' > 2 /\ color' \in Colorings(BlockWires')
        /\ Walking(color', MatesOfEntry', MatesOfExit', BlockWires',
                   walk'.at, walk'.start, walk'.color)
    BY <2>1, <2>3, <1>0, <1>a, BlockStays
  <2>5. Walking(color, MatesOfEntry, MatesOfExit, BlockWires, walk.at, walk.start, walk.color)'
    BY <2>4 DEF Walking
  <2> QED BY <2>1, <2>3, <2>4, <2>5, <1>b DEF RouterInv, WalkType
<1>6. CASE Walk
  <2>1. stage = "walk" /\ blocks' = blocks
    BY <1>6 DEF Walk
  <2>2. /\ color' \in Colorings(BlockWires)
        /\ stage' \in {"scan", "walk"}
        /\ stage' = "scan" => Balanced(color', MatesOfEntry, MatesOfExit, BlockWires)
        /\ stage' = "walk" =>
             /\ walk' \in WalkType
             /\ Walking(color', MatesOfEntry, MatesOfExit, BlockWires,
                        walk'.at, walk'.start, walk'.color)
    BY <1>6, <2>1, <1>0, <1>c, WalkGoesOn
  <2>3. /\ blocks' \in Seq(GoodBlocks(numVars'))
        /\ blocks' # <<>> /\ Size' > 2 /\ color' \in Colorings(BlockWires')
        /\ stage' = "scan" => Balanced(color', MatesOfEntry', MatesOfExit', BlockWires')
        /\ stage' = "walk" => Walking(color', MatesOfEntry', MatesOfExit', BlockWires',
                                      walk'.at, walk'.start, walk'.color)
    BY <2>1, <2>2, <1>0, <1>a, BlockStays
  <2>4. stage' = "scan" => Balanced(color, MatesOfEntry, MatesOfExit, BlockWires)'
    BY <2>3 DEF Balanced
  <2>5. stage' = "walk" =>
          Walking(color, MatesOfEntry, MatesOfExit, BlockWires, walk.at, walk.start, walk.color)'
    BY <2>3 DEF Walking
  <2> QED BY <2>2, <2>3, <2>4, <2>5, <1>b DEF RouterInv, WalkType
<1>7. CASE CloseBlock
  <2>1. stage = "scan" /\ stage' = "block"
    BY <1>7 DEF CloseBlock, Colored
  <2>2. blocks' \in Seq(GoodBlocks(numVars'))
    BY <1>7, <2>1, <1>0, <1>a, <1>c, ClosedBlockIsSplit
  <2> QED BY <2>1, <2>2, <1>b DEF RouterInv
<1> QED BY <1>1, <1>2, <1>3, <1>4, <1>5, <1>6, <1>7 DEF Routing

LEMMA RouterInitial == Init => RouterInv
BY DEF Init, RouterInv

LEMMA RouterStep == ZincInv /\ RouterInv /\ [Next]_vars => RouterInv'
<1> SUFFICES ASSUME ZincInv, RouterInv, [Next]_vars PROVE RouterInv'
  OBVIOUS
<1>0. /\ trace \in Seq(TraceRecord)
      /\ stage \in {"link", "route", "block", "scan", "walk"} => Linked
      /\ stage \in {"route", "block", "scan", "walk"} => ToRoute
  BY DEF ZincInv, RouterInv
<1> HIDE DEF Linked, ToRoute
<1>1. CASE Build
  <2>1. stage' = "link"
    BY <1>1 DEF Build
  <2> QED BY <2>1, <1>1, <1>0, BuildLinks DEF RouterInv
<1>2. CASE Link
  <2>1. /\ stage = "link" /\ stage' = "route"
        /\ trace' = trace /\ rows' = rows /\ numVars' = numVars
    BY <1>2 DEF Link
  <2>2. Linked' /\ ToRoute'
    BY <1>2, <2>1, <1>0, LinkedStays, LinkFindsThePermutation
  <2> QED BY <2>1, <2>2 DEF RouterInv
<1>3. CASE Routing /\ UNCHANGED <<free, trace, rows, net, layer, linked, answer, header>>
  BY <1>3, RoutingKeepsRouterInv
<1>4. ASSUME UNCHANGED <<routeVars, trace, rows>> PROVE RouterInv'
  <2>1. /\ stage' = stage /\ numVars' = numVars /\ perm' = perm /\ blocks' = blocks
        /\ color' = color /\ walk' = walk /\ trace' = trace /\ rows' = rows
    BY <1>4 DEF routeVars
  <2>2. /\ stage' \in {"link", "route", "block", "scan", "walk"} => Linked'
        /\ stage' \in {"route", "block", "scan", "walk"} => ToRoute'
    BY <2>1, <1>0, LinkedStays, ToRouteStays
  <2>3. /\ BlockWires' = BlockWires /\ Size' = Size
        /\ MatesOfEntry' = MatesOfEntry /\ MatesOfExit' = MatesOfExit
    BY <2>1, BlockStays
  <2>4. /\ stage' \in {"block", "scan", "walk"} => blocks' \in Seq(GoodBlocks(numVars'))
        /\ stage' \in {"scan", "walk"} => /\ blocks' # <<>> /\ Size' > 2
                                          /\ color' \in Colorings(BlockWires')
        /\ stage' = "scan" => Balanced(color', MatesOfEntry', MatesOfExit', BlockWires')
        /\ stage' = "walk" => /\ walk' \in WalkType
                              /\ Walking(color', MatesOfEntry', MatesOfExit', BlockWires',
                                         walk'.at, walk'.start, walk'.color)
    BY <2>1, <2>3 DEF RouterInv
  <2>5. /\ stage' = "scan" => Balanced(color, MatesOfEntry, MatesOfExit, BlockWires)'
        /\ stage' = "walk" =>
             Walking(color, MatesOfEntry, MatesOfExit, BlockWires, walk.at, walk.start, walk.color)'
    BY <2>4 DEF Balanced, Walking
  <2> QED BY <2>2, <2>4, <2>5 DEF RouterInv, WalkType
<1>5. CASE Switch
  BY <1>4, <1>5 DEF Switch
<1>6. ASSUME stage' \notin {"link", "route", "block", "scan", "walk"} PROVE RouterInv'
  BY <1>6 DEF RouterInv
<1>7. CASE Refuse
  BY <1>6, <1>7 DEF Refuse
<1>8. CASE Built
  BY <1>6, <1>8 DEF Built
<1>9. CASE FreeRow \/ FreeNetwork \/ FreeSwitch \/ FreeDone
  BY <1>6, <1>9 DEF FreeRow, FreeNetwork, FreeSwitch, FreeDone, routeVars
<1>10. CASE Prove \/ ProverFails \/ FromBytes \/ Malformed \/ Verify
  BY <1>6, <1>10 DEF Prove, ProverFails, FromBytes, Malformed, Verify
<1>11. CASE UNCHANGED vars
  BY <1>4, <1>11 DEF vars
<1> QED BY <1>1, <1>2, <1>3, <1>5, <1>7, <1>8, <1>9, <1>10, <1>11 DEF Next

LEMMA RouterAlways == Spec => [](ZincInv /\ RouterInv)
<1>1. Init => ZincInv /\ RouterInv
  BY ZincInitial, RouterInitial
<1>2. ZincInv /\ RouterInv /\ [Next]_vars => (ZincInv /\ RouterInv)'
  BY ZincStep, RouterStep
<1> QED BY <1>1, <1>2, PTL DEF Spec

\* The assertions of route_block never fail: on networks of any size, for any permutation,
\* a walk never meets an input that has its colour, and mates take different sub-networks.
THEOREM MatesAlwaysSplit == Spec => []MatesAreSplit
<1>1. ZincInv /\ RouterInv => MatesAreSplit
  <2> SUFFICES ASSUME ZincInv, RouterInv PROVE MatesAreSplit
    OBVIOUS
  <2>1. ASSUME stage = "walk" PROVE color[walk.at] = Uncolored
    BY <2>1 DEF RouterInv, Walking
  <2>2. ASSUME Colored, NEW i \in DOMAIN color
        PROVE  color[i] # color[EntryMate(i)] /\ color[i] # color[ExitMate(i)]
    <3>1. stage = "scan" /\ color[i] # Uncolored
      BY <2>2 DEF Colored
    <3>2. /\ color \in Colorings(BlockWires)
          /\ Balanced(color, MatesOfEntry, MatesOfExit, BlockWires)
      BY <3>1 DEF RouterInv
    <3>3. i \in BlockWires /\ color[i] \in {0, 1}
      BY <3>1, <3>2 DEF Colorings
    <3>4. color[EntryMate(i)] = 1 - color[i] /\ color[ExitMate(i)] = 1 - color[i]
      BY <3>1, <3>2, <3>3 DEF Balanced, MatesOfEntry, MatesOfExit
    <3> QED BY <3>3, <3>4
  <2> QED BY <2>1, <2>2 DEF MatesAreSplit
<1> QED BY <1>1, RouterAlways, PTL

\* The assertion of route never fails either: the sorted rows and the original ones hold the
\* same times, so what prove_memory_consistency links them by is a permutation.
THEOREM RouteGetsAPermutation == Spec => [](stage = "route" => IsInjective(perm))
<1>1. RouterInv /\ stage = "route" => IsInjective(perm)
  BY DEF RouterInv, ToRoute, Permutations, IsInjective
<1> QED BY <1>1, RouterAlways, PTL

(***************************************************************************)
(* The wires of a block.                                                   *)
(***************************************************************************)
\* Where layer l sends wire i.
Moves(v, sw, l, i) == IF sw[l][SwitchAt(v, l, i)] THEN Partner(v, l, i) ELSE i

\* A block of depth d can begin at b.
Fits(v, d, b) ==
  \E q \in Nat : b = q * PowerOf2[v - d] /\ b + PowerOf2[v - d] <= PowerOf2[v]

Region(v, d, b) == b .. b + PowerOf2[v - d] - 1

\* The layers of a block that its colours set.
OuterLayers(v, d) == {d, 2 * v - 2 - d}

LEMMA BlockSizes ==
  ASSUME NEW v \in Nat, NEW d \in 0 .. v - 1, NEW b, Fits(v, d, b),
         NEW h, h = PowerOf2[v - d - 1]
  PROVE  /\ h \in Nat /\ h > 0 /\ PowerOf2[v - d] = 2 * h
         /\ b \in Nat /\ b + 2 * h <= PowerOf2[v] /\ PowerOf2[v] \in Nat
         /\ Region(v, d, b) = b .. b + 2 * h - 1
         /\ Region(v, d, b) \subseteq Wires(v)
         /\ \E q \in Nat : b = (2 * q) * h
<1>1. v - d - 1 \in Nat /\ v - d \in Nat /\ v - d > 0 /\ (v - d) - 1 = v - d - 1
  OBVIOUS
<1>2. h \in Nat /\ h > 0 /\ PowerOf2[v] \in Nat
  BY <1>1, PowerOf2Type
<1>3. PowerOf2[v - d] = 2 * h
  BY <1>1, PowerOf2Twice
<1>4. PICK q \in Nat : b = q * (2 * h) /\ b + 2 * h <= PowerOf2[v]
  BY <1>3 DEF Fits
<1>5. b = (2 * q) * h
  BY <1>2, <1>4
<1>6. b \in Nat /\ b + 2 * h <= PowerOf2[v]
  BY <1>2, <1>4
<1>7. Region(v, d, b) = b .. b + 2 * h - 1
  BY <1>3 DEF Region
<1>8. Region(v, d, b) \subseteq Wires(v)
  <2>1. ASSUME NEW i \in b .. b + 2 * h - 1 PROVE i \in 0 .. PowerOf2[v] - 1
    BY <1>2, <1>6
  <2> QED BY <2>1, <1>7 DEF Wires
<1> QED BY <1>2, <1>3, <1>5, <1>6, <1>7, <1>8

\* On its outer layers the switches of a block pair the halves of its wires.
LEMMA OuterSwitches ==
  ASSUME NEW v \in Nat, NEW d \in 0 .. v - 1, NEW b, Fits(v, d, b),
         NEW h, h = PowerOf2[v - d - 1], NEW l \in OuterLayers(v, d), NEW x \in 0 .. 2 * h - 1
  PROVE  /\ Partner(v, l, b + x) = b + (IF x < h THEN x + h ELSE x - h)
         /\ SwitchAt(v, l, b + x) = b + InHalf(h, x)
<1>1. /\ h \in Nat /\ h > 0 /\ b \in Nat
  BY BlockSizes
<1>2. StrideBit(v, l) = v - d - 1 /\ Stride(v, l) = h
  BY DEF StrideBit, Stride, OuterLayers
<1>3. PICK q \in Nat : b = (2 * q) * h
  BY BlockSizes
<1>4. CASE x < h
  <2>1. b + x = (2 * q) * h + x /\ x \in 0 .. h - 1 /\ 2 * q \in Nat
    <3>1. b + x = (2 * q) * h + x
      BY <1>3
    <3>2. x \in 0 .. h - 1 /\ 2 * q \in Nat
      BY <1>1, <1>4
    <3> QED BY <3>1, <3>2
  <2> DEFINE k == 2 * q
  <2>a. b + x = k * h + x /\ x \in 0 .. h - 1 /\ k \in Nat /\ k % 2 = 0
    BY <2>1
  <2> HIDE DEF k
  <2>b. (k * h + x) \div h = k
    BY <2>a, <1>1, Quotient
  <2>2. (b + x) \div h = k
    BY <2>a, <2>b
  <2>3. IsUpper(b + x, StrideBit(v, l))
    BY <2>a, <2>2, <1>2 DEF IsUpper
  <2> QED BY <2>3, <1>2, <1>1, <1>4 DEF Partner, SwitchAt, InHalf
<1>5. CASE ~ (x < h)
  <2>1. b + x = (2 * q + 1) * h + (x - h) /\ x - h \in 0 .. h - 1 /\ 2 * q + 1 \in Nat
    <3>1. b + x = (2 * q + 1) * h + (x - h)
      <4>1. (2 * q + 1) * h = (2 * q) * h + h /\ (2 * q) * h \in Int
        BY <1>1
      <4>2. x \in Int /\ h \in Int
        BY <1>1
      <4> QED BY <4>1, <4>2, <1>3
    <3>2. x - h \in 0 .. h - 1 /\ 2 * q + 1 \in Nat
      BY <1>1, <1>5
    <3> QED BY <3>1, <3>2
  <2> DEFINE k == 2 * q + 1
             r == x - h
  <2>a. b + x = k * h + r /\ r \in 0 .. h - 1 /\ k \in Nat
    BY <2>1
  <2>3. k % 2 = 1
    OBVIOUS
  <2> HIDE DEF k, r
  <2>b. (k * h + r) \div h = k
    BY <2>a, <1>1, Quotient
  <2>2. (b + x) \div h = k
    BY <2>a, <2>b
  <2>4. ~ IsUpper(b + x, StrideBit(v, l))
    BY <2>2, <2>3, <1>2 DEF IsUpper
  <2>5. (b + x) - h = b + (x - h)
    BY <1>1
  <2> QED BY <2>4, <2>5, <1>2, <1>1, <1>5 DEF Partner, SwitchAt, InHalf
<1> QED BY <1>4, <1>5

\* A switch with a wire in the block has both.
LEMMA OuterSwitchesElsewhere ==
  ASSUME NEW v \in Nat, NEW d \in 0 .. v - 1, NEW b, Fits(v, d, b),
         NEW l \in OuterLayers(v, d), NEW i \in Wires(v), i \notin Region(v, d, b),
         NEW h, h = PowerOf2[v - d - 1]
  PROVE  /\ SwitchAt(v, l, i) \in Wires(v)
         /\ ~ (SwitchAt(v, l, i) - b \in 0 .. h - 1)
<1>1. /\ h \in Nat /\ h > 0 /\ b \in Nat /\ PowerOf2[v] \in Nat
      /\ Region(v, d, b) = b .. b + 2 * h - 1
  BY BlockSizes
<1>2. StrideBit(v, l) = v - d - 1 /\ Stride(v, l) = h
  BY DEF StrideBit, Stride, OuterLayers
<1>3. v > 0 /\ l \in Layers(v)
  BY DEF OuterLayers, Layers, NumLayers
<1>4. SwitchAt(v, l, i) \in Wires(v)
  BY <1>3, Partners DEF UpperWires
<1>5. SwitchAt(v, l, i) \in {i, i - h}
  BY <1>2 DEF SwitchAt, Partner
<1>6. i \in Nat
  BY <1>1 DEF Wires
<1>7. ~ (i \in b .. b + 2 * h - 1)
  BY <1>1
<1> DEFINE s == SwitchAt(v, l, i)
<1>8. s = i \/ s = i - h
  BY <1>5
<1> HIDE DEF s
<1>9. ~ (s - b \in 0 .. h - 1)
  <2>1. i < b \/ i >= b + 2 * h
    BY ONLY <1>1, <1>6, <1>7
  <2>2. CASE s = i
    BY ONLY <2>1, <2>2, <1>1, <1>6
  <2>3. CASE s = i - h
    BY ONLY <2>1, <2>3, <1>1, <1>6
  <2> QED BY <1>8, <2>2, <2>3
<1> QED BY <1>4, <1>9 DEF s

\* The switches sw2 are sw but for those of one block, which c colours.
Closed(v, sw, sw2, d, b, h, p, c) ==
  /\ \A l \in Layers(v) : l \notin OuterLayers(v, d) => sw2[l] = sw[l]
  /\ \A l \in OuterLayers(v, d), i \in Wires(v) :
       ~ (i - b \in 0 .. h - 1) => sw2[l][i] = sw[l][i]
  /\ \A x \in 0 .. h - 1 : sw2[d][b + x] <=> c[x] = 1
  /\ \A x \in 0 .. h - 1 : sw2[2 * v - 2 - d][b + x] <=> c[p[x]] = 1

\* Where the half of colour k begins.
Side(h, k) == IF k = 0 THEN 0 ELSE h

\* The colours c split the block of permutation p.
Split(v, d, b, h, p, c) ==
  /\ v \in Nat /\ d \in 0 .. v - 1 /\ Fits(v, d, b) /\ h = PowerOf2[v - d - 1]
  /\ p \in Permutations(2 * h) /\ c \in [0 .. 2 * h - 1 -> {0, 1}] /\ MatesDiffer(p, h, c)

Enters(v, sw, d, b, h, c, x) == Moves(v, sw, d, b + x) = b + Side(h, c[x]) + InHalf(h, x)

Leaves(v, sw, d, b, h, p, c, y) ==
  Moves(v, sw, 2 * v - 2 - d, b + Side(h, c[p[y]]) + InHalf(h, y)) = b + y

LEMMA EntryMoves ==
  ASSUME NEW v, NEW d, NEW b, NEW h, NEW p, NEW c, Split(v, d, b, h, p, c),
         NEW sw, NEW sw2, Closed(v, sw, sw2, d, b, h, p, c), NEW x \in 0 .. 2 * h - 1
  PROVE  Enters(v, sw2, d, b, h, c, x)
<1>0. /\ v \in Nat /\ d \in 0 .. v - 1 /\ Fits(v, d, b) /\ h = PowerOf2[v - d - 1]
      /\ c \in [0 .. 2 * h - 1 -> {0, 1}] /\ MatesDiffer(p, h, c)
  BY DEF Split
<1> SUFFICES Moves(v, sw2, d, b + x) = b + Side(h, c[x]) + InHalf(h, x)
  BY DEF Enters
<1> USE <1>0
<1>1. h \in Nat /\ h > 0 /\ b \in Nat
  BY BlockSizes
<1>2. /\ Partner(v, d, b + x) = b + (IF x < h THEN x + h ELSE x - h)
      /\ SwitchAt(v, d, b + x) = b + InHalf(h, x)
  <2>1. d \in OuterLayers(v, d)
    BY DEF OuterLayers
  <2> QED BY <2>1, OuterSwitches
<1>3. InHalf(h, x) \in 0 .. h - 1
  BY <1>1 DEF InHalf
<1>4. sw2[d][b + InHalf(h, x)] <=> c[InHalf(h, x)] = 1
  BY <1>3 DEF Closed
<1>5. c[x] \in {0, 1}
  OBVIOUS
<1>6. CASE x < h
  <2>1. InHalf(h, x) = x
    BY <1>6 DEF InHalf
  <2>2. CASE c[x] = 1
    <3>1. Moves(v, sw2, d, b + x) = Partner(v, d, b + x)
      BY <1>2, <1>4, <2>1, <2>2 DEF Moves
    <3> QED BY <3>1, <1>1, <1>2, <1>6, <2>1, <2>2 DEF Side
  <2>3. CASE c[x] = 0
    <3>1. Moves(v, sw2, d, b + x) = b + x
      BY <1>2, <1>4, <2>1, <2>3 DEF Moves
    <3> QED BY <3>1, <1>1, <2>1, <2>3 DEF Side
  <2> QED BY <1>5, <2>2, <2>3
<1>7. CASE ~ (x < h)
  <2>1. InHalf(h, x) = x - h /\ x - h \in 0 .. 2 * h - 1 /\ x - h < h
    BY <1>1, <1>7 DEF InHalf
  <2>2. Opposite(h, x) = x - h
    BY <1>1, <1>7, Opposites
  <2>3. c[x - h] # c[x]
    BY <2>2 DEF MatesDiffer
  <2>4. c[x - h] \in {0, 1}
    BY <2>1
  <2>5. CASE c[x] = 1
    <3>1. Moves(v, sw2, d, b + x) = b + x
      BY <1>2, <1>4, <2>1, <2>3, <2>5 DEF Moves
    <3> QED BY <3>1, <1>1, <2>1, <2>5 DEF Side
  <2>6. CASE c[x] = 0
    <3>1. Moves(v, sw2, d, b + x) = Partner(v, d, b + x)
      BY <1>2, <1>4, <2>1, <2>3, <2>4, <2>6 DEF Moves
    <3> QED BY <3>1, <1>1, <1>2, <1>7, <2>1, <2>6 DEF Side
  <2> QED BY <1>5, <2>5, <2>6
<1> QED BY <1>6, <1>7

\* The exit switches fetch output y from the half of the colour of its source.
LEMMA ExitMoves ==
  ASSUME NEW v, NEW d, NEW b, NEW h, NEW p, NEW c, Split(v, d, b, h, p, c),
         NEW sw, NEW sw2, Closed(v, sw, sw2, d, b, h, p, c), NEW y \in 0 .. 2 * h - 1
  PROVE  Leaves(v, sw2, d, b, h, p, c, y)
<1>0. /\ v \in Nat /\ d \in 0 .. v - 1 /\ Fits(v, d, b) /\ h = PowerOf2[v - d - 1]
      /\ p \in Permutations(2 * h) /\ c \in [0 .. 2 * h - 1 -> {0, 1}] /\ MatesDiffer(p, h, c)
  BY DEF Split
<1> SUFFICES Moves(v, sw2, 2 * v - 2 - d, b + Side(h, c[p[y]]) + InHalf(h, y)) = b + y
  BY DEF Leaves
<1> USE <1>0
<1> DEFINE l == 2 * v - 2 - d
           k == c[p[y]]
           u == InHalf(h, y)
           z == Side(h, k) + u
<1>1. h \in Nat /\ h > 0 /\ b \in Nat
  BY BlockSizes
<1>2. p[y] \in 0 .. 2 * h - 1 /\ k \in {0, 1}
  BY <1>1 DEF Permutations
<1>3. u \in 0 .. h - 1 /\ u = (IF y < h THEN y ELSE y - h)
  BY <1>1 DEF InHalf
<1>4. c[p[u]] = IF y < h THEN k ELSE 1 - k
  <2>1. CASE y < h
    BY <2>1, <1>3
  <2>2. CASE ~ (y < h)
    <3>1. u = Opposite(h, y)
      BY <2>2, <1>1, <1>3, Opposites
    <3>2. InverseOf(p, p[y]) = y
      BY <1>1, InverseIs
    <3>3. c[p[u]] # k
      <4>1. Through(p, h, p[y]) = p[u]
        BY <3>1, <3>2 DEF Through
      <4>2. c[p[y]] # c[Through(p, h, p[y])]
        BY <1>2 DEF MatesDiffer
      <4> QED BY <4>1, <4>2, Zenon
    <3>4. p[u] \in 0 .. 2 * h - 1
      <4>1. u \in 0 .. 2 * h - 1
        BY <1>1, <1>3
      <4> HIDE DEF u
      <4> QED BY <4>1 DEF Permutations
    <3>5. c[p[u]] \in {0, 1}
      BY <3>4
    <3> QED BY <1>2, <2>2, <3>3, <3>5
  <2> QED BY <2>1, <2>2
<1>5. sw2[l][b + u] <=> c[p[u]] = 1
  BY <1>3 DEF Closed
<1> HIDE DEF u
<1>6. z \in 0 .. 2 * h - 1 /\ InHalf(h, z) = u /\ (z < h <=> k = 0)
      /\ z = IF k = 0 THEN u ELSE h + u
  <2>1. z = IF k = 0 THEN u ELSE h + u
    BY <1>1, <1>2, <1>3 DEF Side
  <2> HIDE DEF z, k
  <2>2. u \in Nat /\ u < h /\ h \in Nat /\ k \in {0, 1}
    BY <1>1, <1>2, <1>3
  <2>3. CASE k = 0
    <3>1. z = u /\ z < h /\ z \in 0 .. 2 * h - 1
      BY ONLY <2>1, <2>2, <2>3
    <3> QED BY ONLY <3>1, <2>1, <2>3 DEF InHalf
  <2>4. CASE k # 0
    <3>1. z = h + u /\ ~ (z < h) /\ z - h = u /\ z \in 0 .. 2 * h - 1
      BY ONLY <2>1, <2>2, <2>4
    <3> QED BY ONLY <3>1, <2>1, <2>4 DEF InHalf
  <2> QED BY <2>3, <2>4
<1> HIDE DEF k, z
<1>7. /\ Partner(v, l, b + z) = b + (IF z < h THEN z + h ELSE z - h)
      /\ SwitchAt(v, l, b + z) = b + u
  <2>1. l \in OuterLayers(v, d)
    BY DEF OuterLayers
  <2> HIDE DEF l
  <2> QED BY <1>6, <2>1, OuterSwitches
<1> HIDE DEF l
<1>8. Moves(v, sw2, l, b + z) = IF sw2[l][b + u] THEN Partner(v, l, b + z) ELSE b + z
  BY <1>7 DEF Moves
<1>9. Moves(v, sw2, l, b + z) = b + y
  <2>1. CASE y < h /\ k = 0
    <3>1. ~ sw2[l][b + u]
      BY <2>1, <1>4, <1>5
    <3> QED BY <3>1, <2>1, <1>8, <1>6, <1>3
  <2>2. CASE y < h /\ k = 1
    <3>1. sw2[l][b + u]
      BY <2>2, <1>4, <1>5
    <3> QED BY <3>1, <2>2, <1>8, <1>7, <1>6, <1>3, <1>1
  <2>3. CASE ~ (y < h) /\ k = 0
    <3>1. sw2[l][b + u]
      BY <2>3, <1>4, <1>5
    <3>2. z < h /\ z = u /\ u = y - h
      BY <2>3, <1>6, <1>3
    <3>3. Moves(v, sw2, l, b + z) = b + (z + h)
      BY <3>1, <3>2, <1>8, <1>7
    <3>4. z + h = y
      BY <3>2, <1>1
    <3> QED BY <3>3, <3>4
  <2>4. CASE ~ (y < h) /\ k = 1
    <3>1. ~ sw2[l][b + u]
      BY <2>4, <1>4, <1>5
    <3>2. z = h + u /\ u = y - h
      BY <2>4, <1>6, <1>3
    <3>4. h \in Int /\ y \in Int /\ h + (y - h) = y
      BY <1>1
    <3>3. z = y
      BY <3>2, <3>4, Zenon
    <3> QED BY <3>1, <3>3, <1>8
  <2> QED BY <1>2, <2>1, <2>2, <2>3, <2>4
<1>10. b + z = b + Side(h, c[p[y]]) + InHalf(h, y)
  <2>1. z = Side(h, c[p[y]]) + InHalf(h, y)
    BY DEF z, k, u
  <2>2. Side(h, c[p[y]]) \in Int /\ InHalf(h, y) \in Int
    BY <1>1 DEF Side, InHalf
  <2> QED BY <2>1, <2>2, <1>1
<1> QED BY <1>9, <1>10 DEF l

\* Layer l of block B has wire i.
Within(v, B, l, i) ==
  l \in B.depth .. 2 * v - 2 - B.depth /\ i \in Region(v, B.depth, B.base)

\* The switches outside block B are the same.
Elsewhere(v, B, sw, sw2) ==
  \A l \in Layers(v) : \A i \in Wires(v) :
    ~ Within(v, B, l, i) => Moves(v, sw2, l, i) = Moves(v, sw, l, i)

LEMMA ClosingIsLocal ==
  ASSUME NEW v \in Nat, NEW d \in 0 .. v - 1, NEW b, Fits(v, d, b),
         NEW h, h = PowerOf2[v - d - 1], NEW p, NEW c, NEW sw, NEW sw2,
         Closed(v, sw, sw2, d, b, h, p, c), NEW B, B.depth = d, B.base = b
  PROVE  Elsewhere(v, B, sw, sw2)
<1> SUFFICES ASSUME NEW l \in Layers(v), NEW i \in Wires(v), ~ Within(v, B, l, i)
             PROVE  Moves(v, sw2, l, i) = Moves(v, sw, l, i)
  BY DEF Elsewhere
<1>1. CASE l \notin OuterLayers(v, d)
  BY <1>1 DEF Closed, Moves
<1>2. CASE l \in OuterLayers(v, d)
  <2>0. l \in d .. 2 * v - 2 - d
    BY <1>2 DEF OuterLayers
  <2>1. i \notin Region(v, d, b)
    BY <2>0 DEF Within
  <2>2. SwitchAt(v, l, i) \in Wires(v) /\ ~ (SwitchAt(v, l, i) - b \in 0 .. h - 1)
    BY <1>2, <2>1, OuterSwitchesElsewhere
  <2>3. sw2[l][SwitchAt(v, l, i)] = sw[l][SwitchAt(v, l, i)]
    BY <1>2, <2>2 DEF Closed
  <2> QED BY <2>3 DEF Moves
<1> QED BY <1>1, <1>2

(***************************************************************************)
(* Paths.  at[l] is the wire before layer l.  A path follows the switches  *)
(* up to a block that is still to be routed, and again from there on.      *)
(***************************************************************************)
IsPath(v, at, x, j) ==
  at \in [0 .. 2 * v - 1 -> Wires(v)] /\ at[0] = x /\ at[2 * v - 1] = j

Follows(v, bs, sw, at, l) ==
  /\ at[l + 1] = Moves(v, sw, l, at[l])
  /\ \A n \in DOMAIN bs : ~ Within(v, bs[n], l, at[l])

\* Outside the layers that a block of depth d has.
Crosses(v, bs, sw, at, d) ==
  \A l \in Layers(v) : l \notin d .. 2 * v - 2 - d => Follows(v, bs, sw, at, l)

PassesThrough(v, B, at) ==
  \E y \in DOMAIN B.perm :
    at[B.depth] = B.base + B.perm[y] /\ at[2 * v - 1 - B.depth] = B.base + y

\* What enters the network at x leaves it at j, once the blocks bs are routed.
Brings(v, bs, sw, x, j) ==
  \E at : /\ IsPath(v, at, x, j)
          /\ \/ Crosses(v, bs, sw, at, v)
             \/ \E n \in DOMAIN bs : /\ PassesThrough(v, bs[n], at)
                                     /\ Crosses(v, bs, sw, at, bs[n].depth)

Apart(v, A, B) ==
  \A i \in Region(v, A.depth, A.base) : i \notin Region(v, B.depth, B.base)

\* The blocks bs begin where blocks may, and have no wire in common.
Laid(v, bs) ==
  /\ \A n \in DOMAIN bs : Fits(v, bs[n].depth, bs[n].base)
  /\ \A m, n \in DOMAIN bs : m # n => Apart(v, bs[m], bs[n])

Part(v, A, B) == \A l, i : Within(v, A, l, i) => Within(v, B, l, i)

\* The blocks cs are bs, with parts of its first one in its stead.
Replaces(v, bs, cs) ==
  \A m \in DOMAIN cs :
    \/ \E n \in DOMAIN bs : n # 1 /\ cs[m] = bs[n]
    \/ Part(v, cs[m], bs[1])

LEMMA FollowsStill ==
  ASSUME NEW v, NEW bs, NEW cs, NEW sw, NEW sw2, 1 \in DOMAIN bs, Replaces(v, bs, cs),
         Elsewhere(v, bs[1], sw, sw2), NEW at, NEW l \in Layers(v), at[l] \in Wires(v),
         Follows(v, bs, sw, at, l)
  PROVE  Follows(v, cs, sw2, at, l)
<1>1. \A n \in DOMAIN bs : ~ Within(v, bs[n], l, at[l])
  BY DEF Follows
<1>2. at[l + 1] = Moves(v, sw2, l, at[l])
  BY <1>1 DEF Follows, Elsewhere
<1>3. ASSUME NEW m \in DOMAIN cs PROVE ~ Within(v, cs[m], l, at[l])
  <2>1. CASE \E n \in DOMAIN bs : n # 1 /\ cs[m] = bs[n]
    BY <2>1, <1>1
  <2>2. CASE Part(v, cs[m], bs[1])
    BY <2>2, <1>1 DEF Part
  <2> QED BY <2>1, <2>2 DEF Replaces
<1> QED BY <1>2, <1>3 DEF Follows

\* What does not pass the first block is not affected.
LEMMA OthersAreBrought ==
  ASSUME NEW v \in Nat, NEW bs, NEW cs, NEW sw, NEW sw2, 1 \in DOMAIN bs, Replaces(v, bs, cs),
         Elsewhere(v, bs[1], sw, sw2),
         \A n \in DOMAIN bs : n # 1 => \E m \in DOMAIN cs : cs[m] = bs[n],
         NEW x, NEW j, NEW at, IsPath(v, at, x, j),
         \/ Crosses(v, bs, sw, at, v)
         \/ \E n \in DOMAIN bs : /\ n # 1 /\ PassesThrough(v, bs[n], at)
                                 /\ Crosses(v, bs, sw, at, bs[n].depth)
  PROVE  Brings(v, cs, sw2, x, j)
<1>1. \A l \in Layers(v) : at[l] \in Wires(v)
  BY DEF IsPath, Layers, NumLayers
<1>2. ASSUME NEW d, Crosses(v, bs, sw, at, d) PROVE Crosses(v, cs, sw2, at, d)
  BY <1>1, <1>2, FollowsStill DEF Crosses
<1>3. CASE Crosses(v, bs, sw, at, v)
  BY <1>2, <1>3 DEF Brings
<1>4. ASSUME NEW n \in DOMAIN bs, n # 1, PassesThrough(v, bs[n], at),
             Crosses(v, bs, sw, at, bs[n].depth)
      PROVE  Brings(v, cs, sw2, x, j)
  <2>1. PICK m \in DOMAIN cs : cs[m] = bs[n]
    BY <1>4
  <2>2. Crosses(v, cs, sw2, at, cs[m].depth) /\ PassesThrough(v, cs[m], at)
    BY <1>2, <1>4, <2>1
  <2> QED BY <2>2 DEF Brings
<1> QED BY <1>3, <1>4

\* The blocks bs without the first one.
Rest(bs, cs) ==
  /\ \A m \in DOMAIN cs : \E n \in DOMAIN bs : n # 1 /\ cs[m] = bs[n]
  /\ \A n \in DOMAIN bs : n # 1 => \E m \in DOMAIN cs : cs[m] = bs[n]

\* The switch of two wires swaps them if the permutation does.
LEMMA MiddleMoves ==
  ASSUME NEW v \in Nat, v > 0, NEW b, Fits(v, v - 1, b), NEW p \in Permutations(2), NEW sw,
         sw[v - 1][b] <=> p[0] = 1, NEW y \in 0 .. 1
  PROVE  /\ Moves(v, sw, v - 1, b + p[y]) = b + y
         /\ b + p[y] \in Region(v, v - 1, b)
<1>1. v - 1 \in 0 .. v - 1 /\ v - 1 \in OuterLayers(v, v - 1) /\ 1 = PowerOf2[v - (v - 1) - 1]
  <2>1. v - (v - 1) - 1 = 0
    OBVIOUS
  <2>2. v - 1 \in 0 .. v - 1 /\ v - 1 \in OuterLayers(v, v - 1)
    BY DEF OuterLayers
  <2> QED BY <2>1, <2>2, PowerOf2Zero
<1>2. b \in Nat /\ Region(v, v - 1, b) = b .. b + 2 * 1 - 1
  BY <1>1, BlockSizes
<1>3. ASSUME NEW x \in 0 .. 1
      PROVE  Partner(v, v - 1, b + x) = b + (IF x < 1 THEN x + 1 ELSE x - 1)
             /\ SwitchAt(v, v - 1, b + x) = b + InHalf(1, x)
  <2>1. x \in 0 .. 2 * 1 - 1
    OBVIOUS
  <2> QED BY <2>1, <1>1, OuterSwitches
<1>4. \A x \in 0 .. 1 : InHalf(1, x) = 0 /\ b + 0 = b
  BY <1>2 DEF InHalf
<1>5. p[0] \in 0 .. 1 /\ p[1] \in 0 .. 1 /\ p[0] # p[1] /\ p[y] \in 0 .. 1
  BY DEF Permutations
<1> DEFINE l == v - 1
<1>6. /\ Partner(v, l, b + p[y]) = b + (IF p[y] < 1 THEN p[y] + 1 ELSE p[y] - 1)
      /\ SwitchAt(v, l, b + p[y]) = b /\ (sw[l][b] <=> p[0] = 1)
  BY <1>3, <1>4, <1>5
<1> HIDE DEF l
<1>7. CASE p[0] = 1
  <2>1. Moves(v, sw, l, b + p[y]) = Partner(v, l, b + p[y])
    BY <1>6, <1>7 DEF Moves
  <2>2. p[y] = 1 - y
    BY <1>5, <1>7
  <2>3. (IF p[y] < 1 THEN p[y] + 1 ELSE p[y] - 1) = y
    BY <2>2
  <2> QED BY <2>1, <2>3, <1>6, <1>2, <1>5 DEF l
<1>8. CASE p[0] = 0
  <2>1. Moves(v, sw, l, b + p[y]) = b + p[y]
    BY <1>6, <1>8 DEF Moves
  <2>2. p[y] = y
    BY <1>5, <1>8
  <2> QED BY <2>1, <2>2, <1>2, <1>5 DEF l
<1> QED BY <1>5, <1>7, <1>8

LEMMA MiddleBrings ==
  ASSUME NEW v \in Nat, v > 0, NEW bs, NEW cs, NEW sw, NEW sw2, 1 \in DOMAIN bs,
         Laid(v, bs), Rest(bs, cs), bs[1].depth = v - 1, bs[1].perm \in Permutations(2),
         Elsewhere(v, bs[1], sw, sw2), sw2[v - 1][bs[1].base] <=> bs[1].perm[0] = 1,
         NEW x, NEW j, Brings(v, bs, sw, x, j)
  PROVE  Brings(v, cs, sw2, x, j)
<1> DEFINE B == bs[1]
<1>1. PICK at : /\ IsPath(v, at, x, j)
                /\ \/ Crosses(v, bs, sw, at, v)
                   \/ \E n \in DOMAIN bs : /\ PassesThrough(v, bs[n], at)
                                           /\ Crosses(v, bs, sw, at, bs[n].depth)
  BY DEF Brings
<1>2. Replaces(v, bs, cs) /\ \A n \in DOMAIN bs : n # 1 => \E m \in DOMAIN cs : cs[m] = bs[n]
  BY DEF Rest, Replaces
<1>3. CASE \/ Crosses(v, bs, sw, at, v)
           \/ \E n \in DOMAIN bs : /\ n # 1 /\ PassesThrough(v, bs[n], at)
                                   /\ Crosses(v, bs, sw, at, bs[n].depth)
  BY <1>1, <1>2, <1>3, OthersAreBrought
<1>4. CASE PassesThrough(v, B, at) /\ Crosses(v, bs, sw, at, B.depth)
  <2>1. PICK y \in 0 .. 1 : at[v - 1] = B.base + B.perm[y] /\ at[(v - 1) + 1] = B.base + y
    <3>1. DOMAIN B.perm = 0 .. 1
      BY DEF Permutations
    <3>2. 2 * v - 1 - (v - 1) = (v - 1) + 1
      OBVIOUS
    <3> QED BY <3>1, <3>2, <1>4 DEF PassesThrough
  <2>2. Fits(v, v - 1, B.base)
    BY DEF Laid
  <2> HIDE DEF B
  <2>3. /\ Moves(v, sw2, v - 1, B.base + B.perm[y]) = B.base + y
        /\ B.base + B.perm[y] \in Region(v, v - 1, B.base)
    BY <2>2, MiddleMoves DEF B
  <2>4. Follows(v, cs, sw2, at, v - 1)
    <3>1. ASSUME NEW m \in DOMAIN cs PROVE ~ Within(v, cs[m], v - 1, at[v - 1])
      <4>1. PICK n \in DOMAIN bs : n # 1 /\ cs[m] = bs[n]
        BY DEF Rest
      <4>2. Apart(v, bs[1], bs[n])
        BY <4>1 DEF Laid
      <4>3. at[v - 1] \notin Region(v, cs[m].depth, cs[m].base)
        BY <4>1, <4>2, <2>1, <2>3 DEF Apart, B
      <4> QED BY <4>3 DEF Within
    <3> QED BY <3>1, <2>1, <2>3 DEF Follows
  <2>5. ASSUME NEW l \in Layers(v) PROVE Follows(v, cs, sw2, at, l)
    <3>1. CASE l = v - 1
      BY <3>1, <2>4
    <3>2. CASE l # v - 1
      <4>1. l \notin v - 1 .. 2 * v - 2 - (v - 1)
        BY <3>2
      <4>2. Follows(v, bs, sw, at, l)
        BY <4>1, <1>4 DEF Crosses, B
      <4>3. at[l] \in Wires(v)
        BY <1>1 DEF IsPath, Layers, NumLayers
      <4> QED BY <4>2, <4>3, <1>2, FollowsStill
    <3> QED BY <3>1, <3>2
  <2>6. Crosses(v, cs, sw2, at, v)
    BY <2>5 DEF Crosses
  <2> QED BY <2>6, <1>1 DEF Brings
<1> QED BY <1>1, <1>3, <1>4

(***************************************************************************)
(* Closing a block: its paths take the half of their colour.               *)
(***************************************************************************)
SubBlock(v, d, b, h, k) == Region(v, d + 1, b + Side(h, k))

LEMMA HalvesOfInterval ==
  ASSUME NEW b \in Nat, NEW h \in Nat, NEW k \in {0, 1},
         NEW i \in b + Side(h, k) .. b + Side(h, k) + h - 1
  PROVE  /\ i \in b .. b + 2 * h - 1
         /\ i \notin b + Side(h, 1 - k) .. b + Side(h, 1 - k) + h - 1
<1>1. CASE k = 0
  <2>1. Side(h, k) = 0 /\ Side(h, 1 - k) = h
    BY <1>1 DEF Side
  <2> QED BY <2>1
<1>2. CASE k = 1
  <2>1. Side(h, k) = h /\ Side(h, 1 - k) = 0
    BY <1>2 DEF Side
  <2> QED BY <2>1
<1> QED BY <1>1, <1>2

LEMMA HalvesFit ==
  ASSUME NEW v \in Nat, NEW d \in 0 .. v - 1, d + 1 < v, NEW b, Fits(v, d, b),
         NEW h, h = PowerOf2[v - d - 1], NEW k \in {0, 1}
  PROVE  /\ Fits(v, d + 1, b + Side(h, k))
         /\ SubBlock(v, d, b, h, k) = b + Side(h, k) .. b + Side(h, k) + h - 1
         /\ SubBlock(v, d, b, h, k) \subseteq Region(v, d, b)
         /\ \A i \in SubBlock(v, d, b, h, k) : i \notin SubBlock(v, d, b, h, 1 - k)
<1> DEFINE e == b + Side(h, k)
<1>1. /\ h \in Nat /\ h > 0 /\ b \in Nat /\ b + 2 * h <= PowerOf2[v] /\ PowerOf2[v] \in Nat
      /\ Region(v, d, b) = b .. b + 2 * h - 1
  BY ONLY v \in Nat, d \in 0 .. v - 1, Fits(v, d, b), h = PowerOf2[v - d - 1], BlockSizes
<1>2. PowerOf2[v - (d + 1)] = h
  <2>1. v - (d + 1) = v - d - 1
    OBVIOUS
  <2> QED BY <2>1
<1>3. /\ Side(h, k) = 0 \/ Side(h, k) = h
      /\ k = 0 => Side(h, k) = 0
      /\ k = 1 => Side(h, k) = h
  BY DEF Side
<1>4. e \in Nat /\ e + h <= PowerOf2[v]
  <2>1. CASE e = b
    BY ONLY <2>1, <1>1
  <2>2. CASE e = b + h
    BY ONLY <2>2, <1>1
  <2>3. e = b \/ e = b + h
    BY <1>1, <1>3
  <2> HIDE DEF e
  <2> QED BY <2>1, <2>2, <2>3
<1>5. SubBlock(v, d, b, h, k) = e .. e + h - 1
      /\ SubBlock(v, d, b, h, 1 - k) = b + Side(h, 1 - k) .. b + Side(h, 1 - k) + h - 1
  BY <1>2 DEF SubBlock, Region
<1>6. Fits(v, d + 1, e)
  <2>1. PICK q \in Nat : b = (2 * q) * h
    BY BlockSizes
  <2>2. CASE k = 0
    <3>1. e = (2 * q) * h /\ 2 * q \in Nat
      BY <2>1, <2>2, <1>1, <1>3
    <3> HIDE DEF e
    <3> QED BY <3>1, <1>2, <1>4 DEF Fits
  <2>3. CASE k = 1
    <3>1. (2 * q + 1) * h = (2 * q) * h + h /\ 2 * q + 1 \in Nat
      BY <1>1
    <3>2. e = (2 * q + 1) * h
      BY <3>1, <2>1, <2>3, <1>1, <1>3
    <3> HIDE DEF e
    <3> QED BY <3>1, <3>2, <1>2, <1>4 DEF Fits
  <2> QED BY <2>2, <2>3
<1>7. ASSUME NEW i \in SubBlock(v, d, b, h, k)
      PROVE  i \in Region(v, d, b) /\ i \notin SubBlock(v, d, b, h, 1 - k)
  <2>1. i \in b + Side(h, k) .. b + Side(h, k) + h - 1
    BY <1>5
  <2>2. b \in Nat /\ h \in Nat
    BY <1>1
  <2>3. /\ i \in b .. b + 2 * h - 1
        /\ i \notin b + Side(h, 1 - k) .. b + Side(h, 1 - k) + h - 1
    BY ONLY <2>1, <2>2, k \in {0, 1}, HalvesOfInterval
  <2> QED BY <2>3, <1>1, <1>5
<1> QED BY <1>4, <1>5, <1>6, <1>7

\* The permutation of the half of colour k.
Sub(p, h, c, k) == [j \in 0 .. h - 1 |-> IF c[p[j]] = k THEN p[j] % h ELSE p[j + h] % h]

\* The block of that half.
HalfBlock(p, h, c, d, b, k) == [perm |-> Sub(p, h, c, k), base |-> b + Side(h, k), depth |-> d + 1]

\* The blocks bs with its halves instead of the first one.
Halved(bs, cs, p, h, c, d, b) ==
  /\ \A k \in {0, 1} : k + 1 \in DOMAIN cs /\ cs[k + 1] = HalfBlock(p, h, c, d, b, k)
  /\ \A m \in DOMAIN cs : m \notin {1, 2} => \E n \in DOMAIN bs : n # 1 /\ cs[m] = bs[n]
  /\ \A n \in DOMAIN bs : n # 1 => \E m \in DOMAIN cs : cs[m] = bs[n]

\* A half takes the place of a source to that of its output.
LEMMA SubMoves ==
  ASSUME NEW h \in Nat, h > 0, NEW p \in Permutations(2 * h),
         NEW c \in [0 .. 2 * h - 1 -> {0, 1}], MatesDiffer(p, h, c), NEW y \in 0 .. 2 * h - 1
  PROVE  /\ InHalf(h, y) \in 0 .. h - 1 /\ InHalf(h, p[y]) \in 0 .. h - 1
         /\ Sub(p, h, c, c[p[y]])[InHalf(h, y)] = InHalf(h, p[y])
<1> DEFINE k == c[p[y]]
           u == InHalf(h, y)
<1>1. p[y] \in 0 .. 2 * h - 1 /\ k \in {0, 1}
  BY DEF Permutations
<1>2. u \in 0 .. h - 1 /\ u = (IF y < h THEN y ELSE y - h) /\ InHalf(h, p[y]) \in 0 .. h - 1
  BY <1>1 DEF InHalf
<1> HIDE DEF k
<1>4. Sub(p, h, c, k)[u] = InHalf(h, p[Chosen(p, h, c, k, u)])
  <2> DEFINE s == p[Chosen(p, h, c, k, u)]
  <2>1. s \in 0 .. 2 * h - 1
    <3> HIDE DEF u
    <3> QED BY <1>1, <1>2, ChosenHasItsColor
  <2>2. Sub(p, h, c, k)[u] = s % h
    <3> HIDE DEF u
    <3> QED BY <1>2 DEF Sub, Chosen
  <2> HIDE DEF s
  <2>3. s % h = IF s < h THEN s ELSE s - h
    BY <2>1, Remainder
  <2>4. InHalf(h, s) = IF s < h THEN s ELSE s - h
    BY DEF InHalf
  <2> QED BY <2>2, <2>3, <2>4 DEF s
<1>5. Chosen(p, h, c, k, u) = y
  <2>1. CASE y < h
    BY <2>1, <1>2 DEF Chosen, k
  <2>2. CASE ~ (y < h)
    <3>1. u = Opposite(h, y)
      BY <2>2, <1>2, Opposites
    <3>2. InverseOf(p, p[y]) = y
      BY InverseIs
    <3>3. Through(p, h, p[y]) = p[u]
      BY <3>1, <3>2 DEF Through
    <3>4. c[p[u]] # k
      <4>1. c[p[y]] # c[Through(p, h, p[y])]
        BY <1>1 DEF MatesDiffer
      <4> QED BY <3>3, <4>1, Zenon DEF k
    <3>5. u + h = y
      BY <2>2, <1>2
    <3> QED BY <3>4, <3>5 DEF Chosen
  <2> QED BY <2>1, <2>2
<1> QED BY <1>2, <1>4, <1>5 DEF k

LEMMA HalvesReplace ==
  ASSUME NEW v \in Nat, NEW d \in 0 .. v - 1, d + 1 < v, NEW b, Fits(v, d, b),
         NEW h, h = PowerOf2[v - d - 1], NEW p, NEW c, NEW bs, NEW cs,
         bs[1].depth = d, bs[1].base = b, Halved(bs, cs, p, h, c, d, b)
  PROVE  Replaces(v, bs, cs)
<1>1. ASSUME NEW k \in {0, 1} PROVE Part(v, cs[k + 1], bs[1])
  <2>1. cs[k + 1].depth = d + 1 /\ cs[k + 1].base = b + Side(h, k)
    BY DEF Halved, HalfBlock
  <2>2. SubBlock(v, d, b, h, k) \subseteq Region(v, d, b)
    BY HalvesFit
  <2>3. Region(v, cs[k + 1].depth, cs[k + 1].base) \subseteq Region(v, bs[1].depth, bs[1].base)
    BY <2>1, <2>2 DEF SubBlock
  <2>4. \A l \in d + 1 .. 2 * v - 2 - (d + 1) : l \in d .. 2 * v - 2 - d
    OBVIOUS
  <2> QED BY <2>1, <2>3, <2>4 DEF Part, Within
<1>2. Part(v, cs[1], bs[1]) /\ Part(v, cs[2], bs[1])
  <2>1. 0 + 1 = 1 /\ 1 + 1 = 2
    OBVIOUS
  <2> QED BY <2>1, <1>1
<1> QED BY <1>2 DEF Replaces, Halved

\* The path at, through the half of colour k of a block of depth d, which it enters at place e
\* and leaves at place z.
Via(v, at, d, e, z) ==
  [l \in 0 .. 2 * v - 1 |-> IF l = d + 1 THEN e ELSE IF l = 2 * v - 2 - d THEN z ELSE at[l]]

LEMMA ViaIs ==
  ASSUME NEW v \in Nat, NEW d \in 0 .. v - 1, d + 1 < v, NEW x, NEW j, NEW at,
         IsPath(v, at, x, j), NEW e \in Wires(v), NEW z \in Wires(v),
         NEW new, new = Via(v, at, d, e, z)
  PROVE  /\ IsPath(v, new, x, j)
         /\ new[d + 1] = e /\ new[2 * v - 2 - d] = z
         /\ new[d] = at[d] /\ new[2 * v - 1 - d] = at[2 * v - 1 - d]
         /\ \A l \in Layers(v) : l \notin d .. 2 * v - 2 - d =>
              new[l] = at[l] /\ new[l + 1] = at[l + 1]
<1>1. \A l \in 0 .. 2 * v - 1 :
        new[l] = IF l = d + 1 THEN e ELSE IF l = 2 * v - 2 - d THEN z ELSE at[l]
  BY DEF Via
<1>2. new \in [0 .. 2 * v - 1 -> Wires(v)]
  BY DEF Via, IsPath
<1>3. /\ d + 1 \in 0 .. 2 * v - 1 /\ 2 * v - 2 - d \in 0 .. 2 * v - 1 /\ d + 1 # 2 * v - 2 - d
      /\ 0 \in 0 .. 2 * v - 1 /\ 2 * v - 1 \in 0 .. 2 * v - 1
      /\ d \in 0 .. 2 * v - 1 /\ 2 * v - 1 - d \in 0 .. 2 * v - 1
      /\ d # d + 1 /\ d # 2 * v - 2 - d
      /\ 2 * v - 1 - d # d + 1 /\ 2 * v - 1 - d # 2 * v - 2 - d
      /\ 0 # d + 1 /\ 0 # 2 * v - 2 - d
      /\ 2 * v - 1 # d + 1 /\ 2 * v - 1 # 2 * v - 2 - d
  OBVIOUS
<1>4. ASSUME NEW l \in Layers(v), l \notin d .. 2 * v - 2 - d
      PROVE  new[l] = at[l] /\ new[l + 1] = at[l + 1]
  <2>1. /\ l \in 0 .. 2 * v - 1 /\ l + 1 \in 0 .. 2 * v - 1
        /\ l # d + 1 /\ l # 2 * v - 2 - d /\ l + 1 # d + 1 /\ l + 1 # 2 * v - 2 - d
    BY <1>4 DEF Layers, NumLayers
  <2> QED BY <2>1, <1>1
<1>5. IsPath(v, new, x, j)
  <2>1. new[0] = at[0] /\ new[2 * v - 1] = at[2 * v - 1]
    BY <1>1, <1>3
  <2> QED BY <2>1, <1>2 DEF IsPath
<1>6. new[d + 1] = e /\ new[2 * v - 2 - d] = z
  BY <1>1, <1>3
<1>7. new[d] = at[d] /\ new[2 * v - 1 - d] = at[2 * v - 1 - d]
  BY <1>1, <1>3
<1> QED BY <1>4, <1>5, <1>6, <1>7

\* The wires of a half: all of them are wires of the block.
LEMMA HalfWires ==
  ASSUME NEW v \in Nat, NEW d \in 0 .. v - 1, d + 1 < v, NEW b, Fits(v, d, b),
         NEW h, h = PowerOf2[v - d - 1], NEW k \in {0, 1}, NEW u \in 0 .. h - 1
  PROVE  /\ b + Side(h, k) + u \in Region(v, d, b)
         /\ b + Side(h, k) + u \in Wires(v)
<1>1. /\ h \in Nat /\ h > 0 /\ b \in Nat /\ Region(v, d, b) \subseteq Wires(v)
  BY BlockSizes
<1>2. /\ SubBlock(v, d, b, h, k) = b + Side(h, k) .. b + Side(h, k) + h - 1
      /\ SubBlock(v, d, b, h, k) \subseteq Region(v, d, b)
  BY HalvesFit
<1>3. Side(h, k) \in Nat
  BY <1>1 DEF Side
<1>4. b + Side(h, k) + u \in b + Side(h, k) .. b + Side(h, k) + h - 1
  BY <1>1, <1>3
<1> QED BY <1>1, <1>2, <1>4

\* A block that is to be closed, and what closing it does.
Closing(v, bs, cs, sw, sw2, p, h, c, d, b) ==
  /\ 1 \in DOMAIN bs /\ Laid(v, bs)
  /\ bs[1].depth = d /\ bs[1].base = b /\ bs[1].perm = p
  /\ Halved(bs, cs, p, h, c, d, b)
  /\ Closed(v, sw, sw2, d, b, h, p, c)

LEMMA ClosingBrings ==
  ASSUME NEW v, NEW d, NEW b, NEW h, NEW p, NEW c, Split(v, d, b, h, p, c), d + 1 < v,
         NEW bs, NEW cs, NEW sw, NEW sw2, Closing(v, bs, cs, sw, sw2, p, h, c, d, b),
         NEW x, NEW j, Brings(v, bs, sw, x, j)
  PROVE  Brings(v, cs, sw2, x, j)
<1>a. /\ v \in Nat /\ d \in 0 .. v - 1 /\ Fits(v, d, b) /\ h = PowerOf2[v - d - 1]
      /\ p \in Permutations(2 * h) /\ c \in [0 .. 2 * h - 1 -> {0, 1}] /\ MatesDiffer(p, h, c)
  BY DEF Split
<1> USE <1>a
<1>0. /\ 1 \in DOMAIN bs /\ Laid(v, bs)
      /\ bs[1].depth = d /\ bs[1].base = b /\ bs[1].perm = p
      /\ Halved(bs, cs, p, h, c, d, b)
      /\ Closed(v, sw, sw2, d, b, h, p, c)
  BY DEF Closing
<1>1. PICK at : /\ IsPath(v, at, x, j)
                /\ \/ Crosses(v, bs, sw, at, v)
                   \/ \E n \in DOMAIN bs : /\ PassesThrough(v, bs[n], at)
                                           /\ Crosses(v, bs, sw, at, bs[n].depth)
  BY DEF Brings
<1>2. Replaces(v, bs, cs)
  BY <1>0, HalvesReplace
<1>3. Elsewhere(v, bs[1], sw, sw2)
  BY <1>0, ClosingIsLocal
<1>4. CASE \/ Crosses(v, bs, sw, at, v)
           \/ \E n \in DOMAIN bs : /\ n # 1 /\ PassesThrough(v, bs[n], at)
                                   /\ Crosses(v, bs, sw, at, bs[n].depth)
  <2>1. \A n \in DOMAIN bs : n # 1 => \E m \in DOMAIN cs : cs[m] = bs[n]
    BY <1>0 DEF Halved
  <2> QED BY <2>1, <1>0, <1>1, <1>2, <1>3, <1>4, OthersAreBrought
<1>5. CASE PassesThrough(v, bs[1], at) /\ Crosses(v, bs, sw, at, d)
  <2>0. h \in Nat /\ h > 0 /\ b \in Nat /\ Region(v, d, b) = b .. b + 2 * h - 1
    BY BlockSizes
  <2>1. PICK y \in 0 .. 2 * h - 1 : at[d] = b + p[y] /\ at[2 * v - 1 - d] = b + y
    BY <1>0, <1>5 DEF PassesThrough, Permutations
  <2> DEFINE k == c[p[y]]
             e == b + Side(h, k) + InHalf(h, p[y])
             z == b + Side(h, k) + InHalf(h, y)
             new == Via(v, at, d, e, z)
             l2 == 2 * v - 2 - d
  <2>2. p[y] \in 0 .. 2 * h - 1 /\ k \in {0, 1}
    BY DEF Permutations
  <2>3. /\ InHalf(h, y) \in 0 .. h - 1 /\ InHalf(h, p[y]) \in 0 .. h - 1
        /\ Sub(p, h, c, k)[InHalf(h, y)] = InHalf(h, p[y])
    BY <2>0, SubMoves
  <2>4. Moves(v, sw2, d, b + p[y]) = e /\ Moves(v, sw2, l2, z) = b + y
    <3>1. Closed(v, sw, sw2, d, b, h, p, c) /\ p[y] \in 0 .. 2 * h - 1
      BY <1>0, <2>2
    <3>2. Enters(v, sw2, d, b, h, c, p[y])
      BY <3>1, EntryMoves
    <3>3. Leaves(v, sw2, d, b, h, p, c, y)
      BY <3>1, ExitMoves
    <3> QED BY <3>2, <3>3 DEF Enters, Leaves
  <2>5. /\ e \in Wires(v) /\ z \in Wires(v)
        /\ e \in Region(v, d, b) /\ z \in Region(v, d, b)
        /\ b + p[y] \in Region(v, d, b)
    <3> HIDE DEF k
    <3>1. \A i \in 0 .. 2 * h - 1 : b + i \in b .. b + 2 * h - 1
      BY <2>0
    <3>2. b + p[y] \in Region(v, d, b)
      BY <2>0, <2>2, <3>1
    <3>3. e \in Wires(v) /\ e \in Region(v, d, b)
      BY <2>2, <2>3, HalfWires
    <3>4. z \in Wires(v) /\ z \in Region(v, d, b)
      BY <2>2, <2>3, HalfWires
    <3> QED BY <3>2, <3>3, <3>4
  <2> HIDE DEF k, e, z, new
  <2>6. /\ IsPath(v, new, x, j)
        /\ new[d + 1] = e /\ new[l2] = z
        /\ new[d] = at[d] /\ new[2 * v - 1 - d] = at[2 * v - 1 - d]
        /\ \A l \in Layers(v) : l \notin d .. 2 * v - 2 - d =>
             new[l] = at[l] /\ new[l + 1] = at[l + 1]
    BY <1>1, <2>5, ViaIs DEF new
  <2>7. d \in Layers(v) /\ l2 \in Layers(v) /\ l2 + 1 = 2 * v - 1 - d
    BY DEF Layers, NumLayers
  <2>8. ASSUME NEW l \in OuterLayers(v, d), NEW i \in Region(v, d, b), NEW m \in DOMAIN cs
        PROVE  ~ Within(v, cs[m], l, i)
    <3>1. CASE \E n \in DOMAIN bs : n # 1 /\ cs[m] = bs[n]
      <4>1. PICK n \in DOMAIN bs : n # 1 /\ cs[m] = bs[n]
        BY <3>1
      <4>2. Apart(v, bs[1], bs[n])
        BY <4>1, <1>0 DEF Laid
      <4> QED BY <4>1, <4>2, <1>0 DEF Apart, Within
    <3>2. CASE m \in {1, 2}
      <4>1. cs[m].depth = d + 1
        <5>1. m - 1 \in {0, 1} /\ (m - 1) + 1 = m
          BY <3>2
        <5>2. cs[(m - 1) + 1] = HalfBlock(p, h, c, d, b, m - 1)
          BY <5>1, <1>0 DEF Halved
        <5> QED BY <5>1, <5>2 DEF HalfBlock
      <4>2. l \notin d + 1 .. 2 * v - 2 - (d + 1)
        BY DEF OuterLayers
      <4> QED BY <4>1, <4>2 DEF Within
    <3> QED BY <3>1, <3>2, <1>0 DEF Halved
  <2>9. d \in OuterLayers(v, d) /\ l2 \in OuterLayers(v, d)
    BY DEF OuterLayers
  <2>10. Follows(v, cs, sw2, new, d)
    BY <2>1, <2>4, <2>5, <2>6, <2>8, <2>9 DEF Follows
  <2>11. Follows(v, cs, sw2, new, l2)
    <3>1. new[l2 + 1] = Moves(v, sw2, l2, new[l2])
      BY <2>1, <2>4, <2>6, <2>7
    <3> HIDE DEF l2
    <3> QED BY <3>1, <2>5, <2>6, <2>8, <2>9 DEF Follows
  <2>12. Crosses(v, cs, sw2, new, d + 1)
    <3> SUFFICES ASSUME NEW l \in Layers(v), l \notin d + 1 .. 2 * v - 2 - (d + 1)
                 PROVE  Follows(v, cs, sw2, new, l)
      BY DEF Crosses
    <3>1. CASE l = d
      BY <3>1, <2>10
    <3>2. CASE l = l2
      BY <3>2, <2>11
    <3>3. CASE l # d /\ l # l2
      <4>1. l \notin d .. 2 * v - 2 - d
        BY <3>3 DEF Layers, NumLayers
      <4>2. Follows(v, bs, sw, at, l)
        BY <4>1, <1>5 DEF Crosses
      <4>4. at[l] \in Wires(v)
        BY <1>1 DEF IsPath, Layers, NumLayers
      <4>3. Follows(v, cs, sw2, at, l)
        BY <4>2, <4>4, <1>0, <1>2, <1>3, FollowsStill
      <4> QED BY <4>1, <4>3, <2>6 DEF Follows
    <3> QED BY <3>1, <3>2, <3>3
  <2>13. /\ k + 1 \in DOMAIN cs
         /\ cs[k + 1].depth = d + 1 /\ cs[k + 1].base = b + Side(h, k)
         /\ cs[k + 1].perm = Sub(p, h, c, k)
    BY <1>0, <2>2 DEF Halved, HalfBlock
  <2>14. PassesThrough(v, cs[k + 1], new)
    <3>1. DOMAIN Sub(p, h, c, k) = 0 .. h - 1
      BY DEF Sub
    <3>2. 2 * v - 1 - (d + 1) = l2
      OBVIOUS
    <3>3. InHalf(h, y) \in DOMAIN cs[k + 1].perm
      BY <3>1, <2>3, <2>13
    <3>4. new[d + 1] = cs[k + 1].base + cs[k + 1].perm[InHalf(h, y)]
      BY <2>3, <2>6, <2>13 DEF e
    <3>5. new[2 * v - 1 - (d + 1)] = cs[k + 1].base + InHalf(h, y)
      BY <3>2, <2>6, <2>13 DEF z
    <3> QED BY <3>3, <3>4, <3>5, <2>13 DEF PassesThrough
  <2> QED BY <2>6, <2>12, <2>13, <2>14 DEF Brings
<1> QED BY <1>0, <1>1, <1>4, <1>5

(***************************************************************************)
(* The blocks that are left.                                               *)
(***************************************************************************)
LEMMA TailIs ==
  ASSUME NEW S, NEW bs \in Seq(S), bs # <<>>, NEW cs, cs = Tail(bs)
  PROVE  /\ 1 \in DOMAIN bs /\ bs[1] = Head(bs)
         /\ \A m \in DOMAIN cs : m + 1 \in DOMAIN bs /\ m + 1 # 1 /\ cs[m] = bs[m + 1]
         /\ \A n \in DOMAIN bs : n # 1 => n - 1 \in DOMAIN cs /\ cs[n - 1] = bs[n]
<1>1. /\ Len(bs) \in Nat /\ Len(bs) > 0 /\ DOMAIN bs = 1 .. Len(bs)
      /\ DOMAIN cs = 1 .. Len(bs) - 1 /\ \A m \in 1 .. Len(bs) - 1 : cs[m] = bs[m + 1]
      /\ Head(bs) = bs[1]
  OBVIOUS
<1>2. ASSUME NEW n \in DOMAIN bs, n # 1 PROVE n - 1 \in DOMAIN cs /\ cs[n - 1] = bs[n]
  <2>1. n - 1 \in 1 .. Len(bs) - 1 /\ (n - 1) + 1 = n
    BY <1>1, <1>2
  <2>2. cs[n - 1] = bs[(n - 1) + 1]
    BY <2>1, <1>1
  <2> QED BY <2>1, <2>2, <1>1
<1> QED BY <1>1, <1>2

\* The head of bs is replaced by two blocks A and B.
HeadBecomes(bs, cs, A, B) ==
  /\ 1 \in DOMAIN bs /\ bs[1] = Head(bs)
  /\ 1 \in DOMAIN cs /\ cs[1] = A /\ 2 \in DOMAIN cs /\ cs[2] = B
  /\ \A m \in DOMAIN cs : m \notin {1, 2} =>
       m \in Nat /\ m - 1 \in DOMAIN bs /\ m - 1 # 1 /\ cs[m] = bs[m - 1]
  /\ \A n \in DOMAIN bs : n # 1 => n + 1 \in DOMAIN cs /\ cs[n + 1] = bs[n]

LEMMA PairThenTailIs ==
  ASSUME NEW S, NEW bs \in Seq(S), bs # <<>>, NEW A, NEW B
  PROVE  HeadBecomes(bs, <<A, B>> \o Tail(bs), A, B)
<1> DEFINE t == Tail(bs)
           cs == <<A, B>> \o Tail(bs)
<1>1. /\ Len(bs) \in Nat /\ Len(bs) > 0 /\ DOMAIN bs = 1 .. Len(bs)
      /\ Len(t) = Len(bs) - 1 /\ DOMAIN t = 1 .. Len(bs) - 1
      /\ \A m \in 1 .. Len(bs) - 1 : t[m] = bs[m + 1]
      /\ Head(bs) = bs[1] /\ t \in Seq(S)
  OBVIOUS
<1> HIDE DEF t
<1>2. /\ DOMAIN cs = 1 .. Len(bs) + 1 /\ cs[1] = A /\ cs[2] = B
      /\ \A m \in 3 .. Len(bs) + 1 : cs[m] = t[m - 2]
  <2>1. <<A, B>> \in Seq({A, B}) /\ Len(<<A, B>>) = 2
    OBVIOUS
  <2>2. cs = <<A, B>> \o t
    BY DEF t
  <2> HIDE DEF cs
  <2> QED BY <2>1, <2>2, <1>1
<1> HIDE DEF cs
<1>3. ASSUME NEW m \in DOMAIN cs, m \notin {1, 2}
      PROVE  m \in Nat /\ m - 1 \in DOMAIN bs /\ m - 1 # 1 /\ cs[m] = bs[m - 1]
  <2>1. m \in 3 .. Len(bs) + 1 /\ m - 2 \in 1 .. Len(bs) - 1 /\ (m - 2) + 1 = m - 1
    BY <1>1, <1>2, <1>3
  <2>2. cs[m] = t[m - 2] /\ t[m - 2] = bs[(m - 2) + 1]
    BY <2>1, <1>1, <1>2
  <2> QED BY <2>1, <2>2, <1>1
<1>4. ASSUME NEW n \in DOMAIN bs, n # 1 PROVE n + 1 \in DOMAIN cs /\ cs[n + 1] = bs[n]
  <2>1. n + 1 \in 3 .. Len(bs) + 1 /\ (n + 1) - 2 = n - 1 /\ n - 1 \in 1 .. Len(bs) - 1
        /\ (n - 1) + 1 = n
    BY <1>1, <1>4
  <2>2. cs[n + 1] = t[(n + 1) - 2] /\ t[n - 1] = bs[(n - 1) + 1]
    BY <2>1, <1>1, <1>2
  <2> QED BY <2>1, <2>2, <1>1, <1>2
<1> QED BY <1>1, <1>2, <1>3, <1>4 DEF HeadBecomes, cs

LEMMA TailIsLaid ==
  ASSUME NEW v, NEW S, NEW bs \in Seq(S), bs # <<>>, Laid(v, bs)
  PROVE  Laid(v, Tail(bs)) /\ Rest(bs, Tail(bs)) /\ 1 \in DOMAIN bs /\ bs[1] = Head(bs)
<1> DEFINE cs == Tail(bs)
<1>1. /\ 1 \in DOMAIN bs /\ bs[1] = Head(bs)
      /\ \A m \in DOMAIN cs : m + 1 \in DOMAIN bs /\ m + 1 # 1 /\ cs[m] = bs[m + 1]
      /\ \A n \in DOMAIN bs : n # 1 => n - 1 \in DOMAIN cs /\ cs[n - 1] = bs[n]
  BY TailIs
<1>2. \A m \in DOMAIN cs : m \in Nat
  OBVIOUS
<1> HIDE DEF cs
<1>3. ASSUME NEW m \in DOMAIN cs PROVE Fits(v, cs[m].depth, cs[m].base)
  BY <1>1 DEF Laid
<1>4. ASSUME NEW m \in DOMAIN cs, NEW n \in DOMAIN cs, m # n PROVE Apart(v, cs[m], cs[n])
  <2>1. m + 1 # n + 1
    BY <1>2, <1>4
  <2> QED BY <2>1, <1>1 DEF Laid
<1>5. Laid(v, cs)
  BY <1>3, <1>4 DEF Laid
<1>6. Rest(bs, cs)
  BY <1>1 DEF Rest
<1> QED BY <1>1, <1>5, <1>6 DEF cs

HalvesThenTail(bs, p, h, c, d, b) ==
  <<HalfBlock(p, h, c, d, b, 0), HalfBlock(p, h, c, d, b, 1)>> \o Tail(bs)

\* A block of 2 * h wires that is not the last one, in a network of v.
HasHalves(v, d, h) == v \in Nat /\ d \in 0 .. v - 1 /\ d + 1 < v /\ h = PowerOf2[v - d - 1]

\* The blocks bs are laid and the first one has depth d and base b.
LaidFrom(v, bs, S, d, b) ==
  bs \in Seq(S) /\ bs # <<>> /\ Laid(v, bs) /\ Head(bs).depth = d /\ Head(bs).base = b

LEMMA HalvesAreLaid ==
  ASSUME NEW v, NEW d, NEW b, NEW h, HasHalves(v, d, h),
         NEW p, NEW c, NEW S, NEW bs, LaidFrom(v, bs, S, d, b),
         NEW cs, cs = HalvesThenTail(bs, p, h, c, d, b)
  PROVE  Laid(v, cs) /\ Halved(bs, cs, p, h, c, d, b) /\ 1 \in DOMAIN bs /\ bs[1] = Head(bs)
<1>0. /\ v \in Nat /\ d \in 0 .. v - 1 /\ d + 1 < v /\ h = PowerOf2[v - d - 1]
      /\ bs \in Seq(S) /\ bs # <<>> /\ Laid(v, bs) /\ Head(bs).depth = d /\ Head(bs).base = b
  BY DEF HasHalves, LaidFrom
<1> USE <1>0
<1>1. /\ 1 \in DOMAIN bs /\ bs[1] = Head(bs)
      /\ 1 \in DOMAIN cs /\ cs[1] = HalfBlock(p, h, c, d, b, 0)
      /\ 2 \in DOMAIN cs /\ cs[2] = HalfBlock(p, h, c, d, b, 1)
      /\ \A m \in DOMAIN cs : m \notin {1, 2} =>
           m \in Nat /\ m - 1 \in DOMAIN bs /\ m - 1 # 1 /\ cs[m] = bs[m - 1]
      /\ \A n \in DOMAIN bs : n # 1 => n + 1 \in DOMAIN cs /\ cs[n + 1] = bs[n]
  <2>1. HeadBecomes(bs, cs, HalfBlock(p, h, c, d, b, 0), HalfBlock(p, h, c, d, b, 1))
    BY PairThenTailIs DEF HalvesThenTail
  <2> QED BY <2>1 DEF HeadBecomes
<1>2. Fits(v, d, b)
  BY <1>1 DEF Laid
<1>3. \A k \in {0, 1} : /\ k + 1 \in DOMAIN cs /\ cs[k + 1] = HalfBlock(p, h, c, d, b, k)
                        /\ cs[k + 1].depth = d + 1 /\ cs[k + 1].base = b + Side(h, k)
  <2>1. 0 + 1 = 1 /\ 1 + 1 = 2
    OBVIOUS
  <2>2. cs[0 + 1] = HalfBlock(p, h, c, d, b, 0) /\ cs[1 + 1] = HalfBlock(p, h, c, d, b, 1)
    BY <2>1, <1>1
  <2> QED BY <2>1, <2>2, <1>1 DEF HalfBlock
<1>4. Halved(bs, cs, p, h, c, d, b)
  <2>1. ASSUME NEW m \in DOMAIN cs, m \notin {1, 2} PROVE \E n \in DOMAIN bs : n # 1 /\ cs[m] = bs[n]
    BY <2>1, <1>1
  <2>2. ASSUME NEW n \in DOMAIN bs, n # 1 PROVE \E m \in DOMAIN cs : cs[m] = bs[n]
    BY <2>2, <1>1
  <2> QED BY <2>1, <2>2, <1>3 DEF Halved
<1>5. ASSUME NEW k \in {0, 1}
      PROVE  /\ Fits(v, cs[k + 1].depth, cs[k + 1].base)
             /\ Region(v, cs[k + 1].depth, cs[k + 1].base) \subseteq Region(v, d, b)
             /\ Apart(v, cs[k + 1], cs[(1 - k) + 1])
  <2>1. /\ Fits(v, d + 1, b + Side(h, k))
        /\ SubBlock(v, d, b, h, k) \subseteq Region(v, d, b)
        /\ \A i \in SubBlock(v, d, b, h, k) : i \notin SubBlock(v, d, b, h, 1 - k)
    BY <1>2, HalvesFit
  <2>2. 1 - k \in {0, 1}
    OBVIOUS
  <2> QED BY <2>1, <2>2, <1>3 DEF SubBlock, Apart
<1>6. ASSUME NEW m \in {1, 2}
      PROVE  /\ Fits(v, cs[m].depth, cs[m].base)
             /\ Region(v, cs[m].depth, cs[m].base) \subseteq Region(v, d, b)
             /\ \A n \in {1, 2} : m # n => Apart(v, cs[m], cs[n])
  <2>1. m - 1 \in {0, 1} /\ (m - 1) + 1 = m
    OBVIOUS
  <2>2. \A n \in {1, 2} : m # n => n = (1 - (m - 1)) + 1
    OBVIOUS
  <2> QED BY <2>1, <2>2, <1>5
<1>7. ASSUME NEW m \in DOMAIN cs PROVE Fits(v, cs[m].depth, cs[m].base)
  <2>1. CASE m \in {1, 2}
    BY <2>1, <1>6
  <2>2. CASE m \notin {1, 2}
    BY <2>2, <1>1 DEF Laid
  <2> QED BY <2>1, <2>2
<1>8. ASSUME NEW m \in DOMAIN cs, NEW n \in DOMAIN cs, m # n PROVE Apart(v, cs[m], cs[n])
  <2>1. CASE m \in {1, 2} /\ n \in {1, 2}
    BY <2>1, <1>6, <1>8
  <2>2. CASE m \in {1, 2} /\ n \notin {1, 2}
    <3>1. n - 1 \in DOMAIN bs /\ n - 1 # 1 /\ cs[n] = bs[n - 1]
      BY <2>2, <1>1
    <3>2. Apart(v, bs[1], bs[n - 1])
      BY <3>1, <1>1 DEF Laid
    <3>3. Region(v, cs[m].depth, cs[m].base) \subseteq Region(v, d, b)
      BY <2>2, <1>6
    <3> QED BY <3>1, <3>2, <3>3, <1>1 DEF Apart
  <2>3. CASE m \notin {1, 2} /\ n \in {1, 2}
    <3>1. m - 1 \in DOMAIN bs /\ m - 1 # 1 /\ cs[m] = bs[m - 1]
      BY <2>3, <1>1
    <3>2. Apart(v, bs[m - 1], bs[1])
      BY <3>1, <1>1 DEF Laid
    <3>3. Region(v, cs[n].depth, cs[n].base) \subseteq Region(v, d, b)
      BY <2>3, <1>6
    <3> QED BY <3>1, <3>2, <3>3, <1>1 DEF Apart
  <2>4. CASE m \notin {1, 2} /\ n \notin {1, 2}
    <3>1. /\ m - 1 \in DOMAIN bs /\ n - 1 \in DOMAIN bs /\ m - 1 # n - 1
          /\ cs[m] = bs[m - 1] /\ cs[n] = bs[n - 1]
      BY <2>4, <1>1, <1>8
    <3> QED BY <3>1 DEF Laid
  <2> QED BY <2>1, <2>2, <2>3, <2>4
<1>9. Laid(v, cs)
  BY <1>7, <1>8 DEF Laid
<1> QED BY <1>1, <1>4, <1>9

(***************************************************************************)
(* What the router keeps: the switches that are set bring every output     *)
(* its input, if the blocks that are left will.                            *)
(***************************************************************************)
SwitchesFor(v) == [Layers(v) -> [Wires(v) -> BOOLEAN]]

Routes(v, bs, sw, p) ==
  /\ sw \in SwitchesFor(v)
  /\ Laid(v, bs)
  /\ \A j \in Wires(v) : Brings(v, bs, sw, p[j], j)

RoutesInv == stage \in {"block", "scan", "walk"} => Routes(numVars, blocks, switches, perm)

LEMMA OneBlockRoutes ==
  ASSUME NEW v \in Nat, v > 0, NEW p \in Permutations(PowerOf2[v]), NEW sw \in SwitchesFor(v),
         NEW bs, 1 \in DOMAIN bs, \A n \in DOMAIN bs : n = 1,
         bs[1].depth = 0, bs[1].base = 0, bs[1].perm = p
  PROVE  Routes(v, bs, sw, p)
<1>1. PowerOf2[v] \in Nat /\ v - 0 = v
  BY PowerOf2Type
<1>2. Fits(v, 0, 0)
  <2>1. 0 = 0 * PowerOf2[v] /\ 0 + PowerOf2[v] <= PowerOf2[v]
    BY <1>1
  <2> QED BY <1>1, <2>1 DEF Fits
<1>3. Laid(v, bs)
  BY <1>2 DEF Laid
<1>4. ASSUME NEW j \in Wires(v) PROVE Brings(v, bs, sw, p[j], j)
  <2> DEFINE at == [l \in 0 .. 2 * v - 1 |-> IF l = 0 THEN p[j] ELSE j]
  <2>1. p[j] \in Wires(v) /\ j \in DOMAIN p /\ j \in Nat /\ p[j] \in Nat
    BY <1>1 DEF Permutations, Wires
  <2>2. 0 \in 0 .. 2 * v - 1 /\ 2 * v - 1 \in 0 .. 2 * v - 1 /\ 2 * v - 1 # 0
    OBVIOUS
  <2>3. at[0] = p[j] /\ at[2 * v - 1] = j
    BY <2>2
  <2>4. IsPath(v, at, p[j], j)
    BY <2>1, <2>3 DEF IsPath
  <2>5. PassesThrough(v, bs[1], at)
    <3>1. at[bs[1].depth] = bs[1].base + bs[1].perm[j]
      BY <2>1, <2>3
    <3>2. at[2 * v - 1 - bs[1].depth] = bs[1].base + j
      <4>1. 2 * v - 1 - 0 = 2 * v - 1
        OBVIOUS
      <4> QED BY <4>1, <2>1, <2>3
    <3> QED BY <3>1, <3>2, <2>1 DEF PassesThrough
  <2>6. Crosses(v, bs, sw, at, bs[1].depth)
    <3>1. \A l \in Layers(v) : l \in 0 .. 2 * v - 2 - 0
      BY DEF Layers, NumLayers
    <3> QED BY <3>1 DEF Crosses
  <2> HIDE DEF at
  <2> QED BY <2>4, <2>5, <2>6 DEF Brings
<1> QED BY <1>3, <1>4 DEF Routes

LEMMA RouteRoutes ==
  ASSUME numVars \in Nat, numVars > 0, perm \in Permutations(PowerOf2[numVars]), Route
  PROVE  Routes(numVars, blocks', switches', perm)
<1>1. /\ switches' = [l \in Layers(numVars) |-> [i \in Wires(numVars) |-> FALSE]]
      /\ blocks' = <<[perm |-> perm, base |-> 0, depth |-> 0]>>
  BY DEF Route
<1>2. switches' \in SwitchesFor(numVars)
  BY <1>1 DEF SwitchesFor
<1>3. /\ 1 \in DOMAIN blocks' /\ \A n \in DOMAIN blocks' : n = 1
      /\ blocks'[1] = [perm |-> perm, base |-> 0, depth |-> 0]
  BY <1>1
<1>4. blocks'[1].depth = 0 /\ blocks'[1].base = 0 /\ blocks'[1].perm = perm
  BY <1>3
<1> QED BY <1>2, <1>3, <1>4, OneBlockRoutes

\* A block of two wires is one of the middle layer.
LEMMA MiddleDepth ==
  ASSUME NEW v \in Nat, NEW d \in 0 .. v - 1, PowerOf2[v - d - 1] = 1
  PROVE  d = v - 1
<1>1. v - d - 1 \in Nat
  OBVIOUS
<1>2. ASSUME v - d - 1 > 0 PROVE FALSE
  <2>1. v - d - 1 - 1 \in Nat
    BY <1>1, <1>2
  <2>2. PowerOf2[v - d - 1] = 2 * PowerOf2[v - d - 1 - 1]
    BY <1>1, <1>2, PowerOf2Twice
  <2>3. PowerOf2[v - d - 1 - 1] \in Nat
    BY <2>1, PowerOf2Type
  <2> QED BY <2>2, <2>3
<1> QED BY <1>1, <1>2

LEMMA OneSwitchElsewhere ==
  ASSUME NEW v \in Nat, v > 0, NEW B, B.depth = v - 1, Fits(v, v - 1, B.base),
         NEW sw \in SwitchesFor(v), NEW t \in BOOLEAN,
         NEW sw2, sw2 = [sw EXCEPT ![v - 1][B.base] = t]
  PROVE  /\ sw2 \in SwitchesFor(v)
         /\ sw2[v - 1][B.base] = t
         /\ Elsewhere(v, B, sw, sw2)
<1> DEFINE b == B.base
<1>0. v - 1 \in 0 .. v - 1 /\ v - (v - 1) - 1 = 0
  OBVIOUS
<1>1. /\ b \in Nat /\ b \in Wires(v) /\ Region(v, v - 1, b) = b .. b + 1
      /\ Region(v, v - 1, b) \subseteq Wires(v)
  <2>1. PowerOf2[v - (v - 1) - 1] = 1
    BY <1>0, PowerOf2Zero
  <2>2. /\ b \in Nat /\ Region(v, v - 1, b) = b .. b + 2 * 1 - 1
        /\ Region(v, v - 1, b) \subseteq Wires(v)
    <3> DEFINE h == PowerOf2[v - (v - 1) - 1]
    <3>1. h = 1
      BY <2>1
    <3> HIDE DEF h
    <3>2. h = PowerOf2[v - (v - 1) - 1]
      BY DEF h
    <3>3. /\ b \in Nat /\ Region(v, v - 1, b) = b .. b + 2 * h - 1
          /\ Region(v, v - 1, b) \subseteq Wires(v)
      BY <3>2, <1>0, BlockSizes
    <3> QED BY <3>1, <3>3
  <2>3. b \in b .. b + 2 * 1 - 1 /\ b + 2 * 1 - 1 = b + 1
    BY <2>2
  <2> QED BY <2>2, <2>3
<1>2. v - 1 \in Layers(v)
  BY DEF Layers, NumLayers
<1>3. DOMAIN sw = Layers(v) /\ \A l \in Layers(v) : sw[l] \in [Wires(v) -> BOOLEAN]
  BY DEF SwitchesFor
<1>4. sw2 = [l \in Layers(v) |-> IF l = v - 1 THEN [sw[l] EXCEPT ![b] = t] ELSE sw[l]]
  BY <1>2, <1>3, Zenon
<1>5. \A l \in Layers(v) : l # v - 1 => sw2[l] = sw[l]
  BY <1>4
<1>6. sw2[v - 1] = [sw[v - 1] EXCEPT ![b] = t]
  BY <1>2, <1>4
<1>7. sw2[v - 1][b] = t /\ sw2[v - 1] \in [Wires(v) -> BOOLEAN]
      /\ \A i \in Wires(v) : i # b => sw2[v - 1][i] = sw[v - 1][i]
  BY <1>1, <1>2, <1>3, <1>6
<1>8. sw2 \in SwitchesFor(v)
  <2>1. \A l \in Layers(v) : sw2[l] \in [Wires(v) -> BOOLEAN]
    BY <1>3, <1>5, <1>7
  <2> QED BY <2>1, <1>4 DEF SwitchesFor
<1>9. Elsewhere(v, B, sw, sw2)
  <2> SUFFICES ASSUME NEW l \in Layers(v), NEW i \in Wires(v), ~ Within(v, B, l, i)
               PROVE  Moves(v, sw2, l, i) = Moves(v, sw, l, i)
    BY DEF Elsewhere
  <2>1. CASE l # v - 1
    BY <2>1, <1>5 DEF Moves
  <2>2. CASE l = v - 1
    <3>1. i \notin Region(v, v - 1, b)
      <4>1. l \in v - 1 .. 2 * v - 2 - (v - 1)
        BY <2>2
      <4> QED BY <4>1 DEF Within
    <3>2. l \in OuterLayers(v, v - 1) /\ PowerOf2[v - (v - 1) - 1] = 1
      BY <2>2, <1>0, PowerOf2Zero DEF OuterLayers
    <3>3. SwitchAt(v, l, i) \in Wires(v) /\ ~ (SwitchAt(v, l, i) - b \in 0 .. 1 - 1)
      BY <3>1, <3>2, <1>0, OuterSwitchesElsewhere
    <3>4. SwitchAt(v, l, i) # b
      <4>1. b - b \in 0 .. 1 - 1
        BY <1>1
      <4> QED BY <4>1, <3>3
    <3> QED BY <3>3, <3>4, <2>2, <1>7 DEF Moves
  <2> QED BY <2>1, <2>2
<1> QED BY <1>7, <1>8, <1>9

LEMMA MiddleRoutes ==
  ASSUME numVars \in Nat, numVars > 0, blocks \in Seq(GoodBlocks(numVars)),
         Routes(numVars, blocks, switches, perm), MiddleBlock
  PROVE  Routes(numVars, blocks', switches', perm)
<1> DEFINE v == numVars
           B == Block
<1>1. /\ blocks # <<>> /\ Size = 2 /\ blocks' = Tail(blocks)
      /\ switches' = [switches EXCEPT ![v - 1][B.base] = (B.perm[0] = 1)]
  BY DEF MiddleBlock
<1>2. /\ Laid(v, blocks) /\ switches \in SwitchesFor(v)
      /\ \A j \in Wires(v) : Brings(v, blocks, switches, perm[j], j)
  BY DEF Routes
<1>3. /\ Laid(v, blocks') /\ Rest(blocks, blocks') /\ 1 \in DOMAIN blocks /\ blocks[1] = B
  BY <1>1, <1>2, TailIsLaid DEF Block
<1>4. /\ B.depth \in 0 .. v - 1 /\ B.perm \in Permutations(2 * Half)
      /\ Half = PowerOf2[v - B.depth - 1] /\ Half = 1
  <2>1. /\ Block \in GoodBlocks(v) /\ Block.perm \in Permutations(2 * Half)
        /\ Half = PowerOf2[v - Block.depth - 1] /\ Half \in Nat /\ Size = 2 * Half
    BY <1>1, HeadBlock
  <2>2. Half = 1
    BY <2>1, <1>1
  <2> QED BY <2>1, <2>2, GoodBlock
<1>5. B.depth = v - 1
  BY <1>4, MiddleDepth
<1>6. B.perm \in Permutations(2)
  <2>1. 2 * 1 = 2
    OBVIOUS
  <2> QED BY <2>1, <1>4
<1>7. Fits(v, v - 1, B.base)
  BY <1>2, <1>3, <1>5 DEF Laid
<1> DEFINE t == (B.perm[0] = 1)
<1>8. t \in BOOLEAN /\ switches' = [switches EXCEPT ![v - 1][B.base] = t]
  BY <1>1
<1> HIDE DEF t, B
<1>9. /\ switches' \in SwitchesFor(v)
      /\ switches'[v - 1][B.base] = t
      /\ Elsewhere(v, B, switches, switches')
  BY <1>2, <1>5, <1>7, <1>8, OneSwitchElsewhere
<1>10. switches'[v - 1][B.base] <=> B.perm[0] = 1
  BY <1>9 DEF t
<1>11. ASSUME NEW j \in Wires(v) PROVE Brings(v, blocks', switches', perm[j], j)
  <2>1. Brings(v, blocks, switches, perm[j], j)
    BY <1>2
  <2>2. /\ blocks[1].depth = v - 1 /\ blocks[1].perm \in Permutations(2)
        /\ Elsewhere(v, blocks[1], switches, switches')
        /\ switches'[v - 1][blocks[1].base] <=> blocks[1].perm[0] = 1
    BY <1>3, <1>5, <1>6, <1>9, <1>10
  <2> QED BY <2>1, <2>2, <1>2, <1>3, MiddleBrings
<1> QED BY <1>3, <1>9, <1>11 DEF Routes

\* What CloseBlock sets.
ClosedSwitches(v, sw, d, b, h, p, c) ==
  [sw EXCEPT
     ![d] = [i \in DOMAIN @ |-> IF i - b \in 0 .. h - 1 THEN c[i - b] = 1 ELSE @[i]],
     ![2 * v - 2 - d] = [i \in DOMAIN @ |->
        IF i - b \in 0 .. h - 1 THEN c[p[i - b]] = 1 ELSE @[i]]]

LEMMA ClosingSets ==
  ASSUME NEW v \in Nat, NEW d \in 0 .. v - 1, d + 1 < v, NEW b, Fits(v, d, b),
         NEW h, h = PowerOf2[v - d - 1], NEW p \in Permutations(2 * h), NEW c,
         NEW sw \in SwitchesFor(v), NEW sw2,
         sw2 = ClosedSwitches(v, sw, d, b, h, p, c)
  PROVE  sw2 \in SwitchesFor(v) /\ Closed(v, sw, sw2, d, b, h, p, c)
<1> DEFINE e == 2 * v - 2 - d
           first == [i \in DOMAIN sw[d] |-> IF i - b \in 0 .. h - 1 THEN c[i - b] = 1 ELSE sw[d][i]]
           last == [i \in DOMAIN sw[e] |->
                      IF i - b \in 0 .. h - 1 THEN c[p[i - b]] = 1 ELSE sw[e][i]]
<1>1. d \in Layers(v) /\ e \in Layers(v) /\ d # e
  BY DEF Layers, NumLayers
<1>2. DOMAIN sw = Layers(v) /\ \A l \in Layers(v) : sw[l] \in [Wires(v) -> BOOLEAN]
  BY DEF SwitchesFor
<1>3. sw2 = [sw EXCEPT ![d] = first, ![e] = last]
  <2>1. sw2 = [sw EXCEPT
                  ![d] = [i \in DOMAIN @ |-> IF i - b \in 0 .. h - 1 THEN c[i - b] = 1 ELSE @[i]],
                  ![e] = [i \in DOMAIN @ |->
                     IF i - b \in 0 .. h - 1 THEN c[p[i - b]] = 1 ELSE @[i]]]
    BY DEF ClosedSwitches
  <2> QED BY <2>1, <1>1, <1>2
<1>4. /\ \A l \in Layers(v) : l # d /\ l # e => sw2[l] = sw[l]
      /\ sw2[d] = first /\ sw2[e] = last /\ DOMAIN sw2 = Layers(v)
  <2> HIDE DEF first, last, e
  <2> QED BY <1>1, <1>2, <1>3
<1>5. DOMAIN sw[d] = Wires(v) /\ DOMAIN sw[e] = Wires(v)
  BY <1>1, <1>2
<1>6. first \in [Wires(v) -> BOOLEAN] /\ last \in [Wires(v) -> BOOLEAN]
  BY <1>1, <1>2, <1>5
<1>7. sw2 \in SwitchesFor(v)
  <2>1. \A l \in Layers(v) : sw2[l] \in [Wires(v) -> BOOLEAN]
    BY <1>2, <1>4, <1>6
  <2> HIDE DEF first, last, e
  <2> QED BY <2>1, <1>2, <1>3, <1>4 DEF SwitchesFor
<1>8. /\ h \in Nat /\ h > 0 /\ b \in Nat
      /\ \A x \in 0 .. h - 1 : b + x \in Wires(v) /\ (b + x) - b = x
  <2>1. /\ h \in Nat /\ h > 0 /\ b \in Nat /\ Region(v, d, b) = b .. b + 2 * h - 1
        /\ Region(v, d, b) \subseteq Wires(v)
    BY BlockSizes
  <2>2. h \in Int /\ b \in Int
    BY <2>1
  <2>3. ASSUME NEW x \in 0 .. h - 1 PROVE b + x \in b .. b + 2 * h - 1 /\ (b + x) - b = x
    BY ONLY <2>2, x \in 0 .. h - 1
  <2> QED BY <2>1, <2>3
<1>9. ASSUME NEW x \in 0 .. h - 1
      PROVE  (sw2[d][b + x] <=> c[x] = 1) /\ (sw2[e][b + x] <=> c[p[x]] = 1)
  <2>1. b + x \in Wires(v) /\ (b + x) - b \in 0 .. h - 1 /\ (b + x) - b = x
    BY <1>8
  <2>2. first[b + x] = (c[(b + x) - b] = 1) /\ last[b + x] = (c[p[(b + x) - b]] = 1)
    BY <2>1, <1>5
  <2> HIDE DEF first, last, e
  <2> QED BY <2>1, <2>2, <1>4
<1>10. ASSUME NEW l \in OuterLayers(v, d), NEW i \in Wires(v), ~ (i - b \in 0 .. h - 1)
       PROVE  sw2[l][i] = sw[l][i]
  <2>1. first[i] = sw[d][i] /\ last[i] = sw[e][i]
    BY <1>5, <1>10
  <2>2. l = d \/ l = e
    BY DEF OuterLayers
  <2> HIDE DEF first, last, e
  <2> QED BY <2>1, <2>2, <1>4
<1>11. \A l \in Layers(v) : l \notin OuterLayers(v, d) => sw2[l] = sw[l]
  BY <1>4 DEF OuterLayers
<1> QED BY <1>7, <1>9, <1>10, <1>11 DEF Closed

LEMMA CloseRoutes ==
  ASSUME numVars \in Nat, numVars > 0, blocks \in Seq(GoodBlocks(numVars)), blocks # <<>>, Size > 2,
         color \in Colorings(BlockWires), Balanced(color, MatesOfEntry, MatesOfExit, BlockWires),
         Routes(numVars, blocks, switches, perm), CloseBlock
  PROVE  Routes(numVars, blocks', switches', perm)
<1> DEFINE v == numVars
           d == Block.depth
           b == Block.base
           h == Half
           p == Block.perm
           c == color
<1>1. color \in [0 .. 2 * Half - 1 -> {0, 1}] /\ MatesDiffer(Block.perm, Half, color)
  <2>1. \A i \in DOMAIN color : color[i] # Uncolored
    BY DEF CloseBlock, Colored
  <2> QED BY <2>1, ColoredBlockSplits
<1>2. /\ d \in 0 .. v - 1 /\ d + 1 < v /\ h = PowerOf2[v - d - 1] /\ h \in Nat
      /\ p \in Permutations(2 * h)
  <2>1. /\ Block \in GoodBlocks(v) /\ h \in Nat
        /\ h = PowerOf2[v - d - 1] /\ p \in Permutations(2 * h) /\ d + 1 \in 0 .. v - 1
    BY HeadBlock
  <2>2. d \in 0 .. v - 1
    BY <2>1, GoodBlock
  <2> HIDE DEF d, h, p
  <2>3. d + 1 < v
    BY <2>1, <2>2
  <2> QED BY <2>1, <2>2, <2>3
<1>3. /\ Laid(v, blocks) /\ switches \in SwitchesFor(v)
      /\ \A j \in Wires(v) : Brings(v, blocks, switches, perm[j], j)
  BY DEF Routes
<1>4. 1 \in DOMAIN blocks /\ blocks[1] = Block
  BY <1>3, TailIsLaid DEF Block
<1>5. Fits(v, d, b)
  BY <1>3, <1>4 DEF Laid
<1>6. blocks' = HalvesThenTail(blocks, p, h, c, d, b)
  <2>1. \A k : SubPerm(k) = Sub(p, h, c, k)
    BY DEF SubPerm, Sub
  <2>2. b + Side(h, 0) = b /\ b + Side(h, 1) = b + h
    <3>1. b \in Nat
      BY <1>2, <1>5, BlockSizes
    <3> QED BY <3>1 DEF Side
  <2> QED BY <2>1, <2>2 DEF CloseBlock, HalfBlock, HalvesThenTail
<1>7. switches' = ClosedSwitches(v, switches, d, b, h, p, c)
  BY DEF CloseBlock, ClosedSwitches
<1>8. Head(blocks).depth = d /\ Head(blocks).base = b
  BY DEF Block
<1>9. c \in [0 .. 2 * h - 1 -> {0, 1}] /\ MatesDiffer(p, h, c)
  BY <1>1
<1>10. /\ blocks[1].depth = d /\ blocks[1].base = b /\ blocks[1].perm = p /\ v \in Nat
       /\ blocks \in Seq(GoodBlocks(v)) /\ blocks # <<>>
  BY <1>4
<1> HIDE DEF v, d, b, h, p, c
<1>11. Laid(v, blocks') /\ Halved(blocks, blocks', p, h, c, d, b)
  <2> DEFINE bs == blocks
             cs == blocks'
             S == GoodBlocks(v)
  <2>1. HasHalves(v, d, h)
    BY <1>2, <1>10 DEF HasHalves
  <2>2. LaidFrom(v, bs, S, d, b)
    BY <1>3, <1>8, <1>10 DEF LaidFrom
  <2>3. cs = HalvesThenTail(bs, p, h, c, d, b)
    BY <1>6
  <2> HIDE DEF bs, cs, S
  <2>4. Laid(v, cs) /\ Halved(bs, cs, p, h, c, d, b) /\ 1 \in DOMAIN bs /\ bs[1] = Head(bs)
    BY ONLY <2>1, <2>2, <2>3, HalvesAreLaid
  <2> QED BY <2>4 DEF bs, cs
<1>12. switches' \in SwitchesFor(v) /\ Closed(v, switches, switches', d, b, h, p, c)
  BY <1>2, <1>3, <1>5, <1>7, <1>10, ClosingSets
<1>13. Split(v, d, b, h, p, c)
  BY <1>2, <1>5, <1>9, <1>10 DEF Split
<1>14. Closing(v, blocks, blocks', switches, switches', p, h, c, d, b)
  BY <1>3, <1>4, <1>10, <1>11, <1>12 DEF Closing
<1>15. ASSUME NEW j \in Wires(v) PROVE Brings(v, blocks', switches', perm[j], j)
  <2>1. Brings(v, blocks, switches, perm[j], j)
    BY <1>3
  <2> QED BY <2>1, <1>2, <1>13, <1>14, ClosingBrings
<1> QED BY <1>11, <1>12, <1>15 DEF Routes, v

LEMMA RoutesInvStep == ZincInv /\ RouterInv /\ RoutesInv /\ [Next]_vars => RoutesInv'
<1> SUFFICES ASSUME ZincInv, RouterInv, RoutesInv, [Next]_vars PROVE RoutesInv'
  OBVIOUS
<1>0. /\ trace \in Seq(TraceRecord)
      /\ stage \in {"route", "block", "scan", "walk"} => Linked /\ ToRoute
      /\ stage \in {"block", "scan", "walk"} => blocks \in Seq(GoodBlocks(numVars))
      /\ stage \in {"scan", "walk"} => /\ blocks # <<>> /\ Size > 2
                                       /\ color \in Colorings(BlockWires)
      /\ stage = "scan" => Balanced(color, MatesOfEntry, MatesOfExit, BlockWires)
      /\ stage \in {"block", "scan", "walk"} => Routes(numVars, blocks, switches, perm)
  BY DEF ZincInv, RouterInv, RoutesInv
<1> HIDE DEF Linked, ToRoute, Balanced, Routes
<1>a. ASSUME stage \in {"block", "scan", "walk"}, UNCHANGED <<numVars, blocks, switches, perm>>
      PROVE  RoutesInv'
  <2>1. Routes(numVars', blocks', switches', perm')
    BY <1>a, <1>0
  <2> QED BY <2>1 DEF RoutesInv, Routes
<1>b. ASSUME Routing, Routes(numVars, blocks', switches', perm) PROVE RoutesInv'
  <2>1. numVars' = numVars /\ perm' = perm
    BY <1>b, RoutingKeeps
  <2>2. Routes(numVars', blocks', switches', perm')
    BY <2>1, <1>b
  <2> QED BY <2>2 DEF RoutesInv, Routes
<1>c. ASSUME stage' \notin {"block", "scan", "walk"} PROVE RoutesInv'
  BY <1>c DEF RoutesInv
<1>1. CASE Routing /\ UNCHANGED <<free, trace, rows, net, layer, linked, answer, header>>
  <2>0. stage \in {"route", "block", "scan", "walk"}
    BY <1>1, RoutingKeeps
  <2>a. numVars \in Nat /\ numVars > 0 /\ perm \in Permutations(PowerOf2[numVars])
    BY <2>0, <1>0, LinkedType DEF ToRoute
  <2>1. CASE Route
    BY <2>1, <2>a, <1>1, <1>b, RouteRoutes
  <2>2. CASE NotAPermutation
    BY <2>2, <1>c DEF NotAPermutation
  <2>3. CASE MiddleBlock
    <3>1. stage = "block"
      BY <2>3 DEF MiddleBlock
    <3> QED BY <3>1, <2>3, <2>a, <1>0, <1>1, <1>b, MiddleRoutes
  <2>4. CASE OpenBlock
    BY <2>4, <1>a DEF OpenBlock
  <2>5. CASE StartWalk
    BY <2>5, <1>a DEF StartWalk
  <2>6. CASE Walk
    BY <2>6, <1>a DEF Walk
  <2>7. CASE CloseBlock
    <3>1. stage = "scan"
      BY <2>7 DEF CloseBlock, Colored
    <3> QED BY <3>1, <2>7, <2>a, <1>0, <1>1, <1>b, CloseRoutes
  <2> QED BY <1>1, <2>1, <2>2, <2>3, <2>4, <2>5, <2>6, <2>7 DEF Routing
<1>2. ASSUME UNCHANGED routeVars PROVE RoutesInv'
  <2>1. stage' = stage /\ UNCHANGED <<numVars, blocks, switches, perm>>
    BY <1>2 DEF routeVars
  <2> QED BY <2>1, <1>a, <1>c
<1>3. CASE Switch
  BY <1>2, <1>3 DEF Switch
<1>4. CASE Refuse \/ Build \/ Link \/ Built
  BY <1>c, <1>4 DEF Refuse, Build, Link, Built
<1>5. CASE FreeRow \/ FreeSwitch
  BY <1>2, <1>5 DEF FreeRow, FreeSwitch
<1>6. CASE FreeNetwork \/ FreeDone
  BY <1>c, <1>6 DEF FreeNetwork, FreeDone
<1>7. CASE Prove \/ ProverFails \/ FromBytes \/ Malformed \/ Verify
  BY <1>c, <1>7 DEF Prove, ProverFails, FromBytes, Malformed, Verify
<1>8. CASE UNCHANGED vars
  BY <1>2, <1>8 DEF vars
<1> QED BY <1>1, <1>3, <1>4, <1>5, <1>6, <1>7, <1>8 DEF Next

LEMMA RoutesAlways == Spec => [](ZincInv /\ RouterInv /\ RoutesInv)
<1>1. Init => RoutesInv
  BY DEF Init, RoutesInv
<1> QED BY <1>1, RoutesInvStep, RouterAlways, PTL DEF Spec

(***************************************************************************)
(* The network states that the switches make.                              *)
(***************************************************************************)
\* Before layer n every wire holds the row that its path brought there.
Carried(v, sw, n, a, b) ==
  \A at \in [0 .. 2 * v - 1 -> Wires(v)] :
    (\A l \in 0 .. n - 1 : at[l + 1] = Moves(v, sw, l, at[l])) => b[at[n]] = a[at[0]]

LEMMA AppliedMoves ==
  ASSUME NEW v \in Nat, v > 0, NEW sw \in SwitchesFor(v), NEW l \in Layers(v), NEW b,
         NEW i \in Wires(v)
  PROVE  ApplyLayer(b, v, l, sw[l])[Moves(v, sw, l, i)] = b[i]
<1> DEFINE j == Partner(v, l, i)
           w == SwitchAt(v, l, i)
<1>1. /\ j \in Wires(v) /\ Partner(v, l, j) = i /\ SwitchAt(v, l, j) = w
  BY Partners
<1>2. \A k \in Wires(v) :
        ApplyLayer(b, v, l, sw[l])[k]
          = IF sw[l][SwitchAt(v, l, k)] THEN b[Partner(v, l, k)] ELSE b[k]
  BY DEF ApplyLayer
<1>3. Moves(v, sw, l, i) = IF sw[l][w] THEN j ELSE i
  BY DEF Moves
<1> HIDE DEF j, w
<1>4. CASE sw[l][w]
  BY <1>1, <1>2, <1>3, <1>4
<1>5. CASE ~ sw[l][w]
  BY <1>1, <1>2, <1>3, <1>5 DEF w
<1> QED BY <1>4, <1>5

LEMMA LayerCarries ==
  ASSUME NEW v \in Nat, v > 0, NEW sw \in SwitchesFor(v), NEW n \in Layers(v), NEW a, NEW b,
         Carried(v, sw, n, a, b), NEW c, c = ApplyLayer(b, v, n, sw[n])
  PROVE  Carried(v, sw, n + 1, a, c)
<1> SUFFICES ASSUME NEW at \in [0 .. 2 * v - 1 -> Wires(v)],
                    \A l \in 0 .. (n + 1) - 1 : at[l + 1] = Moves(v, sw, l, at[l])
             PROVE  c[at[n + 1]] = a[at[0]]
  BY DEF Carried
<1>1. n \in 0 .. (n + 1) - 1 /\ \A l \in 0 .. n - 1 : l \in 0 .. (n + 1) - 1
      /\ n \in 0 .. 2 * v - 1
  BY DEF Layers, NumLayers
<1>2. b[at[n]] = a[at[0]]
  BY <1>1 DEF Carried
<1>3. at[n + 1] = Moves(v, sw, n, at[n]) /\ at[n] \in Wires(v)
  BY <1>1
<1> QED BY <1>2, <1>3, AppliedMoves

\* Routed switches are boolean and swap whole rows, as the constraints demand.
LEMMA LayerIsLinked ==
  ASSUME NEW v \in Nat, v > 0, NEW sw \in SwitchesFor(v), NEW l \in Layers(v),
         NEW b \in [Wires(v) -> Row], NEW c, c = ApplyLayer(b, v, l, sw[l]),
         NEW s, s = [i \in UpperWires(v, l) |-> Bit(sw[l][i])]
  PROVE  BooleanSwitches(s) /\ SwapConstraints(b, c, v, l, s)
<1>1. \A i \in UpperWires(v, l) : s[i] = IF sw[l][i] THEN 1 ELSE 0
  BY DEF Bit
<1>2. BooleanSwitches(s)
  <2>1. \A i \in DOMAIN s : s[i] = 0 \/ s[i] = 1
    BY <1>1
  <2>2. \A x : x = 0 \/ x = 1 => x * (x - 1) = 0
    OBVIOUS
  <2> QED BY <2>1, <2>2 DEF BooleanSwitches
<1>3. ASSUME NEW i \in UpperWires(v, l), NEW p \in Payload
      PROVE  LET j == Partner(v, l, i) IN
               /\ c[i][p] - b[i][p] - s[i] * (b[j][p] - b[i][p]) = 0
               /\ c[j][p] - b[j][p] + s[i] * (b[j][p] - b[i][p]) = 0
  <2> DEFINE j == Partner(v, l, i)
  <2>1. i \in Wires(v)
    BY DEF UpperWires
  <2>2. j \in Wires(v) /\ Partner(v, l, j) = i /\ SwitchAt(v, l, j) = i /\ SwitchAt(v, l, i) = i
    BY <2>1, Partners
  <2>3. /\ c[i] = IF sw[l][i] THEN b[j] ELSE b[i]
        /\ c[j] = IF sw[l][i] THEN b[i] ELSE b[j]
    BY <2>1, <2>2 DEF ApplyLayer
  <2>4. b[i][p] \in Nat /\ b[j][p] \in Nat
    <3>1. b[i] \in Row /\ b[j] \in Row
      BY <2>1, <2>2
    <3> QED BY <3>1, CellType
  <2> HIDE DEF j
  <2> DEFINE x == b[i][p]
             y == b[j][p]
             t == s[i]
  <2>a. \A m, n \in Nat : /\ m - m - 0 * (n - m) = 0 /\ n - n + 0 * (n - m) = 0
                          /\ n - m - 1 * (n - m) = 0 /\ m - n + 1 * (n - m) = 0
    OBVIOUS
  <2>5. CASE sw[l][i]
    <3>1. c[i][p] = y /\ c[j][p] = x /\ t = 1
      BY <2>3, <2>5, <1>1
    <3>2. x \in Nat /\ y \in Nat
      BY <2>4
    <3> HIDE DEF x, y, t
    <3>3. c[i][p] - x - t * (y - x) = 0 /\ c[j][p] - y + t * (y - x) = 0
      BY <3>1, <3>2, <2>a
    <3> QED BY <3>3 DEF x, y, t, j
  <2>6. CASE ~ sw[l][i]
    <3>1. c[i][p] = x /\ c[j][p] = y /\ t = 0
      BY <2>3, <2>6, <1>1
    <3>2. x \in Nat /\ y \in Nat
      BY <2>4
    <3> HIDE DEF x, y, t
    <3>3. c[i][p] - x - t * (y - x) = 0 /\ c[j][p] - y + t * (y - x) = 0
      BY <3>1, <3>2, <2>a
    <3> QED BY <3>3 DEF x, y, t, j
  <2> QED BY <2>5, <2>6
<1>4. SwapConstraints(b, c, v, l, s)
  BY <1>3 DEF SwapConstraints
<1> QED BY <1>2, <1>4

\* When no block is left, the last state has the rows in the order of the permutation.
LEMMA RoutedNetwork ==
  ASSUME NEW v \in Nat, v > 0, NEW bs, bs = <<>>, NEW sw, NEW p, Routes(v, bs, sw, p),
         NEW a, NEW b, Carried(v, sw, NumLayers(v), a, b), NEW j \in Wires(v)
  PROVE  b[j] = a[p[j]]
<1>1. PICK at : /\ IsPath(v, at, p[j], j)
                /\ \/ Crosses(v, bs, sw, at, v)
                   \/ \E n \in DOMAIN bs : /\ PassesThrough(v, bs[n], at)
                                           /\ Crosses(v, bs, sw, at, bs[n].depth)
  BY DEF Routes, Brings
<1>2. Crosses(v, bs, sw, at, v)
  BY <1>1
<1>3. \A l \in 0 .. NumLayers(v) - 1 : at[l + 1] = Moves(v, sw, l, at[l])
  <2>1. \A l \in Layers(v) : l \notin v .. 2 * v - 2 - v
    OBVIOUS
  <2> QED BY <2>1, <1>2 DEF Crosses, Follows, Layers
<1>4. at \in [0 .. 2 * v - 1 -> Wires(v)] /\ at[0] = p[j] /\ at[NumLayers(v)] = j
  BY <1>1 DEF IsPath, NumLayers
<1> QED BY <1>3, <1>4 DEF Carried

(***************************************************************************)
(* What the builder hands to the prover.                                   *)
(***************************************************************************)
RouterStages == {"link", "route", "block", "scan", "walk"}

\* The network states of the builder.
NetInv ==
  /\ stage = "build" => ~ free /\ layer = 0 /\ linked
  /\ stage \in {"free", "switch"} => free
  /\ stage \in RouterStages => ~ free /\ linked /\ layer \in 0 .. NumLayers(numVars)
  /\ stage \in RouterStages /\ ~ Routed => layer = 0 /\ net = rows
  /\ Routed => Carried(numVars, switches, layer, rows, net)
  /\ stage = "prove" /\ ~ free => Linked /\ linked /\ net = OriginalRows
  /\ stage = "ended" /\ ~ free => answer # "UnsortedTrace"

LEMMA NothingCarriedYet ==
  ASSUME NEW v, NEW sw, NEW a
  PROVE  Carried(v, sw, 0, a, a)
BY DEF Carried

LEMMA BuiltIsOriginal ==
  ASSUME numVars \in Nat, numVars > 0, Linked, ToRoute, net \in [Wires(numVars) -> Row],
         Routes(numVars, blocks, switches, perm),
         Carried(numVars, switches, layer, rows, net), Built
  PROVE  net = OriginalRows
<1>1. blocks = <<>> /\ layer = NumLayers(numVars)
  BY DEF Built, Routed
<1>2. \A j \in Wires(numVars) : net[j] = rows[perm[j]]
  BY <1>1, RoutedNetwork
<1>3. Wires(numVars) = AllWires /\ numVars = NumVarsFor(Len(trace))
  BY DEF Linked, AllWires
<1>4. \A j \in Wires(numVars) : net[j] = FromRecord(Padded(trace, numVars)[j])
  BY <1>2, <1>3 DEF ToRoute, Original
<1>5. net = [j \in Wires(numVars) |-> net[j]]
  OBVIOUS
<1> QED BY <1>4, <1>5, Zenon DEF OriginalRows

LEMMA SwitchCarries ==
  ASSUME numVars \in Nat, numVars > 0, layer \in Nat, linked, net \in [Wires(numVars) -> Row],
         Routes(numVars, blocks, switches, perm),
         Carried(numVars, switches, layer, rows, net), Switch
  PROVE  linked' /\ Carried(numVars, switches, layer', rows, net')
<1>1. /\ layer \in Layers(numVars) /\ layer' = layer + 1
      /\ net' = ApplyLayer(net, numVars, layer, switches[layer])
  BY DEF Switch, Layers, NumLayers
<1>2. switches \in SwitchesFor(numVars)
  BY DEF Routes
<1>3. Carried(numVars, switches, layer', rows, net')
  BY <1>1, <1>2, LayerCarries
<1> DEFINE s == [i \in UpperWires(numVars, layer) |-> Bit(switches[layer][i])]
           c == ApplyLayer(net, numVars, layer, switches[layer])
<1>4. linked' = (linked /\ BooleanSwitches(s) /\ SwapConstraints(net, c, numVars, layer, s))
  BY DEF Switch
<1>5. BooleanSwitches(s) /\ SwapConstraints(net, c, numVars, layer, s)
  <2>1. s = [i \in UpperWires(numVars, layer) |-> Bit(switches[layer][i])]
    OBVIOUS
  <2>2. c = ApplyLayer(net, numVars, layer, switches[layer])
    OBVIOUS
  <2> HIDE DEF s, c
  <2> QED BY <2>1, <2>2, <1>1, <1>2, LayerIsLinked
<1> QED BY <1>3, <1>4, <1>5

LEMMA OriginalRowsStay ==
  ASSUME trace' = trace, numVars' = numVars
  PROVE  OriginalRows' = OriginalRows
<1>1. \A i : Padded(trace, numVars)'[i] = Padded(trace, numVars)[i]
  BY DEF Padded, PaddingRecord, SortedTrace, LastTime
<1> QED BY <1>1 DEF OriginalRows

LEMMA NetInvStep == ZincInv /\ RouterInv /\ RoutesInv /\ NetInv /\ [Next]_vars => NetInv'
<1> SUFFICES ASSUME ZincInv, RouterInv, RoutesInv, NetInv, [Next]_vars PROVE NetInv'
  OBVIOUS
<1>0. /\ trace \in Seq(TraceRecord) /\ layer \in Nat
      /\ stage \in RouterStages => /\ Linked /\ numVars \in Nat /\ numVars > 0
                               /\ net \in [Wires(numVars) -> Row]
      /\ stage = "block" => ToRoute /\ Routes(numVars, blocks, switches, perm)
  BY DEF ZincInv, RouterInv, RoutesInv, RouterStages, Witness, WitnessStages
<1>n. /\ stage = "build" => ~ free /\ layer = 0 /\ linked
      /\ stage \in {"free", "switch"} => free
      /\ stage \in RouterStages => ~ free /\ linked /\ layer \in 0 .. NumLayers(numVars)
      /\ stage \in RouterStages /\ ~ Routed => layer = 0 /\ net = rows
      /\ Routed => Carried(numVars, switches, layer, rows, net)
      /\ stage = "prove" /\ ~ free => Linked /\ linked /\ net = OriginalRows
      /\ stage = "ended" /\ ~ free => answer # "UnsortedTrace"
  BY DEF NetInv
<1>r. Routed <=> stage = "block" /\ blocks = <<>>
  BY DEF Routed
<1>s. Routed' <=> stage' = "block" /\ blocks' = <<>>
  BY DEF Routed
<1> HIDE DEF Linked, ToRoute, Routes, OriginalRows, Routed
<1>a. ASSUME UNCHANGED <<routeVars, free, trace, rows, net, layer, linked, answer>> PROVE NetInv'
  <2>1. /\ stage' = stage /\ numVars' = numVars /\ blocks' = blocks /\ switches' = switches
        /\ free' = free /\ trace' = trace /\ rows' = rows /\ net' = net /\ layer' = layer
        /\ linked' = linked /\ answer' = answer
    BY <1>a DEF routeVars
  <2>2. Routed => Carried(numVars, switches, layer, rows, net)'
    <3>1. Routed => Carried(numVars', switches', layer', rows', net')
      BY <2>1, <1>n
    <3> QED BY <3>1 DEF Carried
  <2>3. stage = "prove" /\ ~ free => Linked' /\ OriginalRows' = OriginalRows
    BY <2>1, <1>n, LinkedStays, OriginalRowsStay
  <2>4. NumLayers(numVars)' = NumLayers(numVars)
    BY <2>1 DEF NumLayers
  <2> QED BY <2>1, <2>2, <2>3, <2>4, <1>n, <1>r, <1>s DEF NetInv
<1>b. ASSUME ~ free, linked, layer = 0, numVars' \in Nat, numVars' > 0,
             UNCHANGED <<free, layer, linked>>, net' = rows', stage' \in RouterStages
      PROVE  NetInv'
  <2>1. Carried(numVars, switches, layer, rows, net)'
    <3>1. Carried(numVars', switches', 0, rows', rows')
      BY NothingCarriedYet
    <3>2. Carried(numVars', switches', layer', rows', net')
      BY <3>1, <1>b
    <3> QED BY <3>2 DEF Carried
  <2>2. layer' \in 0 .. NumLayers(numVars)'
    <3>1. 0 \in 0 .. 2 * numVars' - 1
      <4>1. \A m \in Nat : m > 0 => 0 \in 0 .. 2 * m - 1
        OBVIOUS
      <4> QED BY <4>1, <1>b
    <3>2. layer' = 0
      BY <1>b
    <3> QED BY <3>1, <3>2 DEF NumLayers
  <2> QED BY <2>1, <2>2, <1>b DEF NetInv, RouterStages
<1>1. CASE Build
  <2>1. /\ stage = "build" /\ stage' = "link" /\ net' = rows'
        /\ UNCHANGED <<free, layer, linked>>
    BY <1>1 DEF Build
  <2>3. numVars' \in Nat /\ numVars' > 0
    <3>1. Witness'
      BY <1>1, <1>0, BuildMakesAWitness
    <3> QED BY <3>1 DEF Witness
  <2> QED BY <2>1, <2>3, <1>n, <1>b DEF RouterStages
<1>2. CASE Link
  <2>1. /\ stage = "link" /\ stage' = "route"
        /\ UNCHANGED <<numVars, free, rows, net, layer, linked>>
    BY <1>2 DEF Link
  <2> QED BY <2>1, <1>0, <1>n, <1>r, <1>b DEF RouterStages
<1>3. CASE Routing /\ UNCHANGED <<free, trace, rows, net, layer, linked, answer, header>>
  <2>1. /\ stage \in RouterStages /\ numVars' = numVars
        /\ stage' \in {"block", "scan", "walk", "panicked"}
    BY <1>3, RoutingKeeps DEF RouterStages
  <2>2. ~ Routed
    BY <1>3, <1>r DEF Routing, Route, NotAPermutation, MiddleBlock, OpenBlock, StartWalk, Walk,
                      CloseBlock, Colored
  <2>3. CASE stage' = "panicked"
    BY <2>3, <1>s DEF NetInv, RouterStages
  <2>4. CASE stage' # "panicked"
    BY <2>1, <2>2, <2>4, <1>0, <1>n, <1>3, <1>b DEF RouterStages
  <2> QED BY <2>3, <2>4
<1>4. CASE Switch
  <2>1. /\ Routed /\ stage = "block" /\ blocks = <<>> /\ layer < NumLayers(numVars)
        /\ layer' = layer + 1 /\ stage' = stage /\ blocks' = blocks /\ numVars' = numVars
        /\ switches' = switches /\ rows' = rows /\ free' = free
    BY <1>4, <1>r DEF Switch, routeVars
  <2>2. linked' /\ Carried(numVars, switches, layer', rows, net')
    BY <2>1, <1>0, <1>n, <1>4, SwitchCarries DEF RouterStages
  <2>3. Carried(numVars', switches', layer', rows', net')
    BY <2>1, <2>2
  <2>4. Carried(numVars, switches, layer, rows, net)'
    BY <2>3 DEF Carried
  <2>5. layer' \in 0 .. NumLayers(numVars)'
    BY <2>1, <1>0 DEF NumLayers, RouterStages
  <2> QED BY <2>1, <2>2, <2>4, <2>5, <1>n, <1>s DEF NetInv, RouterStages
<1>5. CASE Built
  <2>1. /\ Routed /\ stage = "block" /\ numVars' = numVars /\ net' = net /\ trace' = trace
        /\ rows' = rows /\ free' = free /\ linked' = linked
        /\ stage' = IF net = OriginalRows THEN "prove" ELSE "ended"
    BY <1>5, <1>r DEF Built
  <2>2. net = OriginalRows
    BY <2>1, <1>0, <1>n, <1>5, BuiltIsOriginal DEF RouterStages
  <2>3. stage' = "prove" /\ Linked' /\ OriginalRows' = OriginalRows
    <3>1. OriginalRows' = OriginalRows
      BY <2>1, OriginalRowsStay
    <3>2. Linked
      BY <2>1, <1>0 DEF RouterStages
    <3> QED BY <3>1, <3>2, <2>1, <2>2, LinkedStays
  <2> QED BY <2>1, <2>2, <2>3, <1>n, <1>s DEF NetInv, RouterStages
<1>6. CASE Refuse
  <2>1. stage' = "ended" /\ answer' = Refusal
    BY <1>6 DEF Refuse
  <2>2. Refusal # "UnsortedTrace"
    BY DEF Refusal, None
  <2> QED BY <2>1, <2>2, <1>s DEF NetInv, RouterStages
<1>7. CASE FreeRow \/ FreeSwitch
  <2>1. stage' = stage /\ stage \in {"free", "switch"} /\ free' = free
    BY <1>7 DEF FreeRow, FreeSwitch, routeVars
  <2> QED BY <2>1, <1>n, <1>s DEF NetInv, RouterStages
<1>8. CASE FreeNetwork \/ FreeDone
  <2>1. stage' \in {"switch", "prove"} /\ stage \in {"free", "switch"} /\ free' = free
    BY <1>8 DEF FreeNetwork, FreeDone
  <2> QED BY <2>1, <1>n, <1>s DEF NetInv, RouterStages
<1>9. CASE Prove \/ ProverFails \/ FromBytes \/ Malformed \/ Verify
  <2>1. stage' \in {"proved", "ended", "panicked", "received"}
        /\ (stage' = "ended" => answer' \in {"Prover", "MalformedProof", "Verified", "Verifier"})
    BY <1>9 DEF Prove, ProverFails, FromBytes, Malformed, Verify
  <2> QED BY <2>1, <1>s DEF NetInv, RouterStages
<1>10. CASE UNCHANGED vars
  BY <1>a, <1>10 DEF vars
<1> QED BY <1>1, <1>2, <1>3, <1>4, <1>5, <1>6, <1>7, <1>8, <1>9, <1>10 DEF Next

LEMMA NetAlways == Spec => [](ZincInv /\ RouterInv /\ RoutesInv /\ NetInv)
<1>1. Init => NetInv
  BY DEF Init, NetInv, RouterStages, Routed
<1> QED BY <1>1, NetInvStep, RoutesAlways, PTL DEF Spec

(***************************************************************************)
(* Limbs order as the numbers do.                                          *)
(***************************************************************************)
LEMMA DividingOn ==
  ASSUME NEW n \in Nat, NEW a \in Nat, a > 0, NEW b \in Nat, b > 0
  PROVE  (n \div a) \div b = n \div (b * a)
<1> DEFINE q == n \div a
           r == n % a
           t == q \div b
           s == q % b
<1>1. n = a * q + r /\ q \in Nat /\ r \in 0 .. a - 1
  BY Division
<1> HIDE DEF q, r
<1>2. q = b * t + s /\ t \in Nat /\ s \in 0 .. b - 1
  BY <1>1, Division
<1> HIDE DEF t, s
<1>3. b * a \in Nat /\ b * a > 0
  OBVIOUS
<1>4. s * a + r \in 0 .. b * a - 1
  <2>1. s * a \in Nat /\ r \in Nat /\ r <= a - 1
    BY <1>1, <1>2
  <2>2. (b - 1 - s) * a >= 0
    BY <1>2
  <2>3. (b - 1 - s) * a = b * a - a - s * a
    BY <1>2
  <2> QED BY <2>1, <2>2, <2>3, <1>3
<1>5. n = t * (b * a) + (s * a + r)
  <2>1. a * (b * t + s) = t * (b * a) + s * a
    BY <1>2
  <2>2. a * q = t * (b * a) + s * a
    BY <2>1, <1>2
  <2>3. t * (b * a) \in Nat /\ s * a \in Nat /\ r \in Nat
    BY <1>1, <1>2, <1>3
  <2> DEFINE x == t * (b * a)
             y == s * a
             z == a * q
  <2>4. z = x + y /\ n = z + r /\ x \in Nat /\ y \in Nat
    BY <2>2, <2>3, <1>1
  <2> HIDE DEF x, y, z
  <2>5. n = x + (y + r)
    BY <2>3, <2>4
  <2> QED BY <2>5 DEF x, y
<1> DEFINE m == b * a
           u == s * a + r
<1>6. m \in Nat /\ m > 0 /\ u \in 0 .. m - 1 /\ n = t * m + u
  BY <1>3, <1>4, <1>5
<1> HIDE DEF m, u
<1>7. (t * m + u) \div m = t
  BY <1>2, <1>6, Quotient
<1> QED BY <1>6, <1>7 DEF m, t, q

LEMMA DividingIsMonotone ==
  ASSUME NEW n \in Nat, NEW m \in Nat, n <= m, NEW b \in Nat, b > 0
  PROVE  n \div b <= m \div b
<1> DEFINE q == n \div b
           r == n % b
           t == m \div b
           s == m % b
<1>1. /\ n = b * q + r /\ q \in Nat /\ r \in 0 .. b - 1
      /\ m = b * t + s /\ t \in Nat /\ s \in 0 .. b - 1
  BY Division
<1> HIDE DEF q, r, t, s
<1>2. SUFFICES ASSUME q >= t + 1 PROVE FALSE
  BY <1>1 DEF q, t
<1>3. b * (q - t - 1) >= 0
  BY <1>1, <1>2
<1>4. b * (q - t - 1) = b * q - b * t - b
  BY <1>1
<1>5. b * q \in Nat /\ b * t \in Nat
  BY <1>1
<1> QED BY <1>1, <1>3, <1>4, <1>5

\* The first k of so many limbs.
Prefix(n, width, k) == n \div PowerOfBase[width - k]

LEMMA PrefixGrows ==
  ASSUME NEW n \in Nat, NEW width \in Nat, NEW k \in 0 .. width - 1
  PROVE  /\ Prefix(n, width, k + 1) \in Nat
         /\ Limb(n, width, k) = Prefix(n, width, k + 1) % LimbBase
         /\ Prefix(n, width, k + 1) = LimbBase * Prefix(n, width, k) + Limb(n, width, k)
<1> DEFINE e == width - 1 - k
           b == PowerOfBase[e]
<1>1. e \in Nat /\ width - (k + 1) = e /\ width - k = e + 1
  OBVIOUS
<1> HIDE DEF e
<1>2. b \in Nat /\ b > 0 /\ LimbBase \in Nat /\ LimbBase > 0
  BY <1>1, PowerOfBaseType, LayoutType
<1>3. PowerOfBase[e + 1] = LimbBase * b
  BY <1>1, PowersOfBase DEF PowersOf
<1> HIDE DEF b
<1>4. Prefix(n, width, k + 1) = n \div b /\ Prefix(n, width, k) = n \div (LimbBase * b)
  BY <1>1, <1>3 DEF Prefix, b
<1>5. Limb(n, width, k) = (n \div b) % LimbBase
  BY DEF Limb, b, e
<1>6. n \div b \in Nat
  BY <1>2, Division
<1>7. (n \div b) \div LimbBase = n \div (LimbBase * b)
  BY <1>2, DividingOn
<1> DEFINE x == n \div b
<1>8. x \in Nat /\ x \div LimbBase = Prefix(n, width, k) /\ Prefix(n, width, k + 1) = x
      /\ Limb(n, width, k) = x % LimbBase
  BY <1>4, <1>5, <1>6, <1>7
<1> HIDE DEF x
<1>9. x = LimbBase * (x \div LimbBase) + (x % LimbBase)
  BY <1>2, <1>8, Division
<1> QED BY <1>8, <1>9

LEMMA LimbsOrder ==
  ASSUME NEW width \in Nat, NEW n \in Words(width), NEW m \in Words(width), n < m
  PROVE  \E k \in 0 .. width - 1 :
           /\ Limb(n, width, k) < Limb(m, width, k)
           /\ \A l \in 0 .. k - 1 : Limb(n, width, l) = Limb(m, width, l)
<1> DEFINE T == {k \in 0 .. width : Prefix(n, width, k) # Prefix(m, width, k)}
<1>0. n \in Nat /\ m \in Nat /\ n < PowerOfBase[width] /\ m < PowerOfBase[width]
      /\ PowerOfBase[width] \in Nat /\ PowerOfBase[width] > 0
  BY PowerOfBaseType DEF Words
<1>1. Prefix(n, width, width) = n /\ Prefix(m, width, width) = m
  <2>1. width - width = 0 /\ PowerOfBase[0] = 1
    BY PowersOfBase DEF PowersOf
  <2>2. n \div 1 = n /\ m \div 1 = m
    BY <1>0
  <2> QED BY <2>1, <2>2 DEF Prefix
<1>2. width \in T
  BY <1>0, <1>1
<1>3. PICK j \in T : \A l \in T : j <= l
  <2>1. T \in SUBSET Nat
    OBVIOUS
  <2> QED BY <2>1, <1>2, Least
<1>4. j # 0
  <2>1. width - 0 = width
    OBVIOUS
  <2>2. \A x \in Nat : x < PowerOfBase[width] => x \div PowerOfBase[width] = 0
    <3>1. SUFFICES ASSUME NEW x \in Nat, x < PowerOfBase[width] PROVE x \div PowerOfBase[width] = 0
      OBVIOUS
    <3> DEFINE P == PowerOfBase[width]
    <3>2. P \in Nat /\ P > 0 /\ x \in 0 .. P - 1
      BY <1>0, <3>1
    <3> HIDE DEF P
    <3>3. 0 * P + x = x
      BY <3>2
    <3>4. (0 * P + x) \div P = 0
      BY <3>2, Quotient
    <3> QED BY <3>3, <3>4 DEF P
  <2>3. Prefix(n, width, 0) = 0 /\ Prefix(m, width, 0) = 0
    BY <2>1, <2>2, <1>0 DEF Prefix
  <2> QED BY <2>3
<1> DEFINE k == j - 1
<1>5. k \in 0 .. width - 1 /\ k + 1 = j /\ j \in 0 .. width
  BY <1>3, <1>4
<1>6. ASSUME NEW l \in 0 .. k PROVE Prefix(n, width, l) = Prefix(m, width, l)
  <2>1. l \in 0 .. width /\ ~ (j <= l)
    BY <1>5
  <2>2. l \notin T
    BY <2>1, <1>3
  <2> QED BY <2>1, <2>2
<1>7. Prefix(n, width, j) # Prefix(m, width, j)
  BY <1>3
<1> HIDE DEF k, T
<1>8. Prefix(n, width, j) <= Prefix(m, width, j)
  <2>1. width - j \in Nat
    BY <1>5
  <2>2. PowerOfBase[width - j] \in Nat /\ PowerOfBase[width - j] > 0
    BY <2>1, PowerOfBaseType
  <2> QED BY <2>2, <1>0, DividingIsMonotone DEF Prefix
<1>9. Limb(n, width, k) < Limb(m, width, k)
  <2>1. /\ Prefix(n, width, j) = LimbBase * Prefix(n, width, k) + Limb(n, width, k)
        /\ Prefix(m, width, j) = LimbBase * Prefix(m, width, k) + Limb(m, width, k)
        /\ Prefix(n, width, j) \in Nat /\ Prefix(m, width, j) \in Nat
    BY <1>0, <1>5, PrefixGrows
  <2>2. Prefix(n, width, k) = Prefix(m, width, k)
    BY <1>5, <1>6
  <2>3. Limb(n, width, k) \in Nat /\ Limb(m, width, k) \in Nat
    <3>1. Limb(n, width, k) \in Cells /\ Limb(m, width, k) \in Cells
      BY <1>0, <1>5, LimbType
    <3> QED BY <3>1, LayoutType DEF Cells
  <2> DEFINE x == Prefix(n, width, j)
             y == Prefix(m, width, j)
             c == LimbBase * Prefix(n, width, k)
             s == Limb(n, width, k)
             t == Limb(m, width, k)
  <2>4. /\ x = c + s /\ y = c + t /\ x \in Nat /\ y \in Nat /\ s \in Nat /\ t \in Nat
        /\ x <= y /\ x # y
    BY <2>1, <2>2, <2>3, <1>7, <1>8
  <2>5. c \in Int
    <3>1. Prefix(n, width, k) \in Nat
      <4>1. width - k \in Nat
        BY <1>5
      <4>2. PowerOfBase[width - k] \in Nat /\ PowerOfBase[width - k] > 0
        BY <4>1, PowerOfBaseType
      <4> QED BY <4>2, <1>0, Division DEF Prefix
    <3> QED BY <3>1, LayoutType
  <2> HIDE DEF x, y, c, s, t
  <2>6. s < t
    BY <2>4, <2>5
  <2> QED BY <2>6 DEF s, t
<1>10. ASSUME NEW l \in 0 .. k - 1 PROVE Limb(n, width, l) = Limb(m, width, l)
  <2>1. l \in 0 .. width - 1 /\ l + 1 \in 0 .. k
    BY <1>5
  <2>2. Prefix(n, width, l + 1) = Prefix(m, width, l + 1)
    BY <2>1, <1>6
  <2>3. /\ Limb(n, width, l) = Prefix(n, width, l + 1) % LimbBase
        /\ Limb(m, width, l) = Prefix(m, width, l + 1) % LimbBase
    BY <2>1, <1>0, PrefixGrows
  <2> QED BY <2>2, <2>3
<1> QED BY <1>5, <1>9, <1>10

\* Where the cells of a record are.
LEMMA CellsOfRecord ==
  ASSUME NEW r \in TraceRecord
  PROVE  /\ \A p \in 0 .. PlTime - 1 : FromRecord(r)[p] = Limb(r.address, AddrLimbs, p)
         /\ \A k \in 0 .. TimeLimbs - 1 : FromRecord(r)[PlTime + k] = Limb(r.time_log, TimeLimbs, k)
         /\ \A k \in 0 .. ValueLimbs - 1 : FromRecord(r)[PlValue + k] = Limb(r.value, ValueLimbs, k)
         /\ FromRecord(r)[PlInstr] = IF r.instruction = "Write" THEN 1 ELSE 0
<1>0. /\ PlTime \in Nat /\ PlDepth \in Nat /\ PlValue \in Nat /\ PlInstr \in Nat
      /\ PlDepth = PlTime + TimeLimbs /\ PlDepth < PlValue
      /\ PlInstr = PlValue + ValueLimbs /\ ValueLimbs \in Nat /\ ValueLimbs > 0
      /\ TimeLimbs = 2 /\ Payload = 0 .. PlInstr
  BY LayoutType, ZincAssumption DEF PlDepth, PlInstr, TimeLimbs
<1>1. ASSUME NEW p \in 0 .. PlTime - 1 PROVE FromRecord(r)[p] = Limb(r.address, AddrLimbs, p)
  <2>1. /\ p \in Payload /\ p < PlTime /\ p \notin PlTime .. PlDepth - 1
        /\ p \notin PlDepth .. PlValue - 1 /\ p \notin PlValue .. PlInstr - 1 /\ p # PlInstr
    BY <1>0
  <2> QED BY <2>1 DEF FromRecord
<1>2. ASSUME NEW k \in 0 .. TimeLimbs - 1
      PROVE  FromRecord(r)[PlTime + k] = Limb(r.time_log, TimeLimbs, k)
  <2>1. /\ PlTime + k \in Payload /\ ~ (PlTime + k < PlTime) /\ PlTime + k \in PlTime .. PlDepth - 1
        /\ PlTime + k \notin PlDepth .. PlValue - 1
        /\ PlTime + k \notin PlValue .. PlInstr - 1 /\ PlTime + k # PlInstr
        /\ (PlTime + k) - PlTime = k
    BY <1>0
  <2> QED BY <2>1 DEF FromRecord
<1>3. ASSUME NEW k \in 0 .. ValueLimbs - 1
      PROVE  FromRecord(r)[PlValue + k] = Limb(r.value, ValueLimbs, k)
  <2>1. /\ PlValue + k \in Payload /\ ~ (PlValue + k < PlTime)
        /\ PlValue + k \notin PlTime .. PlDepth - 1 /\ PlValue + k \notin PlDepth .. PlValue - 1
        /\ PlValue + k \in PlValue .. PlInstr - 1 /\ PlValue + k # PlInstr
        /\ (PlValue + k) - PlValue = k
    BY <1>0
  <2> QED BY <2>1 DEF FromRecord
<1>4. FromRecord(r)[PlInstr] = IF r.instruction = "Write" THEN 1 ELSE 0
  <2>1. /\ PlInstr \in Payload /\ ~ (PlInstr < PlTime)
        /\ PlInstr \notin PlTime .. PlDepth - 1 /\ PlInstr \notin PlDepth .. PlValue - 1
        /\ PlInstr \notin PlValue .. PlInstr - 1
    BY <1>0
  <2> QED BY <2>1 DEF FromRecord
<1> QED BY <1>1, <1>2, <1>3, <1>4

LEMMA SameWord ==
  ASSUME NEW width \in Nat, NEW n \in Words(width), NEW m \in Words(width),
         \A k \in 0 .. width - 1 : Limb(n, width, k) = Limb(m, width, k)
  PROVE  n = m
<1>1. n \in Nat /\ m \in Nat
  BY PowerOfBaseType DEF Words
<1>2. \A k \in 0 .. width - 1 : Limb(n, width, k) \in Nat
  <2>1. \A k \in 0 .. width - 1 : Limb(n, width, k) \in Cells
    BY <1>1, LimbType
  <2> QED BY <2>1, LayoutType DEF Cells
<1>3. ~ (n < m)
  <2>1. ASSUME n < m PROVE FALSE
    <3>1. PICK k \in 0 .. width - 1 : Limb(n, width, k) < Limb(m, width, k)
      BY <2>1, LimbsOrder
    <3> QED BY <3>1, <1>2
  <2> QED BY <2>1
<1>4. ~ (m < n)
  <2>1. ASSUME m < n PROVE FALSE
    <3>1. PICK k \in 0 .. width - 1 : Limb(m, width, k) < Limb(n, width, k)
      BY <2>1, LimbsOrder
    <3> QED BY <3>1, <1>2
  <2> QED BY <2>1
<1> QED BY <1>1, <1>3, <1>4

\* A row has the address and the value of its record.
LEMMA RowsOfRecords ==
  ASSUME NEW r \in TraceRecord, NEW q \in TraceRecord
  PROVE  /\ SameAddress(FromRecord(r), FromRecord(q)) <=> r.address = q.address
         /\ SameValue(FromRecord(r), FromRecord(q)) <=> r.value = q.value
<1>1. /\ AddrLimbs \in Nat /\ ValueLimbs \in Nat /\ PlTime = AddrLimbs
      /\ PlValue \in Nat /\ PlInstr = PlValue + ValueLimbs
  BY LayoutType, ZincAssumption DEF PlTime, PlInstr
<1>2. /\ r.address \in Words(AddrLimbs) /\ q.address \in Words(AddrLimbs)
      /\ r.value \in Words(ValueLimbs) /\ q.value \in Words(ValueLimbs)
  BY DEF TraceRecord
<1>3. SameAddress(FromRecord(r), FromRecord(q))
        <=> \A p \in 0 .. AddrLimbs - 1 : Limb(r.address, AddrLimbs, p) = Limb(q.address, AddrLimbs, p)
  BY <1>1, CellsOfRecord DEF SameAddress, SamePart
<1>4. SameValue(FromRecord(r), FromRecord(q))
        <=> \A k \in 0 .. ValueLimbs - 1 : Limb(r.value, ValueLimbs, k) = Limb(q.value, ValueLimbs, k)
  <2>1. ASSUME SameValue(FromRecord(r), FromRecord(q)), NEW k \in 0 .. ValueLimbs - 1
        PROVE  Limb(r.value, ValueLimbs, k) = Limb(q.value, ValueLimbs, k)
    <3>1. PlValue + k \in PlValue .. PlInstr - 1
      BY <1>1
    <3>2. FromRecord(r)[PlValue + k] = FromRecord(q)[PlValue + k]
      BY <2>1, <3>1 DEF SameValue, SamePart
    <3> QED BY <3>2, CellsOfRecord
  <2>2. ASSUME \A k \in 0 .. ValueLimbs - 1 :
                 Limb(r.value, ValueLimbs, k) = Limb(q.value, ValueLimbs, k),
               NEW p \in PlValue .. PlInstr - 1
        PROVE  FromRecord(r)[p] = FromRecord(q)[p]
    <3> DEFINE k == p - PlValue
    <3>1. k \in 0 .. ValueLimbs - 1 /\ p = PlValue + k
      BY <1>1
    <3> HIDE DEF k
    <3>2. /\ FromRecord(r)[PlValue + k] = Limb(r.value, ValueLimbs, k)
          /\ FromRecord(q)[PlValue + k] = Limb(q.value, ValueLimbs, k)
      BY <3>1, CellsOfRecord
    <3> QED BY <3>1, <3>2, <2>2
  <2> QED BY <2>1, <2>2 DEF SameValue, SamePart
<1> QED BY <1>1, <1>2, <1>3, <1>4, SameWord

\* The first limb in which the rows of two records differ, and whether it is past the address.
LEMMA BeforeIsLess ==
  ASSUME NEW r \in TraceRecord, NEW q \in TraceRecord, Before(r, q)
  PROVE  \E k \in LexLimbs : /\ LessAt(FromRecord(r), FromRecord(q), k)
                             /\ k >= AddrLimbs <=> r.address = q.address
<1> DEFINE a == FromRecord(r)
           b == FromRecord(q)
<1>1. /\ AddrLimbs \in Nat /\ PlTime = AddrLimbs /\ TimeLimbs = 2 /\ LexLimbs = 0 .. AddrLimbs + 1
  BY LayoutType, ZincAssumption DEF PlTime, TimeLimbs
<1>2. /\ r.address \in Words(AddrLimbs) /\ q.address \in Words(AddrLimbs)
      /\ r.time_log \in Words(TimeLimbs) /\ q.time_log \in Words(TimeLimbs)
      /\ r.address \in Nat /\ q.address \in Nat
  BY RecordType DEF TraceRecord
<1>3. /\ \A p \in 0 .. AddrLimbs - 1 : /\ a[p] = Limb(r.address, AddrLimbs, p)
                                       /\ b[p] = Limb(q.address, AddrLimbs, p)
      /\ \A k \in 0 .. 1 : /\ a[AddrLimbs + k] = Limb(r.time_log, TimeLimbs, k)
                           /\ b[AddrLimbs + k] = Limb(q.time_log, TimeLimbs, k)
  BY <1>1, CellsOfRecord
<1> HIDE DEF a, b
<1>4. CASE r.address < q.address
  <2>1. PICK k \in 0 .. AddrLimbs - 1 :
          /\ Limb(r.address, AddrLimbs, k) < Limb(q.address, AddrLimbs, k)
          /\ \A l \in 0 .. k - 1 : Limb(r.address, AddrLimbs, l) = Limb(q.address, AddrLimbs, l)
    BY <1>1, <1>2, <1>4, LimbsOrder
  <2>2. k \in LexLimbs /\ ~ (k >= AddrLimbs) /\ r.address # q.address
    BY <1>1, <1>2, <1>4
  <2>3. \A l \in LexLimbs : l < k => l \in 0 .. k - 1 /\ l \in 0 .. AddrLimbs - 1
    BY <1>1
  <2>4. LessAt(a, b, k)
    BY <2>1, <2>2, <2>3, <1>3 DEF LessAt
  <2> QED BY <2>2, <2>4 DEF a, b
<1>5. CASE r.address = q.address /\ r.time_log < q.time_log
  <2>1. PICK k \in 0 .. TimeLimbs - 1 :
          /\ Limb(r.time_log, TimeLimbs, k) < Limb(q.time_log, TimeLimbs, k)
          /\ \A l \in 0 .. k - 1 : Limb(r.time_log, TimeLimbs, l) = Limb(q.time_log, TimeLimbs, l)
    <3>1. TimeLimbs \in Nat
      BY <1>1
    <3> QED BY <3>1, <1>2, <1>5, LimbsOrder
  <2>2. /\ k \in 0 .. 1 /\ AddrLimbs + k \in LexLimbs /\ AddrLimbs + k >= AddrLimbs
    BY <1>1
  <2>3. a[AddrLimbs + k] < b[AddrLimbs + k]
    BY <2>1, <2>2, <1>3
  <2>4. ASSUME NEW l \in LexLimbs, l < AddrLimbs + k PROVE a[l] = b[l]
    <3>1. CASE l < AddrLimbs
      <4>1. l \in 0 .. AddrLimbs - 1
        BY <3>1, <1>1
      <4> QED BY <4>1, <1>3, <1>5
    <3>2. CASE ~ (l < AddrLimbs)
      <4> DEFINE m == l - AddrLimbs
      <4>1. m \in 0 .. k - 1 /\ m \in 0 .. 1 /\ l = AddrLimbs + m
        BY <3>2, <2>2, <2>4, <1>1
      <4> HIDE DEF m
      <4>2. /\ a[AddrLimbs + m] = Limb(r.time_log, TimeLimbs, m)
            /\ b[AddrLimbs + m] = Limb(q.time_log, TimeLimbs, m)
            /\ Limb(r.time_log, TimeLimbs, m) = Limb(q.time_log, TimeLimbs, m)
        BY <4>1, <2>1, <1>3
      <4> QED BY <4>1, <4>2
    <3> QED BY <3>1, <3>2
  <2>5. LessAt(a, b, AddrLimbs + k)
    BY <2>2, <2>3, <2>4 DEF LessAt
  <2> QED BY <2>2, <2>5, <1>5 DEF a, b
<1> QED BY <1>4, <1>5 DEF Before

(***************************************************************************)
(* The rows of the builder satisfy the constraints.                        *)
(***************************************************************************)
LEMMA SortedConstraintsHold ==
  ASSUME NEW cur \in Row, NEW next \in Row, NEW k \in LexLimbs, LessAt(cur, next, k),
         next[PlInstr] \in {0, 1},
         k >= AddrLimbs => next[PlInstr] = 1 \/ SameValue(cur, next),
         ~ (k >= AddrLimbs) => next[PlInstr] = 1
  PROVE  SortedConstraints(cur, next, k)
<1> DEFINE d == [j \in LexLimbs |-> next[j] - cur[j]]
           same == IF k >= AddrLimbs THEN 1 ELSE 0
           w == same * (next[PlInstr] - 1)
<1>1. \A p \in Payload : /\ next[p] \in Nat /\ cur[p] \in Nat /\ next[p] < LimbBase
  BY CellType
<1>2. LexLimbs \subseteq Payload /\ PlValue .. PlInstr - 1 \subseteq Payload /\ LimbBase \in Nat
  BY LayoutType
<1>3. next[PlInstr] * (next[PlInstr] - 1) = 0
  BY DEF Payload
<1>4. \A j \in LexLimbs : j < k => d[j] = 0
  <2>1. ASSUME NEW j \in LexLimbs, j < k PROVE next[j] - cur[j] = 0
    <3>1. cur[j] = next[j] /\ cur[j] \in Nat
      BY <2>1, <1>1, <1>2 DEF LessAt
    <3> QED BY <3>1
  <2> QED BY <2>1
<1>5. d[k] - 1 \in Cells
  <2>1. cur[k] < next[k] /\ cur[k] \in Nat /\ next[k] \in Nat /\ next[k] < LimbBase
    BY <1>1, <1>2 DEF LessAt
  <2>2. d[k] = next[k] - cur[k]
    OBVIOUS
  <2> QED BY <2>1, <2>2, <1>2 DEF Cells
<1>6. ASSUME NEW p \in PlValue .. PlInstr - 1 PROVE w * (next[p] - cur[p]) = 0
  <2>1. next[p] \in Nat /\ cur[p] \in Nat
    BY <1>1, <1>2
  <2> DEFINE x == next[p] - cur[p]
  <2>2. x \in Int
    BY <2>1
  <2>3. w = 0 \/ w = -1
    OBVIOUS
  <2>4. w = 0 \/ x = 0
    <3>1. CASE k >= AddrLimbs /\ next[PlInstr] # 1
      <4>1. cur[p] = next[p]
        BY <3>1 DEF SameValue, SamePart
      <4> QED BY <4>1, <2>1
    <3>2. CASE next[PlInstr] = 1
      BY <3>2
    <3> QED BY <3>1, <3>2
  <2> HIDE DEF w, x
  <2>5. w * x = 0
    BY <2>2, <2>3, <2>4
  <2> QED BY <2>5 DEF x
<1>7. (1 - same) * (next[PlInstr] - 1) = 0
  <2>1. CASE k >= AddrLimbs
    BY <2>1
  <2>2. CASE ~ (k >= AddrLimbs)
    BY <2>2
  <2> QED BY <2>1, <2>2
<1> HIDE DEF d, same, w
<1> QED BY <1>3, <1>4, <1>5, <1>6, <1>7 DEF SortedConstraints, d, same, w

LEMMA OriginalConstraintsHold ==
  ASSUME NEW cur \in Row, NEW next \in Row, TimeOf(cur) < TimeOf(next)
  PROVE  \E hi \in {0, 1} : OriginalConstraints(cur, next, hi)
<1> DEFINE a == cur[PlTime]
           b == cur[PlTime + 1]
           c == next[PlTime]
           d == next[PlTime + 1]
           B == LimbBase
<1>1. PlTime \in Payload /\ PlTime + 1 \in Payload /\ B \in Nat /\ B > 1
  BY LayoutType
<1>2. /\ a \in Nat /\ b \in Nat /\ c \in Nat /\ d \in Nat
      /\ a < B /\ b < B /\ c < B /\ d < B
  BY <1>1, CellType
<1>3. B * a + b < B * c + d
  BY DEF TimeOf
<1>4. \A hi : OriginalConstraints(cur, next, hi)
                <=> /\ (1 - hi) * (c - a) = 0
                    /\ hi * (c - a) + (1 - hi) * (d - b) - 1 \in Cells
  BY DEF OriginalConstraints
<1> HIDE DEF a, b, c, d, B
<1>5. a <= c
  <2>1. SUFFICES ASSUME a >= c + 1 PROVE FALSE
    BY <1>2
  <2>2. B * (a - c - 1) >= 0
    BY <1>1, <1>2, <2>1
  <2>3. B * (a - c - 1) = B * a - B * c - B
    BY <1>1, <1>2
  <2>4. B * a \in Int /\ B * c \in Int
    BY <1>1, <1>2
  <2> QED BY <2>2, <2>3, <2>4, <1>1, <1>2, <1>3
<1>6. CASE a = c
  <2>1. b < d
    <3>1. B * a \in Int /\ B * a = B * c
      BY <1>1, <1>2, <1>6
    <3> QED BY <3>1, <1>2, <1>3
  <2>2. (1 - 0) * (c - a) = 0 /\ 0 * (c - a) + (1 - 0) * (d - b) - 1 = d - b - 1
    BY <1>2, <1>6
  <2>3. d - b - 1 \in Cells
    BY <2>1, <1>1, <1>2 DEF Cells, B
  <2>4. OriginalConstraints(cur, next, 0)
    BY <2>2, <2>3, <1>4
  <2> QED BY <2>4
<1>7. CASE a # c
  <2>1. (1 - 1) * (c - a) = 0 /\ 1 * (c - a) + (1 - 1) * (d - b) - 1 = c - a - 1
    BY <1>2
  <2>2. c - a - 1 \in Cells
    BY <1>1, <1>2, <1>5, <1>7 DEF Cells, B
  <2>3. OriginalConstraints(cur, next, 1)
    BY <2>1, <2>2, <1>4
  <2> QED BY <2>3
<1> QED BY <1>6, <1>7

LEMMA FirstOriginalHolds ==
  ASSUME NEW row \in Row, TimeOf(row) = 0
  PROVE  FirstOriginal(row)
<1> DEFINE a == row[PlTime]
           b == row[PlTime + 1]
<1>1. PlTime \in Payload /\ PlTime + 1 \in Payload /\ LimbBase \in Nat /\ LimbBase > 1
  BY LayoutType
<1>2. a \in Nat /\ b \in Nat /\ LimbBase * a + b = 0
  BY <1>1, CellType DEF TimeOf
<1> HIDE DEF a, b
<1>3. LimbBase * a \in Nat
  BY <1>1, <1>2
<1>4. b = 0 /\ LimbBase * a = 0
  BY <1>2, <1>3
<1>5. a = 0
  BY <1>1, <1>2, <1>4
<1> QED BY <1>4, <1>5 DEF FirstOriginal, a, b

\* Every shift that a constraint reads is declared.
LEMMA ShiftsAreDeclared ==
  ASSUME NEW v \in Nat, v > 1
  PROVE  UsedShifts(v) \subseteq DeclaredShifts(v)
<1> DEFINE N == NumLayers(v)
<1>n. NumLayers(v) = N
  OBVIOUS
<1>0. /\ PlTime \in Nat /\ PlDepth = PlTime + 2 /\ PlDepth < PlValue /\ PlValue < PlInstr
      /\ PlDepth \in Nat /\ PlValue \in Nat /\ PlInstr \in Nat
      /\ LexLimbs = 0 .. PlTime + 1 /\ Payload = 0 .. PlInstr
  BY LayoutType
<1>1. N \in Nat /\ N > 1 /\ Layers(v) = 0 .. N - 1
  BY DEF NumLayers, Layers
<1> DEFINE first == {<<0, p, Stride(v, 0)>> : p \in Payload}
           firstNext == {<<0, p, 1>> : p \in Payload \ (PlDepth .. PlValue - 1)}
           inner == UNION {{<<g, p, Stride(v, l)>> : p \in Payload, l \in {g - 1, g}}
                             : g \in 1 .. N - 1}
           last == {<<N, p, Stride(v, N - 1)>> : p \in Payload}
           lastNext == {<<N, p, 1>> : p \in PlTime .. PlTime + 1}
<1>d. first \cup firstNext \cup inner \cup last \cup lastNext \subseteq DeclaredShifts(v)
  <2> HIDE DEF N
  <2>1. ASSUME NEW x \in first \cup firstNext PROVE x \in DeclaredShifts(v)
    BY DEF DeclaredShifts
  <2>2. ASSUME NEW x \in inner PROVE x \in DeclaredShifts(v)
    BY <1>n DEF DeclaredShifts
  <2>3. ASSUME NEW x \in last PROVE x \in DeclaredShifts(v)
    BY <1>n DEF DeclaredShifts
  <2>4. ASSUME NEW x \in lastNext PROVE x \in DeclaredShifts(v)
    BY <1>n DEF DeclaredShifts
  <2> QED BY <2>1, <2>2, <2>3, <2>4
<1>u. \A u \in UsedShifts(v) :
        \/ \E p \in LexLimbs \cup (PlValue .. PlInstr - 1) \cup {PlInstr} : u = <<0, p, 1>>
        \/ \E p \in {PlTime, PlTime + 1} : u = <<N, p, 1>>
        \/ \E l \in Layers(v) : \E g \in {l, l + 1} : \E p \in Payload : u = <<g, p, Stride(v, l)>>
  BY DEF UsedShifts
<1> HIDE DEF N
<1>2. ASSUME NEW p \in LexLimbs \cup (PlValue .. PlInstr - 1) \cup {PlInstr}
      PROVE  <<0, p, 1>> \in DeclaredShifts(v)
  <2>1. p \in Payload \ (PlDepth .. PlValue - 1)
    BY <1>0
  <2> QED BY <2>1, <1>d
<1>3. ASSUME NEW p \in {PlTime, PlTime + 1} PROVE <<N, p, 1>> \in DeclaredShifts(v)
  <2>1. p \in PlTime .. PlTime + 1
    BY <1>0
  <2> QED BY <2>1, <1>d
<1>4. ASSUME NEW l \in Layers(v), NEW g \in {l, l + 1}, NEW p \in Payload
      PROVE  <<g, p, Stride(v, l)>> \in DeclaredShifts(v)
  <2>1. CASE g = 0
    <3>1. l = 0
      BY <2>1, <1>1
    <3>2. <<0, p, Stride(v, 0)>> \in first
      OBVIOUS
    <3> QED BY <2>1, <3>1, <3>2, <1>d
  <2>2. CASE g = N
    <3>1. l = N - 1
      BY <2>2, <1>1
    <3>2. <<N, p, Stride(v, N - 1)>> \in last
      OBVIOUS
    <3> QED BY <2>2, <3>1, <3>2, <1>d
  <2>3. CASE g # 0 /\ g # N
    <3>1. g \in 1 .. N - 1 /\ l \in {g - 1, g}
      BY <2>3, <1>1
    <3>2. <<g, p, Stride(v, l)>> \in inner
      BY <3>1
    <3> QED BY <3>2, <1>d
  <2> QED BY <2>1, <2>2, <2>3
<1> QED BY <1>2, <1>3, <1>4, <1>u

(***************************************************************************)
(* The trace of a memory, in the order of addresses.                       *)
(***************************************************************************)
\* A read of r finds what the last write to its address wrote.
ReadsWrite(S, q, r) ==
  /\ q.instruction = "Write" /\ q.time_log < r.time_log
  /\ q.address = r.address /\ q.value = r.value
  /\ \A x \in S : q.time_log < x.time_log /\ x.time_log < r.time_log /\ x.instruction = "Write"
                    => x.address # r.address

OfMemory(S) == \A r \in S : r.instruction # "Write" => \E q \in S : ReadsWrite(S, q, r)

LEMMA NeighboursAgree ==
  ASSUME NEW S \in SUBSET TraceRecord, \A r, q \in S : r.time_log = q.time_log => r = q,
         OfMemory(S), NEW cur \in S, NEW next \in S, Before(cur, next),
         \A x \in S : ~ (Before(cur, x) /\ Before(x, next)), next.instruction # "Write"
  PROVE  cur.address = next.address /\ cur.value = next.value
<1>1. \A r \in S : r.time_log \in Nat /\ r.address \in Nat
  BY RecordType
<1>2. PICK q \in S : ReadsWrite(S, q, next)
  BY DEF OfMemory
<1>3. Before(q, next)
  BY <1>2 DEF ReadsWrite, Before
<1>4. ~ Before(cur, q)
  BY <1>3
<1>5. q = cur \/ Before(q, cur)
  <2>1. CASE q.time_log = cur.time_log
    BY <2>1
  <2>2. CASE q.time_log # cur.time_log
    BY <2>2, <1>1, <1>4 DEF Before
  <2> QED BY <2>1, <2>2
<1>6. CASE q = cur
  BY <1>6, <1>2 DEF ReadsWrite
<1>7. CASE Before(q, cur)
  <2>1. q.address = next.address
    BY <1>2 DEF ReadsWrite
  <2>2. /\ cur.address = next.address /\ q.time_log < cur.time_log
        /\ cur.time_log < next.time_log
    BY <2>1, <1>1, <1>7 DEF Before
  <2>3. cur.instruction # "Write"
    BY <2>2, <1>2 DEF ReadsWrite
  <2>4. PICK w \in S : ReadsWrite(S, w, cur)
    BY <2>3 DEF OfMemory
  <2>5. ~ (w.time_log < q.time_log)
    BY <2>1, <2>2, <2>4, <1>2 DEF ReadsWrite
  <2>6. ~ (q.time_log < w.time_log)
    <3>1. w.time_log < next.time_log
      <4>1. w.time_log < cur.time_log
        BY <2>4 DEF ReadsWrite
      <4> QED BY <4>1, <2>2, <1>1
    <3>2. w.instruction = "Write" /\ w.address = next.address
      BY <2>2, <2>4 DEF ReadsWrite
    <3> QED BY <3>1, <3>2, <1>2 DEF ReadsWrite
  <2>7. w.time_log = q.time_log
    BY <2>5, <2>6, <1>1
  <2>8. w = q
    BY <2>7
  <2> QED BY <2>2, <2>4, <2>8, <1>2 DEF ReadsWrite
<1> QED BY <1>5, <1>6, <1>7

LEMMA LeastIsAWrite ==
  ASSUME NEW S, OfMemory(S), NEW r \in S, \A x \in S : ~ Before(x, r)
  PROVE  r.instruction = "Write"
<1> SUFFICES ASSUME r.instruction # "Write" PROVE FALSE
  OBVIOUS
<1>1. PICK q \in S : ReadsWrite(S, q, r)
  BY DEF OfMemory
<1> QED BY <1>1 DEF ReadsWrite, Before

\* What a provable trace is, in terms of its records.
LEMMA ProvableTrace ==
  ASSUME trace \in Seq(TraceRecord), Provable
  PROVE  /\ trace # <<>> /\ trace[1].time_log = 0 /\ TimesOfTraceIncrease
         /\ OfMemory(Range(trace))
<1> DEFINE n == Len(trace)
           seq == [i \in 0 .. n - 1 |-> FromRecord(trace[i + 1])]
<1>1. n \in Nat /\ n > 0 /\ DOMAIN trace = 1 .. n /\ \A i \in 1 .. n : trace[i] \in TraceRecord
  BY DEF Provable
<1>2. ValidTrace(seq)
  BY DEF Provable
<1>3. /\ DOMAIN seq = 0 .. n - 1
      /\ \A i \in 1 .. n : i - 1 \in 0 .. n - 1 /\ seq[i - 1] = FromRecord(trace[i])
  <2>1. \A i \in 1 .. n : i - 1 \in 0 .. n - 1 /\ (i - 1) + 1 = i
    BY <1>1
  <2> HIDE DEF n
  <2> QED BY <2>1
<1> HIDE DEF seq, n
<1>4. \A i \in 1 .. n : TimeOf(seq[i - 1]) = trace[i].time_log /\ trace[i].time_log \in Nat
  BY <1>1, <1>3, TimeOfRecord, RecordType
<1>5. \A i, j \in 1 .. n : i < j => trace[i].time_log < trace[j].time_log
  <2>1. ASSUME NEW i \in 1 .. n, NEW j \in 1 .. n, i < j
        PROVE  trace[i].time_log < trace[j].time_log
    <3>1. i - 1 < j - 1 /\ i - 1 \in DOMAIN seq /\ j - 1 \in DOMAIN seq
      BY <2>1, <1>1, <1>3
    <3>2. TimeOf(seq[i - 1]) < TimeOf(seq[j - 1])
      BY <3>1, <1>2 DEF ValidTrace
    <3> QED BY <3>2, <1>4
  <2> QED BY <2>1
<1>6. trace[1].time_log = 0
  <2>1. 1 \in 1 .. n /\ 1 - 1 = 0
    BY <1>1
  <2>2. TimeOf(seq[0]) = trace[1].time_log
    BY <2>1, <1>4
  <2> QED BY <2>2, <1>2 DEF ValidTrace
<1>7. \A i \in 1 .. n : seq[i - 1][PlInstr] = IF trace[i].instruction = "Write" THEN 1 ELSE 0
  BY <1>1, <1>3, CellsOfRecord
<1>8. \A i, j \in 1 .. n : /\ SameAddress(seq[i - 1], seq[j - 1]) <=> trace[i].address = trace[j].address
                           /\ SameValue(seq[i - 1], seq[j - 1]) <=> trace[i].value = trace[j].value
  BY <1>1, <1>3, RowsOfRecords
<1>9. Range(trace) = {trace[i] : i \in 1 .. n}
  BY <1>1 DEF Range
<1>10. ASSUME NEW i \in 1 .. n, trace[i].instruction # "Write"
       PROVE  \E q \in Range(trace) : ReadsWrite(Range(trace), q, trace[i])
  <2>1. seq[i - 1][PlInstr] = 0 /\ i - 1 \in DOMAIN seq
    BY <1>3, <1>7, <1>10
  <2>2. PICK w \in DOMAIN seq :
          /\ w < i - 1 /\ seq[w][PlInstr] = 1
          /\ SameAddress(seq[w], seq[i - 1]) /\ SameValue(seq[w], seq[i - 1])
          /\ \A k \in DOMAIN seq :
               w < k /\ k < i - 1 /\ seq[k][PlInstr] = 1 => ~ SameAddress(seq[k], seq[i - 1])
    BY <2>1, <1>2 DEF ValidTrace, ConsistentReads
  <2> DEFINE m == w + 1
  <2>3. m \in 1 .. n /\ w = m - 1 /\ m < i
    <3>1. w \in 0 .. n - 1 /\ w < i - 1 /\ n \in Nat /\ i \in 1 .. n
      BY <2>2, <1>1, <1>3
    <3> QED BY ONLY <3>1
  <2> HIDE DEF m
  <2>4. /\ trace[m].instruction = "Write" /\ trace[m].time_log < trace[i].time_log
        /\ trace[m].address = trace[i].address /\ trace[m].value = trace[i].value
    <3>1. seq[m - 1][PlInstr] = 1 /\ SameAddress(seq[m - 1], seq[i - 1])
          /\ SameValue(seq[m - 1], seq[i - 1])
      BY <2>2, <2>3
    <3>2. trace[m].instruction = "Write"
      BY <3>1, <2>3, <1>7
    <3> QED BY <3>1, <3>2, <2>3, <1>5, <1>8
  <2>5. ASSUME NEW k \in 1 .. n, trace[m].time_log < trace[k].time_log,
               trace[k].time_log < trace[i].time_log, trace[k].instruction = "Write"
        PROVE  trace[k].address # trace[i].address
    <3>1. m < k /\ k < i
      <4>1. ~ (k < m) /\ ~ (i < k) /\ k # m /\ k # i
        BY <2>3, <2>5, <1>4, <1>5
      <4> QED BY <4>1, <2>3
    <3>2. k - 1 \in DOMAIN seq /\ w < k - 1 /\ k - 1 < i - 1 /\ seq[k - 1][PlInstr] = 1
      BY <3>1, <2>3, <2>5, <1>1, <1>3, <1>7
    <3>3. ~ SameAddress(seq[k - 1], seq[i - 1])
      BY <3>2, <2>2
    <3> QED BY <3>3, <1>8
  <2>6. ReadsWrite(Range(trace), trace[m], trace[i])
    BY <2>4, <2>5, <1>9 DEF ReadsWrite
  <2> QED BY <2>3, <2>6, <1>9
<1>11. OfMemory(Range(trace))
  BY <1>9, <1>10 DEF OfMemory
<1>12. TimesOfTraceIncrease
  BY <1>5 DEF TimesOfTraceIncrease, n
<1>13. trace # <<>>
  BY <1>1 DEF n
<1> QED BY <1>6, <1>11, <1>12, <1>13

\* Two rows of the sorted orderings, one behind the other.
Follow(r, q) ==
  /\ Before(r, q)
  /\ q.instruction = "Write" \/ (r.address = q.address /\ r.value = q.value)

LEMMA SortedRecordsFollow ==
  ASSUME trace \in Seq(TraceRecord), TimesOfTraceIncrease, OfMemory(Range(trace)),
         NEW i \in 1 .. Len(trace), NEW j \in 1 .. Len(trace), j = i + 1
  PROVE  Follow(SortedTrace[i], SortedTrace[j])
<1> DEFINE R == Range(trace)
           cur == SortedTrace[i]
           next == SortedTrace[j]
<1>1. cur \in R /\ next \in R /\ Rank(cur) = i - 1 /\ Rank(next) = j - 1
  BY SortedTraceRanks
<1>2. /\ R \in SUBSET TraceRecord
      /\ \A r, q \in R : r.time_log = q.time_log => r = q
  BY TraceRecords
<1>3. \A r \in R : r.time_log \in Nat /\ r.address \in Nat
  BY <1>2, RecordType
<1>4. i \in Int /\ j \in Int
  OBVIOUS
<1> HIDE DEF R, cur, next
<1>5. \A r, q \in R : Before(r, q) => Rank(r) \in Nat /\ Rank(q) \in Nat /\ Rank(r) < Rank(q)
  BY RankOrders DEF R
<1>6. ~ Before(next, cur)
  <2>1. ~ (Rank(next) < Rank(cur))
    BY <1>1, <1>4
  <2> QED BY <2>1, <1>1, <1>5
<1>7. cur # next
  BY <1>1, <1>4
<1>8. Before(cur, next)
  <2>1. cur.time_log # next.time_log
    BY <1>1, <1>2, <1>7
  <2>2. /\ cur.time_log \in Nat /\ next.time_log \in Nat
        /\ cur.address \in Nat /\ next.address \in Nat
    BY <1>1, <1>3
  <2> QED BY <2>1, <2>2, <1>6 DEF Before
<1>9. ASSUME NEW x \in R, Before(cur, x), Before(x, next) PROVE FALSE
  <2>1. Rank(x) \in Nat /\ Rank(cur) < Rank(x) /\ Rank(x) < Rank(next)
    BY <1>1, <1>5, <1>9
  <2> QED BY <2>1, <1>1, <1>4
<1>10. OfMemory(R)
  BY DEF R
<1>11. ASSUME next.instruction # "Write" PROVE cur.address = next.address /\ cur.value = next.value
  <2>1. \A x \in R : ~ (Before(cur, x) /\ Before(x, next))
    BY <1>9
  <2> QED BY <2>1, <1>1, <1>2, <1>8, <1>10, <1>11, NeighboursAgree
<1> QED BY <1>8, <1>11 DEF Follow, cur, next

\* A padding row replays the last one of the sorted trace.
LEMMA PaddingRecordIs ==
  ASSUME trace \in Seq(TraceRecord), CheckedTrace, NEW n
  PROVE  /\ PaddingRecord(n).address = SortedTrace[Len(trace)].address
         /\ PaddingRecord(n).value = SortedTrace[Len(trace)].value
         /\ PaddingRecord(n).time_log = LastTime + n
         /\ PaddingRecord(n).instruction = "Read"
<1>1. SortedTrace[Len(trace)] \in TraceRecord
  <2>1. Len(trace) \in 1 .. Len(trace) /\ TimesOfTraceIncrease
    BY SizeFits DEF CheckedTrace
  <2> QED BY <2>1, SortedTraceRanks, TraceRecords
<1> QED BY <1>1 DEF PaddingRecord, TraceRecord

LEMMA NoneIsLater ==
  ASSUME trace \in Seq(TraceRecord), CheckedTrace, NEW r \in Range(trace)
  PROVE  r.time_log \in Nat /\ r.time_log <= LastTime
<1>1. PICK k \in 1 .. Len(trace) : r = trace[k]
  BY DEF Range
<1>2. Len(trace) \in 1 .. Len(trace) /\ trace # <<>>
  BY SizeFits DEF CheckedTrace
<1>3. r.time_log \in Nat /\ LastTime \in Nat
  BY <1>2, LastTimeType, TraceRecords, RecordType DEF CheckedTrace
<1>4. k = Len(trace) \/ trace[k].time_log < trace[Len(trace)].time_log
  <2>1. k = Len(trace) \/ k < Len(trace)
    OBVIOUS
  <2> QED BY <2>1, <1>2 DEF CheckedTrace, TimesOfTraceIncrease
<1> QED BY <1>1, <1>3, <1>4 DEF LastTime

LEMMA SortedRowsFollow ==
  ASSUME trace \in Seq(TraceRecord), CheckedTrace, OfMemory(Range(trace)),
         NEW i \in AllWires, NEW j \in AllWires, j = i + 1
  PROVE  Follow(Sorted(i), Sorted(j))
<1> DEFINE n == Len(trace)
<1>1. n \in Nat /\ n > 0 /\ i \in Nat /\ TimesOfTraceIncrease /\ n \in 1 .. n
  BY SizeFits DEF CheckedTrace
<1>2. LastTime \in Nat
  BY LastTimeType DEF CheckedTrace
<1>3. CASE j < n
  <2>1. i < n
    BY <1>1, <1>3
  <2>2. /\ i + 1 \in 1 .. n /\ j + 1 \in 1 .. n /\ j + 1 = (i + 1) + 1
        /\ Sorted(i) = SortedTrace[i + 1] /\ Sorted(j) = SortedTrace[j + 1]
    BY <2>1, <1>1, <1>3, OriginalTimes
  <2> DEFINE a == i + 1
             b == j + 1
  <2>3. a \in 1 .. Len(trace) /\ b \in 1 .. Len(trace) /\ b = a + 1
    BY <2>2
  <2>4. Sorted(i) = SortedTrace[a] /\ Sorted(j) = SortedTrace[b]
    BY <2>2
  <2> HIDE DEF a, b, n
  <2>5. Follow(SortedTrace[a], SortedTrace[b])
    BY <2>3, <1>1, SortedRecordsFollow
  <2> QED BY <2>4, <2>5
<1>4. ASSUME NEW k \in AllWires, ~ (k < n)
      PROVE  /\ Sorted(k).address = SortedTrace[n].address
             /\ Sorted(k).value = SortedTrace[n].value
             /\ Sorted(k).time_log = LastTime + (k + 1 - n)
  <2>1. Sorted(k) = PaddingRecord(k + 1 - n)
    BY <1>4 DEF Sorted, Padded, AllWires
  <2> QED BY <2>1, PaddingRecordIs
<1>5. CASE ~ (j < n) /\ i < n
  <2>1. Sorted(i) = SortedTrace[n]
    <3>1. i + 1 = n /\ Sorted(i) = SortedTrace[i + 1]
      BY <1>1, <1>5, OriginalTimes
    <3> QED BY <3>1
  <2>2. SortedTrace[n] \in Range(trace)
    BY <1>1, SortedTraceRanks
  <2>3. Sorted(i).time_log \in Nat /\ Sorted(i).time_log <= LastTime
    BY <2>1, <2>2, NoneIsLater
  <2>4. Sorted(j).time_log = LastTime + 1
    <3>1. j + 1 - n = 1
      BY <1>1, <1>5
    <3> QED BY <3>1, <1>4, <1>5
  <2>5. Sorted(i).time_log < Sorted(j).time_log
    BY <2>3, <2>4, <1>2
  <2> QED BY <2>1, <2>5, <1>4, <1>5 DEF Follow, Before
<1>6. CASE ~ (i < n)
  <2>1. ~ (j < n)
    BY <1>1, <1>6
  <2>2. /\ Sorted(i).time_log = LastTime + (i + 1 - n)
        /\ Sorted(j).time_log = LastTime + (j + 1 - n)
        /\ Sorted(i).address = Sorted(j).address /\ Sorted(i).value = Sorted(j).value
    BY <2>1, <1>4, <1>6
  <2>3. LastTime + (i + 1 - n) < LastTime + (j + 1 - n)
    BY <1>1, <1>2
  <2> QED BY <2>2, <2>3 DEF Follow, Before
<1> QED BY <1>3, <1>5, <1>6

LEMMA FirstOfSortedIsAWrite ==
  ASSUME trace \in Seq(TraceRecord), CheckedTrace, OfMemory(Range(trace))
  PROVE  0 \in AllWires /\ Sorted(0).instruction = "Write"
<1>1. Len(trace) \in Nat /\ 0 < Len(trace) /\ TimesOfTraceIncrease /\ 0 \in AllWires /\ 0 + 1 = 1
  BY SizeFits DEF CheckedTrace
<1>2. 1 \in 1 .. Len(trace) /\ Sorted(0) = SortedTrace[1]
  <2>1. 0 + 1 \in 1 .. Len(trace) /\ Sorted(0) = SortedTrace[0 + 1]
    BY <1>1, OriginalTimes
  <2> QED BY <2>1, <1>1
<1>3. SortedTrace[1] \in Range(trace) /\ Rank(SortedTrace[1]) = 0
  <2>1. SortedTrace[1] \in Range(trace) /\ Rank(SortedTrace[1]) = 1 - 1
    BY <1>1, <1>2, SortedTraceRanks
  <2> QED BY <2>1
<1>4. \A x \in Range(trace) : ~ Before(x, SortedTrace[1])
  <2>1. ASSUME NEW x \in Range(trace), Before(x, SortedTrace[1]) PROVE FALSE
    <3>1. Rank(x) \in Nat /\ Rank(x) < Rank(SortedTrace[1])
      BY <2>1, <1>1, <1>3, RankOrders
    <3> QED BY <3>1, <1>3
  <2> QED BY <2>1
<1> QED BY <1>1, <1>2, <1>3, <1>4, LeastIsAWrite

(***************************************************************************)
(* A provable trace is neither refused nor fails to be proved.             *)
(***************************************************************************)
LEMMA FollowingRowsSatisfy ==
  ASSUME NEW r \in TraceRecord, NEW q \in TraceRecord, Follow(r, q)
  PROVE  \E k \in LexLimbs : SortedConstraints(FromRecord(r), FromRecord(q), k)
<1> DEFINE a == FromRecord(r)
           b == FromRecord(q)
<1>1. a \in Row /\ b \in Row
  BY FromRecordType
<1>2. PICK k \in LexLimbs : LessAt(a, b, k) /\ (k >= AddrLimbs <=> r.address = q.address)
  <2>1. \E k \in LexLimbs : /\ LessAt(a, b, k)
                            /\ k >= AddrLimbs <=> r.address = q.address
    BY BeforeIsLess DEF Follow
  <2> HIDE DEF a, b
  <2> QED BY <2>1
<1>3. b[PlInstr] = IF q.instruction = "Write" THEN 1 ELSE 0
  BY CellsOfRecord
<1>4. SameValue(a, b) <=> r.value = q.value
  BY RowsOfRecords
<1> HIDE DEF a, b
<1>5. b[PlInstr] \in {0, 1}
  BY <1>3
<1>6. b[PlInstr] = 1 \/ (r.address = q.address /\ SameValue(a, b))
  BY <1>3, <1>4 DEF Follow
<1>7. SortedConstraints(a, b, k)
  BY <1>1, <1>2, <1>5, <1>6, SortedConstraintsHold
<1> QED BY <1>7 DEF a, b

LEMMA RowsOfOriginal ==
  ASSUME trace \in Seq(TraceRecord), Linked, NEW i \in Wires(numVars)
  PROVE  /\ OriginalRows[i] = FromRecord(Original(i)) /\ rows[i] = FromRecord(Sorted(i))
         /\ Original(i) \in TraceRecord /\ Sorted(i) \in TraceRecord
         /\ TimeOf(OriginalRows[i]) = Original(i).time_log
         /\ OriginalRows[i] \in Row
<1>1. CheckedTrace /\ rows = SortedRows /\ numVars = NumVarsFor(Len(trace)) /\ i \in AllWires
  BY DEF Linked, AllWires
<1>2. Original(i) \in TraceRecord /\ Sorted(i) \in TraceRecord
  BY <1>1, PaddedType DEF Original, Sorted, AllWires
<1>3. OriginalRows[i] = FromRecord(Original(i))
  BY <1>1 DEF OriginalRows, Original
<1>4. rows[i] = FromRecord(Sorted(i))
  BY <1>1 DEF SortedRows
<1> QED BY <1>2, <1>3, <1>4, TimeOfRecord, FromRecordType

LEMMA ProvableIsSatisfied ==
  ASSUME trace \in Seq(TraceRecord), Provable, Linked, linked, net = OriginalRows
  PROVE  Proves /\ Satisfied
<1>1. /\ CheckedTrace /\ OfMemory(Range(trace)) /\ trace[1].time_log = 0
  BY ProvableTrace DEF Linked
<1>2. /\ numVars \in Nat /\ numVars > 0 /\ AllWires = Wires(numVars)
      /\ PowerOf2[numVars] \in Nat /\ AllWires = 0 .. PowerOf2[numVars] - 1
      /\ numVars \in MinVars .. MaxVars
  BY <1>1, LinkedType, SizeFits DEF Linked
<1>3. Proves
  <2>1. numVars > 1
    BY <1>2, ZincAssumption
  <2> QED BY <2>1, <1>2, ShiftsAreDeclared DEF Proves, HasArm
<1>4. FirstSorted(rows[0])
  <2>1. 0 \in AllWires /\ Sorted(0).instruction = "Write"
    BY <1>1, FirstOfSortedIsAWrite
  <2>2. rows[0] = FromRecord(Sorted(0)) /\ Sorted(0) \in TraceRecord
    BY <2>1, <1>2, RowsOfOriginal
  <2>3. rows[0][PlInstr] = 1
    BY <2>1, <2>2, CellsOfRecord
  <2> QED BY <2>3 DEF FirstSorted
<1>5. FirstOriginal(net[0])
  <2>1. 0 \in AllWires /\ 0 < Len(trace) /\ 0 + 1 = 1
    BY <1>1, <1>2, FirstOfSortedIsAWrite, SizeFits
  <2>2. Original(0) = trace[1]
    <3>1. Original(0) = trace[0 + 1]
      BY <2>1, <1>1, OriginalTimes
    <3> QED BY <3>1, <2>1
  <2>3. TimeOf(net[0]) = 0 /\ net[0] \in Row
    BY <2>1, <2>2, <1>1, <1>2, RowsOfOriginal
  <2> QED BY <2>3, FirstOriginalHolds
<1>6. ASSUME NEW i \in Wires(numVars) \ {PowerOf2[numVars] - 1}
      PROVE  /\ \E k \in LexLimbs : SortedConstraints(rows[i], rows[i + 1], k)
             /\ \E hi \in {0, 1} : OriginalConstraints(net[i], net[i + 1], hi)
  <2> DEFINE j == i + 1
  <2>1. i \in AllWires /\ j \in AllWires /\ j = i + 1 /\ i < j
    BY <1>2
  <2> HIDE DEF j
  <2>2. \E k \in LexLimbs : SortedConstraints(rows[i], rows[j], k)
    <3>1. Follow(Sorted(i), Sorted(j))
      BY <2>1, <1>1, SortedRowsFollow
    <3>2. /\ rows[i] = FromRecord(Sorted(i)) /\ rows[j] = FromRecord(Sorted(j))
          /\ Sorted(i) \in TraceRecord /\ Sorted(j) \in TraceRecord
      BY <2>1, <1>2, RowsOfOriginal
    <3> QED BY <3>1, <3>2, FollowingRowsSatisfy
  <2>3. \E hi \in {0, 1} : OriginalConstraints(net[i], net[j], hi)
    <3>1. Original(i).time_log < Original(j).time_log
      BY <2>1, <1>1, OriginalTimesIncrease
    <3>2. /\ TimeOf(net[i]) = Original(i).time_log /\ TimeOf(net[j]) = Original(j).time_log
          /\ net[i] \in Row /\ net[j] \in Row
      BY <2>1, <1>2, RowsOfOriginal
    <3> QED BY <3>1, <3>2, OriginalConstraintsHold
  <2> QED BY <2>1, <2>2, <2>3
<1>7. Satisfied
  BY <1>4, <1>5, <1>6 DEF Satisfied
<1> QED BY <1>3, <1>7

LEMMA PowersGrow ==
  ASSUME NEW u \in Nat, NEW v \in Nat, u <= v
  PROVE  PowerOf2[u] \in Nat /\ PowerOf2[v] \in Nat /\ PowerOf2[u] <= PowerOf2[v]
<1> DEFINE n == v - u
<1>1. n \in Nat /\ u + n = v
  OBVIOUS
<1> HIDE DEF n
<1>2. PICK q \in Nat : q > 0 /\ PowerOf2[u + n] = q * PowerOf2[u]
  BY <1>1, PowerOf2Multiple
<1>3. PowerOf2[u] \in Nat /\ PowerOf2[v] \in Nat
  BY PowerOf2Type
<1> DEFINE x == PowerOf2[u]
<1>4. (q - 1) * x >= 0 /\ (q - 1) * x = q * x - x /\ q * x \in Int
  <2>1. x \in Nat /\ q - 1 \in Nat
    BY <1>2, <1>3
  <2> HIDE DEF x
  <2> QED BY <2>1
<1> QED BY <1>1, <1>2, <1>3, <1>4

LEMMA ProvableIsNotRefused ==
  ASSUME trace \in Seq(TraceRecord), Provable
  PROVE  Refusal = None
<1> DEFINE n == Len(trace)
           w == NumVarsFor(Len(trace))
<1>1. /\ trace # <<>> /\ trace[1].time_log = 0 /\ TimesOfTraceIncrease
      /\ n \in Nat
  BY ProvableTrace
<1>2. PICK v \in MinVars .. MaxVars : n < PowerOf2[v] /\ LastTime + PowerOf2[v] - n < TimeEnd
  BY DEF Provable
<1>3. /\ w \in MinVars .. n + MinVars /\ PowerOf2[w] >= n + 1
      /\ \A u \in MinVars .. w - 1 : PowerOf2[u] < n + 1
  BY <1>1, NumVarsForType
<1>4. MinVars \in Nat /\ MaxVars \in Nat
  BY ZincAssumption
<1>5. LastTime \in Nat /\ TimeEnd \in Nat
  BY <1>1, LastTimeType, PowerOfBaseType DEF TimeEnd, TimeLimbs
<1> HIDE DEF n, w
<1>6. w \in Nat /\ v \in Nat /\ v \in Int /\ w \in Int
  BY <1>1, <1>2, <1>3, <1>4
<1>7. PowerOf2[w] \in Nat /\ PowerOf2[v] \in Nat
  BY <1>6, PowerOf2Type
<1>8. w <= v
  <2>1. SUFFICES ASSUME v < w PROVE FALSE
    BY <1>6
  <2>2. v \in MinVars .. w - 1
    BY <2>1, <1>6, <1>2, <1>4
  <2>3. PowerOf2[v] < n + 1
    BY <2>2, <1>3
  <2> QED BY <2>3, <1>1, <1>2, <1>7
<1>9. PowerOf2[w] <= PowerOf2[v]
  BY <1>6, <1>8, PowersGrow
<1>10. ~ (w > MaxVars)
  BY <1>2, <1>4, <1>6, <1>8
<1>11. ~ (LastTime + PowerOf2[w] - n >= TimeEnd)
  BY <1>1, <1>2, <1>5, <1>7, <1>9
<1>12. ~ \E i \in 2 .. n : trace[i].time_log <= trace[i - 1].time_log
  <2>1. ASSUME NEW i \in 2 .. n, trace[i].time_log <= trace[i - 1].time_log PROVE FALSE
    <3> DEFINE j == i - 1
    <3>1. i \in 1 .. n /\ j \in 1 .. n /\ j < i
      BY <1>1
    <3> HIDE DEF j
    <3>2. trace[j].time_log < trace[i].time_log
      BY <3>1, <1>1 DEF TimesOfTraceIncrease, n
    <3>3. trace[i].time_log \in Nat /\ trace[j].time_log \in Nat
      BY <3>1, RecordType DEF n
    <3> QED BY <3>2, <3>3, <2>1 DEF j
  <2> QED BY <2>1
<1> QED BY <1>1, <1>10, <1>11, <1>12 DEF Refusal, n, w

LEMMA ProvableStays ==
  ASSUME trace' = trace, free' = free
  PROVE  Provable' = Provable
<1>1. LastTime' = LastTime
  BY DEF LastTime
<1> QED BY <1>1 DEF Provable

LEMMA ProvableEndsWell ==
  ZincInv /\ RouterInv /\ RoutesInv /\ NetInv /\ NetInv' /\ ValidIsProved /\ [Next]_vars => ValidIsProved'
<1> SUFFICES ASSUME ZincInv, NetInv, NetInv', ValidIsProved, [Next]_vars, stage' = "ended", Provable'
             PROVE  \/ answer' = "Verified"
                    \/ answer' = "Verifier" /\ header' # numVars'
                    \/ answer' = "MalformedProof"
  BY DEF ValidIsProved
<1>1. trace \in Seq(TraceRecord)
  BY DEF ZincInv
<1> HIDE DEF Provable
<1>2. CASE Refuse
  <2>1. trace' = trace /\ free' = free /\ Refusal # None
    BY <1>2 DEF Refuse
  <2> QED BY <2>1, <1>1, ProvableStays, ProvableIsNotRefused
<1>3. CASE Built
  <2>1. trace' = trace /\ free' = free /\ answer' = "UnsortedTrace"
    BY <1>3 DEF Built
  <2>2. ~ free'
    BY DEF Provable
  <2> QED BY <2>1, <2>2 DEF NetInv
<1>4. CASE ProverFails
  <2>1. trace' = trace /\ free' = free /\ stage = "prove" /\ ~ (Proves /\ Satisfied)
    BY <1>4 DEF ProverFails
  <2>2. Provable
    BY <2>1, ProvableStays
  <2>3. ~ free
    BY <2>2 DEF Provable
  <2>4. Linked /\ linked /\ net = OriginalRows
    BY <2>1, <2>3 DEF NetInv
  <2> QED BY <2>1, <2>2, <2>4, <1>1, ProvableIsSatisfied
<1>5. CASE Malformed \/ Verify
  BY <1>5 DEF Malformed, Verify
<1>6. CASE Build \/ Link \/ FreeNetwork \/ FreeDone \/ Prove \/ FromBytes
  BY <1>6 DEF Build, Link, FreeNetwork, FreeDone, Prove, FromBytes
<1>7. CASE FreeRow \/ FreeSwitch \/ Switch
  BY <1>7 DEF FreeRow, FreeSwitch, Switch, Routed, routeVars
<1>8. CASE Routing /\ UNCHANGED <<free, trace, rows, net, layer, linked, answer, header>>
  BY <1>8, RoutingKeeps
<1>9. CASE UNCHANGED vars
  <2>1. /\ trace' = trace /\ free' = free /\ stage' = stage
        /\ answer' = answer /\ header' = header /\ numVars' = numVars
    BY <1>9 DEF vars, routeVars
  <2>2. Provable
    BY <2>1, ProvableStays
  <2> QED BY <2>1, <2>2 DEF ValidIsProved
<1> QED BY <1>2, <1>3, <1>4, <1>5, <1>6, <1>7, <1>8, <1>9 DEF Next

\* Completeness: the proof of a trace that a memory made, and whose padded rows fit the
\* table, is only refused if its size was altered.
THEOREM ProvableTracesAreProved == Spec => []ValidIsProved
<1>1. Init => ValidIsProved
  BY DEF Init, ValidIsProved
<1>2. ZincInv /\ RouterInv /\ RoutesInv /\ NetInv /\ NetInv' /\ ValidIsProved /\ [Next]_vars
        => ValidIsProved'
  BY ProvableEndsWell
<1> QED BY <1>1, <1>2, NetAlways, PTL DEF Spec

\* The builder, the router and the prover never panic on a witness that the builder made: the
\* router gets a permutation, the size has its arm and every shift is declared.
NeverPanics == ~ free => stage # "panicked"

LEMMA PanicStep ==
  ZincInv /\ RouterInv /\ NetInv /\ NeverPanics /\ [Next]_vars => NeverPanics'
<1> SUFFICES ASSUME ZincInv, RouterInv, NetInv, NeverPanics, [Next]_vars, stage' = "panicked", ~ free'
             PROVE  FALSE
  BY DEF NeverPanics
<1>1. trace \in Seq(TraceRecord)
  BY DEF ZincInv
<1>2. CASE ProverFails
  <2>1. stage = "prove" /\ ~ free /\ ~ Proves
    BY <1>2 DEF ProverFails
  <2>2. Linked
    BY <2>1 DEF NetInv
  <2>3. numVars \in MinVars .. MaxVars
    BY <2>2, <1>1, SizeFits DEF Linked
  <2>4. numVars \in Nat /\ numVars > 1
    BY <2>3, ZincAssumption
  <2> QED BY <2>1, <2>3, <2>4, ShiftsAreDeclared DEF Proves, HasArm
<1>3. CASE Routing /\ UNCHANGED <<free, trace, rows, net, layer, linked, answer, header>>
  <2>1. NotAPermutation
    BY <1>3 DEF Routing, Route, MiddleBlock, OpenBlock, StartWalk, Walk, CloseBlock, Colored
  <2>2. stage = "route" /\ ~ IsInjective(perm)
    BY <2>1 DEF NotAPermutation
  <2>3. perm \in Permutations(PowerOf2[numVars])
    BY <2>2 DEF RouterInv, ToRoute
  <2> QED BY <2>2, <2>3 DEF Permutations, IsInjective
<1>4. CASE Refuse \/ Built \/ Malformed \/ Verify
  BY <1>4 DEF Refuse, Built, Malformed, Verify
<1>5. CASE Build \/ Link \/ FreeNetwork \/ FreeDone \/ Prove \/ FromBytes
  BY <1>5 DEF Build, Link, FreeNetwork, FreeDone, Prove, FromBytes
<1>6. CASE FreeRow \/ FreeSwitch \/ Switch
  BY <1>6 DEF FreeRow, FreeSwitch, Switch, Routed, routeVars
<1>7. CASE UNCHANGED vars
  BY <1>7 DEF vars, routeVars, NeverPanics
<1> QED BY <1>2, <1>3, <1>4, <1>5, <1>6, <1>7 DEF Next

\* A size without an arm, a shift that no column declares, a permutation that is none: no
\* witness of the builder meets them.
THEOREM BuilderNeverPanics == Spec => []NeverPanics
<1>1. Init => NeverPanics
  BY DEF Init, NeverPanics
<1> QED BY <1>1, PanicStep, NetAlways, PTL DEF Spec
=============================================================================
