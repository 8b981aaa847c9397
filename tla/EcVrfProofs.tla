---------------------------- MODULE EcVrfProofs -----------------------------
(***************************************************************************)
(* Theorems about EcVrf for every curve whose points form a group of prime *)
(* order, every key, seed and nonce, and every hash function.              *)
(***************************************************************************)
EXTENDS EcVrf, WellFoundedInduction, TLAPS

(***************************************************************************)
(* Recursive functions on the naturals.                                    *)
(***************************************************************************)
LEMMA Least ==
  ASSUME NEW T \in SUBSET Nat, T # {}
  PROVE  \E j \in T : \A l \in T : j <= l
<1>0. T \subseteq Nat /\ T # {}
  OBVIOUS
<1>1. PICK j \in T : \A l \in T : ~ (<<l, j>> \in OpToRel(<, Nat))
  BY <1>0, WFMin, NatLessThanWellFounded
<1>2. ASSUME NEW l \in T PROVE j <= l
  <2>1. l \in Nat /\ j \in Nat
    OBVIOUS
  <2>2. ~ (l < j)
    BY <1>1, <2>1 DEF OpToRel
  <2> QED BY <2>1, <2>2
<1> QED BY <1>2

\* g takes n steps from c.
StepsUpTo(S, c, step, n, g) ==
  /\ g \in [0 .. n -> S]
  /\ g[0] = c
  /\ \A j \in 1 .. n : g[j] = step[g[j - 1]]

\* f takes steps from c for ever.
Steps(S, c, step, f) ==
  /\ f \in [Nat -> S]
  /\ f[0] = c
  /\ \A n \in Nat : f[n + 1] = step[f[n]]

LEMMA StepsUpToExist ==
  ASSUME NEW S, NEW c \in S, NEW step \in [S -> S], NEW n \in Nat
  PROVE  \E g : StepsUpTo(S, c, step, n, g)
<1> DEFINE T == {m \in Nat : ~ \E g : StepsUpTo(S, c, step, m, g)}
<1>1. SUFFICES ASSUME T # {} PROVE FALSE
  OBVIOUS
<1>2. PICK m \in T : \A l \in T : m <= l
  BY <1>1, Least
<1>3. m # 0
  <2>1. StepsUpTo(S, c, step, 0, [j \in 0 .. 0 |-> c])
    BY DEF StepsUpTo
  <2> QED BY <2>1, <1>2
<1>4. PICK g : StepsUpTo(S, c, step, m - 1, g)
  BY <1>2, <1>3
<1> DEFINE f == [j \in 0 .. m |-> IF j = m THEN step[g[m - 1]] ELSE g[j]]
<1>5. StepsUpTo(S, c, step, m, f)
  <2>1. m \in Nat /\ m > 0 /\ m - 1 \in 0 .. m - 1
    BY <1>2, <1>3
  <2>2. step[g[m - 1]] \in S
    BY <2>1, <1>4 DEF StepsUpTo
  <2>3. f \in [0 .. m -> S]
    BY <2>1, <2>2, <1>4 DEF StepsUpTo
  <2>4. f[0] = c
    BY <2>1, <1>4 DEF StepsUpTo
  <2>5. ASSUME NEW j \in 1 .. m PROVE f[j] = step[f[j - 1]]
    <3>1. CASE j = m
      BY <3>1, <2>1
    <3>2. CASE j # m
      <4>1. j \in 1 .. m - 1 /\ j - 1 \in 0 .. m /\ j - 1 # m
        BY <3>2, <2>1
      <4>2. f[j] = g[j] /\ f[j - 1] = g[j - 1]
        BY <4>1, <3>2
      <4> QED BY <4>1, <4>2, <1>4 DEF StepsUpTo
    <3> QED BY <3>1, <3>2
  <2> HIDE DEF f
  <2> QED BY <2>3, <2>4, <2>5 DEF StepsUpTo
<1> QED BY <1>2, <1>5

LEMMA StepsUpToUnique ==
  ASSUME NEW S, NEW c, NEW step, NEW n \in Nat, NEW m \in Nat, NEW g, NEW f,
         StepsUpTo(S, c, step, n, g), StepsUpTo(S, c, step, m, f), NEW j \in 0 .. n, j <= m
  PROVE  g[j] = f[j]
<1> DEFINE T == {l \in 0 .. n : l <= m /\ g[l] # f[l]}
<1>1. SUFFICES ASSUME T # {} PROVE FALSE
  OBVIOUS
<1>2. PICK l \in T : \A i \in T : l <= i
  <2>1. T \in SUBSET Nat
    OBVIOUS
  <2> QED BY <2>1, <1>1, Least
<1>3. l # 0
  BY <1>2 DEF StepsUpTo
<1>4. l - 1 \in 0 .. n /\ l - 1 <= m /\ l \in 1 .. n /\ l \in 1 .. m
  BY <1>2, <1>3
<1>5. g[l - 1] = f[l - 1]
  BY <1>2, <1>4
<1> QED BY <1>2, <1>4, <1>5 DEF StepsUpTo

LEMMA StepsExist ==
  ASSUME NEW S, NEW c \in S, NEW step \in [S -> S]
  PROVE  \E f : Steps(S, c, step, f)
<1> DEFINE up(n) == CHOOSE g : StepsUpTo(S, c, step, n, g)
           f == [n \in Nat |-> up(n)[n]]
<1>1. ASSUME NEW n \in Nat PROVE StepsUpTo(S, c, step, n, up(n))
  BY StepsUpToExist
<1> HIDE DEF up
<1>2. f \in [Nat -> S]
  BY <1>1 DEF StepsUpTo
<1>3. f[0] = c
  BY <1>1 DEF StepsUpTo
<1>4. ASSUME NEW n \in Nat PROVE f[n + 1] = step[f[n]]
  <2>1. StepsUpTo(S, c, step, n + 1, up(n + 1)) /\ StepsUpTo(S, c, step, n, up(n))
    BY <1>1
  <2>2. n \in 0 .. n + 1 /\ n + 1 \in 1 .. n + 1 /\ (n + 1) - 1 = n /\ n + 1 \in Nat
    OBVIOUS
  <2>3. up(n + 1)[n] = up(n)[n]
    BY <2>1, <2>2, StepsUpToUnique
  <2>4. up(n + 1)[n + 1] = step[up(n + 1)[n]]
    BY <2>1, <2>2 DEF StepsUpTo
  <2>5. f[n + 1] = up(n + 1)[n + 1] /\ f[n] = up(n)[n]
    BY <2>2
  <2> QED BY <2>3, <2>4, <2>5
<1> HIDE DEF f
<1> QED BY <1>2, <1>3, <1>4 DEF Steps

(***************************************************************************)
(* The multiples of a point.                                               *)
(***************************************************************************)
LEMMA PointsType ==
  /\ Infinity \in Points /\ Generator \in Points /\ Curve \subseteq Points
  /\ \A p \in Curve : p # Infinity /\ ~ p.infinity
  /\ Infinity.infinity
<1>1. \A p \in Curve : p.infinity = FALSE
  BY DEF Curve, Point
<1>2. Infinity.infinity = TRUE
  BY DEF Infinity
<1> QED BY <1>1, <1>2, CurveAssumption DEF Points

\* The point at infinity is the neutral element.
LEMMA InfinityIsNeutral ==
  ASSUME NEW p \in Points
  PROVE  Add(Infinity, p) = p /\ Add(p, Infinity) = p
<1>1. Infinity.infinity = TRUE
  BY DEF Infinity
<1>2. Add(Infinity, p) = p
  BY <1>1 DEF Add
<1> QED BY <1>2, GroupAssumption, PointsType

LEMMA SumsOfPoint ==
  ASSUME NEW p \in Points
  PROVE  /\ EcMult(p, 0) = Infinity
         /\ \A n \in Nat : EcMult(p, n) \in Points /\ EcMult(p, n + 1) = Add(EcMult(p, n), p)
<1> DEFINE step == [q \in Points |-> Add(q, p)]
           F == CHOOSE sum : sum = [n \in Nat |-> IF n = 0 THEN Infinity ELSE Add(sum[n - 1], p)]
<1>1. step \in [Points -> Points]
  BY GroupAssumption
<1>2. PICK f : Steps(Points, Infinity, step, f)
  BY <1>1, StepsExist, PointsType
<1>3. f = [n \in Nat |-> IF n = 0 THEN Infinity ELSE Add(f[n - 1], p)]
  <2>1. ASSUME NEW n \in Nat PROVE f[n] = IF n = 0 THEN Infinity ELSE Add(f[n - 1], p)
    <3>1. CASE n = 0
      BY <3>1, <1>2 DEF Steps
    <3>2. CASE n # 0
      <4>1. n - 1 \in Nat /\ (n - 1) + 1 = n
        BY <3>2
      <4>2. f[n] = step[f[n - 1]] /\ f[n - 1] \in Points
        BY <4>1, <1>2 DEF Steps
      <4> QED BY <4>2, <3>2
    <3> QED BY <3>1, <3>2
  <2>2. f \in [Nat -> Points]
    BY <1>2 DEF Steps
  <2> QED BY <2>1, <2>2
<1>4. F = [n \in Nat |-> IF n = 0 THEN Infinity ELSE Add(F[n - 1], p)]
  BY <1>3, Zenon
<1>5. \A n : EcMult(p, n) = F[n]
  BY Zenon DEF EcMult
<1>6. F[0] = Infinity /\ \A n \in Nat : F[n + 1] = Add(F[n], p)
  <2> HIDE DEF F
  <2>1. ASSUME NEW n \in Nat PROVE F[n] = IF n = 0 THEN Infinity ELSE Add(F[n - 1], p)
    BY <1>4, Zenon
  <2>2. ASSUME NEW n \in Nat PROVE F[n + 1] = Add(F[n], p)
    <3>1. n + 1 \in Nat /\ n + 1 # 0 /\ (n + 1) - 1 = n
      OBVIOUS
    <3>2. F[n + 1] = Add(F[(n + 1) - 1], p)
      BY <2>1, <3>1
    <3> QED BY <3>1, <3>2
  <2> QED BY <2>1, <2>2
<1> HIDE DEF F
<1> DEFINE T == {n \in Nat : F[n] \notin Points}
<1>7. T = {}
  <2>1. SUFFICES ASSUME T # {} PROVE FALSE
    OBVIOUS
  <2>2. PICK m \in T : \A l \in T : m <= l
    BY <2>1, Least
  <2>3. m # 0
    BY <2>2, <1>6, PointsType
  <2>4. m - 1 \in Nat /\ (m - 1) + 1 = m /\ ~ (m <= m - 1)
    BY <2>2, <2>3
  <2>5. F[m - 1] \in Points /\ F[m] = Add(F[m - 1], p)
    BY <2>2, <2>4, <1>6
  <2> QED BY <2>2, <2>5, GroupAssumption
<1> QED BY <1>5, <1>6, <1>7

(***************************************************************************)
(* The laws of multiples: they follow from those of the group.             *)
(***************************************************************************)
LEMMA SumOfMultiples ==
  ASSUME NEW p \in Points, NEW a \in Nat, NEW b \in Nat
  PROVE  EcMult(p, a + b) = Add(EcMult(p, a), EcMult(p, b))
<1> DEFINE T == {n \in Nat : EcMult(p, a + n) # Add(EcMult(p, a), EcMult(p, n))}
<1>1. SUFFICES ASSUME T # {} PROVE FALSE
  BY <1>1
<1>2. PICK m \in T : \A l \in T : m <= l
  BY <1>1, Least
<1>3. EcMult(p, a) \in Points /\ EcMult(p, 0) = Infinity
  BY SumsOfPoint
<1>4. m # 0
  <2>1. a + 0 = a
    OBVIOUS
  <2> QED BY <2>1, <1>2, <1>3, InfinityIsNeutral
<1>5. /\ m - 1 \in Nat /\ (m - 1) + 1 = m /\ ~ (m <= m - 1)
      /\ a + (m - 1) \in Nat /\ (a + (m - 1)) + 1 = a + m
  BY <1>2, <1>4
<1>6. /\ EcMult(p, m) = Add(EcMult(p, m - 1), p) /\ EcMult(p, m - 1) \in Points
      /\ EcMult(p, a + m) = Add(EcMult(p, a + (m - 1)), p)
  <2>1. EcMult(p, (m - 1) + 1) = Add(EcMult(p, m - 1), p) /\ EcMult(p, m - 1) \in Points
        /\ EcMult(p, (a + (m - 1)) + 1) = Add(EcMult(p, a + (m - 1)), p)
    BY <1>5, SumsOfPoint
  <2> QED BY <2>1, <1>5
<1>7. EcMult(p, a + (m - 1)) = Add(EcMult(p, a), EcMult(p, m - 1))
  BY <1>2, <1>5
<1>8. EcMult(p, a + m) = Add(EcMult(p, a), EcMult(p, m))
  BY <1>3, <1>6, <1>7, GroupAssumption
<1> QED BY <1>2, <1>8

LEMMA MultipleOfMultiple ==
  ASSUME NEW p \in Points, NEW a \in Nat, NEW b \in Nat
  PROVE  EcMult(EcMult(p, a), b) = EcMult(p, a * b)
<1> DEFINE q == EcMult(p, a)
           T == {n \in Nat : EcMult(q, n) # EcMult(p, a * n)}
<1>1. SUFFICES ASSUME T # {} PROVE FALSE
  BY <1>1
<1>2. PICK m \in T : \A l \in T : m <= l
  BY <1>1, Least
<1>3. q \in Points
  BY SumsOfPoint
<1>4. m # 0
  <2>1. a * 0 = 0
    OBVIOUS
  <2>2. EcMult(q, 0) = Infinity /\ EcMult(p, 0) = Infinity
    BY <1>3, SumsOfPoint
  <2> QED BY <2>1, <2>2, <1>2
<1>5. /\ m - 1 \in Nat /\ (m - 1) + 1 = m /\ ~ (m <= m - 1)
      /\ a * (m - 1) \in Nat /\ a * (m - 1) + a = a * m
  BY <1>2, <1>4
<1>6. EcMult(q, m) = Add(EcMult(q, m - 1), q)
  <2>1. EcMult(q, (m - 1) + 1) = Add(EcMult(q, m - 1), q)
    BY <1>3, <1>5, SumsOfPoint
  <2> QED BY <2>1, <1>5
<1>7. EcMult(q, m - 1) = EcMult(p, a * (m - 1))
  BY <1>2, <1>5
<1>8. EcMult(p, a * (m - 1) + a) = Add(EcMult(p, a * (m - 1)), q)
  BY <1>5, SumOfMultiples
<1>9. EcMult(q, m) = EcMult(p, a * m)
  BY <1>5, <1>6, <1>7, <1>8
<1> QED BY <1>2, <1>9

LEMMA MultipleOfInfinity ==
  ASSUME NEW n \in Nat
  PROVE  EcMult(Infinity, n) = Infinity
<1> DEFINE T == {j \in Nat : EcMult(Infinity, j) # Infinity}
<1>1. SUFFICES ASSUME T # {} PROVE FALSE
  BY <1>1
<1>2. PICK m \in T : \A l \in T : m <= l
  BY <1>1, Least
<1>3. m # 0
  BY <1>2, SumsOfPoint, PointsType
<1>4. m - 1 \in Nat /\ (m - 1) + 1 = m /\ ~ (m <= m - 1)
  BY <1>2, <1>3
<1>5. EcMult(Infinity, (m - 1) + 1) = Add(EcMult(Infinity, m - 1), Infinity)
  BY <1>4, SumsOfPoint, PointsType
<1>6. EcMult(Infinity, m) = Infinity
  BY <1>2, <1>4, <1>5, InfinityIsNeutral, PointsType
<1> QED BY <1>2, <1>6

LEMMA MultipleOfSum ==
  ASSUME NEW p \in Points, NEW q \in Points, NEW n \in Nat
  PROVE  EcMult(Add(p, q), n) = Add(EcMult(p, n), EcMult(q, n))
<1> DEFINE r == Add(p, q)
           T == {j \in Nat : EcMult(r, j) # Add(EcMult(p, j), EcMult(q, j))}
<1>1. SUFFICES ASSUME T # {} PROVE FALSE
  BY <1>1
<1>2. PICK m \in T : \A l \in T : m <= l
  BY <1>1, Least
<1>3. r \in Points
  BY GroupAssumption
<1>4. m # 0
  <2>1. EcMult(r, 0) = Infinity /\ EcMult(p, 0) = Infinity /\ EcMult(q, 0) = Infinity
    BY <1>3, SumsOfPoint
  <2> QED BY <2>1, <1>2, InfinityIsNeutral, PointsType
<1>5. m - 1 \in Nat /\ (m - 1) + 1 = m /\ ~ (m <= m - 1)
  BY <1>2, <1>4
<1> DEFINE x == EcMult(p, m - 1)
           y == EcMult(q, m - 1)
<1>6. /\ x \in Points /\ y \in Points
      /\ EcMult(p, m) = Add(x, p) /\ EcMult(q, m) = Add(y, q)
      /\ EcMult(r, m) = Add(EcMult(r, m - 1), r)
  <2>1. /\ x \in Points /\ EcMult(p, (m - 1) + 1) = Add(x, p)
        /\ y \in Points /\ EcMult(q, (m - 1) + 1) = Add(y, q)
        /\ EcMult(r, (m - 1) + 1) = Add(EcMult(r, m - 1), r)
    BY <1>3, <1>5, SumsOfPoint
  <2> QED BY <2>1, <1>5
<1>7. EcMult(r, m - 1) = Add(x, y)
  BY <1>2, <1>5
<1> HIDE DEF x, y
<1>8. Add(Add(x, y), Add(p, q)) = Add(Add(x, p), Add(y, q))
  <2>1. Add(Add(x, y), Add(p, q)) = Add(x, Add(y, Add(p, q)))
    BY <1>3, <1>6, GroupAssumption
  <2>2. Add(y, Add(p, q)) = Add(Add(y, p), q) /\ Add(y, p) = Add(p, y)
    BY <1>6, GroupAssumption
  <2>3. Add(Add(p, y), q) = Add(p, Add(y, q)) /\ Add(y, q) \in Points
    BY <1>6, GroupAssumption
  <2>4. Add(x, Add(p, Add(y, q))) = Add(Add(x, p), Add(y, q))
    BY <2>3, <1>6, GroupAssumption
  <2> QED BY <2>1, <2>2, <2>3, <2>4
<1>9. EcMult(r, m) = Add(EcMult(p, m), EcMult(q, m))
  BY <1>6, <1>7, <1>8
<1> QED BY <1>2, <1>9

(***************************************************************************)
(* Remainders.                                                             *)
(***************************************************************************)
\* b differs from a by a multiple of n.
Same(n, a, b) == \E q \in Int : a = b + n * q

LEMMA Remainders ==
  ASSUME NEW n \in Nat \ {0}, NEW a \in Int
  PROVE  /\ a % n \in 0 .. n - 1 /\ a \div n \in Int
         /\ a = n * (a \div n) + (a % n)
OBVIOUS

LEMMA SameRemainder ==
  ASSUME NEW n \in Nat \ {0}, NEW a \in Int
  PROVE  a % n \in Int /\ Same(n, a, a % n) /\ Same(n, a % n, a)
<1> DEFINE j == a \div n
           m == a % n
<1>1. m \in Int /\ j \in Int /\ a = n * j + m
  BY Remainders
<1> HIDE DEF j, m
<1>2. a = m + n * j /\ m = a + n * (- j) /\ - j \in Int
  BY <1>1
<1>3. Same(n, a, m) /\ Same(n, m, a)
  BY <1>1, <1>2 DEF Same
<1> QED BY <1>1, <1>3 DEF m

LEMMA SameIsTransitive ==
  ASSUME NEW n \in Nat, NEW a \in Int, NEW b \in Int, NEW c \in Int, Same(n, a, b), Same(n, b, c)
  PROVE  Same(n, a, c)
<1>1. PICK q \in Int : a = b + n * q
  BY DEF Same
<1>2. PICK r \in Int : b = c + n * r
  BY DEF Same
<1>3. a = c + n * (q + r) /\ q + r \in Int
  BY <1>1, <1>2
<1> QED BY <1>3 DEF Same

LEMMA SmallAreApart ==
  ASSUME NEW n \in Nat \ {0}, NEW a \in 0 .. n - 1, NEW b \in 0 .. n - 1, Same(n, a, b)
  PROVE  a = b
<1>1. PICK q \in Int : a = b + n * q
  BY DEF Same
<1>2. CASE q >= 1
  <2>1. n * q >= n
    BY <1>2
  <2> QED BY <2>1, <1>1
<1>3. CASE q <= -1
  <2>1. n * q <= - n
    BY <1>3
  <2> QED BY <2>1, <1>1
<1>4. CASE q = 0
  BY <1>4, <1>1
<1> QED BY <1>2, <1>3, <1>4

\* Congruence is equality of the remainders.
LEMMA SameIsEqualRemainders ==
  ASSUME NEW n \in Nat \ {0}, NEW a \in Int, NEW b \in Int
  PROVE  Same(n, a, b) <=> a % n = b % n
<1> DEFINE x == a % n
           y == b % n
<1>1. /\ x \in 0 .. n - 1 /\ y \in 0 .. n - 1 /\ x \in Int /\ y \in Int /\ n \in Nat
      /\ Same(n, a, x) /\ Same(n, x, a) /\ Same(n, b, y) /\ Same(n, y, b)
  BY SameRemainder, Remainders
<1> HIDE DEF x, y
<1>2. ASSUME Same(n, a, b) PROVE x = y
  <2>1. Same(n, x, b)
    BY <1>1, <1>2, SameIsTransitive
  <2>2. Same(n, x, y)
    BY <1>1, <2>1, SameIsTransitive
  <2> QED BY <1>1, <2>2, SmallAreApart
<1>3. ASSUME x = y PROVE Same(n, a, b)
  BY <1>1, <1>3, SameIsTransitive
<1>4. Same(n, a, b) <=> x = y
  BY <1>2, <1>3
<1> QED BY <1>4 DEF x, y

LEMMA SmallRemainder ==
  ASSUME NEW n \in Nat \ {0}, NEW a \in 0 .. n - 1
  PROVE  a % n = a
<1> DEFINE x == a % n
<1>0. a \in Int
  OBVIOUS
<1>1. x \in 0 .. n - 1
  BY <1>0, Remainders
<1>3. Same(n, x, a)
  BY <1>0, SameRemainder
<1> HIDE DEF x
<1>2. x = a
  BY <1>1, <1>3, SmallAreApart
<1> QED BY <1>2 DEF x

LEMMA SameProduct ==
  ASSUME NEW n \in Nat, NEW a \in Int, NEW b \in Int, NEW c \in Int, Same(n, a, b)
  PROVE  Same(n, a * c, b * c)
<1>1. PICK q \in Int : a = b + n * q
  BY DEF Same
<1>2. a * c = b * c + n * (q * c) /\ q * c \in Int
  BY <1>1
<1> QED BY <1>2 DEF Same

(***************************************************************************)
(* The order of the group.                                                 *)
(***************************************************************************)
LEMMA Orders ==
  /\ GroupOrder \in Nat \ {0} /\ GroupOrder \in Nat /\ GroupOrder \in Int
  /\ FieldSize \in Nat \ {0} /\ FieldSize \in Nat /\ FieldSize \in Int
  /\ FieldSize > 2 /\ GroupOrder < FieldSize
<1>1. /\ GroupOrder \in Nat \ {0} /\ FieldSize \in Nat \ {0}
      /\ FieldSize % 4 = 3 /\ GroupOrder < FieldSize
  BY CurveAssumption
<1>2. FieldSize > 2
  <2>1. \A n \in Nat : n <= 2 /\ n > 0 => n = 1 \/ n = 2
    OBVIOUS
  <2>2. 1 % 4 # 3 /\ 2 % 4 # 3
    OBVIOUS
  <2> QED BY <2>1, <2>2, <1>1
<1> QED BY <1>1, <1>2

LEMMA MultipleOfOrder ==
  ASSUME NEW p \in Points, NEW m \in Nat
  PROVE  EcMult(p, GroupOrder * m) = Infinity
<1>1. EcMult(p, GroupOrder) = Infinity
  <2>1. CASE p \in Curve
    BY <2>1, GroupAssumption
  <2>2. CASE p = Infinity
    BY <2>2, MultipleOfInfinity, Orders
  <2> QED BY <2>1, <2>2 DEF Points
<1>2. EcMult(EcMult(p, GroupOrder), m) = EcMult(p, GroupOrder * m)
  BY MultipleOfMultiple, Orders
<1> QED BY <1>1, <1>2, MultipleOfInfinity

LEMMA ReducedMultiple ==
  ASSUME NEW p \in Points, NEW a \in Nat, NEW b \in Nat, NEW m \in Nat, a = b + GroupOrder * m
  PROVE  EcMult(p, a) = EcMult(p, b)
<1> DEFINE d == GroupOrder * m
<1>1. d \in Nat
  BY Orders
<1>2. EcMult(p, d) = Infinity
  BY MultipleOfOrder
<1> HIDE DEF d
<1>3. EcMult(p, b + d) = Add(EcMult(p, b), EcMult(p, d))
  BY <1>1, SumOfMultiples
<1>4. EcMult(p, b) \in Points
  BY SumsOfPoint
<1>5. Add(EcMult(p, b), Infinity) = EcMult(p, b)
  BY <1>4, InfinityIsNeutral
<1>6. a = b + d
  BY DEF d
<1> QED BY <1>2, <1>3, <1>5, <1>6

LEMMA RemainderMultiple ==
  ASSUME NEW p \in Points, NEW a \in Nat
  PROVE  a % GroupOrder \in Nat /\ EcMult(p, a) = EcMult(p, a % GroupOrder)
<1> DEFINE m == a \div GroupOrder
           b == a % GroupOrder
<1>1. m \in Int /\ b \in 0 .. GroupOrder - 1 /\ a = GroupOrder * m + b
  BY Orders, Remainders
<1> HIDE DEF m, b
<1>2. m \in Nat
  <2>1. CASE m < 0
    <3>1. GroupOrder * m <= - GroupOrder
      BY <2>1, <1>1, Orders
    <3> QED BY <3>1, <1>1, Orders
  <2>2. CASE m >= 0
    BY <2>2, <1>1
  <2> QED BY <2>1, <2>2, <1>1
<1>3. b \in Nat /\ a = b + GroupOrder * m
  BY <1>1, <1>2, Orders
<1>4. EcMult(p, a) = EcMult(p, b)
  BY <1>2, <1>3, ReducedMultiple
<1> QED BY <1>3, <1>4 DEF b

LEMMA CurveMultiple ==
  ASSUME NEW p \in Curve, NEW n \in 1 .. GroupOrder - 1
  PROVE  EcMult(p, n) \in Curve
<1>1. n \in Nat /\ p \in Points
  BY PointsType
<1>2. EcMult(p, n) \in Points
  BY <1>1, SumsOfPoint
<1> QED BY <1>2, GroupAssumption DEF Points

\* Points with the same multiple are the same.
LEMMA MultipleIsInjective ==
  ASSUME NEW p \in Curve, NEW q \in Curve, NEW n \in 1 .. GroupOrder - 1,
         EcMult(p, n) = EcMult(q, n)
  PROVE  p = q
<1> DEFINE r == EcMult(q, GroupOrder - 1)
           d == Add(p, r)
<1>1. p \in Points /\ q \in Points /\ n \in Nat /\ GroupOrder - 1 \in Nat
      /\ (GroupOrder - 1) + 1 = GroupOrder
  BY PointsType, Orders
<1>2. r \in Points /\ Add(r, q) = Infinity
  <2>1. r \in Points /\ EcMult(q, (GroupOrder - 1) + 1) = Add(r, q)
    BY <1>1, SumsOfPoint
  <2> QED BY <2>1, <1>1, GroupAssumption
<1> HIDE DEF r
<1>3. Add(q, r) = Infinity /\ d \in Points
  BY <1>1, <1>2, GroupAssumption
<1>4. EcMult(d, n) = Infinity
  <2>1. EcMult(d, n) = Add(EcMult(p, n), EcMult(r, n))
    BY <1>1, <1>2, MultipleOfSum
  <2>2. EcMult(Add(q, r), n) = Add(EcMult(q, n), EcMult(r, n))
    BY <1>1, <1>2, MultipleOfSum
  <2> QED BY <2>1, <2>2, <1>1, <1>3, MultipleOfInfinity
<1>5. d = Infinity
  <2> HIDE DEF d
  <2> QED BY <1>3, <1>4, GroupAssumption DEF Points
<1>6. Add(Add(p, r), q) = Add(p, Add(r, q))
  BY <1>1, <1>2, GroupAssumption
<1> QED BY <1>1, <1>2, <1>5, <1>6, InfinityIsNeutral

(***************************************************************************)
(* Scalars.                                                                *)
(***************************************************************************)
LEMMA WordIsScalar ==
  ASSUME NEW word \in Hashes
  PROVE  FromWord(word) \in Scalars
<1>1. HashSize \in Nat /\ HashSize <= 2 * GroupOrder
  BY CurveAssumption
<1> QED BY <1>1, Orders DEF FromWord, Hashes, Scalars

\* The response to a challenge and the challenged key make up the nonce.
LEMMA ResponseIs ==
  ASSUME NEW nonce \in Scalars, NEW c \in Nat, NEW key \in Nat, NEW s,
         s = (nonce - c * key) % GroupOrder
  PROVE  /\ s \in Scalars
         /\ c * key \in Nat
         /\ (s + c * key) % GroupOrder = nonce
         /\ \E m \in Nat : s + c * key = nonce + GroupOrder * m
<1> DEFINE n == GroupOrder
           x == c * key
<1>1. x \in Nat /\ nonce \in 0 .. n - 1 /\ n \in Nat \ {0} /\ nonce \in Int
  BY Orders DEF Scalars
<1>2. s = (nonce - x) % n
  OBVIOUS
<1>9. c * key = x
  OBVIOUS
<1> HIDE DEF n, x
<1>3. nonce - x \in Int
  BY <1>1
<1>4. s \in 0 .. n - 1 /\ Same(n, s, nonce - x)
  BY <1>1, <1>2, <1>3, Remainders, SameRemainder
<1>5. PICK q \in Int : s = (nonce - x) + n * q
  BY <1>4 DEF Same
<1>6. s + x = nonce + n * q /\ s + x \in Nat
  BY <1>1, <1>4, <1>5
<1>7. q \in Nat
  <2>1. CASE q <= -1
    <3>1. n * q <= - n
      BY <2>1, <1>1
    <3> QED BY <3>1, <1>1, <1>6
  <2>2. CASE q >= 0
    BY <2>2
  <2> QED BY <2>1, <2>2
<1>8. (s + x) % n = nonce
  <2> DEFINE w == s + x
  <2>1. Same(n, w, nonce) /\ w \in Int
    BY <1>6 DEF Same
  <2> HIDE DEF w
  <2>2. w % n = nonce % n
    BY <2>1, <1>1, SameIsEqualRemainders
  <2>3. nonce % n = nonce
    BY <1>1, SmallRemainder
  <2> QED BY <2>2, <2>3 DEF w
<1> QED BY <1>1, <1>4, <1>6, <1>7, <1>8, <1>9 DEF n, Scalars

(***************************************************************************)
(* Points and words.                                                       *)
(***************************************************************************)
\* The points whether on the curve or not.
Plane == {Point(x, y) : x \in Field, y \in Field}

LEMMA PlaneType ==
  /\ Curve \subseteq Plane
  /\ \A p \in Plane : IsOnCurve(p) => p \in Curve
  /\ \A p \in Curve : IsOnCurve(p)
  /\ \A p \in Plane : p.x \in Field /\ p.y \in Field /\ p.x \in Nat /\ p.y \in Nat
  /\ Infinity.x \in Nat /\ Infinity.y \in Nat
<1>1. \A p \in Plane : p.x \in Field /\ p.y \in Field
  BY DEF Plane, Point
<1>2. Field \subseteq Nat
  BY Orders DEF Field
<1>3. /\ Curve \subseteq Plane
      /\ \A p \in Plane : IsOnCurve(p) => p \in Curve
      /\ \A p \in Curve : IsOnCurve(p)
  BY DEF Curve, Plane
<1>4. Infinity.x \in Nat /\ Infinity.y \in Nat
  BY DEF Infinity
<1> QED BY <1>1, <1>2, <1>3, <1>4

LEMMA PowerIsInField ==
  ASSUME NEW a \in Int, NEW e \in Nat
  PROVE  Power(a, e) \in Field
<1> DEFINE step == [v \in Field |-> (v * a) % FieldSize]
           F == CHOOSE pow : pow = [i \in Nat |-> IF i = 0 THEN 1 ELSE (pow[i - 1] * a) % FieldSize]
<1>0. \A z \in Int : z % FieldSize \in Field
  BY Orders DEF Field
<1>1. step \in [Field -> Field] /\ 1 \in Field /\ \A v \in Field : v * a \in Int
  <2>1. 1 \in Field /\ \A v \in Field : v * a \in Int
    BY Orders DEF Field
  <2> QED BY <2>1, <1>0
<1>2. PICK f : Steps(Field, 1, step, f)
  BY <1>1, StepsExist
<1>3. f = [i \in Nat |-> IF i = 0 THEN 1 ELSE (f[i - 1] * a) % FieldSize]
  <2>1. ASSUME NEW n \in Nat PROVE f[n] = IF n = 0 THEN 1 ELSE (f[n - 1] * a) % FieldSize
    <3>1. CASE n = 0
      BY <3>1, <1>2 DEF Steps
    <3>2. CASE n # 0
      <4>1. n - 1 \in Nat /\ (n - 1) + 1 = n
        BY <3>2
      <4>2. f[n] = step[f[n - 1]] /\ f[n - 1] \in Field
        BY <4>1, <1>2 DEF Steps
      <4> QED BY <4>2, <3>2
    <3> QED BY <3>1, <3>2
  <2>2. f \in [Nat -> Field]
    BY <1>2 DEF Steps
  <2> QED BY <2>1, <2>2
<1>4. F = [i \in Nat |-> IF i = 0 THEN 1 ELSE (F[i - 1] * a) % FieldSize]
  BY <1>3, Zenon
<1>5. Power(a, e) = F[e]
  BY Zenon DEF Power
<1> HIDE DEF F, step
<1> DEFINE T == {n \in Nat : F[n] \notin Field}
<1>6. ASSUME NEW n \in Nat PROVE F[n] = IF n = 0 THEN 1 ELSE (F[n - 1] * a) % FieldSize
  BY <1>4, Zenon
<1>7. T = {}
  <2>1. SUFFICES ASSUME T # {} PROVE FALSE
    OBVIOUS
  <2>2. PICK m \in T : \A l \in T : m <= l
    BY <2>1, Least
  <2>3. m \in Nat /\ m # 0
    BY <2>2, <1>1, <1>6
  <2>4. m - 1 \in Nat /\ ~ (m <= m - 1)
    BY <2>3
  <2>5. F[m - 1] \in Field
    BY <2>2, <2>4
  <2>6. F[m] = (F[m - 1] * a) % FieldSize
    BY <2>3, <1>6
  <2>7. F[m] \in Field
    BY <2>5, <2>6, <1>0, <1>1
  <2> QED BY <2>2, <2>7
<1> QED BY <1>5, <1>7

LEMMA CandidateIsInPlane ==
  ASSUME NEW x \in Field
  PROVE  CandidatePoint(x) \in Plane
<1> DEFINE a == YSquared(x)
           e == (FieldSize + 1) \div 4
           y == Power(a, e)
           z == IF y % 2 = 1 THEN FieldSize - y ELSE y
<1>1. a \in Int
  <2>1. x \in Int
    BY Orders DEF Field
  <2>2. x * x * x + 7 \in Int
    BY <2>1
  <2> HIDE DEF a
  <2>3. a = (x * x * x + 7) % FieldSize
    BY DEF a, YSquared
  <2> DEFINE w == x * x * x + 7
  <2> HIDE DEF w
  <2>4. w \in Int /\ a = w % FieldSize
    BY <2>2, <2>3 DEF w
  <2> QED BY <2>4, Orders, Remainders
<1>2. e \in Nat
  BY Orders
<1> HIDE DEF a, e
<1>3. y \in Field
  BY <1>1, <1>2, PowerIsInField
<1>4. CandidatePoint(x) = Point(x, z)
  BY DEF CandidatePoint, a, e
<1> HIDE DEF y
<1>5. z \in Field
  <2>1. CASE y = 0
    BY <2>1, <1>3, 0 % 2 = 0
  <2>2. CASE y # 0
    BY <2>2, <1>3, Orders DEF Field
  <2> QED BY <2>1, <2>2
<1> HIDE DEF z
<1> QED BY <1>4, <1>5 DEF Plane

\* The last 256 bits of anything hashed are a word.
KeccakIsAWord == \A words \in Seq(Nat) : Keccak(words) \in Hashes

LEMMA Concatenation ==
  ASSUME NEW s \in Seq(Nat), NEW t \in Seq(Nat)
  PROVE  s \o t \in Seq(Nat)
OBVIOUS

LEMMA WordsOfPoint ==
  ASSUME NEW p \in Points
  PROVE  Xy(p) \in Seq(Nat)
<1>1. p.x \in Nat /\ p.y \in Nat
  BY PlaneType DEF Points
<1> QED BY <1>1 DEF Xy

LEMMA AddressIsNumber ==
  ASSUME NEW p \in Curve
  PROVE  AddressOf(p) \in Nat
<1>1. HashSize \div Shift \in Int
  <2>1. HashSize \in Int /\ Shift \in Nat \ {0}
    BY CurveAssumption
  <2> QED BY <2>1, Remainders
<1>2. AddressOf(p) \in 0 .. HashSize \div Shift - 1
  BY CurveAssumption
<1> QED BY <1>1, <1>2

LEMMA ChallengeIsAWord ==
  ASSUME KeccakIsAWord, NEW a \in Points, NEW b \in Points, NEW c \in Points, NEW d \in Points,
         NEW e \in Nat
  PROVE  RawChallenge(a, b, c, e, d) \in Hashes
<1> DEFINE x1 == <<2>> \o Xy(a)
           x2 == x1 \o Xy(b)
           x3 == x2 \o Xy(c)
           x4 == x3 \o Xy(d)
<1>1. /\ Xy(a) \in Seq(Nat) /\ Xy(b) \in Seq(Nat) /\ Xy(c) \in Seq(Nat) /\ Xy(d) \in Seq(Nat)
      /\ <<2>> \in Seq(Nat) /\ <<e>> \in Seq(Nat)
  BY WordsOfPoint
<1>2. x1 \in Seq(Nat)
  BY <1>1, Concatenation
<1> HIDE DEF x1
<1>3. x2 \in Seq(Nat)
  BY <1>1, <1>2, Concatenation
<1> HIDE DEF x2
<1>4. x3 \in Seq(Nat)
  BY <1>1, <1>3, Concatenation
<1> HIDE DEF x3
<1>5. x4 \in Seq(Nat)
  BY <1>1, <1>4, Concatenation
<1> HIDE DEF x4
<1>6. x4 \o <<e>> \in Seq(Nat)
  BY <1>1, <1>5, Concatenation
<1>7. Keccak(x4 \o <<e>>) \in Hashes
  BY <1>6 DEF KeccakIsAWord
<1> QED BY <1>7, Zenon DEF RawChallenge, x1, x2, x3, x4

LEMMA HashOfPointsIsScalar ==
  ASSUME KeccakIsAWord, NEW a \in Points, NEW b \in Points, NEW c \in Points, NEW d \in Points,
         NEW e \in Points
  PROVE  HashPoints(a, b, c, d, e) \in Scalars
<1> DEFINE x0 == Xy(Generator)
           x1 == x0 \o Xy(a)
           x2 == x1 \o Xy(b)
           x3 == x2 \o Xy(c)
           x4 == x3 \o Xy(d)
<1>1. /\ Xy(a) \in Seq(Nat) /\ Xy(b) \in Seq(Nat) /\ Xy(c) \in Seq(Nat) /\ Xy(d) \in Seq(Nat)
      /\ Xy(e) \in Seq(Nat) /\ x0 \in Seq(Nat)
  BY WordsOfPoint, PointsType
<1> HIDE DEF x0
<1>2. x1 \in Seq(Nat)
  BY <1>1, Concatenation
<1> HIDE DEF x1
<1>3. x2 \in Seq(Nat)
  BY <1>1, <1>2, Concatenation
<1> HIDE DEF x2
<1>4. x3 \in Seq(Nat)
  BY <1>1, <1>3, Concatenation
<1> HIDE DEF x3
<1>5. x4 \in Seq(Nat)
  BY <1>1, <1>4, Concatenation
<1> HIDE DEF x4
<1>6. x4 \o Xy(e) \in Seq(Nat)
  BY <1>1, <1>5, Concatenation
<1>7. Keccak(x4 \o Xy(e)) \in Hashes
  BY <1>6 DEF KeccakIsAWord
<1>8. FromWord(Keccak(x4 \o Xy(e))) \in Scalars
  BY <1>7, WordIsScalar
<1> QED BY <1>8, Zenon DEF HashPoints, x0, x1, x2, x3, x4

LEMMA SeedIsHashed ==
  ASSUME KeccakIsAWord, NEW p \in Points, NEW seed \in Nat
  PROVE  /\ Keccak(<<1>> \o Xy(p) \o <<seed>>) \in Hashes
         /\ NewCandidatePoint(<<1>> \o Xy(p) \o <<seed>>) \in Plane
         /\ ContractHashToCurve(p, seed) \in Curve
<1> DEFINE words == <<1>> \o Xy(p) \o <<seed>>
<1>1. words \in Seq(Nat)
  <2> DEFINE x == <<1>> \o Xy(p)
  <2>1. Xy(p) \in Seq(Nat) /\ <<1>> \in Seq(Nat) /\ <<seed>> \in Seq(Nat)
    BY WordsOfPoint
  <2>2. x \in Seq(Nat)
    BY <2>1, Concatenation
  <2> HIDE DEF x
  <2>3. x \o <<seed>> \in Seq(Nat)
    BY <2>1, <2>2, Concatenation
  <2> QED BY <2>3 DEF x
<1>2. ContractHashToCurve(p, seed) = FirstOnCurve[Keccak(words)]
  BY Zenon DEF ContractHashToCurve
<1> HIDE DEF words
<1>3. Keccak(words) \in Hashes
  BY <1>1 DEF KeccakIsAWord
<1>4. FirstOnCurve[Keccak(words)] \in Curve
  BY <1>3, ContractReachesTheCurve
<1>5. FieldHash(words) \in Field
  <2>1. FieldHash(words) \in Scalars
    BY <1>3, WordIsScalar DEF FieldHash
  <2> QED BY <2>1, Orders DEF Scalars, Field
<1>6. NewCandidatePoint(words) \in Plane
  BY <1>5, CandidateIsInPlane DEF NewCandidatePoint
<1>7. words = <<1>> \o Xy(p) \o <<seed>>
  BY DEF words
<1> QED BY <1>2, <1>3, <1>4, <1>6, <1>7, Zenon

LEMMA CoordinateIsHashed ==
  ASSUME KeccakIsAWord, NEW x \in Nat
  PROVE  NewCandidatePoint(<<x>>) \in Plane
<1> DEFINE words == <<x>>
<1>1. words \in Seq(Nat)
  OBVIOUS
<1> HIDE DEF words
<1>2. Keccak(words) \in Hashes
  BY <1>1 DEF KeccakIsAWord
<1>3. FieldHash(words) \in Field
  <2>1. FieldHash(words) \in Scalars
    BY <1>2, WordIsScalar DEF FieldHash
  <2> QED BY <2>1, Orders DEF Scalars, Field
<1>4. NewCandidatePoint(words) \in Plane
  BY <1>3, CandidateIsInPlane DEF NewCandidatePoint
<1> QED BY <1>4 DEF words

(***************************************************************************)
(* The invariant of a proof.                                               *)
(***************************************************************************)
\* The seed is hashed to the point hash, on the way of each prover.
HashedBy(way, key, seed, hash) ==
  \/ way = "contract" /\ hash \in Curve
  \/ way = "ordinary" /\ hash = HashToCurve(seed, EcMultGen(key))

\* The proof pf of the point hash, with a key and a nonce.
Responds(key, hash, nonce, pf) ==
  /\ {"gamma", "c", "s", "y"} \subseteq DOMAIN pf
  /\ pf.gamma = EcMult(hash, key)
  /\ pf.c \in Scalars
  /\ pf.s = (nonce - pf.c * key) % GroupOrder

MadeOrdinary(key, hash, nonce, pf) ==
  pf.c = HashPoints(hash, EcMultGen(key), pf.gamma, EcMultGen(nonce), EcMult(hash, nonce))

MadeForContract(key, hash, nonce, pf) ==
  LET kg == EcMultGen(nonce) IN
  /\ pf.c = FromWord(RawChallenge(hash, EcMultGen(key), pf.gamma, AddressOf(kg),
                                  EcMult(hash, nonce)))
  /\ pf.witness_address = WitnessScalar(kg)
  /\ pf.witness_gamma = EcMult(pf.gamma, pf.c)
  /\ pf.witness_hash = EcMult(hash, pf.s)
  /\ pf.inverse_z = Inv(ProjectiveEcAdd(pf.witness_gamma, pf.witness_hash).z)
  /\ pf.y = Output(pf.gamma)

Made(way, key, hash, nonce, pf) ==
  /\ nonce # 0
  /\ Responds(key, hash, nonce, pf)
  /\ way = "ordinary" => MadeOrdinary(key, hash, nonce, pf)
  /\ way = "contract" => MadeForContract(key, hash, nonce, pf)

VrfInv ==
  /\ sk \in SecretKeys /\ alpha \in Scalars /\ k \in Scalars
  /\ pc \in {"idle", "hash", "draw", "nonce", "RetriesExceeded",
             "proved", "accepted", "refused", "panicked", "confirmed", "denied"}
  /\ pc = "hash" => kind = "contract" /\ h \in Plane
  /\ pc \notin {"idle", "hash"} => HashedBy(kind, sk, alpha, h)
  /\ pc \in {"proved", "accepted", "refused", "panicked", "confirmed", "denied"} =>
       Made(kind, sk, h, k, proof)
  /\ pc = "proved" => proof.y = Output(proof.gamma)

LEMMA KeysType ==
  ASSUME VrfInv
  PROVE  /\ sk \in 1 .. GroupOrder - 1 /\ sk \in Nat /\ Pk \in Curve /\ Pk \in Points
         /\ alpha \in Nat /\ k \in Nat
<1>1. sk \in Scalars \ {0} /\ alpha \in Scalars /\ k \in Scalars
  BY EcVrfAssumption DEF VrfInv
<1>2. sk \in 1 .. GroupOrder - 1 /\ sk \in Nat /\ alpha \in Nat /\ k \in Nat
  BY <1>1, Orders DEF Scalars
<1>3. Pk \in Curve
  <2>1. Generator \in Curve
    BY CurveAssumption
  <2> QED BY <2>1, <1>2, CurveMultiple DEF Pk, EcMultGen
<1> QED BY <1>2, <1>3, PointsType

LEMMA HashedIsPoint ==
  ASSUME NEW way, NEW key \in Nat, NEW seed \in Nat, NEW hash, HashedBy(way, key, seed, hash)
  PROVE  hash \in Points
<1>1. CASE hash \in Curve
  BY <1>1, PointsType
<1>2. CASE hash = HashToCurve(seed, EcMultGen(key))
  <2>1. EcMultGen(seed) \in Points /\ EcMultGen(key) \in Points
    BY SumsOfPoint, PointsType DEF EcMultGen
  <2> QED BY <2>1, <1>2, GroupAssumption DEF HashToCurve
<1> QED BY <1>1, <1>2 DEF HashedBy

LEMMA InitVrf ==
  ASSUME Init
  PROVE  VrfInv
<1>1. 0 \in Scalars
  BY Orders DEF Scalars
<1> QED BY <1>1 DEF Init, VrfInv

LEMMA HashStep ==
  ASSUME KeccakIsAWord, VrfInv,
         \/ \E seed \in Alphas : ProveContract(seed) \/ Prove(seed)
         \/ NextCandidate
         \/ OnCurve
  PROVE  VrfInv'
<1>0. Pk \in Points /\ Pk \in Curve /\ sk \in Nat
  BY KeysType
<1>1. ASSUME NEW seed \in Alphas, ProveContract(seed) PROVE VrfInv'
  <2>1. seed \in Scalars /\ seed \in Nat
    BY EcVrfAssumption, Orders DEF Scalars
  <2>2. h' \in Plane
    <3>1. h' = NewCandidatePoint(<<1>> \o Xy(Pk) \o <<seed>>)
      BY <1>1 DEF ProveContract
    <3> QED BY <3>1, <2>1, <1>0, SeedIsHashed, Zenon
  <2>3. pc' = "hash" /\ kind' = "contract" /\ alpha' = seed /\ sk' = sk /\ k' = k
    BY <1>1 DEF ProveContract
  <2> QED BY <2>1, <2>2, <2>3 DEF VrfInv
<1>2. ASSUME NEW seed \in Alphas, Prove(seed) PROVE VrfInv'
  <2>1. seed \in Scalars
    BY EcVrfAssumption
  <2>2. /\ pc' = "draw" /\ kind' = "ordinary" /\ alpha' = seed /\ sk' = sk /\ k' = k
        /\ h' = HashToCurve(seed, EcMultGen(sk))
    BY <1>2 DEF Prove, Pk
  <2>3. HashedBy(kind', sk', alpha', h')
    BY <2>2 DEF HashedBy
  <2> QED BY <2>1, <2>2, <2>3 DEF VrfInv
<1>3. CASE NextCandidate
  <2>1. pc = "hash" /\ UNCHANGED <<pc, kind, sk, alpha, k>> /\ h' = NewCandidatePoint(<<h.x>>)
    BY <1>3 DEF NextCandidate
  <2>2. h.x \in Nat
    BY <2>1, PlaneType DEF VrfInv
  <2>3. h' \in Plane
    BY <2>1, <2>2, CoordinateIsHashed
  <2> QED BY <2>1, <2>3 DEF VrfInv
<1>4. CASE OnCurve
  <2>1. pc = "hash" /\ IsOnCurve(h) /\ pc' = "draw" /\ UNCHANGED <<kind, sk, alpha, h, k>>
    BY <1>4 DEF OnCurve
  <2>2. h \in Curve /\ kind = "contract"
    BY <2>1, PlaneType DEF VrfInv
  <2>3. HashedBy(kind', sk', alpha', h')
    BY <2>1, <2>2 DEF HashedBy
  <2> QED BY <2>1, <2>3 DEF VrfInv
<1> QED BY <1>1, <1>2, <1>3, <1>4

LEMMA NonceStep ==
  ASSUME VrfInv, (\E word \in Draws : Draw(word)) \/ Retry \/ RetriesExceeded
  PROVE  VrfInv'
<1>1. /\ UNCHANGED <<kind, sk, alpha, h>> /\ pc \in {"draw", "nonce"} /\ k' \in Scalars
      /\ pc' \in {"draw", "nonce", "RetriesExceeded"}
  <2>1. ASSUME NEW word \in Draws, Draw(word) PROVE k' \in Scalars
    BY <2>1, EcVrfAssumption, WordIsScalar DEF Draw
  <2> QED BY <2>1 DEF Draw, Retry, RetriesExceeded, VrfInv
<1>2. HashedBy(kind, sk, alpha, h)
  BY <1>1 DEF VrfInv
<1>3. HashedBy(kind', sk', alpha', h')
  BY <1>1, <1>2
<1> QED BY <1>1, <1>3 DEF VrfInv

LEMMA ProofStep ==
  ASSUME KeccakIsAWord, VrfInv, ContractProof \/ OrdinaryProof
  PROVE  VrfInv'
<1>0. /\ Pk \in Points /\ Pk \in Curve /\ sk \in Nat /\ alpha \in Nat /\ k \in Nat
      /\ Pk = EcMultGen(sk)
  BY KeysType DEF Pk
<1>1. /\ pc = "nonce" /\ k # 0 /\ pc' = "proved" /\ UNCHANGED <<kind, sk, alpha, h, k>>
  BY DEF ContractProof, OrdinaryProof, IsBadNonce
<1>2. HashedBy(kind, sk, alpha, h)
  BY <1>1 DEF VrfInv
<1>3. HashedBy(kind', sk', alpha', h')
  BY <1>1, <1>2
<1>4. h \in Points
  BY <1>0, <1>2, HashedIsPoint
<1> DEFINE gamma == EcMult(h, sk)
           kg == EcMultGen(k)
           kh == EcMult(h, k)
<1>5. gamma \in Points /\ kg \in Points /\ kh \in Points
  BY <1>0, <1>4, SumsOfPoint, PointsType DEF EcMultGen
<1>6. kg \in Curve
  <2>1. k \in 1 .. GroupOrder - 1 /\ Generator \in Curve
    BY <1>0, <1>1, Orders, CurveAssumption DEF VrfInv, Scalars
  <2> QED BY <2>1, CurveMultiple DEF EcMultGen
<1>7. AddressOf(kg) \in Nat
  BY <1>6, AddressIsNumber
<1>8. Made(kind, sk, h, k, proof') /\ proof'.y = Output(proof'.gamma)
  <2>1. CASE ContractProof
    <3> DEFINE c == FromWord(RawChallenge(h, Pk, gamma, AddressOf(kg), kh))
               s == Response(c)
               wg == EcMult(gamma, c)
               wh == EcMult(h, s)
               z == Inv(ProjectiveEcAdd(wg, wh).z)
               y == Output(gamma)
               w == WitnessScalar(kg)
    <3>1. /\ kind = "contract"
          /\ proof' = [gamma |-> gamma, c |-> c, s |-> s, y |-> y, witness_address |-> w,
                       witness_gamma |-> wg, witness_hash |-> wh, inverse_z |-> z]
      BY <2>1 DEF ContractProof
    <3>2. c \in Scalars
      <4> HIDE DEF gamma, kg, kh
      <4> QED BY <1>0, <1>4, <1>5, <1>7, ChallengeIsAWord, WordIsScalar
    <3>3. s = (k - c * sk) % GroupOrder
      BY DEF Response
    <3> HIDE DEF c, s, wg, wh, z, y, w, gamma, kg, kh
    <3>4. /\ proof'.gamma = gamma /\ proof'.c = c /\ proof'.s = s /\ proof'.y = y
          /\ proof'.witness_address = w /\ proof'.witness_gamma = wg /\ proof'.witness_hash = wh
          /\ proof'.inverse_z = z
          /\ {"gamma", "c", "s", "y"} \subseteq DOMAIN proof'
      BY <3>1
    <3>5. Responds(sk, h, k, proof')
      BY <3>2, <3>3, <3>4 DEF Responds, gamma
    <3>6. MadeForContract(sk, h, k, proof')
      BY <1>0, <3>4, Zenon DEF MadeForContract, c, wg, wh, z, y, w, kg, kh
    <3>7. proof'.y = Output(proof'.gamma)
      BY <3>4 DEF y
    <3> QED BY <1>1, <3>1, <3>5, <3>6, <3>7 DEF Made
  <2>2. CASE OrdinaryProof
    <3> DEFINE c == HashPoints(h, Pk, gamma, kg, kh)
               s == Response(c)
               y == Output(gamma)
    <3>1. /\ kind = "ordinary"
          /\ proof' = [NoProof EXCEPT !.gamma = gamma, !.c = c, !.s = s, !.y = y]
      BY <2>2 DEF OrdinaryProof
    <3>2. c \in Scalars
      <4> HIDE DEF gamma, kg, kh
      <4> QED BY <1>0, <1>4, <1>5, HashOfPointsIsScalar
    <3>3. s = (k - c * sk) % GroupOrder
      BY DEF Response
    <3> HIDE DEF c, s, y, gamma, kg, kh
    <3>4. /\ proof'.gamma = gamma /\ proof'.c = c /\ proof'.s = s /\ proof'.y = y
          /\ {"gamma", "c", "s", "y"} \subseteq DOMAIN proof'
      BY <3>1 DEF NoProof
    <3>5. Responds(sk, h, k, proof')
      BY <3>2, <3>3, <3>4 DEF Responds, gamma
    <3>6. MadeOrdinary(sk, h, k, proof')
      BY <1>0, <3>4, Zenon DEF MadeOrdinary, c, kg, kh
    <3>7. proof'.y = Output(proof'.gamma)
      BY <3>4 DEF y
    <3> QED BY <1>1, <3>1, <3>5, <3>6, <3>7 DEF Made
  <2> QED BY <2>1, <2>2
<1>9. Made(kind', sk', h', k', proof')
  BY <1>1, <1>8
<1>10. proof'.y = Output(proof'.gamma)
  BY <1>8
<1>11. (proof.y = Output(proof.gamma))'
  BY <1>10
<1> QED BY <1>1, <1>3, <1>9, <1>11 DEF VrfInv

LEMMA OutcomeStep ==
  ASSUME VrfInv, (\E y \in {proof.y, (proof.y + 1) % GroupOrder} : Verify(y)) \/ InvalidGamma \/ EvmVerify
  PROVE  VrfInv'
<1>1. /\ pc = "proved" /\ pc' \in {"accepted", "refused", "panicked", "confirmed", "denied"}
      /\ UNCHANGED <<kind, sk, alpha, h, k>>
  BY DEF Verify, InvalidGamma, EvmVerify
<1>2. HashedBy(kind, sk, alpha, h) /\ Made(kind, sk, h, k, proof)
  BY <1>1 DEF VrfInv
<1>3. HashedBy(kind', sk', alpha', h')
  BY <1>1, <1>2
<1>4. Made(kind, sk, h, k, proof')
  <2>1. ASSUME NEW y, Verify(y) PROVE Made(kind, sk, h, k, proof')
    <3>1. kind = "ordinary" /\ proof' = [proof EXCEPT !.y = y]
      BY <2>1 DEF Verify
    <3>2. /\ proof'.gamma = proof.gamma /\ proof'.c = proof.c /\ proof'.s = proof.s
          /\ DOMAIN proof' = DOMAIN proof
      BY <3>1, <1>2 DEF Made, Responds
    <3>3. Responds(sk, h, k, proof')
      BY <1>2, <3>2 DEF Made, Responds
    <3>4. MadeOrdinary(sk, h, k, proof')
      BY <1>2, <3>1, <3>2 DEF Made, MadeOrdinary
    <3> QED BY <1>2, <3>1, <3>3, <3>4 DEF Made
  <2>2. CASE InvalidGamma \/ EvmVerify
    <3>1. proof' = proof
      BY <2>2 DEF InvalidGamma, EvmVerify
    <3> QED BY <3>1, <1>2
  <2> QED BY <2>1, <2>2
<1>5. Made(kind', sk', h', k', proof')
  BY <1>1, <1>4
<1> QED BY <1>1, <1>3, <1>5 DEF VrfInv

LEMMA VrfStep ==
  ASSUME KeccakIsAWord, VrfInv, [Next]_vars
  PROVE  VrfInv'
<1>1. CASE Next
  BY <1>1, HashStep, NonceStep, ProofStep, OutcomeStep, Zenon DEF Next
<1>2. CASE UNCHANGED vars
  BY <1>2 DEF vars, VrfInv
<1> QED BY <1>1, <1>2

LEMMA SpecKeepsVrfInv == KeccakIsAWord => (Spec => []VrfInv)
<1> SUFFICES ASSUME KeccakIsAWord PROVE Spec => []VrfInv
  OBVIOUS
<1>1. Init => VrfInv
  BY InitVrf
<1>2. VrfInv /\ [Next]_vars => VrfInv'
  BY VrfStep
<1> QED BY <1>1, <1>2, PTL DEF Spec

(***************************************************************************)
(* What a proof is worth.                                                  *)
(***************************************************************************)
\* The response of a proof, and the multiples that the verifier computes from it.
LEMMA ProofAnswers ==
  ASSUME NEW key \in Nat, NEW hash \in Points, NEW nonce \in Scalars, NEW pf,
         Responds(key, hash, nonce, pf)
  PROVE  /\ pf.s \in Scalars /\ pf.s \in Nat /\ pf.c \in Nat
         /\ (pf.s + pf.c * key) % GroupOrder = nonce
         /\ pf.gamma = EcMult(hash, key) /\ pf.gamma \in Points
         /\ \A p \in Points :
              Add(EcMult(EcMult(p, key), pf.c), EcMult(p, pf.s)) = EcMult(p, nonce)
<1> DEFINE c == pf.c
           s == pf.s
<1>1. c \in Nat /\ s = (nonce - c * key) % GroupOrder /\ nonce \in Nat
  BY Orders DEF Responds, Scalars
<1>6. pf.gamma = EcMult(hash, key) /\ pf.gamma \in Points
  BY SumsOfPoint DEF Responds
<1> HIDE DEF c, s
<1>2. /\ s \in Scalars /\ c * key \in Nat /\ (s + c * key) % GroupOrder = nonce
      /\ \E m \in Nat : s + c * key = nonce + GroupOrder * m
  BY <1>1, ResponseIs
<1>3. s \in Nat
  BY <1>2, Orders DEF Scalars
<1>4. PICK m \in Nat : s + c * key = nonce + GroupOrder * m
  BY <1>2
<1>5. ASSUME NEW p \in Points
      PROVE  Add(EcMult(EcMult(p, key), c), EcMult(p, s)) = EcMult(p, nonce)
  <2> DEFINE x == key * c
             a == x + s
  <2>1. x \in Nat /\ a \in Nat /\ a = nonce + GroupOrder * m
    BY <1>1, <1>2, <1>3, <1>4
  <2>2. EcMult(EcMult(p, key), c) = EcMult(p, x)
    BY <1>1, MultipleOfMultiple
  <2> HIDE DEF x
  <2>3. EcMult(p, a) = Add(EcMult(p, x), EcMult(p, s))
    BY <2>1, <1>3, SumOfMultiples
  <2> HIDE DEF a
  <2>4. EcMult(p, a) = EcMult(p, nonce)
    BY <2>1, <1>1, ReducedMultiple
  <2> QED BY <2>2, <2>3, <2>4
<1> QED BY <1>1, <1>2, <1>3, <1>5, <1>6 DEF c, s

\* In every state with a proof, the nonce is what the response and the challenge make up, and
\* it is not zero, so that the response is never that of a key alone (the loop that draws the
\* nonce in prove and prove_contract).
THEOREM NoncesHideKeys == KeccakIsAWord => (Spec => []NonceHidesKey)
<1> SUFFICES ASSUME KeccakIsAWord PROVE Spec => []NonceHidesKey
  OBVIOUS
<1>1. VrfInv => NonceHidesKey
  <2> SUFFICES ASSUME VrfInv, pc \in {"proved", "accepted", "refused", "confirmed", "denied"}
               PROVE  (proof.s + proof.c * sk) % GroupOrder # 0
    BY DEF NonceHidesKey
  <2>1. Made(kind, sk, h, k, proof) /\ HashedBy(kind, sk, alpha, h)
    BY DEF VrfInv
  <2>2. k # 0 /\ k \in Scalars /\ Responds(sk, h, k, proof)
    BY <2>1 DEF Made, VrfInv
  <2>3. sk \in Nat /\ alpha \in Nat
    BY KeysType
  <2>4. h \in Points
    BY <2>1, <2>3, HashedIsPoint
  <2> QED BY <2>2, <2>3, <2>4, ProofAnswers
<1> QED BY <1>1, SpecKeepsVrfInv, PTL

(***************************************************************************)
(* The ordinary verifier.                                                  *)
(***************************************************************************)
LEMMA GammaOfInfinity ==
  ASSUME VrfInv, pc = "proved", kind = "ordinary", proof.gamma.infinity
  PROVE  (alpha + sk) % GroupOrder = 0
<1>1. /\ sk \in 1 .. GroupOrder - 1 /\ sk \in Nat /\ alpha \in Nat
      /\ Generator \in Curve /\ Generator \in Points
  BY KeysType, PointsType, CurveAssumption
<1>2. proof.gamma = EcMult(h, sk) /\ h = HashToCurve(alpha, EcMultGen(sk)) /\ h \in Points
  <2>1. Made(kind, sk, h, k, proof) /\ HashedBy(kind, sk, alpha, h)
    BY DEF VrfInv
  <2> QED BY <2>1, <1>1, HashedIsPoint DEF Made, Responds, HashedBy
<1>3. h \notin Curve
  <2>1. ASSUME h \in Curve PROVE FALSE
    <3>1. EcMult(h, sk) \in Curve
      BY <2>1, <1>1, CurveMultiple
    <3> QED BY <3>1, <1>2, PointsType
  <2> QED BY <2>1
<1>4. EcMult(Generator, alpha + sk) = Infinity
  <2>1. EcMult(Generator, alpha + sk) = Add(EcMult(Generator, alpha), EcMult(Generator, sk))
    BY <1>1, SumOfMultiples
  <2> QED BY <2>1, <1>2, <1>3 DEF Points, HashToCurve, EcMultGen
<1> DEFINE a == alpha + sk
           r == a % GroupOrder
<1>5. a \in Nat
  BY <1>1
<1> HIDE DEF a
<1>6. EcMult(Generator, r) = Infinity /\ r \in 0 .. GroupOrder - 1
  <2>1. EcMult(Generator, a) = EcMult(Generator, r)
    BY <1>1, <1>5, RemainderMultiple
  <2>2. r \in 0 .. GroupOrder - 1
    BY <1>5, Orders, Remainders
  <2> QED BY <2>1, <2>2, <1>4 DEF a
<1> HIDE DEF r
<1>7. r = 0
  <2>1. ASSUME r # 0 PROVE FALSE
    <3>1. r \in 1 .. GroupOrder - 1
      BY <2>1, <1>6, Orders
    <3> QED BY <3>1, <1>1, <1>6, GroupAssumption
  <2> QED BY <2>1
<1> QED BY <1>7 DEF r, a

\* The verifier computes the challenge of the prover.
LEMMA ChallengeIsFound ==
  ASSUME VrfInv, pc = "proved", kind = "ordinary"
  PROVE  LET u == Add(EcMult(Pk, proof.c), EcMultGen(proof.s))
             v == Add(EcMult(proof.gamma, proof.c), EcMult(HashToCurve(alpha, Pk), proof.s))
         IN HashPoints(HashToCurve(alpha, Pk), Pk, proof.gamma, u, v) = proof.c
<1>1. /\ sk \in Nat /\ alpha \in Nat /\ k \in Scalars
      /\ Generator \in Points
  BY KeysType, PointsType DEF VrfInv
<1>2. /\ h = HashToCurve(alpha, Pk) /\ h \in Points /\ Responds(sk, h, k, proof)
      /\ proof.c = HashPoints(h, Pk, proof.gamma, EcMultGen(k), EcMult(h, k))
  <2>1. Made(kind, sk, h, k, proof) /\ HashedBy(kind, sk, alpha, h)
    BY DEF VrfInv
  <2>2. h \in Points
    BY <2>1, <1>1, HashedIsPoint
  <2>3. h = HashToCurve(alpha, Pk)
    BY <2>1 DEF HashedBy, Pk
  <2> QED BY <2>1, <2>2, <2>3 DEF Made, MadeOrdinary, Pk
<1>3. /\ proof.gamma = EcMult(h, sk)
      /\ \A p \in Points :
           Add(EcMult(EcMult(p, sk), proof.c), EcMult(p, proof.s)) = EcMult(p, k)
  BY <1>1, <1>2, ProofAnswers
<1>4. Add(EcMult(Pk, proof.c), EcMultGen(proof.s)) = EcMultGen(k)
  BY <1>1, <1>3 DEF Pk, EcMultGen
<1>5. Add(EcMult(proof.gamma, proof.c), EcMult(h, proof.s)) = EcMult(h, k)
  BY <1>2, <1>3
<1> QED BY <1>2, <1>4, <1>5

LEMMA VerifyStep ==
  ASSUME VrfInv, VrfInv', ProofsVerify, [Next]_vars
  PROVE  ProofsVerify'
<1>1. CASE pc' \notin {"accepted", "refused", "panicked"}
  BY <1>1 DEF ProofsVerify
<1>2. ASSUME NEW y, Verify(y) PROVE ProofsVerify'
  <2>1. /\ pc = "proved" /\ kind = "ordinary" /\ UNCHANGED <<kind, sk, alpha, h, k>>
        /\ proof' = [proof EXCEPT !.y = y]
        /\ pc' = IF Output(proof.gamma) = y THEN "accepted" ELSE "refused"
    BY <1>2, ChallengeIsFound DEF Verify
  <2>2. Made(kind, sk, h, k, proof) /\ HashedBy(kind, sk, alpha, h)
    BY <2>1 DEF VrfInv
  <2>3. proof'.y = y /\ proof'.gamma = proof.gamma /\ proof.gamma = EcMult(h, sk)
    BY <2>1, <2>2 DEF Made, Responds
  <2>4. h = HashToCurve(alpha, Pk)
    BY <2>1, <2>2 DEF HashedBy, Pk
  <2>5. alpha' = alpha /\ Pk' = Pk /\ sk' = sk
    BY <2>1 DEF Pk
  <2>6. CASE Output(proof.gamma) = y
    BY <2>1, <2>3, <2>4, <2>5, <2>6 DEF ProofsVerify
  <2>7. CASE Output(proof.gamma) # y
    BY <2>1, <2>3, <2>7 DEF ProofsVerify
  <2> QED BY <2>6, <2>7
<1>3. CASE InvalidGamma
  <2>1. /\ pc = "proved" /\ pc' = "panicked" /\ alpha' = alpha /\ sk' = sk
        /\ (alpha + sk) % GroupOrder = 0
    BY <1>3, GammaOfInfinity DEF InvalidGamma
  <2> QED BY <2>1 DEF ProofsVerify
<1>4. CASE UNCHANGED vars
  BY <1>4 DEF vars, ProofsVerify, Pk
<1>5. CASE Next /\ pc' \in {"accepted", "refused", "panicked"}
  <2>1. (\E y \in {proof.y, (proof.y + 1) % GroupOrder} : Verify(y)) \/ InvalidGamma
    BY <1>5 DEF Next, ProveContract, Prove, NextCandidate, OnCurve, Draw, Retry, RetriesExceeded,
                ContractProof, OrdinaryProof, EvmVerify
  <2> QED BY <2>1, <1>2, <1>3
<1> QED BY <1>1, <1>4, <1>5

\* The verifier accepts the value of every proof of the ordinary prover, and that value only,
\* for every key, seed and nonce; the one seed that is hashed to infinity is the negative of
\* the key (ECVRF::prove and verify).
THEOREM EveryProofVerifies == KeccakIsAWord => (Spec => []ProofsVerify)
<1> SUFFICES ASSUME KeccakIsAWord PROVE Spec => []ProofsVerify
  OBVIOUS
<1>1. Init => ProofsVerify
  BY DEF Init, ProofsVerify
<1>2. VrfInv /\ VrfInv' /\ ProofsVerify /\ [Next]_vars => ProofsVerify'
  BY VerifyStep
<1> QED BY <1>1, <1>2, SpecKeepsVrfInv, PTL DEF Spec

(***************************************************************************)
(* The field.                                                              *)
(***************************************************************************)
Times(a, b) == (a * b) % FieldSize

LEMMA FieldType ==
  /\ Field \subseteq Int /\ 0 \in Field /\ 1 \in Field
  /\ \A a \in Int : a % FieldSize \in Field
  /\ \A a \in Field : a % FieldSize = a
<1>1. Field = 0 .. FieldSize - 1
  BY DEF Field
<1>2. \A a \in Int : a % FieldSize \in Field
  BY <1>1, Orders, Remainders
<1>3. \A a \in Field : a % FieldSize = a
  BY <1>1, Orders, SmallRemainder
<1> QED BY <1>1, <1>2, <1>3, Orders

\* A factor may be reduced first.
LEMMA ReducedFactor ==
  ASSUME NEW a \in Int, NEW b \in Int
  PROVE  (a * b) % FieldSize = Times(a % FieldSize, b)
<1> DEFINE r == a % FieldSize
<1>1. r \in Int /\ Same(FieldSize, a, r) /\ FieldSize \in Nat /\ FieldSize \in Nat \ {0}
  BY Orders, SameRemainder
<1> HIDE DEF r
<1> DEFINE x == a * b
           y == r * b
<1>2. Same(FieldSize, x, y) /\ x \in Int /\ y \in Int
  <2>1. Same(FieldSize, a * b, r * b)
    BY ONLY <1>1, a \in Int, b \in Int, SameProduct
  <2>2. x \in Int /\ y \in Int
    BY <1>1
  <2> QED BY <2>1, <2>2
<1>4. Times(r, b) = y % FieldSize
  BY DEF Times
<1> HIDE DEF x, y
<1>3. x % FieldSize = y % FieldSize
  BY <1>1, <1>2, SameIsEqualRemainders
<1> QED BY <1>3, <1>4 DEF x, r

LEMMA TimesType ==
  ASSUME NEW a \in Field, NEW b \in Field
  PROVE  /\ Times(a, b) \in Field /\ Times(a, b) = Times(b, a)
         /\ Times(a, 1) = a /\ Times(a, 0) = 0
<1>1. a \in Int /\ b \in Int
  BY FieldType
<1>2. a * b \in Int /\ a * b = b * a /\ a * 1 = a /\ a * 0 = 0
  BY <1>1
<1>3. Times(a, b) \in Field
  BY <1>2, FieldType DEF Times
<1>4. Times(a, b) = Times(b, a)
  BY <1>2 DEF Times
<1>5. Times(a, 1) = a /\ Times(a, 0) = 0
  BY <1>2, FieldType DEF Times
<1> QED BY <1>3, <1>4, <1>5

LEMMA TimesIsAssociative ==
  ASSUME NEW a \in Field, NEW b \in Field, NEW c \in Field
  PROVE  Times(Times(a, b), c) = Times(a, Times(b, c))
<1>1. a \in Int /\ b \in Int /\ c \in Int
  BY FieldType
<1> DEFINE x == a * b
           y == b * c
<1>2. x \in Int /\ y \in Int /\ x * c = y * a
  <2>1. \A i, j, l \in Int : (i * j) * l = (j * l) * i
    OBVIOUS
  <2>2. (a * b) * c = (b * c) * a
    BY <2>1, <1>1
  <2> QED BY <2>2, <1>1
<1>3. Times(a, b) = x % FieldSize /\ Times(b, c) = y % FieldSize
  BY DEF Times
<1> HIDE DEF x, y
<1>4. (x * c) % FieldSize = Times(x % FieldSize, c)
  BY <1>1, <1>2, ReducedFactor
<1>5. (y * a) % FieldSize = Times(y % FieldSize, a)
  BY <1>1, <1>2, ReducedFactor
<1>6. Times(Times(b, c), a) = Times(a, Times(b, c))
  BY TimesType
<1> QED BY <1>2, <1>3, <1>4, <1>5, <1>6

LEMMA InverseIs ==
  ASSUME NEW a \in Field, a # 0
  PROVE  Inv(a) \in Field /\ Times(a, Inv(a)) = 1
<1>1. \E b \in Field : (a * b) % FieldSize = 1
  BY FieldAssumption
<1>2. Inv(a) = CHOOSE b \in Field : (a * b) % FieldSize = 1
  BY DEF Inv
<1> HIDE DEF Inv
<1>3. Inv(a) \in Field /\ (a * Inv(a)) % FieldSize = 1
  BY <1>1, <1>2, Zenon
<1> QED BY <1>3 DEF Times

LEMMA NoZeroDivisors ==
  ASSUME NEW a \in Field, NEW b \in Field, a # 0, b # 0
  PROVE  Times(a, b) # 0
<1> DEFINE c == Inv(a)
<1>1. c \in Field /\ Times(a, c) = 1
  BY InverseIs
<1> HIDE DEF c
<1>2. ASSUME Times(a, b) = 0 PROVE FALSE
  <2>1. Times(c, Times(a, b)) = 0
    BY <1>1, <1>2, TimesType
  <2>2. Times(c, Times(a, b)) = Times(Times(c, a), b)
    BY <1>1, TimesIsAssociative
  <2>3. Times(c, a) = 1 /\ Times(1, b) = b
    BY <1>1, TimesType, FieldType
  <2> QED BY <2>1, <2>2, <2>3
<1> QED BY <1>2

LEMMA ReducedFactors ==
  ASSUME NEW a \in Int, NEW b \in Int
  PROVE  (a * b) % FieldSize = Times(a % FieldSize, b % FieldSize)
<1> DEFINE r == a % FieldSize
           q == b % FieldSize
<1>1. r \in Field /\ q \in Field /\ r \in Int /\ q \in Int
  BY FieldType
<1>2. (a * b) % FieldSize = Times(r, b)
  BY ReducedFactor
<1>3. (b * r) % FieldSize = Times(q, r)
  <2> HIDE DEF r
  <2> QED BY <1>1, ReducedFactor
<1> HIDE DEF r, q
<1>4. Times(r, b) = (b * r) % FieldSize
  <2>1. r * b = b * r
    BY <1>1
  <2> QED BY <2>1 DEF Times
<1>5. Times(q, r) = Times(r, q)
  BY <1>1, TimesType
<1> QED BY <1>2, <1>3, <1>4, <1>5 DEF r, q

LEMMA Denominators ==
  ASSUME NEW u, NEW v, NEW w
  PROVE  /\ ProjectiveSub(u, v)[2] = Times(u[2], v[2])
         /\ ProjectiveMul(u, v)[2] = Times(u[2], v[2])
         /\ <<w, 1>>[2] = 1
BY DEF ProjectiveSub, ProjectiveMul, Times

LEMMA FifthPower ==
  ASSUME NEW e \in Int, NEW d, d = e % FieldSize
  PROVE  (e * e * e * e * e) % FieldSize = Times(Times(Times(Times(d, d), d), d), d)
<1>1. d \in Field
  BY FieldType
<1> DEFINE e2 == e * e
           e3 == e2 * e
           e4 == e3 * e
           e5 == e4 * e
<1>2. e2 \in Int /\ e2 % FieldSize = Times(d, d)
  BY ReducedFactors
<1> HIDE DEF e2
<1>3. e3 \in Int /\ e3 % FieldSize = Times(Times(d, d), d)
  BY <1>2, ReducedFactors
<1> HIDE DEF e3
<1>4. e4 \in Int /\ e4 % FieldSize = Times(Times(Times(d, d), d), d)
  BY <1>3, ReducedFactors
<1> HIDE DEF e4
<1>5. e5 % FieldSize = Times(Times(Times(Times(d, d), d), d), d)
  BY <1>4, ReducedFactors
<1>6. e5 = e * e * e * e * e
  BY Zenon DEF e2, e3, e4
<1> HIDE DEF e5
<1> QED BY <1>5, <1>6

\* The prover's and the contract's common denominators of a sum are the same.
LEMMA DenominatorsAgree ==
  ASSUME NEW a, NEW b, a.x \in Field, b.x \in Field, a.y \in Int, b.y \in Int, a.x # b.x
  PROVE  /\ ContractZ(a, b) = ProjectiveEcAdd(a, b).z
         /\ ContractZ(a, b) \in Field /\ ContractZ(a, b) # 0
<1> DEFINE e == b.x - a.x
           d == e % FieldSize
           d2 == Times(d, d)
           d3 == Times(d2, d)
<1>1. e \in Int /\ d \in Field /\ d # 0 /\ d \in Int
  <2>1. e \in Int /\ a.x \in Int /\ b.x \in Int /\ a.x \in 0 .. FieldSize - 1
        /\ b.x \in 0 .. FieldSize - 1
    BY FieldType DEF Field
  <2>2. d # 0
    <3>1. ASSUME d = 0 PROVE FALSE
      <4>1. Same(FieldSize, e, 0)
        BY <2>1, <3>1, Orders, SameRemainder
      <4>2. PICK q \in Int : e = 0 + FieldSize * q
        BY <4>1 DEF Same
      <4>3. b.x = a.x + FieldSize * q
        <5> DEFINE w == FieldSize * q
        <5>1. e = 0 + w /\ w \in Int
          BY <4>2, Orders
        <5> HIDE DEF w
        <5>2. b.x - a.x = w
          BY <5>1
        <5>3. b.x = a.x + w
          BY <2>1, <5>1, <5>2
        <5> QED BY <5>3 DEF w
      <4>4. Same(FieldSize, b.x, a.x)
        BY <4>3 DEF Same
      <4> QED BY <4>4, <2>1, Orders, SmallAreApart
    <3> QED BY <3>1
  <2> HIDE DEF e
  <2>3. d \in Field
    BY <2>1, FieldType
  <2> QED BY <2>1, <2>2, <2>3, FieldType
<1>2. d2 \in Field /\ d3 \in Field /\ d2 # 0 /\ d3 # 0
  <2> HIDE DEF d
  <2>1. d2 \in Field /\ d2 # 0
    BY <1>1, TimesType, NoZeroDivisors
  <2> HIDE DEF d2
  <2> QED BY <2>1, <1>1, TimesType, NoZeroDivisors
<1>3. ContractZ(a, b) = IF d = 1 THEN 1 ELSE Times(Times(d3, d), d)
  <2>1. ContractZ(a, b) = IF d = 1 THEN 1 ELSE (e * e * e * e * e) % FieldSize
    BY DEF ContractZ
  <2>2. (e * e * e * e * e) % FieldSize = Times(Times(Times(Times(d, d), d), d), d)
    <3>1. e \in Int /\ d = e % FieldSize
      BY <1>1
    <3> HIDE DEF e, d
    <3> QED BY <3>1, FifthPower
  <2> QED BY <2>1, <2>2
<1>4. ProjectiveEcAdd(a, b).z = IF d2 # d3 THEN Times(d2, d3) ELSE d2
  <2> DEFINE slope == <<(b.y - a.y) % FieldSize, (b.x - a.x) % FieldSize>>
             m == ProjectiveMul(slope, slope)
             n == ProjectiveSub(m, <<a.x, 1>>)
             s1 == ProjectiveSub(n, <<b.x, 1>>)
             o == ProjectiveSub(<<a.x, 1>>, s1)
             t == ProjectiveMul(o, slope)
             s2 == ProjectiveSub(t, <<a.y, 1>>)
  <2>1. ProjectiveEcAdd(a, b).z = IF s1[2] # s2[2] THEN Times(s1[2], s2[2]) ELSE s1[2]
    <3> HIDE DEF m, n, o, t
    <3>1. ProjectiveEcAdd(a, b) =
            IF s1[2] # s2[2]
            THEN [x |-> (s1[1] * s2[2]) % FieldSize,
                  y |-> (s2[1] * s1[2]) % FieldSize,
                  z |-> (s1[2] * s2[2]) % FieldSize]
            ELSE [x |-> s1[1], y |-> s2[1], z |-> s1[2]]
      BY Zenon DEF ProjectiveEcAdd, m, n, o, t
    <3> HIDE DEF s1, s2
    <3> QED BY <3>1 DEF Times
  <2>2. slope[2] = d
    OBVIOUS
  <2> HIDE DEF slope, d
  <2>3. m[2] = d2
    BY <2>2, Denominators
  <2> HIDE DEF m, d2
  <2>4. n[2] = d2
    BY <2>3, <1>2, Denominators, TimesType
  <2> HIDE DEF n
  <2>5. s1[2] = d2
    BY <2>4, <1>2, Denominators, TimesType
  <2> HIDE DEF s1
  <2>6. o[2] = d2
    <3>1. o[2] = Times(1, d2)
      BY <2>5, Denominators
    <3> QED BY <3>1, <1>2, TimesType, FieldType
  <2> HIDE DEF o
  <2>7. t[2] = d3
    BY <2>2, <2>6, Denominators
  <2> HIDE DEF t, d3
  <2>8. s2[2] = d3
    BY <2>7, <1>2, Denominators, TimesType
  <2> HIDE DEF s2
  <2> QED BY <2>1, <2>5, <2>8
<1> HIDE DEF d, e
<1>5. CASE d = 1
  <2>1. d2 = 1 /\ d3 = 1
    BY <1>1, <1>5, TimesType
  <2> QED BY <1>3, <1>4, <1>5, <2>1, FieldType
<1>6. CASE d # 1
  <2>1. d2 # d3
    <3>1. ASSUME d2 = Times(d2, d) PROVE FALSE
      <4> DEFINE c == Inv(d2)
      <4> HIDE DEF d2
      <4>1. c \in Field /\ Times(d2, c) = 1
        BY <1>2, InverseIs
      <4> HIDE DEF c
      <4>2. Times(c, d2) = 1
        BY <4>1, <1>2, TimesType
      <4>3. Times(c, Times(d2, d)) = Times(Times(c, d2), d)
        BY <4>1, <1>1, <1>2, TimesIsAssociative
      <4>4. Times(1, d) = d
        BY <1>1, TimesType, FieldType
      <4> QED BY <3>1, <4>2, <4>3, <4>4, <1>6
    <3> QED BY <3>1
  <2>2. Times(Times(d3, d), d) = Times(d2, d3)
    <3> HIDE DEF d3
    <3>1. Times(Times(d3, d), d) = Times(d3, Times(d, d))
      BY <1>1, <1>2, TimesIsAssociative
    <3>2. Times(d3, d2) = Times(d2, d3)
      <4> HIDE DEF d2
      <4> QED BY <1>2, TimesType
    <3> QED BY <3>1, <3>2
  <2>3. Times(d2, d3) \in Field /\ Times(d2, d3) # 0
    <3> HIDE DEF d2, d3
    <3> QED BY <1>2, TimesType, NoZeroDivisors
  <2> QED BY <1>3, <1>4, <1>6, <2>1, <2>2, <2>3
<1> QED BY <1>5, <1>6

(***************************************************************************)
(* The double check.                                                       *)
(***************************************************************************)
LEMMA WitnessAddress ==
  ASSUME NEW p \in Curve
  PROVE  WitnessBytes(WitnessScalar(p)) = AddressOf(p) <=> AddressOf(p) * Shift < GroupOrder
<1> DEFINE a == AddressOf(p)
           x == a * Shift
<1>1. a \in Nat /\ Shift \in Nat \ {0} /\ Shift > 0 /\ x \in Nat /\ GroupOrder > 0 /\ GroupOrder \in Nat
  <2>1. a \in Nat /\ Shift \in Nat \ {0}
    BY AddressIsNumber, CurveAssumption
  <2> HIDE DEF a
  <2> QED BY <2>1, Orders
<1>2. WitnessScalar(p) = IF x >= GroupOrder THEN x - GroupOrder ELSE x
  BY DEF WitnessScalar, FromWord
<1> HIDE DEF a
<1>3. x = Shift * a /\ Shift * a \in Nat
  BY <1>1
<1> HIDE DEF x
<1>4. ASSUME NEW y \in Nat
      PROVE  /\ y = x => y \div Shift = a
             /\ y < x => y \div Shift # a
  <2> DEFINE q == y \div Shift
             r == y % Shift
  <2>1. q \in Int /\ r \in 0 .. Shift - 1 /\ y = Shift * q + r
    BY <1>1, Remainders
  <2> HIDE DEF q, r
  <2>2. ASSUME y = x PROVE q = a
    <3> DEFINE d == a - q
    <3>1. d \in Int /\ Shift * d = r
      <4>1. \A u, v, w \in Int : u * (v - w) = u * v - u * w
        OBVIOUS
      <4>2. Shift * (a - q) = Shift * a - Shift * q
        BY <4>1, <1>1, <2>1
      <4> DEFINE m == Shift * a
                 n == Shift * q
      <4>3. m \in Int /\ n \in Int /\ m = n + r
        BY <1>1, <1>3, <2>1, <2>2
      <4>4. m - n = Shift * d
        BY <4>2
      <4>6. d \in Int
        BY <1>1, <2>1
      <4> HIDE DEF m, n, d
      <4>5. Shift * d = r
        BY <4>3, <4>4, <2>1
      <4> QED BY <4>5, <4>6
    <3> HIDE DEF d
    <3>2. CASE d >= 1
      <4>1. Shift * d >= Shift
        BY <3>1, <3>2, <1>1
      <4> QED BY <4>1, <3>1, <2>1, <1>1
    <3>3. CASE d <= -1
      <4>1. Shift * d <= - Shift
        BY <3>1, <3>3, <1>1
      <4> QED BY <4>1, <3>1, <2>1, <1>1
    <3>4. CASE d = 0
      BY <3>4, <2>1, <1>1 DEF d
    <3> QED BY <3>1, <3>2, <3>3, <3>4
  <2>3. ASSUME y < x PROVE q # a
    BY <2>1, <2>3, <1>3, <1>1
  <2> QED BY <2>2, <2>3 DEF q
<1>5. CASE x >= GroupOrder
  <2>1. x - GroupOrder \in Nat /\ x - GroupOrder < x
    BY <1>1, <1>5
  <2>2. WitnessBytes(WitnessScalar(p)) = (x - GroupOrder) \div Shift
    BY <1>2, <1>5 DEF WitnessBytes
  <2> QED BY <2>1, <2>2, <1>4, <1>1, <1>5 DEF a, x
<1>6. CASE ~ (x >= GroupOrder)
  <2>1. WitnessBytes(WitnessScalar(p)) = x \div Shift
    BY <1>2, <1>6 DEF WitnessBytes
  <2> QED BY <2>1, <1>4, <1>1, <1>6 DEF a, x
<1> QED BY <1>5, <1>6

\* A proof for the contract, and what the contract computes from it.
ContractFacts(hash, kg, kh) ==
  /\ kind = "contract" /\ sk \in 1 .. GroupOrder - 1
  /\ {Pk, proof.gamma, h, hash, kg} \subseteq Curve
  /\ hash = ContractHashToCurve(Pk, alpha) /\ kg = EcMultGen(k) /\ kh = EcMult(h, k)
  /\ proof.gamma = EcMult(h, sk)
  /\ proof.c \in Scalars /\ proof.s \in Scalars
  /\ RawChallenge(h, Pk, proof.gamma, AddressOf(kg), kh) \in Hashes
  /\ proof.c = FromWord(RawChallenge(h, Pk, proof.gamma, AddressOf(kg), kh))
  /\ proof.witness_gamma = EcMult(proof.gamma, proof.c)
  /\ proof.witness_hash = EcMult(h, proof.s)
  /\ proof.c # 0 => proof.witness_gamma \in Curve
  /\ proof.s # 0 => proof.witness_hash \in Curve
  /\ Add(EcMult(Pk, proof.c), EcMultGen(proof.s)) = kg
  /\ Add(proof.witness_gamma, proof.witness_hash) = kh
  /\ proof.witness_address = WitnessScalar(kg)
  /\ proof.inverse_z = Inv(ProjectiveEcAdd(proof.witness_gamma, proof.witness_hash).z)
  /\ proof.y = Output(proof.gamma)

LEMMA ContractProofFacts ==
  ASSUME KeccakIsAWord, VrfInv, pc = "proved", kind = "contract"
  PROVE  ContractFacts(ContractHashToCurve(Pk, alpha), EcMultGen(k), EcMult(h, k))
<1> DEFINE hash == ContractHashToCurve(Pk, alpha)
           kg == EcMultGen(k)
           kh == EcMult(h, k)
<1>1. /\ sk \in 1 .. GroupOrder - 1 /\ sk \in Nat /\ Pk \in Curve /\ Pk \in Points
      /\ alpha \in Nat /\ k \in Nat /\ k \in Scalars /\ Pk = EcMultGen(sk)
      /\ Generator \in Curve /\ Generator \in Points
  BY KeysType, PointsType, CurveAssumption DEF VrfInv, Pk
<1>2. Made(kind, sk, h, k, proof) /\ HashedBy(kind, sk, alpha, h)
  BY DEF VrfInv
<1>3. h \in Curve /\ h \in Points /\ k # 0 /\ Responds(sk, h, k, proof) /\ MadeForContract(sk, h, k, proof)
  BY <1>2, PointsType DEF HashedBy, Made
<1>4. k \in 1 .. GroupOrder - 1
  BY <1>1, <1>3, Orders DEF Scalars
<1>5. kg \in Curve /\ hash \in Curve /\ kh \in Points
  BY <1>1, <1>3, <1>4, CurveMultiple, SeedIsHashed, SumsOfPoint DEF EcMultGen
<1>6. /\ proof.s \in Scalars /\ proof.c \in Scalars
      /\ proof.gamma = EcMult(h, sk) /\ proof.gamma \in Points
      /\ \A p \in Points :
           Add(EcMult(EcMult(p, sk), proof.c), EcMult(p, proof.s)) = EcMult(p, k)
  BY <1>1, <1>3, ProofAnswers DEF Responds
<1>7. proof.gamma \in Curve
  BY <1>1, <1>3, <1>6, CurveMultiple
<1>8. AddressOf(kg) \in Nat
  BY <1>5, AddressIsNumber
<1>9. /\ proof.c = FromWord(RawChallenge(h, Pk, proof.gamma, AddressOf(kg), kh))
      /\ proof.witness_address = WitnessScalar(kg)
      /\ proof.witness_gamma = EcMult(proof.gamma, proof.c)
      /\ proof.witness_hash = EcMult(h, proof.s)
      /\ proof.inverse_z = Inv(ProjectiveEcAdd(proof.witness_gamma, proof.witness_hash).z)
      /\ proof.y = Output(proof.gamma)
  BY <1>1, <1>3 DEF MadeForContract
<1>10. RawChallenge(h, Pk, proof.gamma, AddressOf(kg), kh) \in Hashes
  <2> HIDE DEF kg, kh
  <2> QED BY <1>1, <1>3, <1>5, <1>6, <1>8, ChallengeIsAWord
<1>11. Add(EcMult(Pk, proof.c), EcMultGen(proof.s)) = kg
  BY <1>1, <1>6 DEF EcMultGen
<1>12. Add(proof.witness_gamma, proof.witness_hash) = kh
  BY <1>3, <1>6, <1>9
<1>13. /\ proof.c # 0 => proof.witness_gamma \in Curve
       /\ proof.s # 0 => proof.witness_hash \in Curve
  <2>1. \A x \in Scalars : x # 0 => x \in 1 .. GroupOrder - 1
    BY Orders DEF Scalars
  <2> QED BY <2>1, <1>3, <1>6, <1>7, <1>9, CurveMultiple
<1> HIDE DEF hash, kg, kh
<1>14. ContractFacts(hash, kg, kh)
  BY <1>1, <1>3, <1>5, <1>6, <1>7, <1>9, <1>10, <1>11, <1>12, <1>13
     DEF ContractFacts, hash, kg, kh
<1> QED BY <1>14 DEF hash, kg, kh

LEMMA NonzeroScalar ==
  ASSUME NEW x \in Scalars, x # 0
  PROVE  x \in 1 .. GroupOrder - 1
BY Orders DEF Scalars

\* What the contract accepts is at no edge.
LEMMA AcceptedIsAtNoEdge ==
  ASSUME NEW hash, NEW kg, NEW kh, ContractFacts(hash, kg, kh), ContractAccepts
  PROVE  ~AtAnEdge
<1> DEFINE address == WitnessBytes(proof.witness_address)
           wg == proof.witness_gamma
           wh == proof.witness_hash
<1>1. hash = ContractHashToCurve(Pk, alpha) /\ kg = EcMultGen(k) /\ kh = EcMult(h, k)
  BY DEF ContractFacts
<1>2. /\ address # 0 /\ AddressOf(kg) = address /\ wg.x # wh.x
      /\ Recoverable(Pk, proof.c) /\ Recoverable(proof.gamma, proof.c)
      /\ Recoverable(hash, proof.s) /\ EcMult(hash, proof.s) = wh
      /\ RawChallenge(hash, Pk, proof.gamma, address, kh) = proof.c
  BY DEF ContractAccepts, ContractFacts
<1>3. /\ proof.c # 0 /\ proof.s # 0
      /\ \A p \in {Pk, proof.gamma, hash} : p.x \in 1 .. GroupOrder - 1
  BY <1>2 DEF Recoverable
<1>4. h = hash
  <2>1. /\ h \in Curve /\ hash \in Curve /\ EcMult(h, proof.s) = wh
        /\ proof.s \in 1 .. GroupOrder - 1
    BY <1>3, NonzeroScalar DEF ContractFacts
  <2> QED BY <2>1, <1>2, MultipleIsInjective
<1>5. ~ (RawChallenge(h, Pk, proof.gamma, AddressOf(kg), kh) >= GroupOrder)
  <2>1. proof.c < GroupOrder
    BY Orders DEF ContractFacts, Scalars
  <2>2. proof.c \in Int
    BY Orders DEF ContractFacts, Scalars
  <2>3. RawChallenge(h, Pk, proof.gamma, AddressOf(kg), kh) = proof.c
    BY <1>2, <1>4
  <2> QED BY <2>1, <2>2, <2>3, Orders
<1>6. AddressOf(kg) # 0 /\ ~ (AddressOf(kg) * Shift >= GroupOrder)
  <2>1. kg \in Curve /\ WitnessBytes(WitnessScalar(kg)) = AddressOf(kg)
    BY <1>2 DEF ContractFacts
  <2>2. AddressOf(kg) * Shift < GroupOrder
    BY <2>1, WitnessAddress
  <2>3. AddressOf(kg) * Shift \in Int
    <3>1. AddressOf(kg) \in Nat /\ Shift \in Nat
      BY <2>1, AddressIsNumber, CurveAssumption
    <3> QED BY <3>1
  <2> QED BY <1>2, <2>2, <2>3, Orders
<1> QED BY <1>1, <1>2, <1>3, <1>4, <1>5, <1>6 DEF AtAnEdge

\* At no edge the contract accepts.
LEMMA NoEdgeIsAccepted ==
  ASSUME NEW hash, NEW kg, NEW kh, ContractFacts(hash, kg, kh), ~AtAnEdge
  PROVE  ContractAccepts
<1> DEFINE address == WitnessBytes(proof.witness_address)
           wg == proof.witness_gamma
           wh == proof.witness_hash
           raw == RawChallenge(h, Pk, proof.gamma, AddressOf(kg), kh)
<1>1. hash = ContractHashToCurve(Pk, alpha) /\ kg = EcMultGen(k) /\ kh = EcMult(h, k)
  BY DEF ContractFacts
<1>2. /\ h = hash /\ ~ (raw >= GroupOrder)
      /\ AddressOf(kg) # 0 /\ ~ (AddressOf(kg) * Shift >= GroupOrder)
      /\ proof.c # 0 /\ proof.s # 0
      /\ \A p \in {Pk, proof.gamma, h} : p.x \in 1 .. GroupOrder - 1
      /\ wg.x # wh.x
  BY <1>1 DEF AtAnEdge
<1>3. \A p \in {Pk, proof.gamma, wg, wh} : p \in Curve /\ IsOnCurve(p)
  BY <1>2, PlaneType DEF ContractFacts
<1>4. address = AddressOf(kg)
  <2>1. kg \in Curve /\ address = WitnessBytes(WitnessScalar(kg))
    BY DEF ContractFacts
  <2>2. AddressOf(kg) * Shift \in Int
    <3>1. AddressOf(kg) \in Nat /\ Shift \in Nat
      BY <2>1, AddressIsNumber, CurveAssumption
    <3> QED BY <3>1
  <2>3. AddressOf(kg) * Shift < GroupOrder
    BY <1>2, <2>2, Orders
  <2> QED BY <2>1, <2>3, WitnessAddress
<1>5. raw = proof.c
  <2>1. raw \in Hashes /\ proof.c = FromWord(raw)
    BY DEF ContractFacts
  <2> QED BY <2>1, <1>2 DEF FromWord
<1>6. /\ Recoverable(Pk, proof.c) /\ Recoverable(proof.gamma, proof.c) /\ Recoverable(hash, proof.s)
  BY <1>2 DEF Recoverable
<1>7. (ContractZ(wg, wh) * proof.inverse_z) % FieldSize = 1
  <2>1. wg.x \in Field /\ wh.x \in Field /\ wg.y \in Int /\ wh.y \in Int
    BY <1>3, PlaneType
  <2>2. /\ ContractZ(wg, wh) = ProjectiveEcAdd(wg, wh).z
        /\ ContractZ(wg, wh) \in Field /\ ContractZ(wg, wh) # 0
    BY ONLY <2>1, <1>2, DenominatorsAgree
  <2>3. proof.inverse_z = Inv(ContractZ(wg, wh))
    BY <2>2 DEF ContractFacts
  <2> DEFINE z == ContractZ(wg, wh)
  <2> HIDE DEF z, wg, wh
  <2>4. z \in Field /\ z # 0 /\ proof.inverse_z = Inv(z)
    BY <2>2, <2>3 DEF z
  <2>5. Times(z, Inv(z)) = 1
    BY <2>4, InverseIs
  <2> QED BY <2>4, <2>5 DEF Times, z
<1>8. kg \in Curve /\ ~kg.infinity
  BY PointsType DEF ContractFacts
<1> QED BY <1>1, <1>2, <1>3, <1>4, <1>5, <1>6, <1>7, <1>8 DEF ContractAccepts, ContractFacts

LEMMA DoubleCheckStep ==
  ASSUME KeccakIsAWord, VrfInv, DoubleCheck, [Next]_vars
  PROVE  DoubleCheck'
<1>1. CASE pc' \notin {"confirmed", "denied"}
  BY <1>1 DEF DoubleCheck
<1>2. CASE EvmVerify
  <2>1. /\ pc = "proved" /\ kind = "contract" /\ UNCHANGED <<kind, sk, alpha, h, k, proof>>
        /\ pc' = IF ContractAccepts /\ Output(proof.gamma) = proof.y THEN "confirmed" ELSE "denied"
    BY <1>2 DEF EvmVerify
  <2> DEFINE hash == ContractHashToCurve(Pk, alpha)
             kg == EcMultGen(k)
             kh == EcMult(h, k)
  <2>2. ContractFacts(hash, kg, kh)
    BY <2>1, ContractProofFacts
  <2> HIDE DEF hash, kg, kh
  <2>3. ContractAccepts <=> ~AtAnEdge
    BY <2>2, AcceptedIsAtNoEdge, NoEdgeIsAccepted
  <2>4. Output(proof.gamma) = proof.y /\ proof.gamma = EcMult(h, sk)
    BY <2>2 DEF ContractFacts
  <2>5. pc' = IF AtAnEdge THEN "denied" ELSE "confirmed"
    BY <2>1, <2>3, <2>4
  <2>6. ~AtAnEdge => h = ContractHashToCurve(Pk, alpha)
    BY DEF AtAnEdge
  <2>7. /\ AtAnEdge' = AtAnEdge /\ proof' = proof /\ sk' = sk
        /\ ContractHashToCurve(Pk, alpha)' = ContractHashToCurve(Pk, alpha)
    BY <2>1 DEF AtAnEdge, Pk
  <2>8. CASE AtAnEdge
    BY <2>5, <2>7, <2>8 DEF DoubleCheck
  <2>9. CASE ~AtAnEdge
    BY <2>4, <2>5, <2>6, <2>7, <2>9 DEF DoubleCheck
  <2> QED BY <2>8, <2>9
<1>3. CASE UNCHANGED vars
  BY <1>3 DEF vars, DoubleCheck, AtAnEdge, Pk
<1>4. CASE Next /\ pc' \in {"confirmed", "denied"}
  <2>1. EvmVerify
    BY <1>4 DEF Next, ProveContract, Prove, NextCandidate, OnCurve, Draw, Retry, RetriesExceeded,
                ContractProof, OrdinaryProof, Verify, InvalidGamma
  <2> QED BY <2>1, <1>2
<1> QED BY <1>1, <1>3, <1>4

\* The contract confirms exactly the proofs of prove_contract that are at no edge, and the
\* value that it confirms is the one that the key gives to the seed, whatever the nonce, the
\* key, the seed and the hash function (prove_contract, projective_ec_add and evm_verify).
THEOREM ContractAgrees == KeccakIsAWord => (Spec => []DoubleCheck)
<1> SUFFICES ASSUME KeccakIsAWord PROVE Spec => []DoubleCheck
  OBVIOUS
<1>1. Init => DoubleCheck
  BY DEF Init, DoubleCheck
<1>2. VrfInv /\ DoubleCheck /\ [Next]_vars => DoubleCheck'
  BY DoubleCheckStep
<1> QED BY <1>1, <1>2, SpecKeepsVrfInv, PTL DEF Spec
=============================================================================
