----------------------------- MODULE Secp256k1 ------------------------------
(***************************************************************************)
(* The curve y^2 = x^3 + 7 over a prime field, as libecvrf uses it, and    *)
(* the helpers of helper.rs, extends.rs and hash.rs on it.  The points are *)
(* really added and multiplied, on a curve that is small and has what the  *)
(* code relies on: the group has a prime order, which is less than the     *)
(* order of the field, and that has the remainder 3 when divided by 4.     *)
(***************************************************************************)
EXTENDS Integers, Sequences, FiniteSets

CONSTANTS
  FieldSize,        \* FIELD_SIZE
  GroupOrder,       \* GROUP_ORDER
  HashSize,         \* the number of 32-byte words, greater than both
  Shift,            \* 2^96: a 20-byte address is the upper part of a word
  LimbSize,         \* 2^32: the base of a scalar's limbs
  Keccak(_),        \* keccak256 of a sequence of words
  AddressOf(_),     \* the last 20 bytes of the hash of a point
  Generator         \* AFFINE_G

Field == 0 .. FieldSize - 1
Scalars == 0 .. GroupOrder - 1
Hashes == 0 .. HashSize - 1

Point(x, y) == [x |-> x, y |-> y, infinity |-> FALSE]
Infinity == [x |-> 0, y |-> 0, infinity |-> TRUE]

\* y_squared.
YSquared(x) == (x * x * x + 7) % FieldSize

\* is_on_curve.
IsOnCurve(p) == YSquared(p.x) = (p.y * p.y) % FieldSize

Curve == {p \in {Point(x, y) : x \in Field, y \in Field} : IsOnCurve(p)}

\* The inverse in the field, 0 for 0.
Inv(a) == IF a = 0 THEN 0 ELSE CHOOSE b \in Field : (a * b) % FieldSize = 1

Third(p, q, steep) ==
  LET slope == steep % FieldSize
      x == (slope * slope - p.x - q.x) % FieldSize
  IN Point(x, (slope * (p.x - x) - p.y) % FieldSize)

\* add_ge of a Jacobian point.
Add(p, q) ==
  IF p.infinity THEN q
  ELSE IF q.infinity THEN p
  ELSE IF p.x # q.x
  THEN Third(p, q, (q.y - p.y) * Inv((q.x - p.x) % FieldSize))
  ELSE IF p = q /\ p.y # 0
  THEN Third(p, q, 3 * p.x * p.x * Inv((2 * p.y) % FieldSize))
  ELSE Infinity

\* ecmult: the sum of so many p.
EcMult(p, k) ==
  LET sum[n \in Nat] == IF n = 0 THEN Infinity ELSE Add(sum[n - 1], p) IN sum[k]

\* ecmult_gen.
EcMultGen(k) == EcMult(Generator, k)

Points == Curve \cup {Infinity}

ASSUME CurveAssumption ==
  /\ {FieldSize, GroupOrder, HashSize, Shift, LimbSize} \subseteq Nat \ {0}
  /\ FieldSize % 4 = 3
  /\ GroupOrder < FieldSize /\ FieldSize < HashSize /\ HashSize <= 2 * GroupOrder
  /\ HashSize % Shift = 0
  /\ Generator \in Curve
  /\ Cardinality(Curve) = GroupOrder - 1
  /\ \A p \in Curve : AddressOf(p) \in 0 .. HashSize \div Shift - 1
  /\ \A p, q \in Curve : AddressOf(p) = AddressOf(q) => p = q

\* FieldSize is a prime.
ASSUME FieldAssumption == \A a \in Field \ {0} : \E b \in Field : (a * b) % FieldSize = 1

\* The points are an abelian group of prime order.
ASSUME GroupAssumption ==
  /\ \A p, q \in Points : Add(p, q) \in Points /\ Add(p, q) = Add(q, p)
  /\ \A p, q, r \in Points : Add(Add(p, q), r) = Add(p, Add(q, r))
  /\ \A p \in Curve : EcMult(p, GroupOrder) = Infinity
  /\ \A p \in Curve, n \in 1 .. GroupOrder - 1 : EcMult(p, n) # Infinity

-----------------------------------------------------------------------------
(***************************************************************************)
(* Scalars.                                                                *)
(***************************************************************************)

\* set_b32 of libsecp256k1: a word that is not less than the order is reduced by it.
FromWord(word) == IF word >= GroupOrder THEN word - GroupOrder ELSE word

Limbs(a) == <<a % LimbSize, a \div LimbSize>>

\* gte: the greatest limb that differs decides, the limbs from the last to the first.
Gte(a, b) ==
  \/ a = b
  \/ \E i \in DOMAIN a : a[i] > b[i] /\ \A j \in DOMAIN a : j > i => a[j] = b[j]

\* calculate_witness_address, and from_bytes of its 20 bytes: they come first.
WitnessScalar(p) == FromWord(AddressOf(p) * Shift)

\* b32()[0..20] of that scalar.
WitnessBytes(scalar) == scalar \div Shift

Xy(p) == <<p.x, p.y>>

-----------------------------------------------------------------------------
(***************************************************************************)
(* Hashing to the curve.                                                   *)
(***************************************************************************)
\* field_hash.  The scalar is less than the order of the group, so that it is never hashed
\* again for being too great a coordinate.
FieldHash(words) == FromWord(Keccak(words))

\* sqrt of libsecp256k1: a power of y squared, a root if there is one.
Power(a, e) ==
  LET pow[i \in Nat] == IF i = 0 THEN 1 ELSE (pow[i - 1] * a) % FieldSize IN pow[e]

\* new_candidate_point: the even one of the two roots.
CandidatePoint(x) ==
  LET y == Power(YSquared(x), (FieldSize + 1) \div 4)
  IN Point(x, IF y % 2 = 1 THEN FieldSize - y ELSE y)

NewCandidatePoint(words) == CandidatePoint(FieldHash(words))

\* Mutant of HashToCurve: the sum with the public key is dropped.
HashToCurveUnkeyed(alpha, pk) == EcMultGen(alpha)

\* hash_to_curve: alpha * G + pk.
HashToCurve(alpha, pk) == Add(EcMultGen(alpha), pk)

-----------------------------------------------------------------------------
(***************************************************************************)
(* The addition that a contract can verify: fractions n/d as <<n, d>>.     *)
(***************************************************************************)
ProjectiveSub(a, b) ==
  <<(b[2] * a[1] - a[2] * b[1]) % FieldSize, (a[2] * b[2]) % FieldSize>>

ProjectiveMul(a, b) == <<(a[1] * b[1]) % FieldSize, (a[2] * b[2]) % FieldSize>>

\* Mutant of ProjectiveEcAdd: the two denominators are taken to be equal.
ProjectiveEcAddSame(a, b) ==
  LET slope == <<(b.y - a.y) % FieldSize, (b.x - a.x) % FieldSize>>
      s1 == ProjectiveSub(ProjectiveSub(ProjectiveMul(slope, slope), <<a.x, 1>>), <<b.x, 1>>)
      s2 == ProjectiveSub(ProjectiveMul(ProjectiveSub(<<a.x, 1>>, s1), slope), <<a.y, 1>>)
  IN [x |-> s1[1], y |-> s2[1], z |-> s1[2]]

\* projective_ec_add: x/z and y/z are the coordinates of the sum.
ProjectiveEcAdd(a, b) ==
  LET slope == <<(b.y - a.y) % FieldSize, (b.x - a.x) % FieldSize>>
      s1 == ProjectiveSub(ProjectiveSub(ProjectiveMul(slope, slope), <<a.x, 1>>), <<b.x, 1>>)
      s2 == ProjectiveSub(ProjectiveMul(ProjectiveSub(<<a.x, 1>>, s1), slope), <<a.y, 1>>)
  IN IF s1[2] # s2[2]
     THEN [x |-> (s1[1] * s2[2]) % FieldSize,
           y |-> (s2[1] * s1[2]) % FieldSize,
           z |-> (s1[2] * s2[2]) % FieldSize]
     ELSE [x |-> s1[1], y |-> s2[1], z |-> s1[2]]
=============================================================================
