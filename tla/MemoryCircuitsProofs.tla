------------------------ MODULE MemoryCircuitsProofs ------------------------
(***************************************************************************)
(* MemoryCircuits for any number of limbs, any words, times and traces:    *)
(* what the circuit accepts is the trace of a memory, and the trace of a   *)
(* memory is accepted with its sort.                                       *)
(***************************************************************************)
EXTENDS MemoryCircuits, FiniteSetTheorems, TLAPS

(***************************************************************************)
(* The order of limbs.                                                     *)
(***************************************************************************)
\* Limb k is the first in which two vectors differ.
FirstIn(k, n, a, b) ==
  k \in 1 .. n /\ a[k] # b[k] /\ \A l \in 1 .. n : l < k => a[l] = b[l]

\* If two vectors differ, there is a first limb in which they do.
LEMMA FirstDifferenceExists ==
  ASSUME NEW n \in Nat, NEW a \in [1 .. n -> Int], NEW b \in [1 .. n -> Int], Differ(a, b)
  PROVE  FirstIn(FirstDifference(a, b), n, a, b)
<1> DEFINE T == {k \in 1 .. n : a[k] # b[k]}
<1>1. T \subseteq Nat /\ T # {}
  BY DEF Differ
<1>2. PICK k \in T : \A l \in T : ~ (<<l, k>> \in OpToRel(<, Nat))
  BY <1>1, WFMin, NatLessThanWellFounded
<1>3. \A l \in 1 .. n : l < k => a[l] = b[l]
  BY <1>1, <1>2 DEF OpToRel
<1>4. /\ k \in DOMAIN a
      /\ a[k] # b[k]
      /\ \A l \in DOMAIN a : l < k => a[l] = b[l]
  BY <1>3
<1>5. /\ FirstDifference(a, b) \in DOMAIN a
      /\ a[FirstDifference(a, b)] # b[FirstDifference(a, b)]
      /\ \A l \in DOMAIN a : l < FirstDifference(a, b) => a[l] = b[l]
  BY ONLY <1>4 DEF FirstDifference
<1> QED BY ONLY <1>5, a \in [1 .. n -> Int] DEF FirstIn

LEMMA DifferSomewhereFirst ==
  ASSUME NEW n \in Nat, NEW a \in [1 .. n -> Int], NEW b \in [1 .. n -> Int], Differ(a, b)
  PROVE  \E k \in 1 .. n : a[k] # b[k] /\ \A l \in 1 .. n : l < k => a[l] = b[l]
<1>1. FirstIn(FirstDifference(a, b), n, a, b)
  BY FirstDifferenceExists, Zenon
<1> QED BY ONLY <1>1, Zenon DEF FirstIn

LEMMA BeforeTransitive ==
  ASSUME NEW n \in Nat, NEW a \in [1 .. n -> Int], NEW b \in [1 .. n -> Int],
         NEW c \in [1 .. n -> Int], Before(a, b), Before(b, c)
  PROVE  Before(a, c)
<1>1. PICK j \in 1 .. n : a[j] < b[j] /\ \A l \in 1 .. n : l < j => a[l] = b[l]
  BY DEF Before
<1>2. PICK k \in 1 .. n : b[k] < c[k] /\ \A l \in 1 .. n : l < k => b[l] = c[l]
  BY DEF Before
<1>3. CASE j <= k
  <2>1. a[j] < c[j]
    <3>1. CASE j = k
      BY <1>1, <1>2, <3>1
    <3>2. CASE j < k
      BY <1>1, <1>2, <3>2
    <3> QED BY <1>3, <3>1, <3>2
  <2>2. \A l \in 1 .. n : l < j => a[l] = c[l]
    BY <1>1, <1>2, <1>3
  <2> QED BY <2>1, <2>2 DEF Before
<1>4. CASE k < j
  <2>1. a[k] < c[k]
    BY <1>1, <1>2, <1>4
  <2>2. \A l \in 1 .. n : l < k => a[l] = c[l]
    BY <1>1, <1>2, <1>4
  <2> QED BY <2>1, <2>2 DEF Before
<1> QED BY <1>3, <1>4

LEMMA BeforeIrreflexive ==
  ASSUME NEW n \in Nat, NEW a \in [1 .. n -> Int]
  PROVE  ~ Before(a, a)
BY DEF Before

LEMMA BeforeAsymmetric ==
  ASSUME NEW n \in Nat, NEW a \in [1 .. n -> Int], NEW b \in [1 .. n -> Int], Before(a, b)
  PROVE  ~ Before(b, a)
BY BeforeTransitive, BeforeIrreflexive

LEMMA BeforeDiffers ==
  ASSUME NEW n \in Nat, NEW a \in [1 .. n -> Int], NEW b \in [1 .. n -> Int], Before(a, b)
  PROVE  Differ(b, a)
BY DEF Before, Differ

LEMMA BeforeTotal ==
  ASSUME NEW n \in Nat, NEW a \in [1 .. n -> Int], NEW b \in [1 .. n -> Int], Differ(a, b)
  PROVE  Before(a, b) \/ Before(b, a)
<1>1. PICK k \in 1 .. n : a[k] # b[k] /\ \A l \in 1 .. n : l < k => a[l] = b[l]
  <2>1. FirstIn(FirstDifference(a, b), n, a, b)
    BY FirstDifferenceExists, Zenon
  <2> QED BY ONLY <2>1, Zenon DEF FirstIn
<1>2. a[k] < b[k] \/ b[k] < a[k]
  BY <1>1
<1> QED BY <1>1, <1>2 DEF Before

\* The gadget decides the order, when it is given the first difference.
LEMMA GreaterThanIsBefore ==
  ASSUME NEW n \in Nat, NEW cur \in [1 .. n -> Limbs], NEW prev \in [1 .. n -> Limbs],
         Differ(cur, prev)
  PROVE  GreaterThan(cur, prev, FirstDifference(cur, prev)) <=> Before(prev, cur)
<1>0. LimbBase \in Nat
  BY CircuitAssumption
<1>1. cur \in [1 .. n -> Int] /\ prev \in [1 .. n -> Int]
  BY <1>0 DEF Limbs
<1>2. PICK k \in 1 .. n :
        /\ k = FirstDifference(cur, prev)
        /\ cur[k] # prev[k]
        /\ \A l \in 1 .. n : l < k => cur[l] = prev[l]
  <2>1. FirstIn(FirstDifference(cur, prev), n, cur, prev)
    BY <1>1, FirstDifferenceExists, Zenon
  <2> QED BY ONLY <2>1, Zenon DEF FirstIn
<1>3. cur[k] \in 0 .. LimbBase - 1 /\ prev[k] \in 0 .. LimbBase - 1
  BY DEF Limbs
<1>4. GreaterThan(cur, prev, k) <=> prev[k] < cur[k]
  BY <1>0, <1>2, <1>3 DEF GreaterThan, Limbs
<1>5. prev[k] < cur[k] => Before(prev, cur)
  BY <1>2 DEF Before
<1>6. ASSUME Before(prev, cur) PROVE prev[k] < cur[k]
  <2>1. PICK j \in 1 .. n : prev[j] < cur[j] /\ \A l \in 1 .. n : l < j => prev[l] = cur[l]
    BY <1>6 DEF Before
  <2>2. ~ (k < j)
    BY <1>2, <2>1
  <2>3. cur[j] # prev[j]
    BY <1>1, <2>1
  <2>4. ~ (j < k)
    BY <1>2, <2>3
  <2>5. j = k
    BY <2>2, <2>4
  <2> QED BY <2>1, <2>5
<1> QED BY <1>2, <1>4, <1>5, <1>6

(***************************************************************************)
(* Records and their keys.                                                 *)
(***************************************************************************)
LEMMA RecordTypes ==
  ASSUME NEW r \in TraceRecord
  PROVE  /\ WordLimbs \in Nat \ {0} /\ TimeLimbs \in Nat \ {0}
         /\ r.address \in [1 .. WordLimbs -> Limbs]
         /\ r.value \in [1 .. WordLimbs -> Limbs]
         /\ r.time_log \in [1 .. TimeLimbs -> Limbs]
         /\ r.time_log \in [1 .. TimeLimbs -> Int]
         /\ r.instruction \in Instructions
         /\ WordLimbs + TimeLimbs \in Nat
         /\ KeyLimbs(r) \in [1 .. WordLimbs + TimeLimbs -> Limbs]
         /\ KeyLimbs(r) \in [1 .. WordLimbs + TimeLimbs -> Int]
<1>1. /\ WordLimbs \in Nat \ {0} /\ TimeLimbs \in Nat \ {0}
      /\ LimbBase \in Nat
      /\ r.address \in [1 .. WordLimbs -> Limbs]
      /\ r.value \in [1 .. WordLimbs -> Limbs]
      /\ r.time_log \in [1 .. TimeLimbs -> Limbs]
      /\ r.instruction \in Instructions
  BY CircuitAssumption DEF TraceRecord
<1>2. Limbs \subseteq Int
  BY <1>1 DEF Limbs
<1>3. \A k \in 1 .. WordLimbs + TimeLimbs : k > WordLimbs => k - WordLimbs \in 1 .. TimeLimbs
  BY <1>1
<1> DEFINE Limb(k) == IF k <= WordLimbs THEN r.address[k] ELSE r.time_log[k - WordLimbs]
<1>4. ASSUME NEW k \in 1 .. WordLimbs + TimeLimbs PROVE Limb(k) \in Limbs
  <2>1. CASE k <= WordLimbs
    <3>1. k \in 1 .. WordLimbs
      BY <1>1, <2>1
    <3> QED BY <1>1, <2>1, <3>1
  <2>2. CASE k > WordLimbs
    BY <1>1, <1>3, <2>2
  <2> QED BY <1>1, <2>1, <2>2
<1> HIDE DEF Limb
<1>5. [k \in 1 .. WordLimbs + TimeLimbs |-> Limb(k)] \in [1 .. WordLimbs + TimeLimbs -> Limbs]
  BY <1>4
<1>6. KeyLimbs(r) \in [1 .. WordLimbs + TimeLimbs -> Limbs]
  BY <1>5 DEF KeyLimbs, Limb
<1>7. /\ r.time_log \in [1 .. TimeLimbs -> Int]
      /\ KeyLimbs(r) \in [1 .. WordLimbs + TimeLimbs -> Int]
      /\ WordLimbs + TimeLimbs \in Nat
  <2>1. \A S : [S -> Limbs] \subseteq [S -> Int]
    BY ONLY <1>2, Zenon
  <2>2. WordLimbs + TimeLimbs \in Nat
    BY ONLY <1>1
  <2> QED BY ONLY <1>1, <1>6, <2>1, <2>2, Zenon
<1> QED BY ONLY <1>1, <1>6, <1>7

LEMMA KeyOfRecord ==
  ASSUME NEW r \in TraceRecord
  PROVE  /\ \A k \in 1 .. WordLimbs : KeyLimbs(r)[k] = r.address[k]
         /\ \A k \in 1 .. TimeLimbs :
              /\ k + WordLimbs \in 1 .. WordLimbs + TimeLimbs
              /\ KeyLimbs(r)[k + WordLimbs] = r.time_log[k]
<1>1. WordLimbs \in Nat \ {0} /\ TimeLimbs \in Nat \ {0}
  BY RecordTypes
<1>2. ASSUME NEW k \in 1 .. WordLimbs PROVE KeyLimbs(r)[k] = r.address[k]
  BY <1>1 DEF KeyLimbs
<1>3. ASSUME NEW k \in 1 .. TimeLimbs
      PROVE  /\ k + WordLimbs \in 1 .. WordLimbs + TimeLimbs
             /\ KeyLimbs(r)[k + WordLimbs] = r.time_log[k]
  <2>1. k + WordLimbs \in 1 .. WordLimbs + TimeLimbs /\ ~ (k + WordLimbs <= WordLimbs)
    BY <1>1
  <2>2. (k + WordLimbs) - WordLimbs = k
    BY <1>1
  <2> QED BY <2>1, <2>2 DEF KeyLimbs
<1> QED BY <1>2, <1>3

\* Among records of one address keys are ordered by time.
LEMMA KeyOrder ==
  ASSUME NEW r \in TraceRecord, NEW s \in TraceRecord, r.address = s.address
  PROVE  Before(KeyLimbs(r), KeyLimbs(s)) <=> Before(r.time_log, s.time_log)
<1> DEFINE n == WordLimbs + TimeLimbs
<1>1. /\ WordLimbs \in Nat \ {0} /\ TimeLimbs \in Nat \ {0}
      /\ DOMAIN r.time_log = 1 .. TimeLimbs /\ DOMAIN KeyLimbs(r) = 1 .. n
      /\ r.time_log \in [1 .. TimeLimbs -> Int] /\ s.time_log \in [1 .. TimeLimbs -> Int]
      /\ r.address \in [1 .. WordLimbs -> Limbs]
      /\ LimbBase \in Nat
  BY RecordTypes, CircuitAssumption
<1>a. Limbs \subseteq Int
  BY <1>1 DEF Limbs
<1>2. /\ \A k \in 1 .. WordLimbs :
           KeyLimbs(r)[k] = r.address[k] /\ KeyLimbs(s)[k] = r.address[k]
      /\ \A k \in 1 .. TimeLimbs :
           /\ k + WordLimbs \in 1 .. n
           /\ KeyLimbs(r)[k + WordLimbs] = r.time_log[k]
           /\ KeyLimbs(s)[k + WordLimbs] = s.time_log[k]
  BY KeyOfRecord
<1>3. ASSUME Before(KeyLimbs(r), KeyLimbs(s)) PROVE Before(r.time_log, s.time_log)
  <2>1. PICK k \in 1 .. n : /\ KeyLimbs(r)[k] < KeyLimbs(s)[k]
                            /\ \A l \in 1 .. n : l < k => KeyLimbs(r)[l] = KeyLimbs(s)[l]
    BY <1>1, <1>3 DEF Before
  <2>2. ASSUME k <= WordLimbs PROVE FALSE
    <3>1. k \in 1 .. WordLimbs
      BY <1>1, <2>2
    <3>2. r.address[k] \in Int /\ r.address[k] < r.address[k]
      BY <1>1, <1>a, <1>2, <2>1, <3>1
    <3> QED BY <3>2
  <2>3. k - WordLimbs \in 1 .. TimeLimbs /\ k = (k - WordLimbs) + WordLimbs
    BY <1>1, <2>2
  <2>4. r.time_log[k - WordLimbs] < s.time_log[k - WordLimbs]
    BY <1>2, <2>1, <2>3
  <2>5. \A l \in 1 .. TimeLimbs : l < k - WordLimbs => r.time_log[l] = s.time_log[l]
    <3>1. TAKE l \in 1 .. TimeLimbs
    <3>2. HAVE l < k - WordLimbs
    <3>3. l + WordLimbs \in 1 .. n /\ l + WordLimbs < k
      BY <1>1, <1>2, <3>2
    <3> QED BY <1>2, <2>1, <3>3
  <2> QED BY <1>1, <2>3, <2>4, <2>5 DEF Before
<1>4. ASSUME Before(r.time_log, s.time_log) PROVE Before(KeyLimbs(r), KeyLimbs(s))
  <2>1. PICK k \in 1 .. TimeLimbs :
          /\ r.time_log[k] < s.time_log[k]
          /\ \A l \in 1 .. TimeLimbs : l < k => r.time_log[l] = s.time_log[l]
    BY <1>1, <1>4 DEF Before
  <2>2. KeyLimbs(r)[k + WordLimbs] < KeyLimbs(s)[k + WordLimbs]
    BY <1>2, <2>1
  <2>3. ASSUME NEW l \in 1 .. n, l < k + WordLimbs
        PROVE  KeyLimbs(r)[l] = KeyLimbs(s)[l]
    <3>1. CASE l <= WordLimbs
      BY <1>1, <1>2, <3>1
    <3>2. CASE l > WordLimbs
      <4>1. l - WordLimbs \in 1 .. TimeLimbs /\ l - WordLimbs < k /\ l = (l - WordLimbs) + WordLimbs
        <5>1. /\ WordLimbs \in Nat /\ TimeLimbs \in Nat /\ k \in Int /\ k <= TimeLimbs
              /\ l \in Int /\ WordLimbs < l /\ l < k + WordLimbs
          BY <1>1, <2>3, <3>2
        <5> QED BY ONLY <5>1
      <4> QED BY <1>2, <2>1, <4>1
    <3> QED BY <1>1, <3>1, <3>2
  <2>4. k + WordLimbs \in 1 .. n
    BY <1>2
  <2> QED BY <1>1, <2>2, <2>3, <2>4 DEF Before
<1> QED BY <1>3, <1>4

\* Of two records with different keys of one order, one in between in address
\* has the same address.
LEMMA AddressBetween ==
  ASSUME NEW r \in TraceRecord, NEW s \in TraceRecord, NEW t \in TraceRecord,
         r.address = t.address,
         ~ Before(KeyLimbs(s), KeyLimbs(r)), ~ Before(KeyLimbs(t), KeyLimbs(s))
  PROVE  s.address = r.address
<1> DEFINE n == WordLimbs + TimeLimbs
<1>1. /\ WordLimbs \in Nat \ {0} /\ TimeLimbs \in Nat \ {0}
      /\ DOMAIN KeyLimbs(s) = 1 .. n /\ DOMAIN KeyLimbs(t) = 1 .. n
      /\ r.address \in [1 .. WordLimbs -> Limbs] /\ s.address \in [1 .. WordLimbs -> Limbs]
      /\ LimbBase \in Nat
  BY RecordTypes, CircuitAssumption
<1>2. r.address \in [1 .. WordLimbs -> Int] /\ s.address \in [1 .. WordLimbs -> Int]
  BY <1>1 DEF Limbs
<1>3. \A k \in 1 .. WordLimbs :
        /\ KeyLimbs(r)[k] = r.address[k] /\ KeyLimbs(t)[k] = r.address[k]
        /\ KeyLimbs(s)[k] = s.address[k]
  BY KeyOfRecord
<1>4. SUFFICES ASSUME s.address # r.address PROVE FALSE
  OBVIOUS
<1>5. Differ(s.address, r.address)
  BY <1>2, <1>4 DEF Differ
<1>6. PICK k \in 1 .. WordLimbs :
        /\ s.address[k] # r.address[k]
        /\ \A l \in 1 .. WordLimbs : l < k => s.address[l] = r.address[l]
  <2>1. \A a, b \in [1 .. WordLimbs -> Int] : Differ(a, b) =>
          \E k \in 1 .. WordLimbs : a[k] # b[k] /\ \A l \in 1 .. WordLimbs : l < k => a[l] = b[l]
    BY <1>1, DifferSomewhereFirst
  <2> QED BY <1>2, <1>5, <2>1
<1>a. /\ k \in 1 .. n
      /\ \A l \in 1 .. n : l < k => l \in 1 .. WordLimbs
  BY <1>1
<1>b. /\ \A l \in 1 .. n : l < k => KeyLimbs(s)[l] = KeyLimbs(r)[l]
      /\ \A l \in 1 .. n : l < k => KeyLimbs(t)[l] = KeyLimbs(s)[l]
  BY <1>3, <1>6, <1>a
<1>7. CASE s.address[k] < r.address[k]
  <2>1. KeyLimbs(s)[k] < KeyLimbs(r)[k]
    BY <1>3, <1>7
  <2> QED BY <1>1, <1>a, <1>b, <2>1 DEF Before
<1>8. CASE r.address[k] < s.address[k]
  <2>1. KeyLimbs(t)[k] < KeyLimbs(s)[k]
    BY <1>3, <1>8
  <2> QED BY <1>1, <1>a, <1>b, <2>1 DEF Before
<1>9. s.address[k] \in Int /\ r.address[k] \in Int
  BY <1>2
<1> QED BY <1>6, <1>7, <1>8, <1>9

(***************************************************************************)
(* What the rows that are assigned and satisfied say of a trace.           *)
(***************************************************************************)
SortedUpTo(s, n) ==
  \A i, j \in 1 .. n : i < j => Before(KeyLimbs(s[i]), KeyLimbs(s[j]))

\* From row w to row i there is one write, the first, and the reads of it.
ReadsOf(s, w, i) ==
  /\ w < i
  /\ s[w].instruction = "Write"
  /\ \A k \in w .. i :
       /\ s[k].address = s[w].address
       /\ s[k].value = s[w].value
       /\ k # w => s[k].instruction = "Read"

WrittenUpTo(s, n) ==
  \A i \in 1 .. n : s[i].instruction = "Read" => \E w \in 1 .. n : ReadsOf(s, w, i)

IncreasingUpTo(s, n) ==
  \A i, j \in 1 .. n : i < j => Before(s[i].time_log, s[j].time_log)

LEMMA RecordAt ==
  ASSUME NEW s \in Seq(TraceRecord), NEW i \in 1 .. Len(s)
  PROVE  s[i] \in TraceRecord
OBVIOUS

LEMMA SortedStep ==
  ASSUME NEW s \in Seq(TraceRecord), NEW n \in 1 .. Len(s), n < Len(s), SortedUpTo(s, n),
         Before(KeyLimbs(s[n]), KeyLimbs(s[n + 1]))
  PROVE  SortedUpTo(s, n + 1)
<1>1. SUFFICES ASSUME NEW i \in 1 .. n + 1, NEW j \in 1 .. n + 1, i < j
               PROVE  Before(KeyLimbs(s[i]), KeyLimbs(s[j]))
  BY DEF SortedUpTo
<1>2. CASE j <= n
  BY <1>1, <1>2 DEF SortedUpTo
<1>3. CASE j = n + 1 /\ i = n
  BY <1>3
<1>4. CASE j = n + 1 /\ i < n
  <2>1. i \in 1 .. n /\ n \in 1 .. n /\ n + 1 \in 1 .. Len(s) /\ i \in 1 .. Len(s)
    BY <1>1, <1>4
  <2>2. Before(KeyLimbs(s[i]), KeyLimbs(s[n]))
    BY <1>4, <2>1 DEF SortedUpTo
  <2>3. PICK N \in Nat : /\ KeyLimbs(s[i]) \in [1 .. N -> Int]
                         /\ KeyLimbs(s[n]) \in [1 .. N -> Int]
                         /\ KeyLimbs(s[n + 1]) \in [1 .. N -> Int]
    BY <2>1, RecordAt, RecordTypes
  <2> QED BY <1>4, <2>2, <2>3, BeforeTransitive
<1> QED BY <1>1, <1>2, <1>3, <1>4

LEMMA IncreasingStep ==
  ASSUME NEW s \in Seq(TraceRecord), NEW n \in 1 .. Len(s), n < Len(s), IncreasingUpTo(s, n),
         Before(s[n].time_log, s[n + 1].time_log)
  PROVE  IncreasingUpTo(s, n + 1)
<1>1. SUFFICES ASSUME NEW i \in 1 .. n + 1, NEW j \in 1 .. n + 1, i < j
               PROVE  Before(s[i].time_log, s[j].time_log)
  BY DEF IncreasingUpTo
<1>2. CASE j <= n
  BY <1>1, <1>2 DEF IncreasingUpTo
<1>3. CASE j = n + 1 /\ i = n
  BY <1>3
<1>4. CASE j = n + 1 /\ i < n
  <2>1. i \in 1 .. n /\ n \in 1 .. n /\ n + 1 \in 1 .. Len(s) /\ i \in 1 .. Len(s)
    BY <1>1, <1>4
  <2>2. Before(s[i].time_log, s[n].time_log)
    BY <1>4, <2>1 DEF IncreasingUpTo
  <2>3. PICK N \in Nat : /\ s[i].time_log \in [1 .. N -> Int]
                         /\ s[n].time_log \in [1 .. N -> Int]
                         /\ s[n + 1].time_log \in [1 .. N -> Int]
    BY <2>1, RecordAt, RecordTypes
  <2> QED BY <1>4, <2>2, <2>3, BeforeTransitive
<1> QED BY <1>1, <1>2, <1>3, <1>4

\* Without their top limbs, words in the field are determined by their low limbs.
LEMMA LowLimbsDetermine ==
  ASSUME NEW v \in [1 .. WordLimbs -> Limbs], NEW w \in [1 .. WordLimbs -> Limbs],
         TopLimbIsZero(v), TopLimbIsZero(w), LowLimbs(v) = LowLimbs(w)
  PROVE  v = w
<1>1. WordLimbs \in Nat \ {0}
  BY CircuitAssumption
<1>2. ASSUME NEW k \in 1 .. WordLimbs PROVE v[k] = w[k]
  <2>1. CASE k = 1
    BY <2>1 DEF TopLimbIsZero
  <2>2. CASE k \in 2 .. WordLimbs
    <3>1. LowLimbs(v)[k] = v[k] /\ LowLimbs(w)[k] = w[k]
      BY <2>2 DEF LowLimbs
    <3> QED BY <3>1
  <2> QED BY <1>1, <2>1, <2>2
<1>3. \A k \in 1 .. WordLimbs : v[k] = w[k]
  BY <1>2
<1>4. /\ v = [k \in 1 .. WordLimbs |-> v[k]]
      /\ w = [k \in 1 .. WordLimbs |-> w[k]]
  OBVIOUS
<1>5. [k \in 1 .. WordLimbs |-> v[k]] = [k \in 1 .. WordLimbs |-> w[k]]
  BY ONLY <1>3
<1> QED BY ONLY <1>4, <1>5

\* A row that satisfies the gates of a read extends the reads of the last write.
LEMMA WrittenStep ==
  ASSUME NEW s \in Seq(TraceRecord), NEW n \in 1 .. Len(s), n < Len(s), WrittenUpTo(s, n),
         s[n + 1].instruction = "Read" => /\ s[n + 1].address = s[n].address
                                          /\ s[n + 1].value = s[n].value
  PROVE  WrittenUpTo(s, n + 1)
<1>1. SUFFICES ASSUME NEW i \in 1 .. n + 1, s[i].instruction = "Read"
               PROVE  \E w \in 1 .. n + 1 : ReadsOf(s, w, i)
  BY DEF WrittenUpTo
<1>2. CASE i <= n
  <2>1. PICK w \in 1 .. n : ReadsOf(s, w, i)
    BY <1>1, <1>2 DEF WrittenUpTo
  <2> QED BY <2>1
<1>3. CASE i = n + 1
  <2>1. s[i].address = s[n].address /\ s[i].value = s[n].value
    BY <1>1, <1>3
  <2>2. s[n].instruction \in {"Read", "Write"}
    BY RecordAt, RecordTypes DEF Instructions
  <2>3. CASE s[n].instruction = "Write"
    <3>1. \A k \in n .. i : k = n \/ k = i
      BY <1>3
    <3>2. n < i
      BY <1>3
    <3>3. ReadsOf(s, n, i)
      BY <1>1, <2>1, <2>3, <3>1, <3>2 DEF ReadsOf
    <3> QED BY <3>3
  <2>4. CASE s[n].instruction = "Read"
    <3>1. PICK w \in 1 .. n : ReadsOf(s, w, n)
      BY <2>4 DEF WrittenUpTo
    <3>2. \A k \in w .. i : k \in w .. n \/ k = i
      BY <1>3
    <3>3. s[i].address = s[w].address /\ s[i].value = s[w].value /\ n # w /\ w < i
      BY <1>3, <2>1, <3>1 DEF ReadsOf
    <3>4. ReadsOf(s, w, i)
      BY <1>1, <3>1, <3>2, <3>3 DEF ReadsOf
    <3> QED BY <3>4
  <2> QED BY <2>2, <2>3, <2>4
<1> QED BY <1>2, <1>3

(***************************************************************************)
(* From the sorted trace to the trace.                                     *)
(***************************************************************************)
\* The records of a trace are where p sends them in the other.
Carries(p, a, s) ==
  /\ p \in [1 .. Len(a) -> 1 .. Len(s)]
  /\ \A i, j \in 1 .. Len(a) : p[i] = p[j] => i = j
  /\ \A k \in 1 .. Len(s) : \E i \in 1 .. Len(a) : p[i] = k
  /\ \A i \in 1 .. Len(a) : a[i] = s[p[i]]

LEMMA BijectionCarries ==
  ASSUME NEW a \in Seq(TraceRecord), NEW s \in Seq(TraceRecord),
         NEW p \in Bijection(DOMAIN a, DOMAIN s), \A i \in DOMAIN a : a[i] = s[p[i]]
  PROVE  Carries(p, a, s)
<1>1. DOMAIN a = 1 .. Len(a) /\ DOMAIN s = 1 .. Len(s)
  OBVIOUS
<1>2. /\ p \in [DOMAIN a -> DOMAIN s]
      /\ \A i, j \in DOMAIN a : p[i] = p[j] => i = j
      /\ \A k \in DOMAIN s : \E i \in DOMAIN a : p[i] = k
  BY DEF Bijection, Injection, Surjection, IsInjective
<1> QED BY <1>1, <1>2 DEF Carries

\* Compressed records determine records whose words are in the field.
LEMMA ShuffleCarries ==
  ASSUME NEW a \in Seq(TraceRecord), NEW s \in Seq(TraceRecord),
         IsShuffle(a, s), InField(a), InField(s)
  PROVE  \E p : Carries(p, a, s)
<1>1. PICK p \in Bijection(DOMAIN a, DOMAIN s) :
        \A i \in DOMAIN a : Compress(a[i]) = Compress(s[p[i]])
  BY DEF IsShuffle
<1>2. p \in [DOMAIN a -> DOMAIN s]
  BY DEF Bijection, Injection
<1>3. ASSUME NEW i \in DOMAIN a PROVE a[i] = s[p[i]]
  <2>1. a[i] \in TraceRecord /\ s[p[i]] \in TraceRecord
    BY <1>2
  <2>2. /\ a[i].time_log = s[p[i]].time_log
        /\ a[i].stack_depth = s[p[i]].stack_depth
        /\ a[i].instruction = s[p[i]].instruction
        /\ FieldOf(a[i].address) = FieldOf(s[p[i]].address)
        /\ FieldOf(a[i].value) = FieldOf(s[p[i]].value)
    BY <1>1 DEF Compress
  <2>3. /\ TopLimbIsZero(a[i].address) /\ TopLimbIsZero(s[p[i]].address)
        /\ TopLimbIsZero(a[i].value) /\ TopLimbIsZero(s[p[i]].value)
    BY <1>2 DEF InField
  <2>4. /\ a[i].address \in Words /\ s[p[i]].address \in Words
        /\ a[i].value \in Words /\ s[p[i]].value \in Words
    BY <2>1 DEF TraceRecord
  <2>5. a[i].address = s[p[i]].address /\ a[i].value = s[p[i]].value
    BY <2>2, <2>3, <2>4, CircuitAssumption
  <2> QED BY <2>1, <2>2, <2>5 DEF TraceRecord
<1> QED BY <1>1, <1>3, BijectionCarries

\* Rows in the order of their keys are in the order of their keys only.
LEMMA RowOrder ==
  ASSUME NEW s \in Seq(TraceRecord), SortedUpTo(s, Len(s)),
         NEW i \in 1 .. Len(s), NEW j \in 1 .. Len(s), Before(KeyLimbs(s[i]), KeyLimbs(s[j]))
  PROVE  i < j
<1>1. PICK N \in Nat : /\ KeyLimbs(s[i]) \in [1 .. N -> Int]
                       /\ KeyLimbs(s[j]) \in [1 .. N -> Int]
  BY RecordAt, RecordTypes
<1>2. ~ Before(KeyLimbs(s[j]), KeyLimbs(s[i]))
  BY <1>1, BeforeAsymmetric
<1>3. i # j
  BY <1>1, BeforeIrreflexive
<1>4. ~ (j < i)
  BY <1>2 DEF SortedUpTo
<1> QED BY <1>3, <1>4

LEMMA TimeOrder ==
  ASSUME NEW a \in Seq(TraceRecord), IncreasingUpTo(a, Len(a)),
         NEW i \in 1 .. Len(a), NEW j \in 1 .. Len(a), Before(a[i].time_log, a[j].time_log)
  PROVE  i < j
<1>1. PICK N \in Nat : /\ a[i].time_log \in [1 .. N -> Int]
                       /\ a[j].time_log \in [1 .. N -> Int]
  BY RecordAt, RecordTypes
<1>2. ~ Before(a[j].time_log, a[i].time_log)
  BY <1>1, BeforeAsymmetric
<1>3. i # j
  BY <1>1, BeforeIrreflexive
<1>4. ~ (j < i)
  BY <1>2 DEF IncreasingUpTo
<1> QED BY <1>3, <1>4

\* The argument of the circuit: a read of the sorted trace follows its write
\* directly or after other reads, so the write is the latest in the trace.
LEMMA SortedReadsAreConsistent ==
  ASSUME NEW a \in Seq(TraceRecord), NEW s \in Seq(TraceRecord), NEW p, Carries(p, a, s),
         IncreasingUpTo(a, Len(a)), SortedUpTo(s, Len(s)), WrittenUpTo(s, Len(s))
  PROVE  ConsistentReads(a)
<1>1. SUFFICES ASSUME NEW i \in 1 .. Len(a), a[i].instruction = "Read"
               PROVE  \E w \in 1 .. Len(a) : IsLatestWrite(a, w, i) /\ a[w].value = a[i].value
  <2>1. DOMAIN a = 1 .. Len(a)
    OBVIOUS
  <2> QED BY <2>1 DEF ConsistentReads
<1>2. p[i] \in 1 .. Len(s) /\ s[p[i]] = a[i]
  BY DEF Carries
<1>3. PICK q \in 1 .. Len(s) : ReadsOf(s, q, p[i])
  BY <1>1, <1>2 DEF WrittenUpTo
<1>a. PICK w \in 1 .. Len(a) : p[w] = q
  BY DEF Carries
<1>4. p[w] = q /\ a[w] = s[q]
  BY <1>a DEF Carries
<1>5. /\ q < p[i] /\ a[w].instruction = "Write"
      /\ a[w].address = a[i].address /\ a[w].value = a[i].value
  BY <1>2, <1>3, <1>4 DEF ReadsOf
<1>6. a[w] \in TraceRecord /\ a[i] \in TraceRecord
  BY RecordAt
<1>7. w < i
  <2>1. Before(KeyLimbs(a[w]), KeyLimbs(a[i]))
    BY <1>2, <1>4, <1>5 DEF SortedUpTo
  <2>2. Before(a[w].time_log, a[i].time_log)
    BY <1>5, <1>6, <2>1, KeyOrder
  <2> QED BY <2>2, TimeOrder
<1>8. ASSUME NEW k \in 1 .. Len(a), w < k, k < i, a[k].instruction = "Write",
             a[k].address = a[i].address
      PROVE  FALSE
  <2>1. p[k] \in 1 .. Len(s) /\ s[p[k]] = a[k] /\ a[k] \in TraceRecord
    BY RecordAt DEF Carries
  <2>2. Before(a[w].time_log, a[k].time_log) /\ Before(a[k].time_log, a[i].time_log)
    BY <1>8 DEF IncreasingUpTo
  <2>3. /\ Before(KeyLimbs(s[q]), KeyLimbs(s[p[k]]))
        /\ Before(KeyLimbs(s[p[k]]), KeyLimbs(s[p[i]]))
    BY <1>2, <1>4, <1>5, <1>6, <1>8, <2>1, <2>2, KeyOrder
  <2>4. q < p[k] /\ p[k] < p[i]
    BY <1>2, <2>1, <2>3, RowOrder
  <2>5. p[k] \in q .. p[i] /\ p[k] # q
    BY <1>2, <2>1, <2>4
  <2>6. s[p[k]].instruction = "Read"
    BY <1>3, <2>5 DEF ReadsOf
  <2> QED BY <1>8, <2>1, <2>6
<1>9. IsLatestWrite(a, w, i)
  BY <1>5, <1>7, <1>8 DEF IsLatestWrite
<1> QED BY <1>5, <1>9

(***************************************************************************)
(* From the trace to its sort.                                             *)
(***************************************************************************)
LEMMA SortCarries ==
  ASSUME NEW a \in Seq(TraceRecord), NEW s \in Seq(TraceRecord), IsSortOf(s, a)
  PROVE  /\ \E p : Carries(p, a, s)
         /\ IsShuffle(a, s)
         /\ Len(a) = Len(s)
<1>1. PICK p \in Bijection(DOMAIN a, DOMAIN s) : \A i \in DOMAIN a : a[i] = s[p[i]]
  BY DEF IsSortOf
<1>2. Carries(p, a, s)
  BY <1>1, BijectionCarries
<1>3. IsShuffle(a, s)
  BY <1>1 DEF IsShuffle
<1>4. /\ DOMAIN a = 1 .. Len(a) /\ DOMAIN s = 1 .. Len(s)
      /\ Len(a) \in Nat /\ Len(s) \in Nat
  OBVIOUS
<1>5. IsFiniteSet(1 .. Len(a)) /\ ExistsBijection(1 .. Len(a), 1 .. Len(s))
  BY <1>1, <1>4, FS_Interval DEF ExistsBijection
<1>6. Cardinality(1 .. Len(s)) = Cardinality(1 .. Len(a))
  BY <1>5, FS_Bijection
<1>7. \A n \in Nat : Cardinality(1 .. n) = n
  <2>1. TAKE n \in Nat
  <2>2. Cardinality(1 .. n) = IF 1 > n THEN 0 ELSE n - 1 + 1
    BY FS_Interval
  <2> QED BY <2>2
<1>8. Len(a) = Len(s)
  BY <1>4, <1>6, <1>7
<1> QED BY <1>2, <1>3, <1>8

\* Records with different times have different keys.
LEMMA KeysDiffer ==
  ASSUME NEW r \in TraceRecord, NEW s \in TraceRecord, Before(r.time_log, s.time_log)
  PROVE  Differ(KeyLimbs(s), KeyLimbs(r))
<1>1. CASE r.address = s.address
  <2>1. Before(KeyLimbs(r), KeyLimbs(s))
    BY <1>1, KeyOrder
  <2> QED BY <2>1, RecordTypes, BeforeDiffers
<1>2. CASE r.address # s.address
  <2>1. /\ WordLimbs \in Nat /\ TimeLimbs \in Nat
        /\ r.address \in [1 .. WordLimbs -> Limbs] /\ s.address \in [1 .. WordLimbs -> Limbs]
        /\ DOMAIN KeyLimbs(s) = 1 .. WordLimbs + TimeLimbs
    BY RecordTypes
  <2>2. PICK k \in 1 .. WordLimbs : r.address[k] # s.address[k]
    BY <1>2, <2>1
  <2>3. KeyLimbs(r)[k] # KeyLimbs(s)[k]
    BY <2>2, KeyOfRecord
  <2>4. k \in DOMAIN KeyLimbs(s)
    BY <2>1
  <2> QED BY <2>3, <2>4 DEF Differ
<1> QED BY <1>1, <1>2

LEMMA SortIsStrict ==
  ASSUME NEW a \in Seq(TraceRecord), NEW s \in Seq(TraceRecord), IsSortOf(s, a),
         IncreasingUpTo(a, Len(a))
  PROVE  SortedUpTo(s, Len(s))
<1>1. SUFFICES ASSUME NEW m \in 1 .. Len(s), NEW n \in 1 .. Len(s), m < n
               PROVE  Before(KeyLimbs(s[m]), KeyLimbs(s[n]))
  BY DEF SortedUpTo
<1>2. PICK p : Carries(p, a, s)
  BY SortCarries
<1>3. PICK i \in 1 .. Len(a) : p[i] = m
  BY <1>2 DEF Carries
<1>4. PICK j \in 1 .. Len(a) : p[j] = n
  BY <1>2 DEF Carries
<1>5. a[i] = s[m] /\ a[j] = s[n] /\ i # j
  BY <1>1, <1>2, <1>3, <1>4 DEF Carries
<1>6. a[i] \in TraceRecord /\ a[j] \in TraceRecord
  BY RecordAt
<1>7. Before(a[i].time_log, a[j].time_log) \/ Before(a[j].time_log, a[i].time_log)
  <2>1. i < j \/ j < i
    BY <1>5
  <2> QED BY <2>1 DEF IncreasingUpTo
<1>8. PICK N \in Nat : KeyLimbs(a[i]) \in [1 .. N -> Int] /\ KeyLimbs(a[j]) \in [1 .. N -> Int]
  BY <1>6, RecordTypes
<1>9. Differ(KeyLimbs(a[j]), KeyLimbs(a[i])) \/ Differ(KeyLimbs(a[i]), KeyLimbs(a[j]))
  BY <1>6, <1>7, KeysDiffer
<1>10. Before(KeyLimbs(a[i]), KeyLimbs(a[j])) \/ Before(KeyLimbs(a[j]), KeyLimbs(a[i]))
  BY <1>8, <1>9, BeforeTotal
<1>11. ~ Before(KeyLimbs(s[n]), KeyLimbs(s[m]))
  <2>1. m \in DOMAIN s /\ n \in DOMAIN s
    OBVIOUS
  <2> QED BY <1>1, <2>1 DEF IsSortOf
<1> QED BY <1>5, <1>10, <1>11

\* In the sort of a consistent trace a read has the write it reads above it.
LEMMA WriteIsAbove ==
  ASSUME NEW a \in Seq(TraceRecord), NEW s \in Seq(TraceRecord), NEW p, Carries(p, a, s),
         SortedUpTo(s, Len(s)), IncreasingUpTo(a, Len(a)), ConsistentReads(a),
         NEW i \in 1 .. Len(a), a[i].instruction = "Read"
  PROVE  \E w \in 1 .. Len(a) :
           /\ IsLatestWrite(a, w, i) /\ a[w].value = a[i].value
           /\ p[w] \in 1 .. Len(s) /\ p[i] \in 1 .. Len(s)
           /\ p[w] < p[i]
<1>1. PICK w \in 1 .. Len(a) : IsLatestWrite(a, w, i) /\ a[w].value = a[i].value
  <2>1. DOMAIN a = 1 .. Len(a)
    OBVIOUS
  <2> QED BY <2>1 DEF ConsistentReads
<1>2. w < i /\ a[w].address = a[i].address
  BY <1>1 DEF IsLatestWrite
<1>3. Before(a[w].time_log, a[i].time_log)
  BY <1>2 DEF IncreasingUpTo
<1>4. a[w] = s[p[w]] /\ a[i] = s[p[i]] /\ p[w] \in 1 .. Len(s) /\ p[i] \in 1 .. Len(s)
  BY DEF Carries
<1>5. Before(KeyLimbs(s[p[w]]), KeyLimbs(s[p[i]]))
  BY <1>2, <1>3, <1>4, KeyOrder, RecordAt
<1>6. p[w] < p[i]
  BY <1>4, <1>5, RowOrder
<1> QED BY <1>1, <1>4, <1>6

LEMMA FirstIsWrite ==
  ASSUME NEW a \in Seq(TraceRecord), NEW s \in Seq(TraceRecord), Len(s) > 0,
         IsSortOf(s, a), IncreasingUpTo(a, Len(a)), ConsistentReads(a)
  PROVE  s[1].instruction = "Write"
<1>1. PICK p : Carries(p, a, s)
  BY SortCarries
<1>2. PICK i \in 1 .. Len(a) : p[i] = 1
  <2>1. 1 \in 1 .. Len(s)
    OBVIOUS
  <2> QED BY <1>1, <2>1 DEF Carries
<1>3. a[i] = s[1] /\ s[1] \in TraceRecord
  BY <1>1, <1>2, RecordAt DEF Carries
<1>4. a[i].instruction # "Read"
  BY <1>1, <1>2, SortIsStrict, WriteIsAbove
<1> QED BY <1>3, <1>4, RecordTypes DEF Instructions

\* A read of the sort follows a record of its address with its value.
LEMMA ReadFollows ==
  ASSUME NEW a \in Seq(TraceRecord), NEW s \in Seq(TraceRecord), NEW n \in 1 .. Len(s),
         n < Len(s), IsSortOf(s, a), IncreasingUpTo(a, Len(a)), ConsistentReads(a),
         s[n + 1].instruction = "Read"
  PROVE  s[n + 1].address = s[n].address /\ s[n + 1].value = s[n].value
<1>1. PICK p : Carries(p, a, s)
  BY SortCarries
<1>2. SortedUpTo(s, Len(s))
  BY SortIsStrict
<1>3. n + 1 \in 1 .. Len(s)
  OBVIOUS
<1>4. PICK i \in 1 .. Len(a) : p[i] = n + 1
  BY <1>1, <1>3 DEF Carries
<1>5. PICK j \in 1 .. Len(a) : p[j] = n
  BY <1>1 DEF Carries
<1>6. a[i] = s[n + 1] /\ a[j] = s[n] /\ a[i] \in TraceRecord /\ a[j] \in TraceRecord
  BY <1>1, <1>4, <1>5, RecordAt DEF Carries
<1>7. PICK w \in 1 .. Len(a) :
        /\ IsLatestWrite(a, w, i) /\ a[w].value = a[i].value
        /\ p[w] \in 1 .. Len(s) /\ p[w] < p[i]
  BY <1>1, <1>2, <1>6, WriteIsAbove
<1>8. /\ w < i /\ a[w].instruction = "Write" /\ a[w].address = a[i].address
      /\ a[w] = s[p[w]] /\ a[w] \in TraceRecord /\ p[w] <= n
  BY <1>1, <1>4, <1>7, RecordAt DEF IsLatestWrite, Carries
<1>9. ~ Before(KeyLimbs(s[n]), KeyLimbs(s[p[w]]))
  BY <1>2, <1>7, <1>8, RowOrder
<1>10. ~ Before(KeyLimbs(s[n + 1]), KeyLimbs(s[n]))
  BY <1>2, <1>3, RowOrder
<1>11. a[j].address = a[i].address
  BY <1>6, <1>8, <1>9, <1>10, AddressBetween
<1>12. j < i
  <2>1. Before(KeyLimbs(a[j]), KeyLimbs(a[i]))
    BY <1>2, <1>3, <1>6 DEF SortedUpTo
  <2> QED BY <1>6, <1>11, <2>1, KeyOrder, TimeOrder
<1>13. ~ (j < w)
  <2>1. ASSUME j < w PROVE Before(KeyLimbs(a[j]), KeyLimbs(a[w]))
    BY <1>6, <1>8, <1>11, <2>1, KeyOrder DEF IncreasingUpTo
  <2> QED BY <1>6, <1>8, <1>9, <2>1
<1>14. CASE a[j].instruction = "Write"
  <2>1. ~ (w < j)
    BY <1>7, <1>11, <1>12, <1>14 DEF IsLatestWrite
  <2>2. j = w
    BY <1>13, <2>1
  <2> QED BY <1>6, <1>7, <1>11, <2>2
<1>15. CASE a[j].instruction = "Read"
  <2>1. PICK v \in 1 .. Len(a) : IsLatestWrite(a, v, j) /\ a[v].value = a[j].value
    BY <1>1, <1>2, <1>15, WriteIsAbove
  <2>2. v < j /\ a[v].instruction = "Write" /\ a[v].address = a[j].address
    BY <2>1 DEF IsLatestWrite
  <2>3. w < j
    <3>1. w # j
      BY <1>8, <1>15
    <3> QED BY <1>13, <3>1
  <2>4. ~ (w < v)
    BY <1>7, <1>11, <1>12, <2>2 DEF IsLatestWrite
  <2>5. ~ (v < w)
    BY <1>8, <1>11, <2>1, <2>3 DEF IsLatestWrite
  <2>6. v = w
    BY <2>4, <2>5
  <2> QED BY <1>6, <1>7, <1>11, <2>1, <2>6
<1>16. a[j].instruction \in {"Read", "Write"}
  BY <1>6, RecordTypes DEF Instructions
<1> QED BY <1>14, <1>15, <1>16

-----------------------------------------------------------------------------
\* TypeOK: both traces have the same number of rows whenever rows are compared,
\* and rows are counted from zero in each region.
THEOREM TypeCorrect == Spec => []TypeOK
<1>1. Init => TypeOK
  <2> SUFFICES ASSUME Init PROVE TypeOK
    OBVIOUS
  <2>1. input \in Seq(TraceRecord) /\ shuffle \in Seq(TraceRecord)
    BY CircuitAssumption DEF Init
  <2>2. Len(shuffle) \in Nat
    BY <2>1
  <2> QED BY <2>1, <2>2 DEF Init, TypeOK
<1>2. TypeOK /\ [Next]_vars => TypeOK'
  <2> SUFFICES ASSUME TypeOK, [Next]_vars PROVE TypeOK'
    OBVIOUS
  <2> USE DEF TypeOK
  <2>0. Len(shuffle) \in Nat /\ Len(input) \in Nat
    OBVIOUS
  <2>1. CASE LengthsDiffer
    BY <2>1 DEF LengthsDiffer
  <2>2. CASE Permutation
    BY <2>2 DEF Permutation, IsShuffle
  <2>3. CASE FirstSortedRow
    BY <2>0, <2>3 DEF FirstSortedRow, FirstSortedGates
  <2>4. CASE SortedRow
    BY <2>0, <2>4 DEF SortedRow, SortedGates, GreaterThan
  <2>5. CASE SortedRowPanics
    BY <2>5 DEF SortedRowPanics
  <2>6. CASE SortedDone
    BY <2>0, <2>6 DEF SortedDone
  <2>7. CASE FirstOriginalRow
    BY <2>0, <2>7 DEF FirstOriginalRow, FirstOriginalGates
  <2>8. CASE OriginalRow
    BY <2>0, <2>8 DEF OriginalRow, OriginalGates, GreaterThan
  <2>9. CASE OriginalRowPanics
    BY <2>9 DEF OriginalRowPanics
  <2>10. CASE Verify
    BY <2>10 DEF Verify
  <2>11. CASE UNCHANGED vars
    BY <2>11 DEF vars
  <2> QED
    BY <2>1, <2>2, <2>3, <2>4, <2>5, <2>6, <2>7, <2>8, <2>9, <2>10, <2>11 DEF Next
<1> QED BY <1>1, <1>2, PTL DEF Spec

(***************************************************************************)
(* Soundness.                                                              *)
(***************************************************************************)
\* The rows of the sorted and of the original trace that were checked.
SortedRows ==
  IF region = "sorted" THEN row
    ELSE IF region \in {"original", "accepted"} THEN Len(shuffle) ELSE 0

OriginalRows ==
  IF region = "original" THEN row
    ELSE IF region = "accepted" THEN Len(input) ELSE 0

SoundInv ==
  /\ region = "accepted" => satisfied
  /\ satisfied /\ region \in {"sorted", "original", "accepted"} =>
       /\ IsShuffle(input, shuffle)
       /\ SortedUpTo(shuffle, SortedRows)
       /\ InField(shuffle) => WrittenUpTo(shuffle, SortedRows)
       /\ IncreasingUpTo(input, OriginalRows)
       /\ OriginalRows > 0 => FirstOriginalGates(input[1])

\* What the gates of a row of the sorted trace establish.
LEMMA SortedGatesHold ==
  ASSUME NEW cur \in TraceRecord, NEW prev \in TraceRecord,
         Differ(KeyLimbs(cur), KeyLimbs(prev)), SortedGates(cur, prev)
  PROVE  /\ Before(KeyLimbs(prev), KeyLimbs(cur))
         /\ /\ cur.instruction = "Read"
            /\ TopLimbIsZero(cur.address) /\ TopLimbIsZero(prev.address)
            /\ TopLimbIsZero(cur.value) /\ TopLimbIsZero(prev.value)
            => cur.address = prev.address /\ cur.value = prev.value
<1>1. PICK N \in Nat : KeyLimbs(cur) \in [1 .. N -> Limbs] /\ KeyLimbs(prev) \in [1 .. N -> Limbs]
  BY RecordTypes
<1>2. Before(KeyLimbs(prev), KeyLimbs(cur))
  BY <1>1, GreaterThanIsBefore DEF SortedGates
<1>3. cur.instruction = "Read" => /\ LowLimbs(cur.address) = LowLimbs(prev.address)
                                  /\ LowLimbs(cur.value) = LowLimbs(prev.value)
  BY DEF SortedGates
<1> QED BY <1>2, <1>3, RecordTypes, LowLimbsDetermine

LEMMA SoundInvariant == Spec => []SoundInv
<1>1. Init => SoundInv
  BY DEF Init, SoundInv
<1>2. TypeOK /\ SoundInv /\ [Next]_vars => SoundInv'
  <2> SUFFICES ASSUME TypeOK, SoundInv, [Next]_vars PROVE SoundInv'
    OBVIOUS
  <2>0. /\ shuffle \in Seq(TraceRecord) /\ input \in Seq(TraceRecord)
        /\ Len(shuffle) \in Nat /\ Len(input) \in Nat /\ row \in Nat
    BY DEF TypeOK
  <2>1. CASE LengthsDiffer
    BY <2>1 DEF LengthsDiffer, SoundInv
  <2>2. CASE Permutation
    <3>1. SortedRows' = 0 /\ OriginalRows' = 0 /\ region' # "accepted"
      BY <2>2 DEF Permutation, SortedRows, OriginalRows, TypeOK
    <3>2. /\ SortedUpTo(shuffle', 0) /\ WrittenUpTo(shuffle', 0) /\ IncreasingUpTo(input', 0)
      BY DEF SortedUpTo, WrittenUpTo, IncreasingUpTo
    <3>3. satisfied' => IsShuffle(input', shuffle')
      BY <2>2 DEF Permutation
    <3> QED BY <3>1, <3>2, <3>3 DEF SoundInv
  <2>3. CASE FirstSortedRow
    <3>1. /\ region = "sorted" /\ row = 0 /\ SortedRows' = 1 /\ OriginalRows' = 0
          /\ region' # "accepted" /\ shuffle' = shuffle /\ input' = input
          /\ satisfied' => satisfied /\ shuffle[1].instruction = "Write"
      BY <2>3 DEF FirstSortedRow, SortedRows, OriginalRows, FirstSortedGates
    <3>2. SortedUpTo(shuffle, 1) /\ IncreasingUpTo(input, 0)
      BY DEF SortedUpTo, IncreasingUpTo
    <3>3. shuffle[1].instruction = "Write" => WrittenUpTo(shuffle, 1)
      BY DEF WrittenUpTo
    <3> QED BY <3>1, <3>2, <3>3 DEF SoundInv
  <2>4. CASE SortedRow
    <3>1. /\ region = "sorted" /\ SortedRows = row /\ SortedRows' = row + 1
          /\ OriginalRows = 0 /\ OriginalRows' = 0
          /\ region' = "sorted" /\ shuffle' = shuffle /\ input' = input
          /\ row \in 1 .. Len(shuffle) /\ row < Len(shuffle)
          /\ Differ(KeyLimbs(shuffle[row + 1]), KeyLimbs(shuffle[row]))
      BY <2>0, <2>4 DEF SortedRow, SortedRows, OriginalRows
    <3>a. satisfied' => satisfied /\ SortedGates(shuffle[row + 1], shuffle[row])
      BY <2>4, Zenon DEF SortedRow
    <3>2. SUFFICES ASSUME satisfied'
                   PROVE  /\ SortedUpTo(shuffle, row + 1)
                          /\ InField(shuffle) => WrittenUpTo(shuffle, row + 1)
      BY <3>1, <3>a DEF SoundInv
    <3>3. /\ SortedUpTo(shuffle, row)
          /\ InField(shuffle) => WrittenUpTo(shuffle, row)
      BY <3>1, <3>a, <3>2 DEF SoundInv
    <3>4. shuffle[row] \in TraceRecord /\ shuffle[row + 1] \in TraceRecord
      BY <2>0, <3>1
    <3>5. Before(KeyLimbs(shuffle[row]), KeyLimbs(shuffle[row + 1]))
      BY <3>1, <3>a, <3>2, <3>4, SortedGatesHold
    <3>6. SortedUpTo(shuffle, row + 1)
      BY <2>0, <3>1, <3>3, <3>5, SortedStep
    <3>7. ASSUME InField(shuffle) PROVE WrittenUpTo(shuffle, row + 1)
      <4>1. /\ TopLimbIsZero(shuffle[row].address) /\ TopLimbIsZero(shuffle[row].value)
            /\ TopLimbIsZero(shuffle[row + 1].address) /\ TopLimbIsZero(shuffle[row + 1].value)
        BY <2>0, <3>1, <3>7 DEF InField
      <4>2. shuffle[row + 1].instruction = "Read" =>
              /\ shuffle[row + 1].address = shuffle[row].address
              /\ shuffle[row + 1].value = shuffle[row].value
        BY <3>1, <3>a, <3>2, <3>4, <4>1, SortedGatesHold
      <4> QED BY <2>0, <3>1, <3>3, <3>7, <4>2, WrittenStep
    <3> QED BY <3>6, <3>7
  <2>5. CASE SortedRowPanics
    BY <2>5 DEF SortedRowPanics, SoundInv
  <2>6. CASE SortedDone
    <3>1. /\ region = "sorted" /\ SortedRows = Len(shuffle) /\ SortedRows' = Len(shuffle)
          /\ OriginalRows = 0 /\ OriginalRows' = 0 /\ region' = "original"
          /\ shuffle' = shuffle /\ input' = input /\ satisfied' = satisfied
      BY <2>6 DEF SortedDone, SortedRows, OriginalRows
    <3> QED BY <3>1 DEF SoundInv
  <2>7. CASE FirstOriginalRow
    <3>1. /\ region = "original" /\ SortedRows = Len(shuffle) /\ SortedRows' = Len(shuffle)
          /\ OriginalRows' = 1 /\ region' = "original"
          /\ shuffle' = shuffle /\ input' = input
          /\ satisfied' => satisfied /\ FirstOriginalGates(input[1])
      BY <2>7 DEF FirstOriginalRow, SortedRows, OriginalRows
    <3>2. IncreasingUpTo(input, 1)
      BY DEF IncreasingUpTo
    <3> QED BY <3>1, <3>2 DEF SoundInv
  <2>8. CASE OriginalRow
    <3>1. /\ region = "original" /\ SortedRows = Len(shuffle) /\ SortedRows' = Len(shuffle)
          /\ OriginalRows = row /\ OriginalRows' = row + 1 /\ region' = "original"
          /\ shuffle' = shuffle /\ input' = input /\ row > 0
          /\ row \in 1 .. Len(input) /\ row < Len(input)
          /\ Differ(input[row + 1].time_log, input[row].time_log)
      BY <2>0, <2>8 DEF OriginalRow, SortedRows, OriginalRows
    <3>a. satisfied' => satisfied /\ OriginalGates(input[row + 1], input[row])
      BY <2>8, Zenon DEF OriginalRow
    <3>2. SUFFICES ASSUME satisfied' PROVE IncreasingUpTo(input, row + 1)
      BY <3>1, <3>a DEF SoundInv
    <3>3. IncreasingUpTo(input, row)
      BY <3>1, <3>a, <3>2 DEF SoundInv
    <3>4. input[row] \in TraceRecord /\ input[row + 1] \in TraceRecord
      BY <2>0, <3>1
    <3>5. Before(input[row].time_log, input[row + 1].time_log)
      BY <3>1, <3>a, <3>2, <3>4, RecordTypes, GreaterThanIsBefore DEF OriginalGates
    <3> QED BY <2>0, <3>1, <3>3, <3>5, IncreasingStep
  <2>9. CASE OriginalRowPanics
    BY <2>9 DEF OriginalRowPanics, SoundInv
  <2>10. CASE Verify
    <3>1. /\ region = "original" /\ SortedRows = Len(shuffle) /\ OriginalRows = Len(input)
          /\ region' = "accepted" => SortedRows' = Len(shuffle) /\ OriginalRows' = Len(input)
          /\ region' = IF satisfied THEN "accepted" ELSE "rejected"
          /\ shuffle' = shuffle /\ input' = input /\ satisfied' = satisfied
      BY <2>10 DEF Verify, SortedRows, OriginalRows
    <3> QED BY <3>1 DEF SoundInv
  <2>11. CASE UNCHANGED vars
    BY <2>11 DEF vars, SoundInv, SortedRows, OriginalRows
  <2> QED
    BY <2>1, <2>2, <2>3, <2>4, <2>5, <2>6, <2>7, <2>8, <2>9, <2>10, <2>11 DEF Next
<1> QED BY <1>1, <1>2, TypeCorrect, PTL DEF Spec

\* What the circuit accepts starts at time zero, has increasing times, and each
\* of its reads returns what the latest write stored: the gates of
\* sorted_memory_circuit.rs, original_memory_circuit.rs and
\* permutation_circuit.rs together, for traces of any length.
THEOREM Soundness == Spec => []Sound
<1>1. TypeOK /\ SoundInv => Sound
  <2> SUFFICES ASSUME TypeOK, SoundInv, region = "accepted", InField(input), InField(shuffle)
               PROVE  Valid(input)
    BY DEF Sound
  <2>1. /\ input \in Seq(TraceRecord) /\ shuffle \in Seq(TraceRecord)
        /\ SortedRows = Len(shuffle) /\ OriginalRows = Len(input)
    BY DEF TypeOK, SortedRows, OriginalRows
  <2>2. /\ IsShuffle(input, shuffle)
        /\ SortedUpTo(shuffle, Len(shuffle))
        /\ WrittenUpTo(shuffle, Len(shuffle))
        /\ IncreasingUpTo(input, Len(input))
        /\ Len(input) > 0 => FirstOriginalGates(input[1])
    BY <2>1 DEF SoundInv
  <2>3. PICK p : Carries(p, input, shuffle)
    BY <2>1, <2>2, ShuffleCarries
  <2>4. ConsistentReads(input)
    BY <2>1, <2>2, <2>3, SortedReadsAreConsistent
  <2>5. Increasing(input)
    BY <2>1, <2>2 DEF Increasing, IncreasingUpTo
  <2>6. StartsAtZero(input)
    BY <2>1, <2>2 DEF StartsAtZero, FirstOriginalGates
  <2> QED BY <2>4, <2>5, <2>6 DEF Valid
<1> QED BY <1>1, TypeCorrect, SoundInvariant, PTL

(***************************************************************************)
(* Completeness.                                                           *)
(***************************************************************************)
CompleteInv ==
  IsSortOf(shuffle, input) /\ Valid(input) =>
    satisfied /\ region \notin {"rejected", "panicked"}

\* A trace that is valid is increasing up to its end.
LEMMA ValidIsIncreasing ==
  ASSUME NEW a \in Seq(TraceRecord), Valid(a)
  PROVE  IncreasingUpTo(a, Len(a)) /\ ConsistentReads(a)
<1>1. DOMAIN a = 1 .. Len(a)
  OBVIOUS
<1> QED BY <1>1 DEF Valid, Increasing, IncreasingUpTo

LEMMA CompleteInvariant == Spec => []CompleteInv
<1>1. Init => CompleteInv
  BY DEF Init, CompleteInv
<1>2. TypeOK /\ CompleteInv /\ [Next]_vars => CompleteInv'
  <2> SUFFICES ASSUME TypeOK, CompleteInv, [Next]_vars,
                      IsSortOf(shuffle', input'), Valid(input')
               PROVE  satisfied' /\ region' \notin {"rejected", "panicked"}
    BY DEF CompleteInv
  <2>0. input' = input /\ shuffle' = shuffle
    BY DEF Next, vars, LengthsDiffer, Permutation, FirstSortedRow, SortedRow, SortedRowPanics,
           SortedDone, FirstOriginalRow, OriginalRow, OriginalRowPanics, Verify
  <2>a. /\ IsSortOf(shuffle, input) /\ Valid(input)
        /\ satisfied /\ region \notin {"rejected", "panicked"}
        /\ shuffle \in Seq(TraceRecord) /\ input \in Seq(TraceRecord)
        /\ Len(shuffle) \in Nat /\ Len(input) \in Nat /\ row \in Nat
    BY <2>0 DEF CompleteInv, TypeOK
  <2>b. /\ IncreasingUpTo(input, Len(input)) /\ ConsistentReads(input)
        /\ IsShuffle(input, shuffle) /\ Len(input) = Len(shuffle)
    BY <2>a, ValidIsIncreasing, SortCarries
  <2>c. SortedUpTo(shuffle, Len(shuffle))
    BY <2>a, <2>b, SortIsStrict
  <2>d. ASSUME row > 0, row < Len(shuffle)
        PROVE  /\ row \in 1 .. Len(shuffle) /\ row + 1 \in 1 .. Len(shuffle)
               /\ shuffle[row] \in TraceRecord /\ shuffle[row + 1] \in TraceRecord
               /\ input[row] \in TraceRecord /\ input[row + 1] \in TraceRecord
    BY <2>a, <2>b, <2>d
  <2>e. ASSUME row > 0, row < Len(shuffle)
        PROVE  /\ Before(KeyLimbs(shuffle[row]), KeyLimbs(shuffle[row + 1]))
               /\ Differ(KeyLimbs(shuffle[row + 1]), KeyLimbs(shuffle[row]))
    <3>1. Before(KeyLimbs(shuffle[row]), KeyLimbs(shuffle[row + 1]))
      BY <2>a, <2>c, <2>d, <2>e DEF SortedUpTo
    <3> QED BY <2>d, <2>e, <3>1, RecordTypes, BeforeDiffers
  <2>f. ASSUME row > 0, row < Len(input)
        PROVE  /\ Before(input[row].time_log, input[row + 1].time_log)
               /\ Differ(input[row + 1].time_log, input[row].time_log)
    <3>1. Before(input[row].time_log, input[row + 1].time_log)
      BY <2>a, <2>b, <2>d, <2>f DEF IncreasingUpTo
    <3> QED BY <2>b, <2>d, <2>f, <3>1, RecordTypes, BeforeDiffers
  <2>1. CASE LengthsDiffer
    BY <2>1, <2>b DEF LengthsDiffer
  <2>2. CASE Permutation
    BY <2>2, <2>b DEF Permutation
  <2>3. CASE FirstSortedRow
    <3>1. shuffle[1].instruction = "Write"
      BY <2>3, <2>a, <2>b, FirstIsWrite DEF FirstSortedRow
    <3> QED BY <2>3, <2>a, <3>1 DEF FirstSortedRow, FirstSortedGates
  <2>4. CASE SortedRow
    <3>1. row > 0 /\ row < Len(shuffle)
      BY <2>4 DEF SortedRow
    <3>2. GreaterThan(KeyLimbs(shuffle[row + 1]), KeyLimbs(shuffle[row]),
                      FirstDifference(KeyLimbs(shuffle[row + 1]), KeyLimbs(shuffle[row])))
      BY <2>d, <2>e, <3>1, RecordTypes, GreaterThanIsBefore
    <3>3. shuffle[row + 1].instruction = "Read" =>
            /\ shuffle[row + 1].address = shuffle[row].address
            /\ shuffle[row + 1].value = shuffle[row].value
      BY <2>a, <2>b, <2>d, <3>1, ReadFollows
    <3>4. SortedGates(shuffle[row + 1], shuffle[row])
      BY <3>2, <3>3 DEF SortedGates
    <3> QED BY <2>4, <2>a, <3>4 DEF SortedRow
  <2>5. CASE SortedRowPanics
    BY <2>5, <2>e DEF SortedRowPanics
  <2>6. CASE SortedDone
    BY <2>6, <2>a DEF SortedDone
  <2>7. CASE FirstOriginalRow
    <3>1. input # <<>>
      BY <2>7 DEF FirstOriginalRow
    <3>2. FirstOriginalGates(input[1])
      BY <2>a, <3>1 DEF FirstOriginalGates, Valid, StartsAtZero
    <3> QED BY <2>7, <2>a, <3>2 DEF FirstOriginalRow
  <2>8. CASE OriginalRow
    <3>1. row > 0 /\ row < Len(input) /\ row < Len(shuffle)
      BY <2>8, <2>b DEF OriginalRow
    <3>2. OriginalGates(input[row + 1], input[row])
      BY <2>d, <2>f, <3>1, RecordTypes, GreaterThanIsBefore DEF OriginalGates
    <3> QED BY <2>8, <2>a, <3>2 DEF OriginalRow
  <2>9. CASE OriginalRowPanics
    BY <2>9, <2>f DEF OriginalRowPanics
  <2>10. CASE Verify
    BY <2>10, <2>a DEF Verify
  <2>11. CASE UNCHANGED vars
    BY <2>11, <2>a DEF vars
  <2> QED
    BY <2>1, <2>2, <2>3, <2>4, <2>5, <2>6, <2>7, <2>8, <2>9, <2>10, <2>11 DEF Next
<1> QED BY <1>1, <1>2, TypeCorrect, PTL DEF Spec

\* The trace of a memory is accepted when it is given with its sort: no row
\* panics and no gate fails (build_and_test_circuit in constraints/helper.rs).
THEOREM Completeness == Spec => []Complete
<1>1. CompleteInv => Complete
  BY DEF CompleteInv, Complete
<1> QED BY <1>1, CompleteInvariant, PTL
=============================================================================
