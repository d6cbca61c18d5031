----------------------------- MODULE SizedProofs ----------------------------
(***************************************************************************)
(* Proofs about sized integers, for every width of the word and of the     *)
(* narrower integers, and for all literals, floats and array lengths.      *)
(*                                                                         *)
(* The arithmetic comes first: residues, powers of two, what wrapping and  *)
(* viewing do to a number, and the bitwise operators digit by digit.  Then *)
(* each operation, as interpreted and as compiled, is reduced to the exact *)
(* result on the numbers it sees, and the two are compared in the three    *)
(* cases of Alike.  The inductive invariant of the run comes last.         *)
(***************************************************************************)
EXTENDS SizedRun, BasicLemmas, FunctionTheorems, FiniteSetTheorems, TLAPS

-----------------------------------------------------------------------------
(* Residues.  A number and its residue differ by a multiple of the modulus. *)
LEMMA Divided ==
    ASSUME NEW a \in Int, NEW n \in Nat \ {0}
    PROVE  /\ a \div n \in Int /\ a % n \in 0 .. n - 1
           /\ a = (a \div n) * n + (a % n)
BY Z3

LEMMA OneResidue ==
    ASSUME NEW m \in Nat \ {0}, NEW k \in Int, NEW p \in 0 .. m - 1, NEW q \in 0 .. m - 1, p - q = k * m
    PROVE  p = q
BY Z3

Multiples(a, b, m) == \E k \in Int : a - b = k * m

(* Numbers a multiple of the modulus apart have the same residue, and only *)
(* those.                                                                  *)
LEMMA SameResidue ==
    ASSUME NEW m \in Nat \ {0}, NEW a \in Int, NEW b \in Int, Multiples(a, b, m)
    PROVE  a % m = b % m
<1>0. PICK k \in Int : a - b = k * m
  BY DEF Multiples
<1>1. PICK p \in Int, r \in 0 .. m - 1 : a = p * m + r /\ r = a % m
  BY Divided
<1>2. PICK q \in Int, s \in 0 .. m - 1 : b = q * m + s /\ s = b % m
  BY Divided
<1>3. r - s = k * m - p * m + q * m
  <2> DEFINE km == k * m
             pm == p * m
             qm == q * m
  <2>1. km \in Int /\ pm \in Int /\ qm \in Int /\ a - b = km /\ a = pm + r /\ b = qm + s
    BY <1>0, <1>1, <1>2
  <2> HIDE DEF km, pm, qm
  <2>2. r - s = km - pm + qm
    BY <2>1
  <2> QED BY <2>2 DEF km, pm, qm
<1>4. k * m - p * m + q * m = (k - p + q) * m
  BY Z3
<1>5. r = s
  <2>1. k - p + q \in Int /\ r - s = (k - p + q) * m
    BY <1>3, <1>4
  <2> QED BY <2>1, OneResidue
<1> QED BY <1>1, <1>2, <1>5

LEMMA Apart ==
    ASSUME NEW m \in Nat \ {0}, NEW a \in Int, NEW b \in Int, a % m = b % m
    PROVE  \E k \in Int : a = b + k * m
<1>1. PICK p \in Int : a = p * m + (a % m)
  BY Divided
<1>2. PICK q \in Int : b = q * m + (b % m)
  BY Divided
<1>3. a % m \in Int
  BY Divided
<1>4. a = b + (p * m - q * m)
  <2>1. p * m \in Int /\ q * m \in Int
    OBVIOUS
  <2> QED BY <1>1, <1>2, <1>3, <2>1
<1>5. p * m - q * m = (p - q) * m
  BY Z3
<1>6. p - q \in Int
  OBVIOUS
<1> QED BY <1>4, <1>5, <1>6

(* A number in the range of the residues is its own.                       *)
LEMMA Small ==
    ASSUME NEW m \in Nat \ {0}, NEW a \in 0 .. m - 1
    PROVE  a % m = a
BY Z3

LEMMA Twice ==
    ASSUME NEW m \in Nat \ {0}, NEW a \in Int
    PROVE  (a % m) % m = a % m
BY Divided, Small

Same(a, b, m) == a % m = b % m

(* Sums, differences and products respect residues.                        *)
LEMMA Sums ==
    ASSUME NEW m \in Nat \ {0}, NEW a \in Int, NEW b \in Int, NEW c \in Int, NEW d \in Int,
           Same(a, b, m), Same(c, d, m)
    PROVE  Same(a + c, b + d, m)
<1>1. PICK k \in Int : a = b + k * m
  BY Apart DEF Same
<1>2. PICK l \in Int : c = d + l * m
  BY Apart DEF Same
<1>3. (a + c) - (b + d) = k * m + l * m
  <2> DEFINE km == k * m
             lm == l * m
  <2>1. km \in Int /\ lm \in Int /\ a = b + km /\ c = d + lm
    BY <1>1, <1>2
  <2> HIDE DEF km, lm
  <2>2. (a + c) - (b + d) = km + lm
    BY <2>1
  <2> QED BY <2>2 DEF km, lm
<1>4. k * m + l * m = (k + l) * m
  BY Z3
<1> DEFINE u == a + c
           v == b + d
           e == k + l
<1>5. u \in Int /\ v \in Int /\ e \in Int /\ u - v = e * m
  BY <1>3, <1>4
<1> HIDE DEF u, v, e
<1>6. Multiples(u, v, m)
  BY <1>5 DEF Multiples
<1>7. u % m = v % m
  BY <1>5, <1>6, SameResidue
<1> QED BY <1>7 DEF u, v, Same

LEMMA Differences ==
    ASSUME NEW m \in Nat \ {0}, NEW a \in Int, NEW b \in Int, NEW c \in Int, NEW d \in Int,
           Same(a, b, m), Same(c, d, m)
    PROVE  Same(a - c, b - d, m)
<1>1. PICK k \in Int : a = b + k * m
  BY Apart DEF Same
<1>2. PICK l \in Int : c = d + l * m
  BY Apart DEF Same
<1>3. (a - c) - (b - d) = k * m - l * m
  <2> DEFINE km == k * m
             lm == l * m
  <2>1. km \in Int /\ lm \in Int /\ a = b + km /\ c = d + lm
    BY <1>1, <1>2
  <2> HIDE DEF km, lm
  <2>2. (a - c) - (b - d) = km - lm
    BY <2>1
  <2> QED BY <2>2 DEF km, lm
<1>4. k * m - l * m = (k - l) * m
  BY Z3
<1> DEFINE u == a - c
           v == b - d
           e == k - l
<1>5. u \in Int /\ v \in Int /\ e \in Int /\ u - v = e * m
  BY <1>3, <1>4
<1> HIDE DEF u, v, e
<1>6. Multiples(u, v, m)
  BY <1>5 DEF Multiples
<1>7. u % m = v % m
  BY <1>5, <1>6, SameResidue
<1> QED BY <1>7 DEF u, v, Same

LEMMA Factors ==
    ASSUME NEW m \in Nat \ {0}, NEW a \in Int, NEW b \in Int, NEW c \in Int, NEW d \in Int,
           Same(a, b, m), Same(c, d, m)
    PROVE  Same(a * c, b * d, m)
<1>1. PICK k \in Int : a = b + k * m
  BY Apart DEF Same
<1>2. PICK l \in Int : c = d + l * m
  BY Apart DEF Same
<1> DEFINE e == b * l + k * d + k * l * m
<1>3. e \in Int /\ a * c - b * d = e * m
  BY <1>1, <1>2, Z3
<1> HIDE DEF e
<1> DEFINE u == a * c
           v == b * d
<1>4. u \in Int /\ v \in Int /\ u - v = e * m
  BY <1>3, Z3
<1> HIDE DEF u, v
<1>5. Multiples(u, v, m)
  BY <1>3, <1>4 DEF Multiples
<1>6. u % m = v % m
  BY <1>4, <1>5, SameResidue
<1> QED BY <1>6 DEF u, v, Same

(* The residue to a multiple of a modulus decides the one to the modulus.  *)
LEMMA Finer ==
    ASSUME NEW m \in Nat \ {0}, NEW q \in Nat \ {0}, NEW a \in Int, NEW b \in Int,
           a % (q * m) = b % (q * m)
    PROVE  a % m = b % m
<1>1. q * m \in Nat \ {0}
  BY Z3
<1>2. PICK k \in Int : a = b + k * (q * m)
  BY <1>1, Apart
<1>3. k * q \in Int /\ a - b = (k * q) * m
  BY <1>2, Z3
<1> QED BY <1>3, SameResidue DEF Multiples

-----------------------------------------------------------------------------
(* Powers of two: 2^n is the number of subsets of 1 .. n.                  *)
LEMMA PowerOfTwo ==
    ASSUME NEW n \in Nat
    PROVE  2^n \in Nat
<1>1. IsFiniteSet(1 .. n) /\ Cardinality(1 .. n) = n
  BY FS_Interval
<1>2. IsFiniteSet(SUBSET (1 .. n)) /\ Cardinality(SUBSET (1 .. n)) = 2^n
  BY <1>1, FS_SUBSET
<1> QED BY <1>2, FS_CardinalityType

LEMMA PowerOfZero == 2^0 = 1
OBVIOUS

LEMMA NextPower ==
    ASSUME NEW n \in Nat
    PROVE  2^(n + 1) = 2 * 2^n
<1> DEFINE A == 1 .. n
           ab == n + 1
           With == {B \cup {ab} : B \in SUBSET A}
           f == [B \in SUBSET A |-> B \cup {ab}]
<1>1. IsFiniteSet(A) /\ Cardinality(A) = n
  BY FS_Interval
<1>2. IsFiniteSet(A \cup {ab}) /\ Cardinality(A \cup {ab}) = n + 1 /\ ab \notin A
  <2>1. ab \notin A
    OBVIOUS
  <2> HIDE DEF A
  <2> QED BY <1>1, <2>1, FS_AddElement
<1>3. IsFiniteSet(SUBSET A) /\ Cardinality(SUBSET A) = 2^n
  BY <1>1, FS_SUBSET
<1>4. Cardinality(SUBSET (A \cup {ab})) = 2^(n + 1)
  BY <1>2, FS_SUBSET
<1> HIDE DEF A, ab
<1>5. SUBSET (A \cup {ab}) = (SUBSET A) \cup With
  <2>1. ASSUME NEW B \in SUBSET (A \cup {ab}), ab \in B PROVE B \in With
    <3>1. B \ {ab} \in SUBSET A /\ B = (B \ {ab}) \cup {ab}
      BY <2>1
    <3> QED BY <3>1
  <2>2. ASSUME NEW B \in SUBSET (A \cup {ab}), ab \notin B PROVE B \in SUBSET A
    BY <2>2
  <2> QED BY <2>1, <2>2
<1>6. f \in Bijection(SUBSET A, With)
  <2>1. f \in [SUBSET A -> With]
    OBVIOUS
  <2>2. ASSUME NEW B \in SUBSET A, NEW C \in SUBSET A, f[B] = f[C] PROVE B = C
    <3>1. B \cup {ab} = C \cup {ab} /\ ab \notin B /\ ab \notin C
      BY <1>2, <2>2
    <3> QED BY <3>1
  <2>3. \A t \in With : \E B \in SUBSET A : f[B] = t
    OBVIOUS
  <2> HIDE DEF f, With
  <2> QED BY <2>1, <2>2, <2>3, Fun_IsBij
<1>7. IsFiniteSet(With) /\ Cardinality(With) = 2^n
  <2>1. ExistsBijection(SUBSET A, With)
    BY <1>6 DEF ExistsBijection
  <2> HIDE DEF With
  <2> QED BY <1>3, <2>1, FS_Bijection
<1>8. (SUBSET A) \cap With = {}
  BY <1>2
<1> HIDE DEF With
<1>9. Cardinality((SUBSET A) \cup With) = Cardinality(SUBSET A) + Cardinality(With) - Cardinality((SUBSET A) \cap With)
  BY <1>3, <1>7, FS_Union
<1>10. Cardinality((SUBSET A) \cap With) = 0
  BY <1>8, FS_EmptySet
<1>11. 2^n \in Nat
  BY PowerOfTwo
<1> DEFINE c == Cardinality((SUBSET A) \cap With)
           p == 2^n
           q == 2^(n + 1)
<1>12. p \in Nat /\ c = 0 /\ q = p + p - c
  BY <1>3, <1>4, <1>5, <1>7, <1>9, <1>10, <1>11
<1> HIDE DEF c, p, q
<1>13. q = 2 * p
  BY <1>12
<1> QED BY <1>13 DEF p, q, ab

LEMMA Powers == \A n \in Nat : 2^n \in Nat \ {0} /\ n < 2^n
<1> DEFINE P == {n \in Nat : 2^n \in Nat \ {0} /\ n < 2^n}
<1>1. 0 \in P
  BY PowerOfZero
<1>2. ASSUME NEW n \in P PROVE n + 1 \in P
  <2>1. n \in Nat /\ 2^n \in Nat \ {0} /\ n < 2^n /\ 2^(n + 1) = 2 * 2^n
    BY NextPower
  <2> DEFINE p == 2^n
             q == 2^(n + 1)
  <2>2. p \in Nat \ {0} /\ n < p /\ q = 2 * p
    BY <2>1
  <2> HIDE DEF p, q
  <2>3. q \in Nat \ {0} /\ n + 1 < q
    BY <2>1, <2>2
  <2> QED BY <2>1, <2>3 DEF q
<1> HIDE DEF P
<1>3. P = Nat
  BY <1>1, <1>2, StepByStep DEF P
<1> QED BY <1>3 DEF P

LEMMA PowerOfSum == \A d, n \in Nat : 2^(n + d) = 2^n * 2^d
<1> TAKE d \in Nat
<1> DEFINE P == {n \in Nat : 2^(n + d) = 2^n * 2^d}
<1>1. 0 \in P
  BY PowerOfZero, Powers
<1>2. ASSUME NEW n \in P PROVE n + 1 \in P
  <2>1. n \in Nat /\ 2^(n + d) = 2^n * 2^d
    OBVIOUS
  <2>2. 2^(n + 1) = 2 * 2^n
    BY <2>1, NextPower
  <2>3. n + d \in Nat /\ (n + 1) + d = (n + d) + 1
    BY <2>1
  <2>4. 2^((n + 1) + d) = 2 * 2^(n + d)
    BY <2>3, NextPower
  <2>5. PICK p \in Nat : p = 2^n
    BY <2>1, Powers
  <2>6. PICK q \in Nat : q = 2^d
    BY Powers
  <2>7. 2 * (p * q) = (2 * p) * q
    BY Z3
  <2> QED BY <2>1, <2>2, <2>4, <2>5, <2>6, <2>7
<1> HIDE DEF P
<1>3. P = Nat
  BY <1>1, <1>2, StepByStep DEF P
<1> QED BY <1>3 DEF P

(* Fewer bits are told apart by more bits.                                 *)
LEMMA FewerBits ==
    ASSUME NEW d \in Nat, NEW n \in Nat, d <= n, NEW a \in Int, NEW b \in Int, a % 2^n = b % 2^n
    PROVE  a % 2^d = b % 2^d
<1>1. n - d \in Nat /\ n = (n - d) + d
  OBVIOUS
<1>2. 2^n = 2^(n - d) * 2^d
  BY <1>1, PowerOfSum
<1>3. PICK m \in Nat \ {0} : m = 2^d
  BY Powers
<1>4. PICK q \in Nat \ {0} : q = 2^(n - d)
  BY <1>1, Powers
<1>5. a % (q * m) = b % (q * m)
  BY <1>2, <1>3, <1>4
<1> QED BY <1>3, <1>5, Finer

LEMMA PowersGrow ==
    ASSUME NEW d \in Nat, NEW n \in Nat, d <= n
    PROVE  2^d <= 2^n
<1>1. n - d \in Nat /\ n = (n - d) + d
  OBVIOUS
<1>2. 2^n = 2^(n - d) * 2^d
  BY <1>1, PowerOfSum
<1>3. PICK m \in Nat \ {0} : m = 2^d
  BY Powers
<1>4. PICK q \in Nat \ {0} : q = 2^(n - d)
  BY <1>1, Powers
<1>5. m <= q * m
  BY Z3
<1> QED BY <1>2, <1>3, <1>4, <1>5

LEMMA HalfPower ==
    ASSUME NEW n \in Nat \ {0}
    PROVE  2^(n - 1) \in Nat \ {0} /\ 2^n = 2 * 2^(n - 1)
<1>1. n - 1 \in Nat /\ (n - 1) + 1 = n
  OBVIOUS
<1> QED BY <1>1, NextPower, Powers

-----------------------------------------------------------------------------
(* Types, and numbers in their ranges.                                     *)
LEMMA Types ==
    ASSUME NEW ty \in IntTypes
    PROVE  /\ ty.bits \in Nat \ {0} /\ ty.bits <= Word /\ ty.signed \in BOOLEAN
           /\ 2^ty.bits % ty.bits = 0
           /\ ty # ByteValue
<1>1. ty.bits \in Widths /\ ty.signed \in BOOLEAN
  BY DEF IntTypes
<1>2. ty.bits \in Nat \ {0} /\ ty.bits <= Word
  <2>1. Word \in Nat \ {0} /\ Narrow \subseteq 1 .. Word - 1
    BY WidthAssumption
  <2>2. PICK w \in Widths : w = ty.bits
    BY <1>1
  <2>3. w \in Nat \ {0} /\ w <= Word
    <3>1. CASE w = Word
      BY <2>1, <3>1
    <3>2. CASE w \in Narrow
      BY <2>1, <3>2
    <3> QED BY <2>2, <3>1, <3>2 DEF Widths
  <2> QED BY <2>2, <2>3
<1>3. 2^ty.bits % ty.bits = 0
  BY <1>1, WidthAssumption
<1>4. ByteValue.bits = 0
  BY DEF ByteValue
<1> QED BY <1>1, <1>2, <1>3, <1>4

LEMMA WordIsType == Word \in Nat \ {0} /\ WORD \in IntTypes /\ WORD.bits = Word /\ WORD.signed
BY WidthAssumption DEF WORD, IntTypes, Widths

LEMMA ByteIsType == U8 \in IntTypes /\ U8.bits = Byte /\ ~U8.signed /\ Byte \in Nat \ {0} /\ Byte < Word
BY WidthAssumption DEF U8, IntTypes, Widths

(* Within an interval of m numbers a residue belongs to one.               *)
LEMMA OneInInterval ==
    ASSUME NEW m \in Nat \ {0}, NEW lo \in Int, NEW a \in Int, NEW b \in Int,
           lo <= a, a < lo + m, lo <= b, b < lo + m, a % m = b % m
    PROVE  a = b
<1>1. PICK k \in Int : a = b + k * m
  BY Apart
<1>2. k = 0
  <2>1. ~(k >= 1)
    <3> SUFFICES ASSUME k >= 1 PROVE FALSE
      OBVIOUS
    <3>1. k * m >= m /\ k * m \in Int
      BY Z3
    <3> QED BY <1>1, <3>1
  <2>2. ~(k <= -1)
    <3> SUFFICES ASSUME k <= -1 PROVE FALSE
      OBVIOUS
    <3>1. k * m <= -m /\ k * m \in Int
      BY Z3
    <3> QED BY <1>1, <3>1
  <2> QED BY <2>1, <2>2
<1> QED BY <1>1, <1>2

(* Reading the top bit as a sign keeps the bits.                           *)
LEMMA ResignKeeps ==
    ASSUME NEW b \in Nat \ {0}, NEW c \in 0 .. 2^b - 1
    PROVE  /\ Resign(c, b) \in Int
           /\ -(2^(b - 1)) <= Resign(c, b) /\ Resign(c, b) < 2^(b - 1)
           /\ Resign(c, b) % 2^b = c
<1>1. PICK h \in Nat \ {0} : h = 2^(b - 1) /\ 2^b = 2 * h
  BY HalfPower
<1>2. PICK m \in Nat \ {0} : m = 2^b /\ m = 2 * h
  BY <1>1
<1>3. c \in 0 .. m - 1
  BY <1>2
<1>4. Resign(c, b) = IF c >= h THEN c - m ELSE c
  BY <1>1, <1>2 DEF Resign
<1>5. Resign(c, b) \in Int /\ -h <= Resign(c, b) /\ Resign(c, b) < h
  BY <1>2, <1>3, <1>4
<1>6. c % m = c
  BY <1>3, Small
<1>7. (c - m) % m = c
  <2>1. (c - m) - c = (-1) * m
    BY <1>3
  <2>2. c - m \in Int /\ c \in Int /\ Multiples(c - m, c, m)
    BY <1>3, <2>1 DEF Multiples
  <2>3. (c - m) % m = c % m
    BY <2>2, SameResidue
  <2> QED BY <1>6, <2>3
<1> QED BY <1>1, <1>2, <1>4, <1>5, <1>6, <1>7

(* What is stored under a stamp.                                           *)
Stored(v, ty) == IF ty.signed \/ ty.bits = Word
                 THEN -(2^(ty.bits - 1)) <= v /\ v < 2^(ty.bits - 1)
                 ELSE 0 <= v /\ v < 2^ty.bits

LEMMA LowBits ==
    ASSUME NEW v \in Int, NEW n \in Nat
    PROVE  v % 2^n \in 0 .. 2^n - 1 /\ (v % 2^n) % 2^n = v % 2^n
<1>1. PICK m \in Nat \ {0} : m = 2^n
  BY Powers
<1> QED BY <1>1, Divided, Twice

LEMMA LowBitsSmall ==
    ASSUME NEW n \in Nat, NEW v \in 0 .. 2^n - 1
    PROVE  v % 2^n = v
<1>1. PICK m \in Nat \ {0} : m = 2^n
  BY Powers
<1> QED BY <1>1, Small

(* wrap_to keeps the low bits and gives a number of the type.              *)
LEMMA Wrapped ==
    ASSUME NEW v \in Int, NEW ty \in IntTypes
    PROVE  /\ wrap_to(v, ty) \in Int
           /\ Stored(wrap_to(v, ty), ty)
           /\ wrap_to(v, ty) % 2^ty.bits = v % 2^ty.bits
<1> DEFINE b == ty.bits
<1>1. b \in Nat \ {0}
  BY Types
<1>2. v % 2^b \in 0 .. 2^b - 1 /\ (v % 2^b) % 2^b = v % 2^b
  BY <1>1, LowBits
<1>3. CASE ty.signed \/ ty.bits = Word
  <2>1. wrap_to(v, ty) = Resign(v % 2^b, b)
    BY <1>3 DEF wrap_to
  <2> HIDE DEF b
  <2>2. /\ Resign(v % 2^b, b) \in Int
        /\ -(2^(b - 1)) <= Resign(v % 2^b, b) /\ Resign(v % 2^b, b) < 2^(b - 1)
        /\ Resign(v % 2^b, b) % 2^b = v % 2^b
    BY <1>1, <1>2, ResignKeeps
  <2> QED BY <1>3, <2>1, <2>2 DEF Stored, b
<1>4. CASE ~(ty.signed \/ ty.bits = Word)
  <2>1. wrap_to(v, ty) = v % 2^b
    BY <1>4 DEF wrap_to
  <2>2. PICK m \in Nat \ {0} : m = 2^b
    BY <1>1, Powers
  <2>3. v % m \in 0 .. m - 1
    BY <1>2, <2>2
  <2>4. v % m \in Int /\ 0 <= v % m /\ v % m < m
    BY <2>3
  <2> QED BY <1>2, <1>4, <2>1, <2>2, <2>4 DEF Stored
<1> QED BY <1>3, <1>4

(* Two numbers in the range of a stamp, or of a type, with the same bits.  *)
LEMMA StoredOnce ==
    ASSUME NEW ty \in IntTypes, NEW u \in Int, NEW v \in Int, Stored(u, ty), Stored(v, ty),
           u % 2^ty.bits = v % 2^ty.bits
    PROVE  u = v
<1> DEFINE b == ty.bits
<1>1. b \in Nat \ {0}
  BY Types
<1>2. PICK h \in Nat \ {0} : h = 2^(b - 1) /\ 2^b = 2 * h
  BY <1>1, HalfPower
<1>3. PICK m \in Nat \ {0} : m = 2^b /\ m = 2 * h
  BY <1>2
<1>4. u % m = v % m
  BY <1>3
<1>5. CASE ty.signed \/ ty.bits = Word
  <2>1. -h <= u /\ u < h /\ -h <= v /\ v < h
    BY <1>2, <1>5 DEF Stored
  <2>2. PICK lo \in Int : lo = -h
    OBVIOUS
  <2>3. lo <= u /\ u < lo + m /\ lo <= v /\ v < lo + m
    BY <1>3, <2>1, <2>2
  <2> QED BY <1>4, <2>3, OneInInterval
<1>6. CASE ~(ty.signed \/ ty.bits = Word)
  <2>1. 0 <= u /\ u < m /\ 0 <= v /\ v < m
    BY <1>3, <1>6 DEF Stored
  <2> QED BY <1>4, <2>1, Small
<1> QED BY <1>5, <1>6

(* A number of a type's range, and one as it is stored, is given by its    *)
(* bits.                                                                   *)
LEMMA InRangeOnce ==
    ASSUME NEW ty \in IntTypes, NEW u \in Int, NEW v \in Int, InRange(u, ty), InRange(v, ty),
           u % 2^ty.bits = v % 2^ty.bits
    PROVE  u = v
<1> DEFINE b == ty.bits
<1>1. b \in Nat \ {0}
  BY Types
<1>2. PICK h \in Nat \ {0} : h = 2^(b - 1) /\ 2^b = 2 * h
  BY <1>1, HalfPower
<1>3. PICK m \in Nat \ {0} : m = 2^b /\ m = 2 * h
  BY <1>2
<1>4. u % m = v % m
  BY <1>3
<1>5. CASE ty.signed
  <2>1. -h <= u /\ u < h /\ -h <= v /\ v < h
    BY <1>2, <1>5 DEF InRange
  <2>2. PICK lo \in Int : lo = -h
    OBVIOUS
  <2>3. lo <= u /\ u < lo + m /\ lo <= v /\ v < lo + m
    BY <1>3, <2>1, <2>2
  <2> QED BY <1>4, <2>3, OneInInterval
<1>6. CASE ~ty.signed
  <2>1. 0 <= u /\ u < m /\ 0 <= v /\ v < m
    BY <1>3, <1>6 DEF InRange
  <2> QED BY <1>4, <2>1, Small
<1> QED BY <1>5, <1>6

(* A number that fits a type is wrapped to itself, up to the sign of the   *)
(* topmost bit of an unsigned word.                                        *)
LEMMA WrappedFits ==
    ASSUME NEW e \in Int, NEW ty \in IntTypes, InRange(e, ty)
    PROVE  wrap_to(e, ty) % 2^Word = e % 2^Word
<1>1. wrap_to(e, ty) \in Int /\ Stored(wrap_to(e, ty), ty) /\ wrap_to(e, ty) % 2^ty.bits = e % 2^ty.bits
  BY Wrapped
<1>2. CASE ty.signed \/ ty.bits # Word
  <2>1. Stored(e, ty)
    BY <1>2 DEF InRange, Stored
  <2>2. wrap_to(e, ty) = e
    BY <1>1, <2>1, StoredOnce
  <2> QED BY <2>2
<1>3. CASE ty.bits = Word
  BY <1>1, <1>3
<1> QED BY <1>2, <1>3

(* Compiled bits, seen as a number of their type.                          *)
LEMMA Viewed ==
    ASSUME NEW ty \in IntTypes, NEW c \in 0 .. 2^ty.bits - 1
    PROVE  View(c, ty) \in Int /\ InRange(View(c, ty), ty) /\ View(c, ty) % 2^ty.bits = c
<1> DEFINE b == ty.bits
<1>1. b \in Nat \ {0}
  BY Types
<1>2. CASE ty.signed
  <2>1. View(c, ty) = Resign(c, b)
    BY <1>2 DEF View
  <2> HIDE DEF b
  <2>2. c \in 0 .. 2^b - 1
    BY DEF b
  <2>3. /\ Resign(c, b) \in Int
        /\ -(2^(b - 1)) <= Resign(c, b) /\ Resign(c, b) < 2^(b - 1)
        /\ Resign(c, b) % 2^b = c
    BY <1>1, <2>2, ResignKeeps
  <2> QED BY <1>2, <2>1, <2>3 DEF InRange, b
<1>3. CASE ~ty.signed
  <2>1. View(c, ty) = c /\ c % 2^b = c
    BY <1>1, <1>3, LowBitsSmall DEF View
  <2>2. PICK m \in Nat \ {0} : m = 2^b
    BY <1>1, Powers
  <2>3. c \in Int /\ 0 <= c /\ c < m
    BY <2>2
  <2> QED BY <1>3, <2>1, <2>2, <2>3 DEF InRange
<1> QED BY <1>2, <1>3

LEMMA ViewFits ==
    ASSUME NEW ty \in IntTypes, NEW s \in Int, InRange(s, ty)
    PROVE  View(s % 2^ty.bits, ty) = s
<1>1. s % 2^ty.bits \in 0 .. 2^ty.bits - 1
  BY Types, LowBits
<1>2. /\ View(s % 2^ty.bits, ty) \in Int
      /\ InRange(View(s % 2^ty.bits, ty), ty)
      /\ View(s % 2^ty.bits, ty) % 2^ty.bits = s % 2^ty.bits
  BY <1>1, Viewed
<1> QED BY <1>2, InRangeOnce

(* An interpreted number, a byte or an integer with its stamp.             *)
IsNumber(i) == /\ i.k = "int"
               /\ i.v \in Int
               /\ i.ty \in IntTypes \cup {ByteValue}
               /\ i.ty # ByteValue => i.v = wrap_to(i.v, i.ty)

(* What the interpreter makes a number of any integer.                     *)
LEMMA SizedIsNumber ==
    ASSUME NEW v \in Int, NEW ty \in IntTypes
    PROVE  /\ IsNumber(sized(v, ty))
           /\ sized(v, ty).k = "int" /\ sized(v, ty).ty = ty /\ sized(v, ty).v = wrap_to(v, ty)
           /\ sized(v, ty).v % 2^ty.bits = v % 2^ty.bits
<1> DEFINE u == wrap_to(v, ty)
<1>1. u \in Int /\ Stored(u, ty) /\ u % 2^ty.bits = v % 2^ty.bits
  BY Wrapped
<1>2. wrap_to(u, ty) = u
  BY <1>1 DEF wrap_to
<1>3. sized(v, ty) = [k |-> "int", v |-> u, ty |-> ty]
  BY DEF sized
<1> HIDE DEF u
<1> QED BY <1>1, <1>2, <1>3 DEF IsNumber, u

(* A stamped number is one of the i64s, and fits its stamp as shown.       *)
LEMMA StoredInWord ==
    ASSUME NEW i, IsNumber(i), i.ty # ByteValue
    PROVE  i.ty \in IntTypes /\ i.v \in Int /\ Stored(i.v, i.ty) /\ Stored(i.v, WORD)
<1>1. i.ty \in IntTypes /\ i.v \in Int /\ i.v = wrap_to(i.v, i.ty)
  BY DEF IsNumber
<1>2. Stored(i.v, i.ty)
  BY <1>1, Wrapped
<1> DEFINE b == i.ty.bits
<1>3. b \in Nat \ {0} /\ b <= Word /\ i.ty.signed \in BOOLEAN
  BY <1>1, Types
<1>4. Word \in Nat \ {0} /\ WORD.bits = Word /\ WORD.signed
  BY WordIsType
<1>5. PICK h \in Nat \ {0} : h = 2^(b - 1) /\ 2^b = 2 * h
  BY <1>3, HalfPower
<1>6. PICK w \in Nat \ {0} : w = 2^(Word - 1) /\ 2^Word = 2 * w
  BY <1>4, HalfPower
<1>7. h <= w
  <2>1. b - 1 \in Nat /\ Word - 1 \in Nat /\ b - 1 <= Word - 1
    BY <1>3, <1>4
  <2> QED BY <1>5, <1>6, <2>1, PowersGrow
<1>8. -w <= i.v /\ i.v < w
  <2>1. CASE i.ty.signed \/ b = Word
    <3>1. -h <= i.v /\ i.v < h
      BY <1>2, <1>5, <2>1 DEF Stored
    <3> QED BY <1>1, <1>7, <3>1
  <2>2. CASE ~(i.ty.signed \/ b = Word)
    <3>1. 0 <= i.v /\ i.v < 2 * h
      BY <1>2, <1>5, <2>2 DEF Stored
    <3>2. 2 * h <= w
      <4>1. b <= Word - 1
        BY <1>3, <1>4, <2>2
      <4>2. b \in Nat /\ Word - 1 \in Nat
        BY <1>3, <1>4
      <4> QED BY <1>5, <1>6, <4>1, <4>2, PowersGrow
    <3> QED BY <1>1, <3>1, <3>2
  <2> QED BY <2>1, <2>2
<1>9. Stored(i.v, WORD)
  BY <1>4, <1>6, <1>8 DEF Stored
<1> QED BY <1>1, <1>2, <1>9

LEMMA ShownNumber ==
    ASSUME NEW i, IsNumber(i)
    PROVE  Shown(i) \in Int /\ Shown(i) % 2^Word = i.v % 2^Word
<1>1. i.v \in Int
  BY DEF IsNumber
<1>2. i.v % 2^Word \in 0 .. 2^Word - 1 /\ (i.v % 2^Word) % 2^Word = i.v % 2^Word
  BY <1>1, WordIsType, LowBits
<1>3. PICK m \in Nat \ {0} : m = 2^Word
  BY WordIsType, Powers
<1>4. i.v % m \in Int
  <2>1. PICK v \in Int : v = i.v
    BY <1>1
  <2>2. v % m \in 0 .. m - 1
    BY Divided
  <2> QED BY <2>1, <2>2
<1> QED BY <1>1, <1>2, <1>3, <1>4 DEF Shown, display

(* Fewer bits than the word's are the same of a number and of what is shown.*)
LEMMA ShownBits ==
    ASSUME NEW i, IsNumber(i), NEW ty \in IntTypes
    PROVE  Shown(i) \in Int /\ i.v \in Int /\ Shown(i) % 2^ty.bits = i.v % 2^ty.bits
<1>1. Shown(i) \in Int /\ Shown(i) % 2^Word = i.v % 2^Word /\ i.v \in Int
  BY ShownNumber DEF IsNumber
<1> QED BY <1>1, Types, WordIsType, FewerBits

(* What fits a type is what the compiled bits are seen as.                 *)
LEMMA FittingView ==
    ASSUME NEW i, IsNumber(i), NEW ty \in IntTypes, Fits(i, ty)
    PROVE  View(i.v % 2^ty.bits, ty) = Shown(i)
<1>1. Shown(i) \in Int /\ Shown(i) % 2^ty.bits = i.v % 2^ty.bits
  BY ShownBits
<1> QED BY <1>1, ViewFits DEF Fits

-----------------------------------------------------------------------------
(* Bits: the operations &, | and ^, bit by bit.                            *)
BitwiseOps == {"&", "|", "^"}

(* The digits of a natural number.                                         *)
LEMMA Digits ==
    ASSUME NEW m \in Nat, NEW j \in Nat
    PROVE  BitAt(m, j) \in {0, 1}
<1>1. PICK p \in Nat \ {0} : p = 2^j
  BY Powers
<1>2. PICK d \in Int : d = m \div p
  BY <1>1, Divided
<1>3. d % 2 \in {0, 1}
  OBVIOUS
<1> QED BY <1>1, <1>2, <1>3 DEF BitAt

LEMMA DigitOf ==
    ASSUME NEW op \in BitwiseOps, NEW p \in {0, 1}, NEW q \in {0, 1}
    PROVE  BitOp(op, p, q) \in {0, 1} /\ BitOp(op, 0, 0) = 0
<1>1. CASE op = "&"
  BY <1>1 DEF BitOp
<1>2. CASE op = "|"
  BY <1>2 DEF BitOp
<1>3. CASE op = "^"
  BY <1>3 DEF BitOp
<1> QED BY <1>1, <1>2, <1>3 DEF BitwiseOps

(* What the bit at place j adds, and the sums f of the bits below a place. *)
Summand(op, m, n, j) == 2^j * BitOp(op, BitAt(m, j), BitAt(n, j))
BitSums(op, m, n, f) ==
    /\ op \in BitwiseOps /\ m \in Nat /\ n \in Nat
    /\ f \in [Nat -> Nat] /\ f[0] = 0
    /\ \A j \in Nat : f[j + 1] = f[j] + Summand(op, m, n, j)

LEMMA Summands ==
    ASSUME NEW op \in BitwiseOps, NEW m \in Nat, NEW n \in Nat, NEW j \in Nat
    PROVE  Summand(op, m, n, j) \in {0, 2^j} /\ Summand(op, m, n, j) \in Nat
<1>1. PICK p \in Nat \ {0} : p = 2^j
  BY Powers
<1>2. BitOp(op, BitAt(m, j), BitAt(n, j)) \in {0, 1}
  BY Digits, DigitOf
<1>3. PICK b \in {0, 1} : b = BitOp(op, BitAt(m, j), BitAt(n, j))
  BY <1>2
<1>4. p * b \in {0, p}
  OBVIOUS
<1> QED BY <1>1, <1>3, <1>4 DEF Summand

LEMMA SumsExist ==
    ASSUME NEW op \in BitwiseOps, NEW m \in Nat, NEW n \in Nat
    PROVE  \E f : BitSums(op, m, n, f)
<1> DEFINE step == [w \in Nat \X Nat |-> w[2] + Summand(op, m, n, w[1])]
<1>1. ASSUME NEW j \in Nat, NEW s \in Nat
      PROVE  step[<<j, s>>] = s + Summand(op, m, n, j) /\ step[<<j, s>>] \in Nat
  BY Summands
<1>2. step \in [Nat \X Nat -> Nat]
  <2>1. ASSUME NEW w \in Nat \X Nat PROVE w[2] + Summand(op, m, n, w[1]) \in Nat
    BY Summands
  <2> QED BY <2>1
<1> HIDE DEF step
<1>3. Steppable(Nat, 0, step)
  BY <1>2 DEF Steppable
<1>4. PICK f : Steps(Nat, 0, step, f)
  BY <1>3, Recursion
<1>5. f \in [Nat -> Nat] /\ f[0] = 0
  BY <1>4 DEF Steps
<1>6. ASSUME NEW j \in Nat PROVE f[j + 1] = f[j] + Summand(op, m, n, j)
  <2>1. f[j + 1] = step[<<j, f[j]>>] /\ f[j] \in Nat
    BY <1>4, <1>5 DEF Steps
  <2> QED BY <1>1, <2>1
<1> QED BY <1>5, <1>6 DEF BitSums

(* The recursive function Bits sums over is one of these sums.             *)
LEMMA BitsAreSums ==
    ASSUME NEW op \in BitwiseOps, NEW m \in Nat, NEW n \in Nat
    PROVE  \E f : BitSums(op, m, n, f) /\ Bits(op, m, n) = f[Word]
<1> DEFINE IsIt(f) == f = [j \in Nat |-> IF j = 0 THEN 0
                                ELSE f[j - 1] + 2^(j - 1) * BitOp(op, BitAt(m, j - 1), BitAt(n, j - 1))]
<1>1. PICK f : BitSums(op, m, n, f)
  BY SumsExist
<1>2. ASSUME NEW j \in Nat, j # 0
      PROVE  f[j] = f[j - 1] + 2^(j - 1) * BitOp(op, BitAt(m, j - 1), BitAt(n, j - 1))
  <2>1. j - 1 \in Nat /\ (j - 1) + 1 = j
    BY <1>2
  <2>2. f[(j - 1) + 1] = f[j - 1] + Summand(op, m, n, j - 1)
    BY <1>1, <2>1 DEF BitSums
  <2> QED BY <2>1, <2>2 DEF Summand
<1>3. IsIt(f)
  BY <1>1, <1>2 DEF BitSums
<1> DEFINE d == CHOOSE h : IsIt(h)
<1>4. Bits(op, m, n) = d[Word]
  BY DEF Bits
<1> HIDE DEF IsIt
<1>5. IsIt(d)
  BY <1>3
<1> HIDE DEF d
<1>6. /\ d = [j \in Nat |-> d[j]] /\ d[0] = 0
      /\ \A j \in Nat : j # 0 => d[j] = d[j - 1] + 2^(j - 1) * BitOp(op, BitAt(m, j - 1), BitAt(n, j - 1))
  BY <1>5 DEF IsIt
<1>7. ASSUME NEW j \in Nat PROVE d[j + 1] = d[j] + Summand(op, m, n, j)
  <2>1. j + 1 \in Nat /\ j + 1 # 0 /\ (j + 1) - 1 = j
    OBVIOUS
  <2>2. d[j + 1] = d[(j + 1) - 1] + 2^((j + 1) - 1) * BitOp(op, BitAt(m, (j + 1) - 1), BitAt(n, (j + 1) - 1))
    BY <1>6, <2>1
  <2> QED BY <2>1, <2>2 DEF Summand
<1>8. \A j \in Nat : d[j] \in Nat
  <2> DEFINE P == {j \in Nat : d[j] \in Nat}
  <2>1. 0 \in P
    BY <1>6
  <2>2. ASSUME NEW j \in P PROVE j + 1 \in P
    <3>1. j \in Nat /\ d[j] \in Nat /\ d[j + 1] = d[j] + Summand(op, m, n, j)
      BY <1>7
    <3>2. Summand(op, m, n, j) \in Nat
      BY <3>1, Summands
    <3> QED BY <3>1, <3>2
  <2> HIDE DEF P
  <2>3. P = Nat
    BY <2>1, <2>2, StepByStep DEF P
  <2> QED BY <2>3 DEF P
<1>9. d \in [Nat -> Nat]
  BY <1>6, <1>8
<1>10. BitSums(op, m, n, d)
  BY <1>6, <1>7, <1>9 DEF BitSums
<1> QED BY <1>4, <1>10

LEMMA SumsBelow ==
    ASSUME NEW op, NEW m, NEW n, NEW f, BitSums(op, m, n, f)
    PROVE  \A j \in Nat : f[j] \in 0 .. 2^j - 1
<1> DEFINE P == {j \in Nat : f[j] \in 0 .. 2^j - 1}
<1>1. 0 \in P
  BY PowerOfZero DEF BitSums
<1>2. ASSUME NEW j \in P PROVE j + 1 \in P
  <2>1. j \in Nat /\ f[j] \in 0 .. 2^j - 1
    OBVIOUS
  <2>2. f[j + 1] = f[j] + Summand(op, m, n, j)
    BY <2>1 DEF BitSums
  <2>3. Summand(op, m, n, j) \in {0, 2^j}
    BY <2>1, Summands DEF BitSums
  <2>4. PICK p \in Nat \ {0} : p = 2^j /\ 2^(j + 1) = 2 * p
    BY <2>1, Powers, NextPower
  <2>5. f[j + 1] \in 0 .. 2 * p - 1
    BY <2>1, <2>2, <2>3, <2>4
  <2> QED BY <2>1, <2>4, <2>5
<1> HIDE DEF P
<1>3. P = Nat
  BY <1>1, <1>2, StepByStep DEF P
<1> QED BY <1>3 DEF P

(* Higher places leave the sum's low bits alone.                           *)
LowSums(f, k) == \A d \in Nat : f[d + k] \in Nat /\ f[d + k] % 2^k = f[k]

LEMMA SumsLow ==
    ASSUME NEW op, NEW m, NEW n, NEW f, BitSums(op, m, n, f), NEW k \in Nat
    PROVE  LowSums(f, k)
<1> DEFINE P == {d \in Nat : f[d + k] \in Nat /\ f[d + k] % 2^k = f[k]}
<1>0. f \in [Nat -> Nat]
  BY DEF BitSums
<1>1. 0 \in P
  <2>1. f[k] \in 0 .. 2^k - 1 /\ 0 + k = k /\ f[k] \in Nat
    BY <1>0, SumsBelow
  <2>2. f[k] % 2^k = f[k]
    BY <2>1, LowBitsSmall
  <2> QED BY <2>1, <2>2
<1>2. ASSUME NEW d \in P PROVE d + 1 \in P
  <2>1. d \in Nat /\ d + k \in Nat /\ (d + 1) + k = (d + k) + 1 /\ (d + 1) + k \in Nat /\ f[d + k] % 2^k = f[k]
    OBVIOUS
  <2>2. f[(d + k) + 1] = f[d + k] + Summand(op, m, n, d + k)
    BY <2>1 DEF BitSums
  <2>3. Summand(op, m, n, d + k) \in {0, 2^(d + k)}
    BY <2>1, Summands DEF BitSums
  <2>4. PICK p \in Nat \ {0} : p = 2^k
    BY Powers
  <2>5. PICK q \in Nat \ {0} : q = 2^d
    BY <2>1, Powers
  <2>6. 2^(d + k) = q * p
    BY <2>1, <2>4, <2>5, PowerOfSum
  <2>7. PICK s \in Nat : s = Summand(op, m, n, d + k)
    BY <2>1, Summands DEF BitSums
  <2>8. PICK a \in Nat : a = f[d + k]
    BY <1>0, <2>1
  <2>9. (a + s) % p = a % p
    <3>1. CASE s = 0
      BY <3>1
    <3>2. CASE s = q * p
      <4> DEFINE u == a + s
      <4>1. u \in Int /\ u - a = q * p
        BY <2>7, <2>8, <3>2
      <4> HIDE DEF u
      <4>2. Multiples(u, a, p)
        BY <4>1 DEF Multiples
      <4>3. u % p = a % p
        <5>1. p \in Nat \ {0} /\ a \in Int /\ u \in Int
          BY <4>1
        <5> QED BY <5>1, <4>2, SameResidue
      <4> QED BY <4>3 DEF u
    <3> QED BY <2>3, <2>6, <2>7, <3>1, <3>2
  <2>10. f[(d + 1) + k] = a + s /\ a + s \in Nat
    BY <2>1, <2>2, <2>7, <2>8
  <2>11. f[(d + 1) + k] \in Nat /\ f[(d + 1) + k] % p = f[k]
    BY <2>1, <2>4, <2>8, <2>9, <2>10
  <2> QED BY <2>1, <2>4, <2>11
<1> HIDE DEF P
<1>3. P = Nat
  BY <1>1, <1>2, StepByStep DEF P
<1> QED BY <1>3 DEF P, LowSums

SameDigits(m, n, k) == \A j \in Nat : j < k => BitAt(m, j) = BitAt(n, j)

(* The sum up to k looks at the digits below k only.                       *)
LEMMA SumsOfSameDigits ==
    ASSUME NEW op, NEW m, NEW n, NEW f, BitSums(op, m, n, f),
           NEW p, NEW q, NEW g, BitSums(op, p, q, g),
           NEW k \in Nat, SameDigits(m, p, k), SameDigits(n, q, k)
    PROVE  f[k] = g[k]
<1> DEFINE P == {j \in Nat : j <= k => f[j] = g[j]}
<1>1. 0 \in P
  BY DEF BitSums
<1>2. ASSUME NEW j \in P PROVE j + 1 \in P
  <2>1. j \in Nat /\ j + 1 \in Nat /\ (j <= k => f[j] = g[j])
    OBVIOUS
  <2>2. ASSUME j + 1 <= k PROVE f[j + 1] = g[j + 1]
    <3>1. j < k /\ j <= k
      BY <2>1, <2>2
    <3>2. BitAt(m, j) = BitAt(p, j) /\ BitAt(n, j) = BitAt(q, j)
      BY <2>1, <3>1 DEF SameDigits
    <3>3. Summand(op, m, n, j) = Summand(op, p, q, j)
      BY <3>2 DEF Summand
    <3>4. f[j + 1] = f[j] + Summand(op, m, n, j) /\ g[j + 1] = g[j] + Summand(op, p, q, j)
      BY <2>1 DEF BitSums
    <3> QED BY <2>1, <3>1, <3>3, <3>4
  <2> QED BY <2>1, <2>2
<1> HIDE DEF P
<1>3. P = Nat
  BY <1>1, <1>2, StepByStep DEF P
<1> QED BY <1>3 DEF P

LEMMA DigitsOfLowBits ==
    ASSUME NEW m \in Nat, NEW k \in Nat
    PROVE  SameDigits(m % 2^k, m, k)
<1> SUFFICES ASSUME NEW j \in Nat, j < k PROVE BitAt(m % 2^k, j) = BitAt(m, j)
  BY DEF SameDigits
<1>1. PICK p \in Nat \ {0} : p = 2^j
  BY Powers
<1>2. PICK q \in Nat \ {0} : q = 2^(k - j - 1)
  <2>1. k - j - 1 \in Nat
    OBVIOUS
  <2> QED BY <2>1, Powers
<1>3. 2^k = (2 * q) * p
  <2>1. k - j - 1 \in Nat /\ k - j \in Nat /\ k = (k - j) + j /\ k - j = (k - j - 1) + 1
    OBVIOUS
  <2>2. 2^(k - j) = 2 * q
    BY <1>2, <2>1, NextPower
  <2> QED BY <1>1, <2>1, <2>2, PowerOfSum
<1>4. PICK e \in Nat \ {0} : e = 2^k /\ e = (2 * q) * p
  BY <1>3, Powers
<1>5. PICK a \in Nat, r \in 0 .. e - 1 : m = a * e + r /\ r = m % e
  BY Division
<1>6. PICK b \in Nat, s \in 0 .. p - 1 : r = b * p + s /\ b = r \div p
  BY Division
<1>7. m = (a * (2 * q) + b) * p + s
  <2>1. a * e = (a * (2 * q)) * p
    <3>1. a * ((2 * q) * p) = (a * (2 * q)) * p
      BY Z3
    <3> QED BY <1>4, <3>1
  <2>2. (a * (2 * q)) * p + b * p = (a * (2 * q) + b) * p
    BY Z3
  <2> DEFINE ab == a * e
             y == b * p
             z == (a * (2 * q) + b) * p
  <2>3. ab \in Int /\ y \in Int /\ z \in Int
    BY Z3
  <2>4. ab + y = z
    BY <2>1, <2>2
  <2>5. m = ab + r /\ r = y + s /\ r \in Int /\ s \in Int
    <3>1. m = ab + r
      BY <1>5
    <3>2. r = y + s
      BY <1>6
    <3>3. r \in Int /\ s \in Int
      OBVIOUS
    <3> QED BY <3>1, <3>2, <3>3
  <2> HIDE DEF ab, y, z
  <2>6. m = z + s
    BY <2>3, <2>4, <2>5
  <2> QED BY <2>6 DEF z
<1>8. PICK c \in Nat : c = a * (2 * q) + b
  <2>1. a * (2 * q) \in Nat
    BY Z3
  <2> QED BY <2>1
<1>9. m \div p = c
  <2>1. PICK d \in Nat, t \in 0 .. p - 1 : m = d * p + t /\ d = m \div p
    BY Division
  <2>2. m = c * p + s
    BY <1>7, <1>8
  <2>3. s - t = (d - c) * p
    BY <2>1, <2>2, Z3
  <2>4. d - c \in Int
    OBVIOUS
  <2>5. s = t
    BY <2>3, <2>4, OneResidue
  <2>6. c * p = d * p
    BY <2>1, <2>2, <2>5, Z3
  <2>7. c = d
    BY <2>6, Z3
  <2> QED BY <2>1, <2>7
<1>10. c % 2 = b % 2
  <2>1. PICK ab \in Int : ab = a * q
    BY Z3
  <2>2. a * (2 * q) = 2 * (a * q)
    BY Z3
  <2>3. c = 2 * ab + b
    BY <1>8, <2>1, <2>2
  <2> QED BY <2>3
<1>11. BitAt(m, j) = c % 2
  BY <1>1, <1>9 DEF BitAt
<1>12. BitAt(m % 2^k, j) = b % 2
  BY <1>1, <1>4, <1>5, <1>6 DEF BitAt
<1> QED BY <1>10, <1>11, <1>12

LEMMA DigitsAbove ==
    ASSUME NEW k \in Nat, NEW m \in 0 .. 2^k - 1, NEW d \in Nat
    PROVE  BitAt(m, d + k) = 0
<1>1. PICK p \in Nat \ {0} : p = 2^k
  BY Powers
<1>2. PICK q \in Nat \ {0} : q = 2^(d + k)
  <2>1. d + k \in Nat
    OBVIOUS
  <2> QED BY <2>1, Powers
<1>3. p <= q
  BY <1>1, <1>2, PowersGrow
<1>4. m \in Nat /\ m < q
  BY <1>1, <1>3
<1>5. m \div q = 0
  <2>1. PICK e \in Nat, r \in 0 .. q - 1 : m = e * q + r /\ e = m \div q
    BY <1>4, Division
  <2>2. m - r = e * q
    BY <1>4, <2>1, Z3
  <2>3. r - m = (0 - e) * q
    BY <1>4, <2>2, Z3
  <2>4. r = m
    <3>1. m \in 0 .. q - 1 /\ 0 - e \in Int
      BY <1>4
    <3> QED BY <2>3, <3>1, OneResidue
  <2>5. e * q = 0
    BY <1>4, <2>2, <2>4
  <2>6. e = 0
    BY <2>5, Z3
  <2> QED BY <2>1, <2>6
<1> QED BY <1>2, <1>5 DEF BitAt

(* Nothing is added above the bits of both.                                *)
LowPair(m, n, k) == k \in Nat /\ m \in 0 .. 2^k - 1 /\ n \in 0 .. 2^k - 1

LEMMA SumsEnd ==
    ASSUME NEW k, NEW op, NEW m, NEW n, NEW f, BitSums(op, m, n, f), LowPair(m, n, k)
    PROVE  \A d \in Nat : f[d + k] = f[k]
<1>0. k \in Nat /\ m \in 0 .. 2^k - 1 /\ n \in 0 .. 2^k - 1
  BY DEF LowPair
<1> DEFINE P == {d \in Nat : f[d + k] = f[k]}
<1>1. 0 \in P
  BY <1>0
<1>2. ASSUME NEW d \in P PROVE d + 1 \in P
  <2>1. d \in Nat /\ d + k \in Nat /\ (d + 1) + k = (d + k) + 1 /\ d + 1 \in Nat /\ f[d + k] = f[k]
    BY <1>0
  <2>2. f[(d + k) + 1] = f[d + k] + Summand(op, m, n, d + k)
    BY <2>1 DEF BitSums
  <2>3. BitAt(m, d + k) = 0 /\ BitAt(n, d + k) = 0
    BY <1>0, <2>1, DigitsAbove
  <2>4. BitOp(op, 0, 0) = 0
    BY DigitOf DEF BitSums
  <2>5. PICK q \in Nat \ {0} : q = 2^(d + k)
    BY <2>1, Powers
  <2>6. Summand(op, m, n, d + k) = 0
    BY <2>3, <2>4, <2>5 DEF Summand
  <2>7. f[d + k] \in Nat
    BY <2>1 DEF BitSums
  <2>8. f[(d + 1) + k] = f[k]
    BY <2>1, <2>2, <2>6, <2>7
  <2> QED BY <2>1, <2>8
<1> HIDE DEF P
<1>3. P = Nat
  BY <1>1, <1>2, StepByStep DEF P
<1> QED BY <1>3 DEF P

(* The operation on the low bits gives the low bits of the operation.      *)
LEMMA BitsBelow ==
    ASSUME NEW op \in BitwiseOps, NEW k \in Nat, k <= Word,
           NEW m \in 0 .. 2^k - 1, NEW n \in 0 .. 2^k - 1
    PROVE  Bits(op, m, n) \in 0 .. 2^k - 1
<1>1. m \in Nat /\ n \in Nat
  OBVIOUS
<1>2. PICK f : BitSums(op, m, n, f) /\ Bits(op, m, n) = f[Word]
  BY <1>1, BitsAreSums
<1>3. Word - k \in Nat /\ (Word - k) + k = Word
  BY WordIsType
<1>4. f[(Word - k) + k] = f[k]
  <2>1. LowPair(m, n, k)
    BY DEF LowPair
  <2>2. \A d \in Nat : f[d + k] = f[k]
    BY <1>2, <2>1, SumsEnd
  <2> QED BY <1>3, <2>2
<1>5. f[k] \in 0 .. 2^k - 1
  BY <1>2, SumsBelow
<1> QED BY <1>2, <1>3, <1>4, <1>5

(* The low bits of a bitwise result are the result on the low bits.        *)
LEMMA BitsOfLowBits ==
    ASSUME NEW op \in BitwiseOps, NEW k \in Nat, k <= Word, NEW m \in Nat, NEW n \in Nat
    PROVE  /\ Bits(op, m, n) \in Nat
           /\ Bits(op, m, n) % 2^k = Bits(op, m % 2^k, n % 2^k)
<1>0. PICK e \in Nat \ {0} : e = 2^k
  BY Powers
<1>1. PICK f : BitSums(op, m, n, f) /\ Bits(op, m, n) = f[Word]
  BY BitsAreSums
<1>2. PICK p \in Nat : p = m % 2^k /\ p \in 0 .. 2^k - 1
  <2>1. m % e \in 0 .. e - 1
    BY Division
  <2> QED BY <1>0, <2>1
<1>3. PICK q \in Nat : q = n % 2^k /\ q \in 0 .. 2^k - 1
  <2>1. n % e \in 0 .. e - 1
    BY Division
  <2> QED BY <1>0, <2>1
<1>4. PICK g : BitSums(op, p, q, g) /\ Bits(op, p, q) = g[Word]
  BY BitsAreSums
<1>5. Word - k \in Nat /\ (Word - k) + k = Word
  BY WordIsType
<1>6. f[Word] \in Nat /\ f[Word] % 2^k = f[k]
  <2>1. LowSums(f, k)
    BY <1>1, SumsLow
  <2> QED BY <1>5, <2>1 DEF LowSums
<1>7. f[k] = g[k]
  <2>1. SameDigits(m, p, k) /\ SameDigits(n, q, k)
    BY <1>2, <1>3, DigitsOfLowBits DEF SameDigits
  <2> QED BY <1>1, <1>4, <2>1, SumsOfSameDigits
<1>8. g[Word] = g[k]
  <2>1. LowPair(p, q, k) /\ BitSums(op, p, q, g)
    BY <1>2, <1>3, <1>4 DEF LowPair
  <2>2. \A d \in Nat : g[d + k] = g[k]
    BY <2>1, SumsEnd
  <2> QED BY <1>5, <2>2
<1> QED BY <1>1, <1>2, <1>3, <1>4, <1>6, <1>7, <1>8

-----------------------------------------------------------------------------
(* The operators of both sides, one group of operations at a time.         *)
SumOps == {"+", "-", "*"}
DivOps == {"/", "%"}

(* What int_binary computes with: the number its common type sees.         *)
Operand(n, ty) == IF ty.signed THEN n ELSE operand_u64(n, ty)

LEMMA CommonType ==
    ASSUME NEW s, NEW t
    PROVE  /\ combine_int_ty(s, t) \in {s, t}
           /\ \A ty : {s, t} \subseteq {ty, WORD} /\ ty \in {s, t} => combine_int_ty(s, t) = ty
BY DEF combine_int_ty

(* binary_op, operator by operator, on operands stamped a.ty and b.ty.     *)
LEMMA InterpretedSum ==
    ASSUME NEW op \in SumOps, NEW a, NEW b, NEW t, t = combine_int_ty(a.ty, b.ty),
           ByteValue \notin {a.ty, b.ty}
    PROVE  binary_op(op, a, b) =
             IF t.signed /\ ~InRange(Exact(op, Operand(a.v, t), Operand(b.v, t)), t) THEN Stop
             ELSE sized(Exact(op, Operand(a.v, t), Operand(b.v, t)), t)
<1>1. binary_op(op, a, b) = int_binary(op, a.v, a.ty, b.v, b.ty)
  BY DEF binary_op, EqOps, SumOps
<1>2. int_binary(op, a.v, a.ty, b.v, b.ty) =
             IF t.signed /\ ~InRange(Exact(op, Operand(a.v, t), Operand(b.v, t)), t) THEN Stop
             ELSE sized(Exact(op, Operand(a.v, t), Operand(b.v, t)), t)
  BY DEF int_binary, SumOps, Operand, CompareOps, EqOps
<1> QED BY <1>1, <1>2

LEMMA InterpretedQuotient ==
    ASSUME NEW op \in DivOps, NEW a, NEW b, NEW t, t = combine_int_ty(a.ty, b.ty),
           ByteValue \notin {a.ty, b.ty}
    PROVE  binary_op(op, a, b) =
             IF b.v = 0 \/ Operand(b.v, t) = 0 \/ (t.signed /\ a.v = -(2^(t.bits - 1)) /\ b.v = -1) THEN Stop
             ELSE sized(Exact(op, Operand(a.v, t), Operand(b.v, t)), t)
<1>1. binary_op(op, a, b) = int_binary(op, a.v, a.ty, b.v, b.ty)
  BY DEF binary_op, EqOps, DivOps
<1>2. int_binary(op, a.v, a.ty, b.v, b.ty) =
             IF b.v = 0 \/ Operand(b.v, t) = 0 \/ (t.signed /\ a.v = -(2^(t.bits - 1)) /\ b.v = -1) THEN Stop
             ELSE sized(Exact(op, Operand(a.v, t), Operand(b.v, t)), t)
  BY DEF int_binary, DivOps, Operand, CompareOps, EqOps
<1> QED BY <1>1, <1>2

LEMMA InterpretedBits ==
    ASSUME NEW op \in BitwiseOps, NEW a, NEW b, NEW t, t = combine_int_ty(a.ty, b.ty),
           ByteValue \notin {a.ty, b.ty}
    PROVE  binary_op(op, a, b) = sized(Resign(Bits(op, a.v % 2^Word, b.v % 2^Word), Word), t)
<1>1. binary_op(op, a, b) = int_binary(op, a.v, a.ty, b.v, b.ty)
  BY DEF binary_op, EqOps, BitwiseOps
<1>2. int_binary(op, a.v, a.ty, b.v, b.ty) = sized(Resign(Bits(op, a.v % 2^Word, b.v % 2^Word), Word), t)
  BY DEF int_binary, BitwiseOps, CompareOps, EqOps
<1> QED BY <1>1, <1>2

LEMMA InterpretedShift ==
    ASSUME NEW a, NEW b, NEW t, t = combine_int_ty(a.ty, b.ty), ByteValue \notin {a.ty, b.ty}
    PROVE  /\ binary_op("<<", a, b) = sized(wrap_to(a.v * 2^(b.v % t.bits), WORD), t)
           /\ binary_op(">>", a, b) = sized(Operand(a.v, t) \div 2^(b.v % t.bits), t)
<1>1. \A op \in {"<<", ">>"} : binary_op(op, a, b) = int_binary(op, a.v, a.ty, b.v, b.ty)
  BY DEF binary_op, EqOps
<1>2. /\ int_binary("<<", a.v, a.ty, b.v, b.ty) = sized(wrap_to(a.v * 2^(b.v % t.bits), WORD), t)
      /\ int_binary(">>", a.v, a.ty, b.v, b.ty) = sized(Operand(a.v, t) \div 2^(b.v % t.bits), t)
  BY DEF int_binary, Operand, CompareOps, EqOps
<1> QED BY <1>1, <1>2

LEMMA InterpretedOrder ==
    ASSUME NEW op \in CompareOps \ EqOps, NEW a, NEW b, NEW t, t = combine_int_ty(a.ty, b.ty),
           ByteValue \notin {a.ty, b.ty}
    PROVE  binary_op(op, a, b) = Truth(Compare(op, Operand(a.v, t), Operand(b.v, t)))
<1>1. binary_op(op, a, b) = int_binary(op, a.v, a.ty, b.v, b.ty)
  BY DEF binary_op, EqOps
<1>2. int_binary(op, a.v, a.ty, b.v, b.ty) = Truth(Compare(op, Operand(a.v, t), Operand(b.v, t)))
  BY DEF int_binary, CompareOps, EqOps, Operand
<1> QED BY <1>1, <1>2

(* Overflow checks are on. *)
On(checks) == checks

(* lower_int_binop, operator by operator, on bits l and r of the type ty.  *)
LEMMA CheckedSum ==
    ASSUME NEW op \in SumOps, NEW l, NEW r, NEW ty, NEW checks, On(checks)
    PROVE  lower_int_binop(op, l, r, ty, checks) =
             IF ty.signed /\ ~InRange(Exact(op, View(l, ty), View(r, ty)), ty) THEN Trap
             ELSE Iv(Exact(op, View(l, ty), View(r, ty)) % 2^ty.bits)
BY DEF lower_int_binop, SumOps, CompareOps, EqOps, On

(* A divisor is zero exactly if its bits are.                              *)
LEMMA ZeroView ==
    ASSUME NEW ty \in IntTypes, NEW c \in 0 .. 2^ty.bits - 1
    PROVE  View(c, ty) = 0 <=> c = 0
<1>1. ty.bits \in Nat
  BY Types
<1>2. PICK m \in Nat \ {0} : m = 2^ty.bits
  BY <1>1, Powers
<1>3. View(c, ty) % m = c /\ c \in 0 .. m - 1
  BY <1>2, Viewed
<1>4. 0 % m = 0
  BY Small
<1>5. CASE c = 0
  <2>1. PICK h \in Nat \ {0} : h = 2^(ty.bits - 1)
    BY Types, HalfPower
  <2>2. ~(0 >= h)
    BY <2>1
  <2> QED BY <1>5, <2>1, <2>2 DEF View, Resign
<1> QED BY <1>3, <1>4, <1>5

LEMMA CompiledQuotient ==
    ASSUME NEW op \in DivOps, NEW ty \in IntTypes, NEW l \in 0 .. 2^ty.bits - 1, NEW r \in 0 .. 2^ty.bits - 1,
           NEW checks
    PROVE  lower_int_binop(op, l, r, ty, checks) =
             IF View(r, ty) = 0 \/ (ty.signed /\ View(l, ty) = -(2^(ty.bits - 1)) /\ View(r, ty) = -1) THEN Trap
             ELSE Iv(Exact(op, View(l, ty), View(r, ty)) % 2^ty.bits)
<1> DEFINE defined == View(r, ty) # 0 /\ ~(ty.signed /\ View(l, ty) = -(2^(ty.bits - 1)) /\ View(r, ty) = -1)
<1>1. lower_int_binop(op, l, r, ty, checks) =
        IF guard_div(l, r, ty, checks) THEN Trap
        ELSE IF defined THEN Iv(Exact(op, View(l, ty), View(r, ty)) % 2^ty.bits) ELSE Poison
  BY DEF lower_int_binop, DivOps, CompareOps, EqOps
<1>2. guard_div(l, r, ty, checks) <=> ~defined
  BY ZeroView DEF guard_div
<1> QED BY <1>1, <1>2

LEMMA CompiledBits ==
    ASSUME NEW op \in BitwiseOps, NEW l, NEW r, NEW ty, NEW checks
    PROVE  lower_int_binop(op, l, r, ty, checks) = Iv(Bits(op, l, r))
BY DEF lower_int_binop, BitwiseOps, CompareOps, EqOps

LEMMA CompiledShift ==
    ASSUME NEW ty \in IntTypes, NEW l, NEW r \in Int, NEW checks
    PROVE  /\ r % ty.bits \in Nat /\ r % ty.bits < ty.bits
           /\ lower_int_binop("<<", l, r, ty, checks) = Iv((l * 2^(r % ty.bits)) % 2^ty.bits)
           /\ lower_int_binop(">>", l, r, ty, checks) = Iv((View(l, ty) \div 2^(r % ty.bits)) % 2^ty.bits)
<1>1. PICK b \in Nat \ {0} : b = ty.bits
  BY Types
<1>2. r % b \in Nat /\ r % b < b
  BY Divided
<1>3. mask_shift_amount(ty, r) < ty.bits
  BY <1>1, <1>2 DEF mask_shift_amount
<1>4. lower_int_binop("<<", l, r, ty, checks) = Iv((l * 2^(mask_shift_amount(ty, r))) % 2^ty.bits)
  BY <1>3 DEF lower_int_binop, CompareOps, EqOps
<1>5. lower_int_binop(">>", l, r, ty, checks) = Iv((View(l, ty) \div 2^(mask_shift_amount(ty, r))) % 2^ty.bits)
  BY <1>3 DEF lower_int_binop, CompareOps, EqOps
<1> QED BY <1>1, <1>2, <1>4, <1>5 DEF mask_shift_amount

LEMMA CompiledComparison ==
    ASSUME NEW op \in CompareOps, NEW l, NEW r, NEW ty, NEW checks
    PROVE  lower_int_binop(op, l, r, ty, checks) = Truth(Compare(op, View(l, ty), View(r, ty)))
BY DEF lower_int_binop, CompareOps, EqOps

-----------------------------------------------------------------------------
(* Exact results. *)
LEMMA ExactIsInteger ==
    ASSUME NEW op \in SumOps, NEW m \in Int, NEW n \in Int
    PROVE  Exact(op, m, n) \in Int
<1>1. m * n \in Int
  BY Z3
<1> QED BY <1>1 DEF Exact, SumOps

(* The low bits of an exact result depend on the low bits of the operands. *)
LEMMA ExactLowBits ==
    ASSUME NEW op \in SumOps, NEW k \in Nat, NEW m \in Int, NEW n \in Int, NEW p \in Int, NEW q \in Int,
           m % 2^k = p % 2^k, n % 2^k = q % 2^k
    PROVE  Exact(op, m, n) % 2^k = Exact(op, p, q) % 2^k
<1>1. PICK e \in Nat \ {0} : e = 2^k
  BY Powers
<1>2. Same(m, p, e) /\ Same(n, q, e)
  BY <1>1 DEF Same
<1>3. Same(m + n, p + q, e)
  BY <1>2, Sums
<1>4. Same(m - n, p - q, e)
  BY <1>2, Differences
<1>5. Same(m * n, p * q, e)
  BY <1>2, Factors
<1> QED BY <1>1, <1>3, <1>4, <1>5 DEF Same, Exact, SumOps

(* The quotient is towards zero: the remainder has the dividend's sign and *)
(* is no larger.                                                           *)
LEMMA Towards0 ==
    ASSUME NEW m \in Int, NEW n \in Int, n # 0
    PROVE  /\ Quot(m, n) \in Int
           /\ m >= 0 => m - n * Quot(m, n) \in 0 .. m
           /\ m < 0 => m - n * Quot(m, n) \in m .. 0
<1>1. CASE m >= 0 /\ n > 0
  <2>1. Quot(m, n) = m \div n
    BY <1>1 DEF Quot
  <2>2. PICK q \in Nat : q = m \div n /\ q * n \in Nat /\ q * n <= m
    BY <1>1, RoundedDown
  <2>3. n * q = q * n
    BY Z3
  <2> QED BY <1>1, <2>1, <2>2, <2>3
<1>2. CASE m >= 0 /\ n < 0
  <2>1. Quot(m, n) = -(m \div (-n))
    BY <1>2 DEF Quot
  <2>2. PICK q \in Nat : q = m \div (-n) /\ q * (-n) \in Nat /\ q * (-n) <= m
    BY <1>2, RoundedDown
  <2>3. n * (-q) = q * (-n)
    BY Z3
  <2> QED BY <1>2, <2>1, <2>2, <2>3
<1>3. CASE m < 0 /\ n > 0
  <2>1. Quot(m, n) = -((-m) \div n)
    BY <1>3 DEF Quot
  <2>2. PICK q \in Nat : q = (-m) \div n /\ q * n \in Nat /\ q * n <= -m
    BY <1>3, RoundedDown
  <2>3. n * (-q) = -(q * n)
    BY Z3
  <2> QED BY <1>3, <2>1, <2>2, <2>3
<1>4. CASE m < 0 /\ n < 0
  <2>1. Quot(m, n) = (-m) \div (-n)
    BY <1>4 DEF Quot
  <2>2. PICK q \in Nat : q = (-m) \div (-n) /\ q * (-n) \in Nat /\ q * (-n) <= -m
    BY <1>4, RoundedDown
  <2>3. n * q = -(q * (-n))
    BY Z3
  <2> QED BY <1>4, <2>1, <2>2, <2>3
<1> QED BY <1>1, <1>2, <1>3, <1>4

-----------------------------------------------------------------------------
(* One operation on two operands a and b, compiled at the type ty to the   *)
(* bits l and r.                                                           *)
Operands(a, b, l, r, ty) ==
    /\ ty \in IntTypes /\ IsNumber(a) /\ IsNumber(b)
    /\ l = a.v % 2^ty.bits /\ r = b.v % 2^ty.bits

(* Both stop, both show the same truth value, or the compiled bits are     *)
(* those of the interpreted number.                                        *)
Agree(i, c, ty) == \/ i = Stop /\ c = Trap
                   \/ \E t \in BOOLEAN : i = Truth(t) /\ c = Truth(t)
                   \/ IsNumber(i) /\ c = Iv(i.v % 2^ty.bits)

LEMMA OperandTypes ==
    ASSUME NEW a, NEW b, NEW l, NEW r, NEW ty, Operands(a, b, l, r, ty)
    PROVE  /\ a.v \in Int /\ b.v \in Int /\ ty.bits \in Nat \ {0} /\ ty.bits <= Word
           /\ l \in 0 .. 2^ty.bits - 1 /\ r \in 0 .. 2^ty.bits - 1 /\ l \in Nat /\ r \in Nat
           /\ l % 2^ty.bits = l /\ r % 2^ty.bits = r
<1>1. ty \in IntTypes /\ a.v \in Int /\ b.v \in Int /\ l = a.v % 2^ty.bits /\ r = b.v % 2^ty.bits
  BY DEF Operands, IsNumber
<1>2. ty.bits \in Nat \ {0} /\ ty.bits <= Word
  BY <1>1, Types
<1>3. PICK e \in Nat \ {0} : e = 2^ty.bits
  BY <1>2, Powers
<1>4. PICK m \in Int, n \in Int : m = a.v /\ n = b.v
  BY <1>1
<1>5. l \in 0 .. e - 1 /\ r \in 0 .. e - 1 /\ l % e = l /\ r % e = r
  BY <1>1, <1>3, <1>4, Divided, Small
<1> QED BY <1>1, <1>2, <1>3, <1>5

(* A stamped result agrees with compiled bits if it has the same low bits. *)
LEMMA SizedAgrees ==
    ASSUME NEW ty \in IntTypes, NEW t \in IntTypes, NEW e \in Int, NEW f,
           wrap_to(e, t) % 2^ty.bits = f % 2^ty.bits
    PROVE  Agree(sized(e, t), Iv(f % 2^ty.bits), ty)
BY SizedIsNumber DEF Agree

(* A shift amount may be taken from the number or from its bits.           *)
LEMMA ShiftAmount ==
    ASSUME NEW ty \in IntTypes, NEW n \in Int
    PROVE  (n % 2^ty.bits) % ty.bits = n % ty.bits
<1>1. PICK b \in Nat \ {0} : b = ty.bits
  BY Types
<1>2. PICK e \in Nat \ {0} : e = 2^b
  BY Powers
<1>3. e % b = 0
  BY <1>1, <1>2, Types
<1>4. PICK q \in Nat : e = q * b
  <2>1. e = (e \div b) * b + (e % b) /\ e \div b \in Nat
    BY Division
  <2>2. PICK q \in Nat : q = e \div b
    BY <2>1
  <2>3. q * b \in Nat
    BY Z3
  <2> QED BY <1>3, <2>1, <2>2, <2>3
<1>5. q # 0
  BY <1>4
<1>6. n % e \in Int /\ (n % e) % e = n % e
  <2>1. n % e \in 0 .. e - 1
    BY Divided
  <2>2. (n % e) % e = n % e
    BY Twice
  <2> QED BY <2>1, <2>2
<1>7. (n % e) % (q * b) = n % (q * b)
  BY <1>4, <1>6
<1>8. (n % e) % b = n % b
  BY <1>5, <1>6, <1>7, Finer
<1> QED BY <1>1, <1>2, <1>8

(* What an integer's common type sees, where the number shown fits it.     *)
LEMMA OperandFits ==
    ASSUME NEW i, IsNumber(i), i.ty # ByteValue, NEW t \in IntTypes, InRange(Shown(i), t)
    PROVE  Operand(i.v, t) = Shown(i) /\ (t.signed => i.v = Shown(i))
<1>1. Shown(i) \in Int /\ i.v \in Int /\ Shown(i) % 2^Word = i.v % 2^Word
  BY ShownNumber DEF IsNumber
<1>2. Shown(i) % 2^t.bits = i.v % 2^t.bits
  BY ShownBits
<1>3. CASE t.signed
  <2>1. Stored(Shown(i), t)
    BY <1>3 DEF InRange, Stored
  <2>2. wrap_to(Shown(i), t) = Shown(i)
    BY <1>1, <2>1, Wrapped, StoredOnce
  <2>3. IsNumber(sized(Shown(i), t)) /\ sized(Shown(i), t).ty = t /\ sized(Shown(i), t).v = Shown(i)
    BY <1>1, <2>2, SizedIsNumber
  <2>4. Stored(Shown(i), WORD)
    BY <2>3, Types, StoredInWord
  <2>5. Stored(i.v, WORD)
    BY StoredInWord
  <2>6. i.v = Shown(i)
    BY <1>1, <2>4, <2>5, WordIsType, StoredOnce
  <2> QED BY <1>3, <2>6 DEF Operand
<1>4. CASE ~t.signed
  <2>1. t.bits \in Nat
    BY Types
  <2>2. PICK e \in Nat \ {0} : e = 2^t.bits
    BY <2>1, Powers
  <2>3. 0 <= Shown(i) /\ Shown(i) < e
    BY <1>4, <2>2 DEF InRange
  <2>4. Shown(i) % e = Shown(i)
    <3>1. PICK s \in Int : s = Shown(i)
      BY <1>1
    <3>2. s \in 0 .. e - 1
      BY <2>3, <3>1
    <3> QED BY <3>1, <3>2, Small
  <2> QED BY <1>2, <1>4, <2>2, <2>4 DEF Operand, operand_u64
<1> QED BY <1>3, <1>4

(* Equality looks at the stored numbers.                                   *)
LEMMA EqualityAgrees ==
    ASSUME NEW op \in EqOps, NEW a, NEW b, NEW l, NEW r, NEW ty, Operands(a, b, l, r, ty),
           ByteValue \notin {a.ty, b.ty}, Fits(a, ty), Fits(b, ty), NEW checks
    PROVE  Agree(binary_op(op, a, b), lower_int_binop(op, l, r, ty, checks), ty)
<1>1. View(l, ty) = Shown(a) /\ View(r, ty) = Shown(b) /\ ty \in IntTypes
  BY FittingView DEF Operands
<1>2. /\ Shown(a) \in Int /\ a.v \in Int /\ Shown(a) % 2^Word = a.v % 2^Word
      /\ Shown(b) \in Int /\ b.v \in Int /\ Shown(b) % 2^Word = b.v % 2^Word
  BY ShownNumber DEF Operands, IsNumber
<1>3. a.v = b.v <=> Shown(a) = Shown(b)
  <2>1. ASSUME a.v = b.v PROVE Shown(a) = Shown(b)
    <3>1. Shown(a) % 2^Word = Shown(b) % 2^Word
      BY <1>2, <2>1
    <3>2. Shown(a) % 2^ty.bits = Shown(b) % 2^ty.bits
      BY <1>1, <1>2, <3>1, Types, WordIsType, FewerBits
    <3> QED BY <1>1, <1>2, <3>2, InRangeOnce DEF Fits
  <2>2. ASSUME Shown(a) = Shown(b) PROVE a.v = b.v
    <3>1. a.v % 2^Word = b.v % 2^Word
      BY <1>2, <2>2
    <3>2. Stored(a.v, WORD) /\ Stored(b.v, WORD)
      BY StoredInWord DEF Operands
    <3> QED BY <1>2, <3>1, <3>2, WordIsType, StoredOnce
  <2> QED BY <2>1, <2>2
<1>4. lower_int_binop(op, l, r, ty, checks) = Truth(Compare(op, Shown(a), Shown(b)))
  BY <1>1, CompiledComparison DEF CompareOps
<1>5. binary_op(op, a, b) = Truth(values_equal(a, b) = (op = "=="))
  BY DEF binary_op
<1>6. values_equal(a, b) = (a.v = b.v)
  BY DEF values_equal
<1>7. CASE a.v = b.v
  <2>1. values_equal(a, b) = TRUE
    BY <1>6, <1>7
  <2>2. CASE op = "=="
    <3>1. (values_equal(a, b) = (op = "==")) = TRUE
      BY <2>1, <2>2
    <3>2. Compare(op, Shown(a), Shown(b)) = TRUE
      BY <1>3, <1>7, <2>2 DEF Compare
    <3> QED BY <1>4, <1>5, <3>1, <3>2 DEF Agree
  <2>3. CASE op = "!="
    <3>1. (values_equal(a, b) = (op = "==")) = FALSE
      BY <2>1, <2>3
    <3>2. Compare(op, Shown(a), Shown(b)) = FALSE
      BY <1>3, <1>7, <2>3 DEF Compare
    <3> QED BY <1>4, <1>5, <3>1, <3>2 DEF Agree
  <2> QED BY <2>2, <2>3 DEF EqOps
<1>8. CASE a.v # b.v
  <2>1. values_equal(a, b) = FALSE
    BY <1>6, <1>8
  <2>2. CASE op = "=="
    <3>1. (values_equal(a, b) = (op = "==")) = FALSE
      BY <2>1, <2>2
    <3>2. Compare(op, Shown(a), Shown(b)) = FALSE
      BY <1>3, <1>8, <2>2 DEF Compare
    <3> QED BY <1>4, <1>5, <3>1, <3>2 DEF Agree
  <2>3. CASE op = "!="
    <3>1. (values_equal(a, b) = (op = "==")) = TRUE
      BY <2>1, <2>3
    <3>2. Compare(op, Shown(a), Shown(b)) = TRUE
      BY <1>3, <1>8, <2>3 DEF Compare
    <3> QED BY <1>4, <1>5, <3>1, <3>2 DEF Agree
  <2> QED BY <2>2, <2>3 DEF EqOps
<1> QED BY <1>7, <1>8

(* The bits of a word, taken as a number of it.                            *)
LEMMA ResignedBits ==
    ASSUME NEW op \in BitwiseOps, NEW m \in Int, NEW n \in Int, NEW k \in Nat, k <= Word
    PROVE  /\ Resign(Bits(op, m % 2^Word, n % 2^Word), Word) \in Int
           /\ Resign(Bits(op, m % 2^Word, n % 2^Word), Word) % 2^k = Bits(op, m % 2^k, n % 2^k)
<1>1. PICK e \in Nat \ {0} : e = 2^Word
  BY WordIsType, Powers
<1>2. PICK p \in Nat, q \in Nat : p = m % e /\ q = n % e /\ p \in 0 .. e - 1 /\ q \in 0 .. e - 1
  <2>1. m % e \in 0 .. e - 1 /\ n % e \in 0 .. e - 1
    BY Divided
  <2> QED BY <2>1
<1>3. PICK z \in 0 .. 2^Word - 1 : z = Bits(op, p, q)
  <2>1. Word \in Nat /\ Word <= Word /\ p \in 0 .. 2^Word - 1 /\ q \in 0 .. 2^Word - 1
    BY <1>1, <1>2, WordIsType
  <2> QED BY <2>1, BitsBelow
<1>4. Resign(z, Word) \in Int /\ Resign(z, Word) % 2^Word = z
  BY <1>3, WordIsType, ResignKeeps
<1>5. z % 2^Word = z /\ z \in Int
  BY <1>1, <1>3, WordIsType, LowBitsSmall
<1>6. Resign(z, Word) % 2^k = z % 2^k
  BY <1>4, <1>5, WordIsType, FewerBits
<1>7. z % 2^k = Bits(op, p % 2^k, q % 2^k)
  <2>1. p \in Nat /\ q \in Nat
    BY <1>2
  <2>2. Bits(op, p, q) % 2^k = Bits(op, p % 2^k, q % 2^k)
    BY <2>1, BitsOfLowBits
  <2> QED BY <1>3, <2>2
<1>8. p % 2^k = m % 2^k /\ q % 2^k = n % 2^k
  <2>1. p % e = m % e /\ q % e = n % e
    BY <1>1, <1>2, Twice
  <2>2. p \in Int /\ q \in Int /\ p % 2^Word = m % 2^Word /\ q % 2^Word = n % 2^Word
    BY <1>1, <1>2, <2>1
  <2>3. Word \in Nat
    BY WordIsType
  <2> HIDE <1>2
  <2>4. \A s, t \in Int : s % 2^Word = t % 2^Word => s % 2^k = t % 2^k
    BY <2>3, FewerBits
  <2> QED BY <2>2, <2>4
<1> QED BY <1>1, <1>2, <1>3, <1>4, <1>6, <1>7, <1>8

LEMMA BitsAgree ==
    ASSUME NEW op \in BitwiseOps, NEW a, NEW b, NEW l, NEW r, NEW ty, Operands(a, b, l, r, ty),
           ByteValue \notin {a.ty, b.ty}, combine_int_ty(a.ty, b.ty).bits >= ty.bits, NEW checks
    PROVE  Agree(binary_op(op, a, b), lower_int_binop(op, l, r, ty, checks), ty)
<1> DEFINE t == combine_int_ty(a.ty, b.ty)
           z == Resign(Bits(op, a.v % 2^Word, b.v % 2^Word), Word)
<1>1. /\ ty \in IntTypes /\ IsNumber(a) /\ IsNumber(b) /\ l = a.v % 2^ty.bits /\ r = b.v % 2^ty.bits
      /\ a.v \in Int /\ b.v \in Int /\ ty.bits \in Nat /\ ty.bits <= Word
  BY OperandTypes DEF Operands
<1>2. t \in IntTypes
  BY <1>1, CommonType DEF IsNumber
<1>3. z \in Int /\ z % 2^ty.bits = Bits(op, l, r)
  BY <1>1, ResignedBits
<1>4. binary_op(op, a, b) = sized(z, t)
  BY InterpretedBits
<1>5. lower_int_binop(op, l, r, ty, checks) = Iv(Bits(op, l, r))
  BY CompiledBits
<1> HIDE DEF z
<1>6. wrap_to(z, t) % 2^ty.bits = z % 2^ty.bits
  <2>1. wrap_to(z, t) \in Int /\ wrap_to(z, t) % 2^t.bits = z % 2^t.bits
    BY <1>2, <1>3, Wrapped
  <2>2. t.bits \in Nat /\ ty.bits <= t.bits
    BY <1>1, <1>2, Types
  <2> HIDE DEF t
  <2> QED BY <1>1, <1>3, <2>1, <2>2, FewerBits
<1> HIDE DEF t
<1>7. Agree(sized(z, t), Iv(z % 2^ty.bits), ty)
  BY <1>1, <1>2, <1>3, <1>6, SizedAgrees
<1> QED BY <1>3, <1>4, <1>5, <1>7

LEMMA ShiftedLeft ==
    ASSUME NEW ty \in IntTypes, NEW m \in Int, NEW k \in Nat
    PROVE  /\ wrap_to(m * 2^k, WORD) \in Int
           /\ wrap_to(m * 2^k, WORD) % 2^ty.bits = ((m % 2^ty.bits) * 2^k) % 2^ty.bits
<1>1. PICK p \in Nat \ {0} : p = 2^k
  BY Powers
<1>2. PICK e \in Nat \ {0} : e = 2^ty.bits
  BY Types, Powers
<1>3. PICK s \in Int : s = m * p
  BY Z3
<1>4. wrap_to(s, WORD) \in Int /\ wrap_to(s, WORD) % 2^Word = s % 2^Word
  BY WordIsType, Wrapped
<1>5. wrap_to(s, WORD) % e = s % e
  BY <1>2, <1>4, Types, WordIsType, FewerBits
<1>6. PICK l \in Int : l = m % e
  BY Divided
<1>7. Same(m, l, e) /\ Same(p, p, e)
  BY <1>6, Twice DEF Same
<1>8. Same(m * p, l * p, e)
  BY <1>7, Factors
<1> QED BY <1>1, <1>2, <1>3, <1>4, <1>5, <1>6, <1>8 DEF Same

LEMMA OrderIsTruth ==
    ASSUME NEW op \in CompareOps, NEW m \in Int, NEW n \in Int
    PROVE  Compare(op, m, n) \in BOOLEAN
<1>1. CASE op = "=="
  BY <1>1, Zenon DEF Compare
<1>2. CASE op = "!="
  BY <1>2, Zenon DEF Compare
<1>3. CASE op = "<"
  BY <1>3 DEF Compare
<1>4. CASE op = "<="
  BY <1>4 DEF Compare
<1>5. CASE op = ">"
  BY <1>5 DEF Compare
<1>6. CASE op = ">="
  BY <1>6 DEF Compare
<1> QED BY <1>1, <1>2, <1>3, <1>4, <1>5, <1>6 DEF CompareOps, EqOps

(* Where both operands are stamped with the compiled type, or are plain    *)
(* integers, both sides compute with the same numbers.                     *)
LEMMA SameOperands ==
    ASSUME NEW op, NEW a, NEW b, NEW l, NEW r, NEW ty, Operands(a, b, l, r, ty),
           op \notin EqOps, AtItsType(op, a, b, ty)
    PROVE  /\ combine_int_ty(a.ty, b.ty) = ty
           /\ ByteValue \notin {a.ty, b.ty}
           /\ Operand(a.v, ty) = View(l, ty)
           /\ Operand(b.v, ty) = View(r, ty)
           /\ op \in DivOps => Fits(a, ty) /\ Fits(b, ty)
<1>1. ty \in IntTypes /\ IsNumber(a) /\ IsNumber(b) /\ l = a.v % 2^ty.bits /\ r = b.v % 2^ty.bits
  BY DEF Operands
<1>2. {a.ty, b.ty} \subseteq {ty, WORD} /\ ty \in {a.ty, b.ty}
  BY DEF AtItsType
<1>3. combine_int_ty(a.ty, b.ty) = ty
  BY <1>2, CommonType
<1>4. ty # ByteValue /\ WORD # ByteValue
  BY <1>1, Types, WordIsType
<1>5. a.ty # ByteValue /\ b.ty # ByteValue
  BY <1>2, <1>4
<1>6. CASE Fits(a, ty) /\ Fits(b, ty)
  <2>1. View(l, ty) = Shown(a) /\ View(r, ty) = Shown(b)
    BY <1>1, <1>6, FittingView
  <2>2. Operand(a.v, ty) = Shown(a) /\ Operand(b.v, ty) = Shown(b)
    BY <1>1, <1>5, <1>6, OperandFits DEF Fits
  <2> QED BY <1>3, <1>5, <1>6, <2>1, <2>2
<1>7. CASE ~ty.signed /\ op \notin EqOps \cup {"/", "%"}
  BY <1>1, <1>3, <1>5, <1>7 DEF Operand, operand_u64, View, DivOps
<1> QED BY <1>6, <1>7 DEF AtItsType

(* ... so that they stop or go on together, with the same result.          *)
LEMMA AtItsTypeAgrees ==
    ASSUME NEW op \in (ArithOps \cup CompareOps) \ EqOps, NEW a, NEW b, NEW l, NEW r, NEW ty,
           Operands(a, b, l, r, ty), AtItsType(op, a, b, ty), NEW checks, On(checks)
    PROVE  Agree(binary_op(op, a, b), lower_int_binop(op, l, r, ty, checks), ty)
<1>1. ty \in IntTypes /\ IsNumber(a) /\ IsNumber(b) /\ l = a.v % 2^ty.bits /\ r = b.v % 2^ty.bits
  BY DEF Operands
<1>2. /\ combine_int_ty(a.ty, b.ty) = ty /\ ByteValue \notin {a.ty, b.ty}
      /\ Operand(a.v, ty) = View(l, ty) /\ Operand(b.v, ty) = View(r, ty)
      /\ op \in DivOps => Fits(a, ty) /\ Fits(b, ty)
  BY SameOperands
<1>3. /\ a.v \in Int /\ b.v \in Int /\ ty.bits \in Nat \ {0} /\ ty.bits <= Word
      /\ l \in 0 .. 2^ty.bits - 1 /\ r \in 0 .. 2^ty.bits - 1 /\ l \in Nat /\ r \in Nat
      /\ l % 2^ty.bits = l /\ r % 2^ty.bits = r
  BY OperandTypes
<1>4. PICK m \in Int, n \in Int : m = View(l, ty) /\ n = View(r, ty)
  BY <1>1, <1>3, Viewed
<1>5. \A e \in Int : Agree(sized(e, ty), Iv(e % 2^ty.bits), ty)
  BY <1>1, Wrapped, SizedAgrees
<1>6. CASE op \in SumOps
  <2>1. PICK e \in Int : e = Exact(op, m, n)
    BY <1>6, ExactIsInteger
  <2>2. binary_op(op, a, b) = IF ty.signed /\ ~InRange(e, ty) THEN Stop ELSE sized(e, ty)
    BY <1>2, <1>4, <1>6, <2>1, InterpretedSum
  <2>3. lower_int_binop(op, l, r, ty, checks) =
          IF ty.signed /\ ~InRange(e, ty) THEN Trap ELSE Iv(e % 2^ty.bits)
    BY <1>4, <1>6, <2>1, CheckedSum
  <2> QED BY <1>5, <2>2, <2>3 DEF Agree
<1>7. CASE op \in DivOps
  <2>1. m = Shown(a) /\ n = Shown(b)
    BY <1>1, <1>2, <1>4, <1>7, FittingView
  <2>2. ty.signed => a.v = m /\ b.v = n
    BY <1>1, <1>2, <1>7, <2>1, OperandFits DEF Fits
  <2>3. b.v = 0 => n = 0
    <3>1. 0 % 2^ty.bits = 0
      <4>1. PICK e \in Nat \ {0} : e = 2^ty.bits
        BY <1>3, Powers
      <4> QED BY <4>1, Small
    <3> QED BY <1>1, <1>3, <1>4, <3>1, ZeroView
  <2>4. ASSUME n # 0 PROVE Exact(op, m, n) \in Int
    <3>1. Quot(m, n) \in Int
      BY <2>4, Towards0
    <3>2. m - n * Quot(m, n) \in Int
      BY <3>1, Z3
    <3> QED BY <1>7, <3>1, <3>2 DEF Exact, DivOps
  <2>5. binary_op(op, a, b) =
          IF n = 0 \/ (ty.signed /\ m = -(2^(ty.bits - 1)) /\ n = -1) THEN Stop
          ELSE sized(Exact(op, m, n), ty)
    BY <1>2, <1>4, <1>7, <2>2, <2>3, InterpretedQuotient
  <2>6. lower_int_binop(op, l, r, ty, checks) =
          IF n = 0 \/ (ty.signed /\ m = -(2^(ty.bits - 1)) /\ n = -1) THEN Trap
          ELSE Iv(Exact(op, m, n) % 2^ty.bits)
    BY <1>1, <1>3, <1>4, <1>7, CompiledQuotient
  <2> QED BY <1>5, <2>4, <2>5, <2>6 DEF Agree
<1>8. CASE op \in BitwiseOps
  <2>1. combine_int_ty(a.ty, b.ty).bits >= ty.bits
    BY <1>2, <1>3
  <2> QED BY <1>2, <1>8, <2>1, BitsAgree
<1>9. CASE op \in {"<<", ">>"}
  <2>1. b.v % ty.bits = r % ty.bits
    BY <1>1, <1>3, ShiftAmount
  <2>2. PICK k \in Nat : k = r % ty.bits
    BY <1>1, <1>3, CompiledShift
  <2>3. CASE op = "<<"
    <3>1. binary_op(op, a, b) = sized(wrap_to(a.v * 2^k, WORD), ty)
      BY <1>2, <2>1, <2>2, <2>3, InterpretedShift
    <3>2. lower_int_binop(op, l, r, ty, checks) = Iv((l * 2^k) % 2^ty.bits)
      BY <1>1, <1>3, <2>2, <2>3, CompiledShift
    <3>3. PICK e \in Int : e = wrap_to(a.v * 2^k, WORD) /\ e % 2^ty.bits = (l * 2^k) % 2^ty.bits
      BY <1>1, <1>3, ShiftedLeft
    <3>4. Agree(sized(e, ty), Iv(e % 2^ty.bits), ty)
      BY <1>5
    <3> QED BY <3>1, <3>2, <3>3, <3>4
  <2>4. CASE op = ">>"
    <3>1. binary_op(op, a, b) = sized(m \div 2^k, ty)
      BY <1>2, <1>4, <2>1, <2>2, <2>4, InterpretedShift
    <3>2. lower_int_binop(op, l, r, ty, checks) = Iv((m \div 2^k) % 2^ty.bits)
      BY <1>1, <1>3, <1>4, <2>2, <2>4, CompiledShift
    <3>3. PICK e \in Int : e = m \div 2^k
      <4>1. PICK p \in Nat \ {0} : p = 2^k
        BY Powers
      <4>2. m \div p \in Int
        BY Divided
      <4> QED BY <4>1, <4>2
    <3> QED BY <1>5, <3>1, <3>2, <3>3
  <2> QED BY <1>9, <2>3, <2>4
<1>10. CASE op \in CompareOps \ EqOps
  <2>1. binary_op(op, a, b) = Truth(Compare(op, m, n))
    BY <1>2, <1>4, <1>10, InterpretedOrder
  <2>2. lower_int_binop(op, l, r, ty, checks) = Truth(Compare(op, m, n))
    BY <1>4, <1>10, CompiledComparison
  <2> QED BY <1>10, <2>1, <2>2, OrderIsTruth DEF Agree
<1> QED BY <1>6, <1>7, <1>8, <1>9, <1>10 DEF ArithOps, SumOps, DivOps, BitwiseOps

(* A sum, difference or product of numbers at least as wide as the compiled *)
(* type agrees with the compiled one modulo the compiled width.            *)
LEMMA OperandBits ==
    ASSUME NEW n \in Int, NEW t \in IntTypes
    PROVE  Operand(n, t) \in Int /\ Operand(n, t) % 2^t.bits = n % 2^t.bits
<1>1. n % 2^t.bits \in 0 .. 2^t.bits - 1 /\ (n % 2^t.bits) % 2^t.bits = n % 2^t.bits
  BY Types, LowBits
<1>2. n % 2^t.bits \in Int
  BY <1>1
<1> QED BY <1>1, <1>2 DEF Operand, operand_u64

LEMMA RingAgrees ==
    ASSUME NEW op, NEW a, NEW b, NEW l, NEW r, NEW ty,
           Operands(a, b, l, r, ty), RingOp(op, a, b, l, r, ty), NEW checks, On(checks)
    PROVE  Agree(binary_op(op, a, b), lower_int_binop(op, l, r, ty, checks), ty)
<1>1. ty \in IntTypes /\ IsNumber(a) /\ IsNumber(b) /\ l = a.v % 2^ty.bits /\ r = b.v % 2^ty.bits
  BY DEF Operands
<1>2. /\ a.v \in Int /\ b.v \in Int /\ ty.bits \in Nat
      /\ l \in 0 .. 2^ty.bits - 1 /\ r \in 0 .. 2^ty.bits - 1
  BY OperandTypes
<1>3. PICK t : t = combine_int_ty(a.ty, b.ty)
  OBVIOUS
<1>4. ByteValue \notin {a.ty, b.ty} /\ t \in {a.ty, b.ty}
  BY <1>3, CommonType DEF RingOp
<1>5. t \in IntTypes /\ t.bits \in Nat /\ ty.bits <= t.bits
  <2>1. t \in IntTypes
    BY <1>1, <1>4 DEF IsNumber
  <2>2. t.bits >= ty.bits
    BY <1>4 DEF RingOp
  <2> QED BY <1>2, <2>1, <2>2, Types
<1>6. CASE op \in BitwiseOps
  BY <1>2, <1>3, <1>4, <1>5, <1>6, BitsAgree
<1>7. CASE op \in SumOps
  <2>1. PICK m \in Int, n \in Int : m = Operand(a.v, t) /\ n = Operand(b.v, t)
    BY <1>2, <1>5, OperandBits
  <2>2. PICK p \in Int, q \in Int : p = View(l, ty) /\ q = View(r, ty)
    BY <1>1, <1>2, Viewed
  <2>3. PICK d \in Int : d = Exact(op, a.v, b.v)
    BY <1>2, <1>7, ExactIsInteger
  <2>4. PICK e \in Int : e = Exact(op, m, n)
    BY <1>7, ExactIsInteger
  <2>5. PICK f \in Int : f = Exact(op, p, q)
    BY <1>7, ExactIsInteger
  <2>6. e % 2^t.bits = d % 2^t.bits
    <3>1. m % 2^t.bits = a.v % 2^t.bits /\ n % 2^t.bits = b.v % 2^t.bits
      BY <1>2, <1>5, <2>1, OperandBits
    <3> QED BY <1>2, <1>5, <1>7, <2>3, <2>4, <3>1, ExactLowBits
  <2>7. f % 2^ty.bits = d % 2^ty.bits
    <3>1. p % 2^ty.bits = a.v % 2^ty.bits /\ q % 2^ty.bits = b.v % 2^ty.bits
      BY <1>1, <1>2, <2>2, Viewed
    <3> QED BY <1>2, <1>7, <2>3, <2>5, <3>1, ExactLowBits
  <2>8. wrap_to(e, t) % 2^ty.bits = f % 2^ty.bits
    <3>1. wrap_to(e, t) \in Int /\ wrap_to(e, t) % 2^t.bits = e % 2^t.bits
      BY <1>5, Wrapped
    <3>2. PICK w \in Int : w = wrap_to(e, t)
      BY <3>1
    <3>3. w % 2^t.bits = d % 2^t.bits
      BY <2>6, <3>1, <3>2
    <3>4. w % 2^ty.bits = d % 2^ty.bits
      BY <1>2, <1>5, <3>3, FewerBits
    <3> QED BY <2>7, <3>2, <3>4
  <2>9. op \notin BitwiseOps
    BY <1>7 DEF SumOps, BitwiseOps
  <2>10. t.signed => InRange(d, t)
    BY <1>4, <2>3, <2>9 DEF RingOp, BitwiseOps
  <2>11. t.signed => e = d
    BY <2>1, <2>3, <2>4 DEF Operand
  <2>12. ty.signed => InRange(f, ty)
    BY <2>2, <2>5, <2>9 DEF RingOp, BitwiseOps
  <2>13. binary_op(op, a, b) = sized(e, t)
    BY <1>3, <1>4, <1>7, <2>1, <2>4, <2>10, <2>11, InterpretedSum
  <2>14. lower_int_binop(op, l, r, ty, checks) = Iv(f % 2^ty.bits)
    BY <1>7, <2>2, <2>5, <2>12, CheckedSum
  <2> QED BY <1>1, <1>5, <2>8, <2>13, <2>14, SizedAgrees
<1> QED BY <1>6, <1>7 DEF RingOp, SumOps, BitwiseOps

(* A result in range of its stamp is stored as it is.                      *)
LEMMA FittingResult ==
    ASSUME NEW ty \in IntTypes, NEW t \in IntTypes, NEW e \in Int, InRange(e, t)
    PROVE  Agree(sized(e, t), Iv(e % 2^ty.bits), ty)
<1>1. wrap_to(e, t) \in Int /\ wrap_to(e, t) % 2^Word = e % 2^Word
  BY Wrapped, WrappedFits
<1>2. PICK w \in Int : w = wrap_to(e, t)
  BY <1>1
<1>3. w % 2^ty.bits = e % 2^ty.bits
  BY <1>1, <1>2, Types, WordIsType, FewerBits
<1> QED BY <1>2, <1>3, SizedAgrees

LEMMA SmallOperands ==
    ASSUME NEW op, NEW a, NEW b, NEW l, NEW r, NEW ty, Operands(a, b, l, r, ty),
           SmallEnough(op, a, b, ty)
    PROVE  /\ combine_int_ty(a.ty, b.ty) \in IntTypes \cap {a.ty, b.ty}
           /\ ByteValue \notin {a.ty, b.ty}
           /\ Shown(a) \in Int /\ View(l, ty) = Shown(a)
           /\ Shown(b) \in Int /\ View(r, ty) = Shown(b)
           /\ \A t \in IntTypes : InRange(Shown(a), t) => Operand(a.v, t) = Shown(a) /\ (t.signed => a.v = Shown(a))
           /\ \A t \in IntTypes : InRange(Shown(b), t) => Operand(b.v, t) = Shown(b) /\ (t.signed => b.v = Shown(b))
<1>1. ty \in IntTypes /\ IsNumber(a) /\ IsNumber(b) /\ l = a.v % 2^ty.bits /\ r = b.v % 2^ty.bits
  BY DEF Operands
<1>2. a.ty # ByteValue /\ b.ty # ByteValue /\ Fits(a, ty) /\ Fits(b, ty)
  BY DEF SmallEnough
<1>3. a.ty \in IntTypes /\ b.ty \in IntTypes
  BY <1>1, <1>2 DEF IsNumber
<1>4. combine_int_ty(a.ty, b.ty) \in {a.ty, b.ty}
  BY CommonType
<1>5. View(l, ty) = Shown(a) /\ View(r, ty) = Shown(b)
  BY <1>1, <1>2, FittingView
<1>6. Shown(a) \in Int /\ Shown(b) \in Int
  BY <1>1, ShownNumber
<1>7. ASSUME NEW t \in IntTypes, InRange(Shown(a), t)
      PROVE  Operand(a.v, t) = Shown(a) /\ (t.signed => a.v = Shown(a))
  BY <1>1, <1>2, <1>7, OperandFits
<1>8. ASSUME NEW t \in IntTypes, InRange(Shown(b), t)
      PROVE  Operand(b.v, t) = Shown(b) /\ (t.signed => b.v = Shown(b))
  BY <1>1, <1>2, <1>8, OperandFits
<1> QED BY <1>2, <1>3, <1>4, <1>5, <1>6, <1>7, <1>8

(* A quotient in range is not the one that overflows, and the remainder is *)
(* between zero and the dividend.                                          *)
LEMMA SmallQuotient ==
    ASSUME NEW op \in DivOps, NEW t \in IntTypes, NEW m \in Int, NEW n \in Int, n # 0,
           InRange(m, t), InRange(Quot(m, n), t)
    PROVE  /\ Exact(op, m, n) \in Int /\ InRange(Exact(op, m, n), t)
           /\ ~(t.signed /\ m = -(2^(t.bits - 1)) /\ n = -1)
<1>1. PICK q \in Int : q = Quot(m, n)
  BY Towards0
<1>2. PICK d \in Int : d = m - n * q
  BY <1>1, Z3
<1>3. (m >= 0 => d \in 0 .. m) /\ (m < 0 => d \in m .. 0)
  BY <1>1, <1>2, Towards0
<1>4. PICK h \in Nat \ {0}, e \in Nat \ {0} : h = 2^(t.bits - 1) /\ e = 2^t.bits
  BY Types, HalfPower, Powers
<1>5. InRange(d, t)
  BY <1>3, <1>4 DEF InRange
<1>6. Exact(op, m, n) = q \/ Exact(op, m, n) = d
  BY <1>1, <1>2 DEF Exact, DivOps
<1>7. ASSUME t.signed, m = -h, n = -1 PROVE FALSE
  <2>1. q = h
    <3>1. m < 0 /\ n < 0
      BY <1>4, <1>7
    <3>2. h \div 1 = h
      BY <1>4
    <3> QED BY <1>1, <1>4, <1>7, <3>1, <3>2 DEF Quot
  <2> QED BY <1>1, <1>4, <1>7, <2>1 DEF InRange
<1> QED BY <1>1, <1>2, <1>4, <1>5, <1>6, <1>7

(* Amounts below every width shift by themselves.                          *)
LEMMA SmallAmount ==
    ASSUME NEW t \in IntTypes, NEW n \in Nat, n < t.bits, NEW v \in Int, v % 2^t.bits = n % 2^t.bits
    PROVE  v % t.bits = n
<1>1. (v % 2^t.bits) % t.bits = v % t.bits /\ (n % 2^t.bits) % t.bits = n % t.bits
  BY ShiftAmount
<1>2. PICK b \in Nat \ {0} : b = t.bits
  BY Types
<1>3. n \in 0 .. b - 1
  BY <1>2
<1>4. n % b = n
  BY <1>3, Small
<1> QED BY <1>1, <1>2, <1>4

LEMMA SmallLeftShift ==
    ASSUME NEW ty \in IntTypes, NEW t \in IntTypes, NEW v \in Int, NEW m \in Int, NEW n \in Nat,
           v % 2^Word = m % 2^Word, InRange(m * 2^n, t)
    PROVE  Agree(sized(wrap_to(v * 2^n, WORD), t), Iv(((v % 2^ty.bits) * 2^n) % 2^ty.bits), ty)
<1>1. PICK p \in Nat \ {0} : p = 2^n
  BY Powers
<1>2. PICK s \in Int, u \in Int : s = m * p /\ u = v * p
  BY Z3
<1>3. PICK w \in Int : w = wrap_to(u, WORD) /\ w % 2^Word = u % 2^Word
  BY WordIsType, Wrapped
<1>4. u % 2^Word = s % 2^Word
  <2>1. PICK e \in Nat \ {0} : e = 2^Word
    BY WordIsType, Powers
  <2>2. Same(v, m, e) /\ Same(p, p, e)
    BY <2>1 DEF Same
  <2>3. Same(v * p, m * p, e)
    BY <2>2, Factors
  <2> QED BY <1>2, <2>1, <2>3 DEF Same
<1>5. w % 2^Word = s % 2^Word
  BY <1>3, <1>4
<1>6. wrap_to(w, t) = wrap_to(s, t)
  <2>1. w % 2^t.bits = s % 2^t.bits
    BY <1>5, Types, WordIsType, FewerBits
  <2>2. wrap_to(w, t) \in Int /\ Stored(wrap_to(w, t), t) /\ wrap_to(w, t) % 2^t.bits = w % 2^t.bits
    BY Wrapped
  <2>3. wrap_to(s, t) \in Int /\ Stored(wrap_to(s, t), t) /\ wrap_to(s, t) % 2^t.bits = s % 2^t.bits
    BY Wrapped
  <2> QED BY <2>1, <2>2, <2>3, StoredOnce
<1>7. InRange(s, t)
  BY <1>1, <1>2
<1>8. wrap_to(s, t) \in Int /\ wrap_to(s, t) % 2^Word = s % 2^Word
  BY <1>7, Wrapped, WrappedFits
<1>9. PICK z \in Int : z = wrap_to(w, t) /\ z % 2^Word = w % 2^Word
  BY <1>5, <1>6, <1>8
<1>10. z % 2^ty.bits = w % 2^ty.bits
  BY <1>9, Types, WordIsType, FewerBits
<1>11. PICK f \in Int : f = (v % 2^ty.bits) * p
  <2>1. v % 2^ty.bits \in 0 .. 2^ty.bits - 1
    BY Types, LowBits
  <2>2. PICK c \in Int : c = v % 2^ty.bits
    BY <2>1
  <2>3. c * p \in Int
    BY Z3
  <2> QED BY <2>2, <2>3
<1>12. w % 2^ty.bits = f % 2^ty.bits
  BY <1>1, <1>2, <1>3, <1>11, ShiftedLeft
<1>13. wrap_to(w, t) % 2^ty.bits = f % 2^ty.bits
  BY <1>9, <1>10, <1>12
<1>14. Agree(sized(w, t), Iv(f % 2^ty.bits), ty)
  BY <1>13, SizedAgrees
<1> QED BY <1>1, <1>2, <1>3, <1>11, <1>14

(* What SmallEnough bounds, per kind of operator.                          *)
LEMMA SmallBounds ==
    ASSUME NEW op, NEW a, NEW b, NEW ty, SmallEnough(op, a, b, ty), NEW t \in {ty, a.ty, b.ty}
    PROVE  /\ op \in SumOps \cup DivOps \cup {"<<", ">>"} \cup (CompareOps \ EqOps) =>
                InRange(Shown(a), t) /\ InRange(Shown(b), t)
           /\ op \in SumOps => InRange(Exact(op, Shown(a), Shown(b)), t)
           /\ op \in DivOps => Shown(b) # 0 /\ InRange(Quot(Shown(a), Shown(b)), t)
           /\ op \in BitwiseOps => InRange(Resign(Bits(op, Shown(a) % 2^Word, Shown(b) % 2^Word), Word), t)
           /\ op \in {"<<", ">>"} => Shown(b) >= 0 /\ Shown(b) < t.bits
           /\ op = "<<" => InRange(Shown(a) * 2^Shown(b), t)
           /\ op = ">>" => InRange(Shown(a) \div 2^Shown(b), t)
<1>1. ASSUME op \in CompareOps \ EqOps PROVE InRange(Shown(a), t) /\ InRange(Shown(b), t)
  BY <1>1 DEF SmallEnough, CompareOps, EqOps
<1>2. ASSUME op \in SumOps
      PROVE  InRange(Shown(a), t) /\ InRange(Shown(b), t) /\ InRange(Exact(op, Shown(a), Shown(b)), t)
  BY <1>2 DEF SmallEnough, CompareOps, EqOps, SumOps
<1>3. ASSUME op \in DivOps
      PROVE  InRange(Shown(a), t) /\ InRange(Shown(b), t) /\ Shown(b) # 0 /\ InRange(Quot(Shown(a), Shown(b)), t)
  BY <1>3 DEF SmallEnough, CompareOps, EqOps, DivOps
<1>4. ASSUME op \in BitwiseOps
      PROVE  InRange(Resign(Bits(op, Shown(a) % 2^Word, Shown(b) % 2^Word), Word), t)
  BY <1>4 DEF SmallEnough, CompareOps, EqOps, BitwiseOps
<1>5. ASSUME op \in {"<<", ">>"}
      PROVE  /\ InRange(Shown(a), t) /\ InRange(Shown(b), t) /\ Shown(b) >= 0 /\ Shown(b) < t.bits
             /\ InRange(IF op = ">>" THEN Shown(a) \div 2^Shown(b) ELSE Shown(a) * 2^Shown(b), t)
  BY <1>5 DEF SmallEnough, CompareOps, EqOps
<1> QED BY <1>1, <1>2, <1>3, <1>4, <1>5

(* ... so that a type more or less makes no difference.                    *)
LEMMA SmallAgrees ==
    ASSUME NEW op \in (ArithOps \cup CompareOps) \ EqOps, NEW a, NEW b, NEW l, NEW r, NEW ty,
           Operands(a, b, l, r, ty), SmallEnough(op, a, b, ty), NEW checks, On(checks)
    PROVE  Agree(binary_op(op, a, b), lower_int_binop(op, l, r, ty, checks), ty)
<1>1. ty \in IntTypes /\ IsNumber(a) /\ IsNumber(b) /\ l = a.v % 2^ty.bits /\ r = b.v % 2^ty.bits
  BY DEF Operands
<1>2. /\ a.v \in Int /\ b.v \in Int /\ ty.bits \in Nat \ {0} /\ ty.bits <= Word
      /\ l \in 0 .. 2^ty.bits - 1 /\ r \in 0 .. 2^ty.bits - 1 /\ l \in Nat /\ r \in Nat
  BY OperandTypes
<1>3. PICK t \in IntTypes : t = combine_int_ty(a.ty, b.ty) /\ t \in {a.ty, b.ty} /\ ByteValue \notin {a.ty, b.ty}
  BY SmallOperands
<1>4. PICK m \in Int, n \in Int : m = Shown(a) /\ n = Shown(b) /\ m = View(l, ty) /\ n = View(r, ty)
  BY SmallOperands
<1>5. InRange(m, t) => Operand(a.v, t) = m /\ (t.signed => a.v = m)
  BY <1>4, SmallOperands
<1>6. InRange(n, t) => Operand(b.v, t) = n /\ (t.signed => b.v = n)
  BY <1>4, SmallOperands
<1>7. CASE op \in SumOps
  <2>1. InRange(m, t) /\ InRange(n, t) /\ InRange(Exact(op, m, n), t) /\ InRange(Exact(op, m, n), ty)
    BY <1>3, <1>4, <1>7, SmallBounds
  <2>2. PICK e \in Int : e = Exact(op, m, n)
    BY <1>7, ExactIsInteger
  <2>3. binary_op(op, a, b) = sized(e, t)
    BY <1>3, <1>5, <1>6, <1>7, <2>1, <2>2, InterpretedSum
  <2>4. lower_int_binop(op, l, r, ty, checks) = Iv(e % 2^ty.bits)
    BY <1>4, <1>7, <2>1, <2>2, CheckedSum
  <2> QED BY <1>1, <2>1, <2>2, <2>3, <2>4, FittingResult
<1>8. CASE op \in DivOps
  <2>1. /\ InRange(m, t) /\ InRange(n, t) /\ n # 0 /\ InRange(m, ty)
        /\ InRange(Quot(m, n), t) /\ InRange(Quot(m, n), ty)
    <3>1. ASSUME NEW u \in {ty, a.ty, b.ty}
          PROVE  InRange(m, u) /\ InRange(n, u) /\ n # 0 /\ InRange(Quot(m, n), u)
      <4>1. op \in SumOps \cup DivOps \cup {"<<", ">>"} \cup (CompareOps \ EqOps)
        BY <1>8
      <4>2. InRange(Shown(a), u) /\ InRange(Shown(b), u)
        BY <4>1, SmallBounds
      <4>3. Shown(b) # 0 /\ InRange(Quot(Shown(a), Shown(b)), u)
        BY <1>8, SmallBounds
      <4> QED BY <1>4, <4>2, <4>3
    <3> QED BY <1>3, <3>1
  <2>2. PICK e \in Int : e = Exact(op, m, n) /\ InRange(e, t)
    BY <1>3, <1>8, <2>1, SmallQuotient
  <2>3. ~(t.signed /\ m = -(2^(t.bits - 1)) /\ n = -1)
    BY <1>3, <1>8, <2>1, SmallQuotient
  <2>4. ~(ty.signed /\ m = -(2^(ty.bits - 1)) /\ n = -1)
    BY <1>1, <1>8, <2>1, SmallQuotient
  <2>5. b.v # 0
    <3>1. CASE t.signed
      BY <1>6, <2>1, <3>1
    <3>2. CASE ~t.signed
      <4>1. n = b.v % 2^t.bits
        BY <1>6, <2>1, <3>2 DEF Operand, operand_u64
      <4>2. PICK e2 \in Nat \ {0} : e2 = 2^t.bits
        BY Types, Powers
      <4>3. 0 % e2 = 0
        BY Small
      <4> QED BY <2>1, <4>1, <4>2, <4>3
    <3> QED BY <3>1, <3>2
  <2>6. binary_op(op, a, b) = sized(e, t)
    <3>1. ~(t.signed /\ a.v = -(2^(t.bits - 1)) /\ b.v = -1)
      BY <1>5, <1>6, <2>1, <2>3
    <3> QED BY <1>3, <1>5, <1>6, <1>8, <2>1, <2>2, <2>5, <3>1, InterpretedQuotient
  <2>7. lower_int_binop(op, l, r, ty, checks) = Iv(e % 2^ty.bits)
    BY <1>1, <1>2, <1>4, <1>8, <2>1, <2>2, <2>4, CompiledQuotient
  <2> QED BY <1>1, <2>2, <2>6, <2>7, FittingResult
<1>9. CASE op \in BitwiseOps
  <2>1. m % 2^Word = a.v % 2^Word /\ n % 2^Word = b.v % 2^Word
    BY <1>1, <1>4, ShownNumber
  <2>2. Resign(Bits(op, a.v % 2^Word, b.v % 2^Word), Word) \in Int
    BY <1>2, <1>9, WordIsType, ResignedBits
  <2>3. PICK e \in Int : e = Resign(Bits(op, a.v % 2^Word, b.v % 2^Word), Word)
    BY <2>2
  <2>4. InRange(e, t)
    BY <1>3, <1>4, <1>9, <2>1, <2>3, SmallBounds
  <2>5. binary_op(op, a, b) = sized(e, t)
    BY <1>3, <1>9, <2>3, InterpretedBits
  <2>6. e % 2^ty.bits = Bits(op, l, r)
    BY <1>1, <1>2, <1>9, <2>3, ResignedBits
  <2>7. lower_int_binop(op, l, r, ty, checks) = Iv(e % 2^ty.bits)
    BY <1>9, <2>6, CompiledBits
  <2> QED BY <1>1, <2>4, <2>5, <2>7, FittingResult
<1>10. CASE op \in {"<<", ">>"}
  <2>1. InRange(m, t) /\ InRange(n, t) /\ n >= 0 /\ n < t.bits /\ n < ty.bits
    <3>1. ASSUME NEW u \in {ty, a.ty, b.ty}
          PROVE  InRange(m, u) /\ InRange(n, u) /\ n >= 0 /\ n < u.bits
      <4>1. op \in SumOps \cup DivOps \cup {"<<", ">>"} \cup (CompareOps \ EqOps)
        BY <1>10
      <4>2. InRange(Shown(a), u) /\ InRange(Shown(b), u)
        BY <4>1, SmallBounds
      <4>3. Shown(b) >= 0 /\ Shown(b) < u.bits
        BY <1>10, SmallBounds
      <4> QED BY <1>4, <4>2, <4>3
    <3> QED BY <1>3, <3>1
  <2>2. n \in Nat
    BY <2>1
  <2>3. b.v % t.bits = n
    <3>1. Shown(b) % 2^t.bits = b.v % 2^t.bits
      BY <1>1, ShownBits
    <3> QED BY <1>2, <1>4, <2>1, <2>2, <3>1, SmallAmount
  <2>4. r % ty.bits = n
    <3>1. Shown(b) % 2^ty.bits = b.v % 2^ty.bits
      BY <1>1, ShownBits
    <3>2. b.v % ty.bits = n
      BY <1>1, <1>2, <1>4, <2>1, <2>2, <3>1, SmallAmount
    <3> QED BY <1>1, <1>2, <3>2, ShiftAmount
  <2>5. CASE op = "<<"
    <3>1. binary_op(op, a, b) = sized(wrap_to(a.v * 2^n, WORD), t)
      BY <1>3, <2>3, <2>5, InterpretedShift
    <3>2. lower_int_binop(op, l, r, ty, checks) = Iv((l * 2^n) % 2^ty.bits)
      BY <1>1, <1>2, <2>4, <2>5, CompiledShift
    <3>3. InRange(m * 2^n, t)
      BY <1>3, <1>4, <2>5, SmallBounds
    <3>4. a.v % 2^Word = m % 2^Word
      BY <1>1, <1>4, ShownNumber
    <3> QED BY <1>1, <1>2, <2>2, <3>1, <3>2, <3>3, <3>4, SmallLeftShift
  <2>6. CASE op = ">>"
    <3>1. binary_op(op, a, b) = sized(m \div 2^n, t)
      BY <1>3, <1>5, <2>1, <2>3, <2>6, InterpretedShift
    <3>2. lower_int_binop(op, l, r, ty, checks) = Iv((m \div 2^n) % 2^ty.bits)
      BY <1>1, <1>2, <1>4, <2>4, <2>6, CompiledShift
    <3>3. PICK e \in Int : e = m \div 2^n
      <4>1. PICK p \in Nat \ {0} : p = 2^n
        BY <2>2, Powers
      <4>2. m \div p \in Int
        BY Divided
      <4> QED BY <4>1, <4>2
    <3>4. InRange(e, t)
      BY <1>3, <1>4, <2>6, <3>3, SmallBounds
    <3> QED BY <1>1, <3>1, <3>2, <3>3, <3>4, FittingResult
  <2> QED BY <1>10, <2>5, <2>6
<1>11. CASE op \in CompareOps \ EqOps
  <2>1. InRange(m, t) /\ InRange(n, t)
    BY <1>3, <1>4, <1>11, SmallBounds
  <2>2. binary_op(op, a, b) = Truth(Compare(op, m, n))
    BY <1>3, <1>5, <1>6, <1>11, <2>1, InterpretedOrder
  <2>3. lower_int_binop(op, l, r, ty, checks) = Truth(Compare(op, m, n))
    BY <1>4, <1>11, CompiledComparison
  <2> QED BY <1>11, <2>2, <2>3, OrderIsTruth DEF Agree
<1> QED BY <1>7, <1>8, <1>9, <1>10, <1>11 DEF ArithOps, SumOps, DivOps, BitwiseOps

(* Every binary operation of the cases listed in Alike agrees.             *)
LEMMA BinaryAgrees ==
    ASSUME NEW op \in ArithOps \cup CompareOps, NEW a, NEW b, NEW l, NEW r, NEW ty,
           Operands(a, b, l, r, ty), Alike(op, a, b, l, r, ty), NEW checks, On(checks)
    PROVE  Agree(binary_op(op, a, b), lower_int_binop(op, l, r, ty, checks), ty)
<1>1. CASE op \in EqOps
  <2>1. op \notin {"+", "-", "*", "&", "|", "^"}
    BY <1>1 DEF EqOps
  <2>2. ~RingOp(op, a, b, l, r, ty)
    BY <2>1 DEF RingOp
  <2>3. CASE AtItsType(op, a, b, ty)
    <3>1. Fits(a, ty) /\ Fits(b, ty) /\ {a.ty, b.ty} \subseteq {ty, WORD}
      BY <1>1, <2>3 DEF AtItsType
    <3>2. ty # ByteValue /\ WORD # ByteValue
      BY Types, WordIsType DEF Operands
    <3>3. ByteValue \notin {a.ty, b.ty}
      BY <3>1, <3>2
    <3> QED BY <1>1, <3>1, <3>3, EqualityAgrees
  <2>4. CASE SmallEnough(op, a, b, ty)
    <3>1. Fits(a, ty) /\ Fits(b, ty) /\ ByteValue \notin {ty, a.ty, b.ty}
      BY <2>4 DEF SmallEnough
    <3>2. ByteValue \notin {a.ty, b.ty}
      BY <3>1
    <3> QED BY <1>1, <3>1, <3>2, EqualityAgrees
  <2> QED BY <2>2, <2>3, <2>4 DEF Alike
<1>2. CASE op \notin EqOps
  <2>1. op \in (ArithOps \cup CompareOps) \ EqOps
    BY <1>2
  <2> QED BY <2>1, AtItsTypeAgrees, SmallAgrees, RingAgrees DEF Alike
<1> QED BY <1>1, <1>2

-----------------------------------------------------------------------------
(***************************************************************************)
(* The two builds.  A debug build checks for overflow, a release build     *)
(* does not; nothing else tells them apart.                                *)
(***************************************************************************)
Debug(op, l, r, ty) == lower_int_binop(op, l, r, ty, TRUE)
Release(op, l, r, ty) == lower_int_binop(op, l, r, ty, FALSE)

(* The overflow checks are the debug build's.                              *)
LEMMA DebugAgrees ==
    ASSUME NEW op \in ArithOps \cup CompareOps, NEW a, NEW b, NEW l, NEW r, NEW ty,
           Operands(a, b, l, r, ty), Alike(op, a, b, l, r, ty)
    PROVE  Agree(binary_op(op, a, b), Debug(op, l, r, ty), ty)
<1>1. PICK checks : checks = TRUE
  BY Zenon
<1>2. On(checks)
  BY <1>1, Zenon DEF On
<1>3. Debug(op, l, r, ty) = lower_int_binop(op, l, r, ty, checks)
  BY <1>1, Zenon DEF Debug
<1> QED BY <1>2, <1>3, BinaryAgrees

(* What one build gives, or a trap where the other build goes on.          *)
Follows(c, r) == Poison \notin {c, r} /\ (c = Trap \/ r = c)

LEMMA Results ==
    \A c, r : /\ c = Trap => Iv(r) # Trap /\ Follows(c, Iv(r)) /\ Follows(c, c)
              /\ Follows(Iv(c), Iv(c)) /\ Follows(Truth(c), Truth(c))
BY DEF Follows, Poison, Trap, Stop, Iv, Truth

(* No build divides by zero, overflows a quotient or shifts too far.       *)
LEMMA AnyBuild ==
    ASSUME NEW op \in ArithOps \cup CompareOps, NEW ty \in IntTypes,
           NEW l \in 0 .. 2^ty.bits - 1, NEW r \in 0 .. 2^ty.bits - 1,
           NEW checks, NEW others, On(checks), ~On(others)
    PROVE  Follows(lower_int_binop(op, l, r, ty, checks), lower_int_binop(op, l, r, ty, others))
<1>1. r \in Int
  <2>1. PICK e \in Nat : e = 2^ty.bits
    BY Types, Powers
  <2> QED BY <2>1
<1>2. CASE op \in SumOps
  <2>1. PICK e : e = Exact(op, View(l, ty), View(r, ty)) % 2^ty.bits
    OBVIOUS
  <2>2. lower_int_binop(op, l, r, ty, others) = Iv(e)
    BY <1>2, <2>1 DEF lower_int_binop, SumOps, CompareOps, EqOps, On
  <2>3. lower_int_binop(op, l, r, ty, checks) \in {Trap, Iv(e)}
    BY <1>2, <2>1, CheckedSum
  <2> QED BY <2>2, <2>3, Results
<1>3. CASE op \in DivOps
  <2>1. PICK e : e = Exact(op, View(l, ty), View(r, ty)) % 2^ty.bits
    OBVIOUS
  <2>2. CASE View(r, ty) = 0 \/ (ty.signed /\ View(l, ty) = -(2^(ty.bits - 1)) /\ View(r, ty) = -1)
    <3>1. /\ lower_int_binop(op, l, r, ty, checks) = Trap
          /\ lower_int_binop(op, l, r, ty, others) = Trap
      BY <1>3, <2>2, CompiledQuotient
    <3> QED BY <3>1, Results
  <2>3. CASE ~(View(r, ty) = 0 \/ (ty.signed /\ View(l, ty) = -(2^(ty.bits - 1)) /\ View(r, ty) = -1))
    <3>1. /\ lower_int_binop(op, l, r, ty, checks) = Iv(e)
          /\ lower_int_binop(op, l, r, ty, others) = Iv(e)
      BY <1>3, <2>1, <2>3, CompiledQuotient
    <3> QED BY <3>1, Results
  <2> QED BY <2>2, <2>3
<1>4. CASE op \in BitwiseOps
  BY <1>4, CompiledBits, Results
<1>5. CASE op \in {"<<", ">>"}
  BY <1>1, <1>5, CompiledShift, Results
<1>6. CASE op \in CompareOps
  <2>1. PICK t : t = Compare(op, View(l, ty), View(r, ty))
    OBVIOUS
  <2>2. /\ lower_int_binop(op, l, r, ty, checks) = Truth(t)
        /\ lower_int_binop(op, l, r, ty, others) = Truth(t)
    BY <1>6, <2>1, CompiledComparison
  <2> QED BY <2>2, Results
<1> QED BY <1>2, <1>3, <1>4, <1>5, <1>6 DEF ArithOps, SumOps, DivOps, BitwiseOps

LEMMA ReleaseFollows ==
    ASSUME NEW op \in ArithOps \cup CompareOps, NEW ty \in IntTypes,
           NEW l \in 0 .. 2^ty.bits - 1, NEW r \in 0 .. 2^ty.bits - 1
    PROVE  Follows(Debug(op, l, r, ty), Release(op, l, r, ty))
<1>1. PICK checks, others : checks = TRUE /\ others = FALSE
  BY Zenon
<1>2. On(checks) /\ ~On(others)
  BY <1>1, Zenon DEF On
<1>3. Debug(op, l, r, ty) = lower_int_binop(op, l, r, ty, checks)
  BY <1>1, Zenon DEF Debug
<1>4. Release(op, l, r, ty) = lower_int_binop(op, l, r, ty, others)
  BY <1>1, Zenon DEF Release
<1> QED BY <1>2, <1>3, <1>4, AnyBuild

-----------------------------------------------------------------------------
(***************************************************************************)
(* The operations of one operand: what each leaves is the interpreted      *)
(* number modulo the compiled width.                                       *)
(***************************************************************************)
LEMMA UnaryAgrees ==
    ASSUME NEW op \in {"-", "~"}, NEW a, NEW ty \in IntTypes, IsNumber(a), AlikeUnary(op, a, ty)
    PROVE  /\ IsNumber(unary_op(op, a))
           /\ lower_unop(op, a.v % 2^ty.bits, ty) = Iv(unary_op(op, a).v % 2^ty.bits)
<1>1. PICK s : s = a.ty
  OBVIOUS
<1>2. s # ByteValue /\ s.bits >= ty.bits
  BY <1>1 DEF AlikeUnary
<1>3. s \in IntTypes /\ a.v \in Int
  BY <1>1, <1>2 DEF IsNumber
<1>4. PICK v \in Int : v = a.v
  BY <1>3
<1>5. PICK e \in Nat \ {0}, b \in Nat : b = ty.bits /\ e = 2^b
  BY Types, Powers
<1>6. PICK c \in Int : c = v % e /\ Same(c, v, e)
  <2>1. v % e \in 0 .. e - 1 /\ (v % e) % e = v % e
    BY Divided, Twice
  <2>2. v % e \in Int
    BY <2>1
  <2> QED BY <2>1, <2>2 DEF Same
<1>7. s.bits \in Nat /\ b <= s.bits
  BY <1>2, <1>3, <1>5, Types
<1>8. ASSUME NEW d \in Int, NEW f \in Int, d % e = f % e,
             unary_op(op, a) = sized(d, s), lower_unop(op, c, ty) = Iv(f % e)
      PROVE  /\ IsNumber(unary_op(op, a))
             /\ lower_unop(op, c, ty) = Iv(unary_op(op, a).v % e)
  <2>1. IsNumber(sized(d, s)) /\ sized(d, s).v = wrap_to(d, s)
    BY <1>3, SizedIsNumber
  <2>2. PICK w \in Int : w = wrap_to(d, s) /\ w % 2^s.bits = d % 2^s.bits
    BY <1>3, Wrapped
  <2>3. w % 2^b = d % 2^b
    BY <1>7, <2>2, FewerBits
  <2>4. w % e = f % e
    BY <1>5, <1>8, <2>3
  <2> QED BY <1>8, <2>1, <2>2, <2>4
<1>9. CASE op = "-"
  <2>1. PICK u \in Int : u = (IF s.signed THEN v ELSE operand_u64(v, s)) /\ Same(u, v, e)
    <3>1. PICK u \in Int : u = Operand(v, s) /\ u % 2^s.bits = v % 2^s.bits
      BY <1>3, OperandBits
    <3>2. u % 2^b = v % 2^b
      BY <1>7, <3>1, FewerBits
    <3> QED BY <1>5, <3>1, <3>2 DEF Operand, Same
  <2>2. unary_op(op, a) = sized(-u, s)
    <3>1. s.signed => InRange(-a.v, s)
      BY <1>1, <1>9 DEF AlikeUnary
    <3>2. neg_int(a) = sized(-u, s)
      BY <1>1, <1>4, <2>1, <3>1 DEF neg_int
    <3> QED BY <1>1, <1>2, <1>9, <3>2 DEF unary_op
  <2>3. lower_unop(op, c, ty) = Iv((-c) % e)
    BY <1>5, <1>9 DEF lower_unop
  <2>4. (-u) % e = (-c) % e
    <3>1. Same(0, 0, e) /\ Same(u, c, e)
      BY <1>6, <2>1 DEF Same
    <3>2. Same(0 - u, 0 - c, e)
      BY <3>1, Differences
    <3>3. 0 - u = -u /\ 0 - c = -c
      OBVIOUS
    <3> QED BY <3>2, <3>3 DEF Same
  <2>5. -u \in Int /\ -c \in Int
    OBVIOUS
  <2>6. PICK d \in Int, f \in Int : d = -u /\ f = -c
    BY <2>5
  <2> QED BY <1>4, <1>5, <1>6, <1>8, <2>2, <2>3, <2>4, <2>6
<1>10. CASE op = "~"
  <2>1. PICK d \in Int, f \in Int : d = -v - 1 /\ f = -c - 1
    OBVIOUS
  <2>2. unary_op(op, a) = sized(d, s)
    BY <1>1, <1>2, <1>4, <1>10, <2>1 DEF unary_op
  <2>3. lower_unop(op, c, ty) = Iv(f % e)
    BY <1>5, <1>10, <2>1 DEF lower_unop
  <2>4. d % e = f % e
    <3>1. Same(-1, -1, e) /\ Same(v, c, e)
      BY <1>6 DEF Same
    <3>2. Same((-1) - v, (-1) - c, e)
      BY <3>1, Differences
    <3>3. (-1) - v = d /\ (-1) - c = f
      BY <2>1
    <3> QED BY <3>2, <3>3 DEF Same
  <2> QED BY <1>4, <1>5, <1>6, <1>8, <2>2, <2>3, <2>4
<1> QED BY <1>9, <1>10

(* A cast to fewer bits drops bits; one to more bits needs the number      *)
(* itself.                                                                 *)
LEMMA CastAgrees ==
    ASSUME NEW a, IsNumber(a), NEW src \in IntTypes, NEW ty \in IntTypes, AlikeCast(a, src, ty)
    PROVE  lower_cast(a.v % 2^src.bits, src, ty) = a.v % 2^ty.bits
<1>1. a.v \in Int
  BY DEF IsNumber
<1>2. a.v % 2^src.bits \in 0 .. 2^src.bits - 1 /\ src.bits \in Nat /\ ty.bits \in Nat
  BY <1>1, Types, LowBits
<1>3. CASE ty.bits > src.bits
  <2>1. Fits(a, src)
    BY <1>3 DEF AlikeCast
  <2>2. View(a.v % 2^src.bits, src) = Shown(a)
    BY <2>1, FittingView
  <2> QED BY <2>2, ShownBits DEF lower_cast
<1>4. CASE ~(ty.bits > src.bits)
  <2>1. PICK s \in Int : s = View(a.v % 2^src.bits, src) /\ s % 2^src.bits = a.v % 2^src.bits
    BY <1>2, Viewed
  <2>2. ty.bits <= src.bits
    BY <1>2, <1>4
  <2>3. s % 2^ty.bits = a.v % 2^ty.bits
    BY <1>1, <1>2, <2>1, <2>2, FewerBits
  <2> QED BY <2>1, <2>3 DEF lower_cast
<1> QED BY <1>3, <1>4

(* The significand of either format has a bit, and an f64 no fewer.        *)
LEMMA FormatBits ==
    /\ Single \in Nat \ {0} /\ Double \in Nat \ {0} /\ Single <= Double
    /\ Formats \subseteq Nat \ {0}
    /\ \A p \in Formats : p <= Double
BY FloatAssumption DEF Formats

(* As many low bits are dropped as it takes, and no more.                  *)
LEMMA DroppedBits ==
    ASSUME NEW m \in Nat, NEW p \in Nat
    PROVE  /\ Dropped(m, p) \in Nat
           /\ m < 2^(p + Dropped(m, p))
           /\ \A j \in Nat : m < 2^(p + j) => Dropped(m, p) <= j
<1> DEFINE T == {k \in Nat : m < 2^(p + k)}
<1>1. m \in T
  <2>1. m < 2^m
    BY Powers
  <2>2. 2^m <= 2^(p + m)
    BY PowersGrow
  <2>3. PICK a \in Nat, b \in Nat : a = 2^m /\ b = 2^(p + m)
    BY Powers
  <2> QED BY <2>1, <2>2, <2>3
<1>2. PICK n \in T : \A k \in T : n <= k
  BY <1>1, LeastNumber
<1>3. n \in 0 .. m /\ m < 2^(p + n)
  BY <1>1, <1>2
<1>4. ASSUME NEW j \in 0 .. n - 1 PROVE m >= 2^(p + j)
  <2>1. j \notin T /\ j \in Nat
    BY <1>2
  <2>2. PICK a \in Nat : a = 2^(p + j)
    BY <2>1, Powers
  <2> QED BY <2>1, <2>2
<1> DEFINE Least(k) == m < 2^(p + k) /\ \A j \in 0 .. k - 1 : m >= 2^(p + j)
           k == Dropped(m, p)
<1>5. k = CHOOSE k0 \in 0 .. m : Least(k0)
  BY DEF Dropped
<1>6. Least(n)
  BY <1>3, <1>4
<1> HIDE DEF Least, k
<1>7. k \in 0 .. m /\ Least(k)
  BY <1>3, <1>5, <1>6
<1>8. ASSUME NEW j \in Nat, m < 2^(p + j) PROVE k <= j
  <2> SUFFICES ASSUME ~(k <= j) PROVE FALSE
    OBVIOUS
  <2>1. j \in 0 .. k - 1
    BY <1>7
  <2>2. m >= 2^(p + j)
    BY <1>7, <2>1 DEF Least
  <2>3. PICK a \in Nat : a = 2^(p + j)
    BY Powers
  <2> QED BY <1>8, <2>2, <2>3
<1> QED BY <1>7, <1>8 DEF Least, k

(* What rounding gives, by the bits dropped.                               *)
Nearest(m, unit) ==
  LET q == m \div unit
      rest == 2 * (m % unit)
      up == rest > unit \/ (rest = unit /\ q % 2 = 1)
  IN  (IF up THEN q + 1 ELSE q) * unit

LEMMA RoundedUnits ==
    ASSUME NEW n \in Int, NEW p \in Nat
    PROVE  \E m \in Nat, k \in Nat, unit \in Nat \ {0} :
             /\ m = Magnitude(n) /\ k = Dropped(m, p) /\ unit = 2^k
             /\ Rounded(n, p) = IF n < 0 THEN -Nearest(m, unit) ELSE Nearest(m, unit)
<1>1. PICK m \in Nat : m = Magnitude(n)
  BY DEF Magnitude
<1>2. PICK k \in Nat : k = Dropped(m, p)
  BY DroppedBits
<1>3. PICK unit \in Nat \ {0} : unit = 2^k
  BY Powers
<1>4. Rounded(n, p) = IF n < 0 THEN -Nearest(m, unit) ELSE Nearest(m, unit)
  BY <1>1, <1>2, <1>3 DEF Rounded, Nearest
<1> QED BY <1>1, <1>2, <1>3, <1>4

LEMMA NearestType ==
    ASSUME NEW m \in Nat, NEW unit \in Nat \ {0}
    PROVE  \E c \in Nat : Nearest(m, unit) = c * unit
<1>1. PICK q \in Nat : q = m \div unit
  BY Division
<1>2. Nearest(m, unit) = q * unit \/ Nearest(m, unit) = (q + 1) * unit
  BY <1>1 DEF Nearest
<1>3. q + 1 \in Nat
  OBVIOUS
<1> QED BY <1>2, <1>3, Zenon

LEMMA RoundedIsInt ==
    ASSUME NEW n \in Int, NEW p \in Nat
    PROVE  Rounded(n, p) \in Int
<1>1. PICK m \in Nat, k \in Nat, unit \in Nat \ {0} :
        Rounded(n, p) = IF n < 0 THEN -Nearest(m, unit) ELSE Nearest(m, unit)
  BY RoundedUnits
<1>2. PICK c \in Nat : Nearest(m, unit) = c * unit
  BY NearestType
<1>3. PICK r \in Int : r = c * unit
  OBVIOUS
<1> QED BY <1>1, <1>2, <1>3

(* A multiple of the unit is its own nearest.                              *)
LEMMA NearestExact ==
    ASSUME NEW m \in Nat, NEW unit \in Nat \ {0}, m % unit = 0
    PROVE  Nearest(m, unit) = m
<1>1. PICK q \in Nat : q = m \div unit /\ m = q * unit + (m % unit)
  BY Division
<1>2. Nearest(m, unit) = q * unit
  BY <1>1 DEF Nearest
<1>3. PICK r \in Nat : r = q * unit
  OBVIOUS
<1> QED BY <1>1, <1>2, <1>3

(* A number that p bits hold is held by more.                              *)
LEMMA FitsMore ==
    ASSUME NEW n \in Int, NEW p \in Nat, NEW d \in Nat, p <= d, Rounded(n, p) = n
    PROVE  Rounded(n, d) = n
<1>1. PICK m \in Nat, k \in Nat, u \in Nat \ {0} :
        /\ m = Magnitude(n) /\ k = Dropped(m, p) /\ u = 2^k
        /\ Rounded(n, p) = IF n < 0 THEN -Nearest(m, u) ELSE Nearest(m, u)
  BY RoundedUnits
<1>2. PICK l \in Nat, v \in Nat \ {0} :
        /\ l = Dropped(m, d) /\ v = 2^l
        /\ Rounded(n, d) = IF n < 0 THEN -Nearest(m, v) ELSE Nearest(m, v)
  <2>1. PICK m0 \in Nat, l \in Nat, v \in Nat \ {0} :
          /\ m0 = Magnitude(n) /\ l = Dropped(m0, d) /\ v = 2^l
          /\ Rounded(n, d) = IF n < 0 THEN -Nearest(m0, v) ELSE Nearest(m0, v)
    BY RoundedUnits
  <2>2. m0 = m
    BY <1>1, <2>1
  <2> QED BY <2>1, <2>2, Zenon
<1>3. l <= k
  <2>1. m < 2^(p + k)
    BY <1>1, DroppedBits
  <2>2. 2^(p + k) <= 2^(d + k)
    BY PowersGrow
  <2>3. PICK a \in Nat, b \in Nat : a = 2^(p + k) /\ b = 2^(d + k)
    BY Powers
  <2>4. m < 2^(d + k)
    BY <2>1, <2>2, <2>3
  <2> QED BY <1>2, <2>4, DroppedBits
<1>4. PICK z \in Int : z = 0
  OBVIOUS
<1>5. z % u = 0 /\ z % v = 0
  BY <1>4, Small
<1>6. m % u = z % u
  <2>1. PICK c \in Nat : Nearest(m, u) = c * u
    BY NearestType
  <2>2. PICK e \in Nat : e = c * u
    OBVIOUS
  <2>3. n = IF n < 0 THEN -e ELSE e
    BY <1>1, <2>1, <2>2
  <2>4. m - z = e
    BY <1>1, <1>4, <2>3 DEF Magnitude
  <2>5. Multiples(m, z, u)
    BY <2>2, <2>4 DEF Multiples
  <2>6. m \in Int
    OBVIOUS
  <2> QED BY <2>5, <2>6, SameResidue
<1>7. m % v = 0
  <2>1. m % 2^k = z % 2^k
    BY <1>1, <1>6
  <2>2. m \in Int
    OBVIOUS
  <2>3. m % 2^l = z % 2^l
    BY <1>3, <2>1, <2>2, FewerBits, ZenonT(60)
  <2> QED BY <1>2, <1>5, <2>3
<1>8. Nearest(m, v) = m
  BY <1>7, NearestExact
<1> QED BY <1>1, <1>2, <1>8 DEF Magnitude

(* A float that is finite is a number of halves.                           *)
IsFloatValue(f) == f[1] = "fin" => f[2] \in Int

(* A float inside the range of the type, or not a number, converts alike.  *)
LEMMA FromFloatAgrees ==
    ASSUME NEW f, IsFloatValue(f), NEW ty \in IntTypes, AlikeToInt(f, ty)
    PROVE  /\ IsNumber(cast_from_float(f, ty)) /\ cast_from_float(f, ty).ty = ty
           /\ lower_float_to_int(f, ty) = cast_from_float(f, ty).v % 2^ty.bits
<1>1. CASE f[1] = "nan"
  <2>1. cast_from_float(f, ty) = sized(0, ty)
    BY <1>1 DEF cast_from_float
  <2>2. lower_float_to_int(f, ty) = 0 % 2^ty.bits
    BY <1>1 DEF lower_float_to_int
  <2> QED BY <2>1, <2>2, SizedIsNumber
<1>2. CASE f[1] = "fin" /\ InRange(Trunc(f), ty)
  <2>1. PICK n \in Int : n = Trunc(f)
    <3>1. f[2] \in Int
      BY <1>2 DEF IsFloatValue
    <3>2. Quot(f[2], 2) \in Int
      BY <3>1, Towards0
    <3> QED BY <3>2 DEF Trunc
  <2>2. cast_from_float(f, ty) = sized(n, ty)
    BY <1>2, <2>1 DEF cast_from_float
  <2>3. lower_float_to_int(f, ty) = n % 2^ty.bits
    <3>1. PICK h \in Nat, e \in Nat : h = 2^(ty.bits - 1) /\ e = 2^ty.bits
      BY Types, HalfPower, Powers
    <3>2. CASE ty.signed
      <4>1. -h <= n /\ n < h
        BY <1>2, <2>1, <3>1, <3>2 DEF InRange
      <4>2. ~(n < -h) /\ ~(n > h - 1)
        BY <3>1, <4>1
      <4> QED BY <1>2, <2>1, <3>1, <3>2, <4>2 DEF lower_float_to_int
    <3>3. CASE ~ty.signed
      <4>1. 0 <= n /\ n < e
        BY <1>2, <2>1, <3>1, <3>3 DEF InRange
      <4>2. ~(n < 0) /\ ~(n > e - 1)
        BY <3>1, <4>1
      <4> QED BY <1>2, <2>1, <3>1, <3>3, <4>2 DEF lower_float_to_int
    <3> QED BY <3>2, <3>3
  <2> QED BY <2>2, <2>3, SizedIsNumber
<1> QED BY <1>1, <1>2 DEF AlikeToInt

(* An index in bounds is the number itself, one out of bounds traps.       *)
LEMMA IndexAgrees ==
    ASSUME NEW a, IsNumber(a), NEW ty \in IntTypes, NEW len \in Lengths,
           AlikeIndex(a, a.v % 2^ty.bits, ty)
    PROVE  index(a, len) = lower_index(a.v % 2^ty.bits, ty, len)
<1>1. a.ty # ByteValue /\ Fits(a, ty)
  BY DEF AlikeIndex
<1>2. PICK n \in Int : n = a.v
  BY DEF IsNumber
<1>3. PICK c \in Nat : c = n % 2^ty.bits /\ c \in 0 .. 2^ty.bits - 1
  <2>1. n % 2^ty.bits \in 0 .. 2^ty.bits - 1
    BY Types, LowBits
  <2> QED BY <2>1
<1>4. PICK b \in Nat \ {0}, h \in Nat \ {0}, e \in Nat \ {0} :
        b = ty.bits /\ b <= Word /\ h = 2^(b - 1) /\ e = 2^b /\ e = 2 * h
  BY Types, Powers, HalfPower
<1>5. PICK big \in Nat \ {0} : big = 2^(Word - 1)
  BY WordIsType, HalfPower
<1>6. -big <= n /\ n < big
  <2>1. Stored(n, WORD)
    BY <1>1, <1>2, StoredInWord
  <2> QED BY <1>5, <2>1, WordIsType DEF Stored
<1>7. len \in 0 .. big
  BY <1>5, SizedAssumption
<1>8. CASE b < Word
  <2>1. c < h
    BY <1>2, <1>3, <1>4, <1>8 DEF AlikeIndex
  <2>2. Resign(c, b) = c
    BY <1>4, <2>1 DEF Resign
  <2>3. Shown(a) = c
    <3>1. View(c, ty) = c
      BY <1>4, <2>2 DEF View
    <3>2. View(c, ty) = Shown(a)
      BY <1>1, <1>2, <1>3, FittingView
    <3> QED BY <3>1, <3>2
  <2>4. h <= big
    <3>1. b - 1 \in Nat /\ Word - 1 \in Nat /\ b - 1 <= Word - 1
      BY <1>4, WordIsType
    <3> QED BY <1>4, <1>5, <3>1, PowersGrow
  <2>5. n = c
    <3>1. c % 2^Word = n % 2^Word
      BY <1>2, <2>3, ShownNumber
    <3>2. Stored(c, WORD) /\ Stored(n, WORD)
      BY <1>5, <1>6, <2>1, <2>4, WordIsType DEF Stored
    <3>3. c \in Int
      OBVIOUS
    <3> QED BY <3>1, <3>2, <3>3, WordIsType, StoredOnce
  <2>6. c >= 0
    OBVIOUS
  <2>7. CASE c < len
    BY <1>1, <1>2, <1>3, <1>4, <1>7, <2>2, <2>5, <2>6, <2>7 DEF index, lower_index, bounds_check, gep_index_elem
  <2>8. CASE c >= len
    BY <1>1, <1>2, <1>3, <1>4, <1>7, <2>5, <2>8 DEF index, lower_index, bounds_check, Trap
  <2> QED BY <1>7, <2>7, <2>8
<1>9. CASE b = Word
  <2>1. h = big
    BY <1>4, <1>5, <1>9
  <2>2. CASE n >= 0
    <3>1. n \in 0 .. e - 1
      BY <1>4, <1>6, <2>1, <2>2
    <3>2. c = n
      BY <1>3, <1>4, <3>1, Small
    <3>3. Resign(c, b) = c
      BY <1>4, <1>6, <2>1, <3>2 DEF Resign
    <3>4. CASE n < len
      BY <1>1, <1>2, <1>3, <1>4, <1>7, <2>2, <3>2, <3>3, <3>4 DEF index, lower_index, bounds_check, gep_index_elem
    <3>5. CASE n >= len
      BY <1>1, <1>2, <1>3, <1>4, <1>7, <3>2, <3>5 DEF index, lower_index, bounds_check, Trap
    <3> QED BY <1>7, <3>4, <3>5
  <2>3. CASE n < 0
    <3>1. PICK k \in Int : n = c + k * e
      <4>1. c = n % e /\ c \in 0 .. e - 1
        BY <1>3, <1>4
      <4>2. c % e = c
        BY <4>1, Small
      <4>3. n % e = c % e
        BY <4>1, <4>2
      <4>4. n \in Int /\ c \in Int /\ e \in Nat \ {0}
        BY <1>2, <1>3, <1>4
      <4> QED BY <4>3, <4>4, Apart, Zenon
    <3>2. c >= h
      <4>1. PICK z \in Int : z = k * e
        BY Z3
      <4>2. z = -e
        <5>1. k = -1
          <6>1. CASE k >= 0
            <7>1. z >= 0
              BY <4>1, <6>1, Z3
            <7> QED BY <2>3, <3>1, <4>1, <7>1
          <6>2. CASE k <= -2
            <7>1. k * e <= (-2) * e
              BY <6>2, Z3
            <7>2. z <= -2 * e
              BY <4>1, <7>1
            <7> QED BY <1>3, <1>4, <1>6, <2>1, <3>1, <4>1, <7>2
          <6> QED BY <6>1, <6>2
        <5> QED BY <4>1, <5>1
      <4> QED BY <1>4, <1>6, <2>1, <3>1, <4>1, <4>2
    <3>3. c >= len
      BY <1>7, <2>1, <3>2
    <3> QED BY <1>1, <1>2, <1>3, <1>7, <2>3, <3>3 DEF index, lower_index, bounds_check, Trap
  <2> QED BY <2>2, <2>3
<1> QED BY <1>4, <1>8, <1>9, WordIsType

-----------------------------------------------------------------------------
(***************************************************************************)
(* The inductive invariant.  While the runs have not parted, every number  *)
(* is the interpreted one modulo the width of its compiled type, and the   *)
(* interpreted one is in the range of its stamp.  Release code holds the   *)
(* same bits until a debug build has stopped.  A step is only taken while  *)
(* neither has happened, so nothing need be known of the runs after that.  *)
(***************************************************************************)
Matches(i, c, ty) == ty \in IntTypes /\ IsNumber(i) /\ c = i.v % 2^ty.bits

Faithful ==
  /\ seen.i = seen.c
  /\ Matches(x.i, x.c, xty)
  /\ \/ acc = NoAcc
     \/ IsInt /\ Matches(acc.i, acc.c, acc.ty)
     \/ IsFloat /\ IsFloatValue(acc.i) /\ acc.c = acc.i

SizedInv == ReleaseDropsOnlyOverflow /\ (~parted => Faithful)

(* A state a step is taken from. *)
Going == SizedInv /\ ~parted /\ seen.c # Trap

(* The invariant implies what the interpreter is said to be.               *)
LEMMA FaithfulIsOracle == SizedInv => InterpreterIsOracle
<1>1. ASSUME NEW i, NEW c, NEW ty, Matches(i, c, ty) PROVE Congruent(i, c, ty)
  <2>1. i.v \in Int /\ ty.bits \in Nat /\ c = i.v % 2^ty.bits
    BY <1>1, Types DEF Matches, IsNumber
  <2>2. PICK e \in Nat \ {0} : e = 2^ty.bits
    BY <2>1, Powers
  <2>3. PICK v \in Int : v = i.v
    BY <2>1
  <2>4. PICK d \in Int : d = v % e /\ d % e = d /\ c = d
    <3>1. v % e \in 0 .. e - 1 /\ (v % e) % e = v % e
      BY Divided, Twice
    <3> QED BY <2>1, <2>2, <2>3, <3>1
  <2>5. Same(v, d, e) /\ Same(d, d, e)
    BY <2>4 DEF Same
  <2>6. Same(v - d, d - d, e)
    BY <2>3, <2>4, <2>5, Differences
  <2>7. d - d = 0 /\ 0 % e = 0
    BY <2>2, <2>4, Small
  <2>8. (i.v - c) % e = 0
    BY <2>3, <2>4, <2>6, <2>7 DEF Same
  <2> QED BY <1>1, <2>2, <2>8 DEF Matches, IsNumber, Congruent
<1>2. SUFFICES ASSUME Faithful
               PROVE  /\ seen.i = seen.c
                      /\ Congruent(x.i, x.c, xty)
                      /\ IsInt => Congruent(acc.i, acc.c, acc.ty)
                      /\ IsFloat => acc.i = acc.c
  BY DEF SizedInv, InterpreterIsOracle
<1>3. ASSUME IsInt PROVE Matches(acc.i, acc.c, acc.ty)
  BY <1>2, <1>3 DEF Faithful, IsInt, IsFloat, NoAcc
<1>4. ASSUME IsFloat PROVE acc.i = acc.c
  BY <1>2, <1>4 DEF Faithful, IsInt, IsFloat, NoAcc
<1> QED BY <1>1, <1>2, <1>3, <1>4 DEF Faithful

LEMMA LowBitsOfZero == \A n \in Nat : 0 % 2^n = 0
<1> SUFFICES ASSUME NEW n \in Nat PROVE 0 % 2^n = 0
  OBVIOUS
<1>1. PICK e \in Nat \ {0} : e = 2^n
  BY Powers
<1> QED BY <1>1, Small

LEMMA SizedMatches ==
    ASSUME NEW v \in Int, NEW t \in IntTypes, NEW ty \in IntTypes, ty.bits <= t.bits
    PROVE  Matches(sized(v, t), v % 2^ty.bits, ty)
<1>1. PICK i : i = sized(v, t)
  OBVIOUS
<1>2. IsNumber(i) /\ i.v % 2^t.bits = v % 2^t.bits
  BY <1>1, SizedIsNumber
<1>3. i.v \in Int /\ ty.bits \in Nat /\ t.bits \in Nat
  BY <1>2, Types DEF IsNumber
<1>4. i.v % 2^ty.bits = v % 2^ty.bits
  BY <1>2, <1>3, FewerBits
<1> QED BY <1>1, <1>2, <1>4 DEF Matches

LEMMA InitSized == Init => SizedInv
<1> SUFFICES ASSUME Init PROVE SizedInv
  OBVIOUS
<1>1. xty \in IntTypes /\ xty.bits <= WORD.bits /\ xty.bits \in Nat
  BY Types, WordIsType DEF Init
<1>2. Matches(sized(0, WORD), 0, xty)
  <2>1. Matches(sized(0, WORD), 0 % 2^xty.bits, xty)
    BY <1>1, WordIsType, SizedMatches
  <2>2. 0 % 2^xty.bits = 0
    BY <1>1, LowBitsOfZero
  <2> QED BY <2>1, <2>2
<1>3. Matches(x.i, x.c, xty) /\ x.r = x.c
  BY <1>2 DEF Init
<1>4. seen.i = seen.c /\ seen.r = seen.c /\ Poison \notin {seen.c, seen.r}
  BY DEF Init, Running, Seen, Run, Poison
<1>5. acc = NoAcc
  BY DEF Init
<1> QED BY <1>3, <1>4, <1>5 DEF SizedInv, Faithful, ReleaseDropsOnlyOverflow

(* A step that leaves a number in acc ...                                  *)
LEMMA Goes ==
    ASSUME Going, NEW i, NEW c, NEW ty, NEW lit,
           acc' = Value(i, c, c, ty, lit), seen' = Running, UNCHANGED <<xty, x>>,
           ~parted' => Matches(i, c, ty)
    PROVE  SizedInv'
<1>1. acc'.k = "int" /\ acc'.i = i /\ acc'.c = c /\ acc'.r = c /\ acc'.ty = ty
  BY DEF Value
<1>2. seen'.i = seen'.c /\ seen'.r = seen'.c /\ Poison \notin {seen'.c, seen'.r}
  BY DEF Running, Seen, Run, Poison
<1>3. x'.r = x'.c
  BY DEF Going, SizedInv, ReleaseDropsOnlyOverflow
<1>4. ReleaseDropsOnlyOverflow'
  BY <1>1, <1>2, <1>3 DEF ReleaseDropsOnlyOverflow
<1>5. ASSUME ~parted' PROVE Faithful'
  <2>1. Matches(x'.i, x'.c, xty')
    BY DEF Going, SizedInv, Faithful
  <2>2. Matches(acc'.i, acc'.c, acc'.ty)
    BY <1>1, <1>5
  <2> QED BY <1>1, <1>2, <2>1, <2>2 DEF Faithful, IsInt
<1> QED BY <1>4, <1>5 DEF SizedInv

(* ... or a float, or shows something, ...                                 *)
LEMMA Shows ==
    ASSUME Going, NEW i, NEW c, NEW r,
           acc' = NoAcc, seen' = Seen(i, c, r), UNCHANGED <<xty, x>>,
           Follows(c, r), ~parted' => i = c
    PROVE  SizedInv'
<1>1. seen'.i = i /\ seen'.c = c /\ seen'.r = r
  BY DEF Seen
<1>2. ReleaseDropsOnlyOverflow'
  <2>1. x'.r = x'.c
    BY DEF Going, SizedInv, ReleaseDropsOnlyOverflow
  <2>2. (seen'.c # Trap => seen'.r = seen'.c) /\ Poison \notin {seen'.c, seen'.r}
    BY <1>1 DEF Follows
  <2> QED BY <2>1, <2>2 DEF ReleaseDropsOnlyOverflow
<1>3. ASSUME ~parted' PROVE Faithful'
  <2>1. Matches(x'.i, x'.c, xty')
    BY DEF Going, SizedInv, Faithful
  <2> QED BY <1>1, <1>3, <2>1 DEF Faithful
<1> QED BY <1>2, <1>3 DEF SizedInv

LEMMA Floating ==
    ASSUME Going, NEW i, NEW c,
           acc' = [k |-> "float", i |-> i, c |-> c, r |-> c], seen' = Running, UNCHANGED <<xty, x>>,
           ~parted' => IsFloatValue(i) /\ i = c
    PROVE  SizedInv'
<1>1. acc'.k = "float" /\ acc'.i = i /\ acc'.c = c /\ acc'.r = c
  OBVIOUS
<1>2. seen'.i = seen'.c /\ seen'.r = seen'.c /\ Poison \notin {seen'.c, seen'.r}
  BY DEF Running, Seen, Run, Poison
<1>3. x'.r = x'.c
  BY DEF Going, SizedInv, ReleaseDropsOnlyOverflow
<1>4. ReleaseDropsOnlyOverflow'
  BY <1>1, <1>2, <1>3 DEF ReleaseDropsOnlyOverflow
<1>5. ASSUME ~parted' PROVE Faithful'
  <2>1. Matches(x'.i, x'.c, xty')
    BY DEF Going, SizedInv, Faithful
  <2> QED BY <1>1, <1>2, <1>5, <2>1 DEF Faithful, IsFloat
<1> QED BY <1>4, <1>5 DEF SizedInv

(* ... or stores acc in the place.                                         *)
LEMMA Stores ==
    ASSUME Going, NEW i, NEW c, Store(i, c, c), ~parted' => Matches(i, c, xty')
    PROVE  SizedInv'
<1>1. x'.i = i /\ x'.c = c /\ x'.r = c /\ acc' = NoAcc
  BY DEF Store
<1>2. seen'.i = seen'.c /\ seen'.r = seen'.c /\ Poison \notin {seen'.c, seen'.r}
  BY DEF Store, Running, Seen, Run, Poison
<1>3. ReleaseDropsOnlyOverflow'
  BY <1>1, <1>2 DEF ReleaseDropsOnlyOverflow
<1>4. ASSUME ~parted' PROVE Faithful'
  <2>1. Matches(x'.i, x'.c, xty')
    BY <1>1, <1>4
  <2> QED BY <1>1, <1>2, <2>1 DEF Faithful
<1> QED BY <1>3, <1>4 DEF SizedInv

(* An operation that may also stop or give a truth.                        *)
LEMMA Becoming ==
    ASSUME Going, NEW i, NEW c, NEW r, NEW ty, ty \in IntTypes,
           Becomes(i, c, r, ty), UNCHANGED <<xty, x>>,
           Follows(c, r), ~parted' => Agree(i, c, ty)
    PROVE  SizedInv'
<1>1. CASE i.k = "int" /\ c.k = "bits" /\ r.k = "bits"
  <2>1. acc' = Value(i, c.c, r.c, ty, acc.lit) /\ seen' = Running
    BY <1>1 DEF Becomes
  <2>2. r = c
    BY <1>1 DEF Follows, Trap, Stop
  <2>3. ASSUME ~parted' PROVE Matches(i, c.c, ty)
    <3>1. Agree(i, c, ty)
      BY <2>3
    <3>2. ~(c = Trap) /\ \A t : c # Truth(t)
      BY <1>1 DEF Trap, Stop, Truth
    <3>3. IsNumber(i) /\ c = Iv(i.v % 2^ty.bits)
      BY <3>1, <3>2 DEF Agree
    <3>4. c.c = i.v % 2^ty.bits
      BY <3>3 DEF Iv
    <3> QED BY <3>3, <3>4 DEF Matches
  <2> QED BY <2>1, <2>2, <2>3, Goes
<1>2. CASE ~(i.k = "int" /\ c.k = "bits" /\ r.k = "bits")
  <2>1. acc' = NoAcc /\ seen' = Seen(i, c, r)
    BY <1>2 DEF Becomes
  <2>2. ASSUME ~parted' PROVE i = c
    <3>1. Agree(i, c, ty)
      BY <2>2
    <3>2. ~(IsNumber(i) /\ c = Iv(i.v % 2^ty.bits))
      <4>1. SUFFICES ASSUME IsNumber(i), c = Iv(i.v % 2^ty.bits) PROVE FALSE
        OBVIOUS
      <4>2. i.k = "int" /\ c.k = "bits"
        BY <4>1 DEF IsNumber, Iv
      <4>3. r = c
        BY <4>2 DEF Follows, Trap, Stop
      <4> QED BY <1>2, <4>2, <4>3
    <3> QED BY <3>1, <3>2 DEF Agree, Trap
  <2> QED BY <2>1, <2>2, Shows
<1> QED BY <1>1, <1>2

(* What a step starts from.                                                *)
LEMMA Known ==
    ASSUME Going
    PROVE  /\ x.r = x.c /\ Matches(x.i, x.c, xty)
           /\ IsInt => acc.r = acc.c /\ Matches(acc.i, acc.c, acc.ty)
           /\ IsFloat => acc.r = acc.c /\ acc.c = acc.i /\ IsFloatValue(acc.i)
<1>1. /\ x.r = x.c /\ (acc = NoAcc \/ acc.r = acc.c) /\ Faithful
  BY DEF Going, SizedInv, ReleaseDropsOnlyOverflow
<1> QED BY <1>1 DEF Faithful, IsInt, IsFloat, NoAcc

(* A literal, and a byte, in both forms.                                   *)
LEMMA LiteralMatches ==
    ASSUME NEW n \in Literals, NEW ty \in IntTypes
    PROVE  Matches(Number(n), lower_const(n, ty), ty)
<1>1. n \in Int
  BY SizedAssumption
<1>2. ty.bits <= WORD.bits
  BY Types, WordIsType
<1> QED BY <1>1, <1>2, WordIsType, SizedMatches DEF Number, lower_const

AByte(n) == [k |-> "int", v |-> n, ty |-> ByteValue]

LEMMA ByteMatches ==
    ASSUME NEW n \in Literals, n < 2^Byte
    PROVE  Matches(AByte(n), n, U8)
<1>1. n \in Nat /\ Byte \in Nat
  BY ByteIsType, SizedAssumption
<1>2. PICK e \in Nat \ {0} : e = 2^Byte
  BY <1>1, Powers
<1>3. n \in 0 .. e - 1
  BY <1>1, <1>2
<1>4. n % e = n
  BY <1>3, Small
<1>5. AByte(n).k = "int" /\ AByte(n).v = n /\ AByte(n).ty = ByteValue
  BY DEF AByte
<1>6. IsNumber(AByte(n))
  BY <1>1, <1>5 DEF IsNumber
<1> QED BY <1>2, <1>4, <1>5, <1>6, ByteIsType DEF Matches

(* One lemma per action of the run.                                        *)
LEMMA LiteralStep ==
    ASSUME Going, NEW n \in Literals, NEW ty \in IntTypes, Literal(n, ty)
    PROVE  SizedInv'
<1>1. /\ acc' = Value(Number(n), lower_const(n, ty), lower_const(n, ty), ty, TRUE)
      /\ seen' = Running /\ UNCHANGED <<xty, x>>
  BY DEF Literal
<1>2. PICK i, c, lit : i = Number(n) /\ c = lower_const(n, ty) /\ lit = TRUE
  BY Zenon
<1>3. acc' = Value(i, c, c, ty, lit)
  BY <1>1, <1>2, Zenon
<1>4. Matches(i, c, ty)
  BY <1>2, LiteralMatches
<1> QED BY <1>1, <1>3, <1>4, Goes

LEMMA ByteLiteralStep ==
    ASSUME Going, NEW n \in Literals, n < 2^Byte, ByteLiteral(n)
    PROVE  SizedInv'
<1>1. PICK lit : lit = FALSE
  BY Zenon
<1>2. acc' = Value(AByte(n), n, n, U8, lit)
  BY <1>1, Zenon DEF ByteLiteral, AByte
<1>3. seen' = Running /\ UNCHANGED <<xty, x>>
  BY DEF ByteLiteral
<1> QED BY <1>2, <1>3, ByteMatches, Goes

LEMMA FloatLiteralStep ==
    ASSUME Going, NEW f \in Floats, NEW p \in Formats, FloatLiteral(f, p)
    PROVE  SizedInv'
<1>1. PICK c : c = lower_float(f, p)
  OBVIOUS
<1>2. acc' = [k |-> "float", i |-> f, c |-> c, r |-> c] /\ seen' = Running /\ UNCHANGED <<xty, x>>
  BY <1>1, Zenon DEF FloatLiteral
<1>3. ~parted' => f = c
  BY <1>1, Zenon DEF FloatLiteral, AlikeFloat, lower_float
<1>4. IsFloatValue(f)
  BY SizedAssumption, Zenon DEF IsFloatValue
<1> QED BY <1>2, <1>3, <1>4, Floating

LEMMA ReadPlaceStep ==
    ASSUME Going, ReadPlace
    PROVE  SizedInv'
<1>1. PICK lit : lit = FALSE
  BY Zenon
<1>2. acc' = Value(x.i, x.c, x.r, xty, lit)
  BY <1>1, Zenon DEF ReadPlace
<1>3. x.r = x.c /\ Matches(x.i, x.c, xty)
  BY Known
<1>4. acc' = Value(x.i, x.c, x.c, xty, lit)
  BY <1>2, <1>3
<1>5. seen' = Running /\ UNCHANGED <<xty, x>>
  BY DEF ReadPlace
<1> QED BY <1>3, <1>4, <1>5, Goes

LEMMA UnaryStep ==
    ASSUME Going, NEW op \in {"-", "~"}, Unary(op)
    PROVE  SizedInv'
<1>1. acc.r = acc.c /\ acc.ty \in IntTypes /\ IsNumber(acc.i) /\ acc.c = acc.i.v % 2^acc.ty.bits
  BY Known DEF Unary, Matches
<1>2. PICK i, c : i = unary_op(op, acc.i) /\ c = lower_unop(op, acc.c, acc.ty)
  OBVIOUS
<1>3. Becomes(i, c, c, acc.ty) /\ UNCHANGED <<xty, x>> /\ parted' = ~AlikeUnary(op, acc.i, acc.ty)
  BY <1>1, <1>2 DEF Unary
<1>4. Follows(c, c)
  BY <1>2, Results DEF lower_unop
<1>5. ~parted' => Agree(i, c, acc.ty)
  BY <1>1, <1>2, <1>3, UnaryAgrees DEF Agree
<1> QED BY <1>1, <1>3, <1>4, <1>5, Becoming

LEMMA BinaryStep ==
    ASSUME Going, NEW op \in ArithOps \cup CompareOps, NEW i, NEW c, NEW r,
           Binary(op, i, c, r), r = c, Matches(i, c, acc.ty)
    PROVE  SizedInv'
<1>1. /\ acc.r = acc.c /\ acc.ty \in IntTypes /\ IsNumber(acc.i) /\ acc.c = acc.i.v % 2^acc.ty.bits
      /\ IsNumber(i) /\ c = i.v % 2^acc.ty.bits
  BY Known DEF Binary, Matches
<1>2. Operands(acc.i, i, acc.c, c, acc.ty)
  BY <1>1 DEF Operands
<1>3. acc.c \in 0 .. 2^acc.ty.bits - 1 /\ c \in 0 .. 2^acc.ty.bits - 1
  BY <1>2, OperandTypes
<1>4. PICK p, d, q : p = binary_op(op, acc.i, i) /\ d = Debug(op, acc.c, c, acc.ty) /\ q = Release(op, acc.c, c, acc.ty)
  OBVIOUS
<1>5. Becomes(p, d, q, acc.ty)
  <2>1. Becomes(binary_op(op, acc.i, i), Debug(op, acc.c, c, acc.ty), Release(op, acc.r, r, acc.ty), acc.ty)
    BY Zenon DEF Binary, Debug, Release
  <2> QED BY <1>1, <1>4, <2>1
<1>6. UNCHANGED <<xty, x>> /\ parted' = ~Alike(op, acc.i, i, acc.c, c, acc.ty)
  BY Zenon DEF Binary
<1>7. Follows(d, q)
  BY <1>1, <1>3, <1>4, ReleaseFollows
<1>8. ~parted' => Agree(p, d, acc.ty)
  BY <1>2, <1>4, <1>6, DebugAgrees
<1> QED BY <1>1, <1>5, <1>6, <1>7, <1>8, Becoming

LEMMA BinaryLiteralStep ==
    ASSUME Going, NEW op \in ArithOps \cup CompareOps, NEW n \in Literals, BinaryLiteral(op, n)
    PROVE  SizedInv'
<1>1. PICK c : c = lower_const(n, acc.ty)
  OBVIOUS
<1>2. IsInt /\ Binary(op, Number(n), c, c)
  BY <1>1, Zenon DEF BinaryLiteral
<1>3. Matches(Number(n), c, acc.ty)
  BY <1>1, <1>2, Known, LiteralMatches DEF Matches
<1> QED BY <1>2, <1>3, BinaryStep

LEMMA BinaryByteStep ==
    ASSUME Going, NEW op \in ArithOps \cup CompareOps, NEW n \in Literals, n < 2^Byte, BinaryByte(op, n)
    PROVE  SizedInv'
<1>1. acc.ty = U8 /\ Binary(op, AByte(n), n, n)
  BY Zenon DEF BinaryByte, AByte
<1>2. Matches(AByte(n), n, acc.ty)
  BY <1>1, ByteMatches
<1> QED BY <1>1, <1>2, BinaryStep

LEMMA BinaryPlaceStep ==
    ASSUME Going, NEW op \in ArithOps \cup CompareOps, BinaryPlace(op)
    PROVE  SizedInv'
<1>1. acc.ty = xty /\ Binary(op, x.i, x.c, x.r)
  BY Zenon DEF BinaryPlace
<1>2. x.r = x.c /\ Matches(x.i, x.c, acc.ty)
  BY <1>1, Known
<1> QED BY <1>1, <1>2, BinaryStep

LEMMA CastStep ==
    ASSUME Going, NEW ty \in IntTypes, Cast(ty)
    PROVE  SizedInv'
<1>1. acc.r = acc.c /\ acc.ty \in IntTypes /\ IsNumber(acc.i) /\ acc.c = acc.i.v % 2^acc.ty.bits
  BY Known DEF Cast, Matches
<1>2. PICK lit, i, c : lit = FALSE /\ i = cast_int(acc.i, ty) /\ c = lower_cast(acc.c, acc.ty, ty)
  BY Zenon
<1>3. acc' = Value(i, c, c, ty, lit)
  <2>1. acc' = Value(cast_int(acc.i, ty), lower_cast(acc.c, acc.ty, ty), lower_cast(acc.r, acc.ty, ty), ty, FALSE)
    BY Zenon DEF Cast
  <2> QED BY <1>1, <1>2, <2>1, Zenon
<1>4. seen' = Running /\ UNCHANGED <<xty, x>> /\ parted' = ~AlikeCast(acc.i, acc.ty, ty)
  BY Zenon DEF Cast
<1>5. ASSUME ~parted' PROVE Matches(i, c, ty)
  <2>1. c = acc.i.v % 2^ty.bits
    BY <1>1, <1>2, <1>4, <1>5, CastAgrees
  <2>2. i = sized(acc.i.v, ty) /\ acc.i.v \in Int
    BY <1>1, <1>2 DEF cast_int, IsNumber
  <2> QED BY <2>1, <2>2, SizedIsNumber DEF Matches
<1> QED BY <1>3, <1>4, <1>5, Goes

LEMMA CastToFloatStep ==
    ASSUME Going, NEW p \in Formats, CastToFloat(p)
    PROVE  SizedInv'
<1>1. acc.r = acc.c /\ acc.ty \in IntTypes /\ IsNumber(acc.i) /\ acc.c = acc.i.v % 2^acc.ty.bits
  BY Known DEF CastToFloat, Matches
<1>2. PICK i, c : i = cast_float(acc.i).f /\ c = lower_int_to_float(acc.c, acc.ty, p).f
  OBVIOUS
<1>3. acc' = [k |-> "float", i |-> i, c |-> c, r |-> c]
  BY <1>1, <1>2 DEF CastToFloat
<1>4. seen' = Running /\ UNCHANGED <<xty, x>> /\ parted' = ~AlikeToFloat(acc.i, acc.ty, p)
  BY Zenon DEF CastToFloat
<1>5. ASSUME ~parted' PROVE IsFloatValue(i) /\ i = c
  <2>1. PICK v \in Int : v = acc.i.v
    BY <1>1 DEF IsNumber
  <2>2. InRange(v, acc.ty) /\ (p = Double \/ Rounded(v, p) = v)
    BY <1>4, <1>5, <2>1, Zenon DEF AlikeToFloat
  <2>3. View(acc.c, acc.ty) = v
    BY <1>1, <2>1, <2>2, ViewFits
  <2>4. PICK w \in Int : w = Rounded(v, Double)
    BY FormatBits, RoundedIsInt
  <2>5. Rounded(v, p) = w
    <3>1. CASE p = Double
      BY <2>4, <3>1
    <3>2. CASE p # Double
      <4>1. p \in Nat /\ Double \in Nat /\ p <= Double /\ Rounded(v, p) = v
        BY <2>2, <3>2, FormatBits
      <4>2. Rounded(v, Double) = v
        BY <4>1, FitsMore
      <4> QED BY <2>4, <4>1, <4>2
    <3> QED BY <3>1, <3>2
  <2>6. i = <<"fin", 2 * w>> /\ c = <<"fin", 2 * w>>
    BY <1>2, <2>1, <2>3, <2>4, <2>5 DEF cast_float, lower_int_to_float
  <2>7. i[2] = 2 * w
    BY <2>6
  <2> QED BY <2>6, <2>7 DEF IsFloatValue
<1> QED BY <1>3, <1>4, <1>5, Floating

LEMMA ResizeStep ==
    ASSUME Going, NEW p \in Formats, Resize(p)
    PROVE  SizedInv'
<1>1. acc.r = acc.c /\ acc.c = acc.i /\ IsFloatValue(acc.i)
  BY Known DEF Resize
<1>2. PICK i, c : i = acc.i /\ c = lower_float(acc.i, p)
  BY Zenon
<1>3. acc' = [k |-> "float", i |-> i, c |-> c, r |-> c] /\ seen' = Running /\ UNCHANGED <<xty, x>>
  BY <1>1, <1>2, Zenon DEF Resize
<1>4. ~parted' => i = c
  BY <1>2, Zenon DEF Resize, AlikeFloat, lower_float
<1> QED BY <1>1, <1>2, <1>3, <1>4, Floating

LEMMA CastFromFloatStep ==
    ASSUME Going, NEW ty \in IntTypes, CastFromFloat(ty)
    PROVE  SizedInv'
<1>1. acc.r = acc.c /\ acc.c = acc.i /\ IsFloatValue(acc.i)
  BY Known DEF CastFromFloat
<1>2. PICK lit, i, c : lit = FALSE /\ i = cast_from_float(acc.i, ty) /\ c = lower_float_to_int(acc.i, ty)
  BY Zenon
<1>3. acc' = Value(i, c, c, ty, lit)
  <2>1. acc' = Value(cast_from_float(acc.i, ty), lower_float_to_int(acc.c, ty), lower_float_to_int(acc.r, ty), ty, FALSE)
    BY Zenon DEF CastFromFloat
  <2> QED BY <1>1, <1>2, <2>1, Zenon
<1>4. seen' = Running /\ UNCHANGED <<xty, x>> /\ parted' = ~AlikeToInt(acc.i, ty)
  BY Zenon DEF CastFromFloat
<1>5. ~parted' => Matches(i, c, ty)
  BY <1>1, <1>2, <1>4, FromFloatAgrees DEF Matches
<1> QED BY <1>3, <1>4, <1>5, Goes

LEMMA IndexStep ==
    ASSUME Going, NEW len \in Lengths, Index(len)
    PROVE  SizedInv'
<1>1. acc.r = acc.c /\ acc.ty \in IntTypes /\ IsNumber(acc.i) /\ acc.c = acc.i.v % 2^acc.ty.bits
  BY Known DEF Index, Matches
<1>2. PICK i, c : i = index(acc.i, len) /\ c = lower_index(acc.c, acc.ty, len)
  OBVIOUS
<1>3. acc' = NoAcc /\ seen' = Seen(i, c, c) /\ UNCHANGED <<xty, x>>
  BY <1>1, <1>2 DEF Index
<1>4. Follows(c, c)
  BY <1>2 DEF Follows, lower_index, Poison, Trap, Stop
<1>5. parted' = ~AlikeIndex(acc.i, acc.c, acc.ty)
  BY Zenon DEF Index
<1>6. ~parted' => i = c
  BY <1>1, <1>2, <1>5, IndexAgrees
<1> QED BY <1>3, <1>4, <1>6, Shows

LEMMA SpillStep ==
    ASSUME Going, Spill
    PROVE  SizedInv'
<1>1. acc.r = acc.c /\ acc.ty \in IntTypes /\ IsNumber(acc.i) /\ acc.c = acc.i.v % 2^acc.ty.bits
  BY Known DEF Spill, Matches
<1>2. PICK i, c : i = Text(display(acc.i)) /\ c = Text(View(acc.c, acc.ty))
  OBVIOUS
<1>3. acc' = NoAcc /\ seen' = Seen(i, c, c) /\ UNCHANGED <<xty, x>>
  BY <1>1, <1>2 DEF Spill
<1>4. Follows(c, c)
  BY <1>2 DEF Follows, Text, Poison
<1>5. parted' = ~Fits(acc.i, acc.ty)
  BY Zenon DEF Spill
<1>6. ~parted' => i = c
  BY <1>1, <1>2, <1>5, FittingView DEF Shown
<1> QED BY <1>3, <1>4, <1>6, Shows

LEMMA DeclareStep ==
    ASSUME Going, Declare
    PROVE  SizedInv'
<1>1. acc.r = acc.c /\ acc.ty = xty /\ xty \in IntTypes /\ IsNumber(acc.i) /\ acc.c = acc.i.v % 2^xty.bits
  BY Known DEF Declare, Matches
<1>2. PICK i : i = coerce(acc.i, xty)
  OBVIOUS
<1>3. Store(i, acc.c, acc.c) /\ xty' = xty
  BY <1>1, <1>2 DEF Declare
<1>4. Matches(i, acc.c, xty)
  <2>1. CASE acc.i.ty = ByteValue
    BY <1>1, <1>2, <2>1 DEF coerce, Matches
  <2>2. CASE acc.i.ty # ByteValue
    <3>1. acc.i.v \in Int /\ i = sized(acc.i.v, xty)
      BY <1>1, <1>2, <2>2 DEF coerce, IsNumber
    <3> QED BY <1>1, <3>1, SizedIsNumber DEF Matches
  <2> QED BY <2>1, <2>2
<1> QED BY <1>3, <1>4, Stores

LEMMA InferStep ==
    ASSUME Going, Infer
    PROVE  SizedInv'
<1>1. acc.r = acc.c /\ Matches(acc.i, acc.c, acc.ty)
  BY Known DEF Infer
<1>2. Store(acc.i, acc.c, acc.c) /\ xty' = acc.ty
  BY <1>1 DEF Infer
<1> QED BY <1>1, <1>2, Stores

LEMMA KeepStep ==
    ASSUME Going, Keep
    PROVE  SizedInv'
<1>1. acc.r = acc.c /\ Matches(acc.i, acc.c, acc.ty)
  BY Known DEF Keep
<1>2. Store(acc.i, acc.c, acc.c) /\ xty' = acc.ty
  BY <1>1 DEF Keep
<1> QED BY <1>1, <1>2, Stores

LEMMA AssignStep ==
    ASSUME Going, Assign
    PROVE  SizedInv'
<1>1. acc.r = acc.c /\ acc.ty \in IntTypes /\ IsNumber(acc.i) /\ acc.c = acc.i.v % 2^acc.ty.bits
  BY Known DEF Assign, Matches
<1>2. PICK c : c = lower_cast(acc.c, acc.ty, xty)
  OBVIOUS
<1>3. Store(acc.i, c, c) /\ xty' = xty
  BY <1>1, <1>2 DEF Assign
<1>4. parted' = ~AlikeCast(acc.i, acc.ty, xty)
  BY Zenon DEF Assign
<1>5. xty \in IntTypes
  BY Known DEF Matches
<1>6. ~parted' => Matches(acc.i, c, xty)
  BY <1>1, <1>2, <1>4, <1>5, CastAgrees DEF Matches
<1> QED BY <1>3, <1>6, Stores

-----------------------------------------------------------------------------
LEMMA SizedInductive == SizedInv /\ [Next]_vars => SizedInv'
<1> SUFFICES ASSUME SizedInv, [Next]_vars PROVE SizedInv'
  OBVIOUS
<1>1. CASE UNCHANGED vars
  <2>1. xty' = xty /\ x' = x /\ acc' = acc /\ seen' = seen /\ parted' = parted
    BY <1>1 DEF vars
  <2> QED BY <2>1 DEF SizedInv, Faithful, ReleaseDropsOnlyOverflow, IsInt, IsFloat
<1>2. CASE Next
  <2>1. Going
    BY <1>2 DEF Next, Going
  <2>2. CASE \E n \in Literals, ty \in IntTypes : Literal(n, ty)
    BY <2>1, <2>2, LiteralStep
  <2>3. CASE \E n \in Literals : n < 2^Byte /\ ByteLiteral(n)
    BY <2>1, <2>3, ByteLiteralStep
  <2>4. CASE \E f \in Floats, p \in Formats : FloatLiteral(f, p)
    BY <2>1, <2>4, FloatLiteralStep
  <2>5. CASE ReadPlace
    BY <2>1, <2>5, ReadPlaceStep
  <2>6. CASE \E op \in {"-", "~"} : Unary(op)
    BY <2>1, <2>6, UnaryStep
  <2>7. ASSUME NEW op \in ArithOps \cup CompareOps,
               \/ \E n \in Literals : BinaryLiteral(op, n)
               \/ \E n \in Literals : n < 2^Byte /\ BinaryByte(op, n)
               \/ BinaryPlace(op)
        PROVE  SizedInv'
    <3>1. CASE \E n \in Literals : BinaryLiteral(op, n)
      BY <2>1, <3>1, BinaryLiteralStep
    <3>2. CASE \E n \in Literals : n < 2^Byte /\ BinaryByte(op, n)
      BY <2>1, <3>2, BinaryByteStep
    <3>3. CASE BinaryPlace(op)
      BY <2>1, <3>3, BinaryPlaceStep
    <3> QED BY <2>7, <3>1, <3>2, <3>3
  <2>8. CASE \E ty \in IntTypes : Cast(ty) \/ CastFromFloat(ty)
    BY <2>1, <2>8, CastStep, CastFromFloatStep
  <2>9. CASE \E p \in Formats : CastToFloat(p) \/ Resize(p)
    BY <2>1, <2>9, CastToFloatStep, ResizeStep
  <2>10. CASE \E len \in Lengths : Index(len)
    BY <2>1, <2>10, IndexStep
  <2>11. CASE Spill
    BY <2>1, <2>11, SpillStep
  <2>12. CASE Declare \/ Infer \/ Keep \/ Assign
    BY <2>1, <2>12, DeclareStep, InferStep, KeepStep, AssignStep
  <2> QED BY <1>2, <2>2, <2>3, <2>4, <2>5, <2>6, <2>7, <2>8, <2>9, <2>10, <2>11, <2>12 DEF Next
<1> QED BY <1>1, <1>2

LEMMA SizedInvariant == Spec => []SizedInv
BY InitSized, SizedInductive, PTL DEF Spec

(* The interpreter is an oracle for compiled code: for every width of the  *)
(* word and of the narrower integers, all literals, floats and lengths and *)
(* every program over them, it stops where a debug build does and shows,   *)
(* compares, converts and indexes alike, as long as the program keeps to   *)
(* the cases of Alike, AlikeUnary, AlikeCast, AlikeIndex, AlikeToFloat,    *)
(* AlikeFloat and AlikeToInt (int_binary, neg_int, cast, coerce against    *)
(* lower_int_binop, lower_cast, lower_int_to_float, lower_float_to_int,    *)
(* lower_index).                                                           *)
THEOREM OracleHolds == Spec => []InterpreterIsOracle
BY SizedInvariant, FaithfulIsOracle, PTL

(* A release build, without overflow checks, does as the debug build until *)
(* that one stops, and neither executes a division or a shift outside the  *)
(* domain of the instruction (guard_div, mask_shift_amount).               *)
THEOREM ReleaseDropsOnly == Spec => []ReleaseDropsOnlyOverflow
<1>1. SizedInv => ReleaseDropsOnlyOverflow
  BY DEF SizedInv
<1> QED BY <1>1, SizedInvariant, PTL
=============================================================================
