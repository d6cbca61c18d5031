---------------------------- MODULE BasicLemmas ----------------------------
(***************************************************************************)
(* Facts about numbers and sequences that the proofs about several         *)
(* components cite.                                                        *)
(***************************************************************************)
EXTENDS Integers, Sequences, WellFoundedInduction, TLAPS

-----------------------------------------------------------------------------
(* Numbers. *)

LEMMA Division ==
    ASSUME NEW a \in Nat, NEW n \in Nat \ {0}
    PROVE  /\ a \div n \in Nat /\ a % n \in 0 .. n - 1
           /\ a = (a \div n) * n + (a % n)
BY Z3

LEMMA RoundedDown ==
    ASSUME NEW a \in Nat, NEW n \in Nat \ {0}
    PROVE  a \div n \in Nat /\ (a \div n) * n \in Nat /\ (a \div n) * n <= a
BY Z3

(* Products grow with their factors.                                       *)
LEMMA Products ==
    ASSUME NEW a \in Nat, NEW b \in Nat, NEW n \in Nat, a < b
    PROVE  a * n + n <= b * n /\ a * n \in Nat /\ b * n \in Nat
BY Z3

(* Cell (x, y) of a table of h rows of w, counted row by row.              *)
IsCell(x, y, w, h) == w \in Nat /\ h \in Nat /\ x \in 0 .. w - 1 /\ y \in 0 .. h - 1

LEMMA RowMajor ==
    ASSUME NEW w, NEW h, NEW x, NEW y, IsCell(x, y, w, h)
    PROVE  /\ y * w + x \in 0 .. w * h - 1
           /\ (y * w + x) % w = x
           /\ (y * w + x) \div w = y
<1>1. w \in Nat \ {0} /\ h \in Nat /\ x \in Nat /\ y \in Nat /\ x < w /\ y < h
  BY DEF IsCell
<1>2. y * w + w <= h * w /\ y * w \in Nat /\ h * w \in Nat
  BY <1>1, Products
<1>3. h * w = w * h
  BY <1>1, Z3
<1>4. y * w + x \in 0 .. w * h - 1
  <2> DEFINE yw == y * w
             hw == w * h
  <2>1. yw \in Nat /\ hw \in Nat /\ yw + w <= hw
    BY <1>2, <1>3
  <2> HIDE DEF yw, hw
  <2>2. yw + x \in 0 .. hw - 1
    BY <1>1, <2>1
  <2> QED BY <2>2 DEF yw, hw
<1> DEFINE a == y * w + x
           d == a \div w
           m == a % w
<1>5. a \in Nat
  BY <1>1, <1>2
<1>6. d \in Nat /\ m \in 0 .. w - 1 /\ a = d * w + m
  <2> HIDE DEF a
  <2> QED BY <1>1, <1>5, Division
<1>7. y * w + x = d * w + m
  BY <1>6
<1> HIDE DEF d, m
<1>8. ~(y < d)
  <2> SUFFICES ASSUME y < d PROVE FALSE
    OBVIOUS
  <2>1. y * w + w <= d * w /\ y * w \in Nat /\ d * w \in Nat
    BY <1>1, <1>6, Products
  <2> QED BY <1>1, <1>6, <1>7, <2>1
<1>9. ~(d < y)
  <2> SUFFICES ASSUME d < y PROVE FALSE
    OBVIOUS
  <2>1. d * w + w <= y * w /\ d * w \in Nat /\ y * w \in Nat
    BY <1>1, <1>6, Products
  <2> QED BY <1>1, <1>6, <1>7, <2>1
<1>10. d = y
  BY <1>1, <1>6, <1>8, <1>9
<1>11. m = x
  <2>1. y * w \in Nat
    BY <1>2
  <2> QED BY <1>1, <1>6, <1>7, <1>10, <2>1
<1> QED BY <1>4, <1>10, <1>11 DEF a, d, m

(* Induction, as a fact about sets of numbers: the least number with a     *)
(* property, and the step from each number to the next.                    *)
LEMMA LeastNumber ==
    ASSUME NEW T \in SUBSET Nat, T # {}
    PROVE  \E n \in T : \A m \in T : n <= m
<1> DEFINE Below == {p \in Nat \X Nat : p[1] < p[2]}
<1>1. IsWellFoundedOn(Below, Nat)
  BY NatLessThanWellFounded DEF OpToRel
<1>2. ASSUME NEW m \in Nat, NEW n \in Nat, m < n PROVE <<m, n>> \in Below
  BY <1>2
<1> HIDE DEF Below
<1>3. PICK n \in T : \A m \in T : <<m, n>> \notin Below
  BY <1>1, WFMin
<1>4. ASSUME NEW m \in T PROVE n <= m
  <2>1. m \in Nat /\ n \in Nat /\ ~(m < n)
    BY <1>2, <1>3
  <2> QED BY <2>1
<1> QED BY <1>4

LEMMA StepByStep ==
    ASSUME NEW P \in SUBSET Nat, 0 \in P, \A n \in P : n + 1 \in P
    PROVE  P = Nat
<1> SUFFICES ASSUME Nat \ P # {} PROVE FALSE
  OBVIOUS
<1>1. PICK n \in Nat \ P : \A m \in Nat \ P : n <= m
  BY LeastNumber
<1>2. n # 0 /\ n - 1 \in Nat /\ ~(n <= n - 1)
  BY <1>1
<1>3. n - 1 \in P
  BY <1>1, <1>2
<1>4. (n - 1) + 1 = n
  BY <1>2
<1> QED BY <1>3, <1>4

(* A function on the numbers may be defined from its value at 0 and from   *)
(* each value to the next.                                                 *)
Steppable(S, e, step) == e \in S /\ step \in [Nat \X S -> S]
Steps(S, e, step, f) == /\ f \in [Nat -> S] /\ f[0] = e
                        /\ \A n \in Nat : f[n + 1] = step[<<n, f[n]>>]

LEMMA Recursion ==
    ASSUME NEW S, NEW e, NEW step, Steppable(S, e, step)
    PROVE  \E f : Steps(S, e, step, f)
<1> USE DEF Steppable
<1> DEFINE Upto(n, g) == /\ g \in [0 .. n -> S] /\ g[0] = e
                         /\ \A i \in 0 .. n - 1 : g[i + 1] = step[<<i, g[i]>>]
           Known == {n \in Nat : \E g : Upto(n, g)}
<1>1. Known = Nat
  <2>1. 0 \in Known
    <3>1. Upto(0, [i \in 0 .. 0 |-> e])
      OBVIOUS
    <3> QED BY <3>1
  <2>2. ASSUME NEW n \in Known PROVE n + 1 \in Known
    <3>1. PICK g : Upto(n, g)
      OBVIOUS
    <3> DEFINE h == [i \in 0 .. n + 1 |-> IF i = n + 1 THEN step[<<n, g[n]>>] ELSE g[i]]
    <3>2. n \in Nat /\ n \in 0 .. n /\ g[n] \in S /\ step[<<n, g[n]>>] \in S
      BY <3>1
    <3>3. h \in [0 .. n + 1 -> S] /\ h[0] = e
      BY <3>1, <3>2
    <3>4. ASSUME NEW i \in 0 .. (n + 1) - 1 PROVE h[i + 1] = step[<<i, h[i]>>]
      <4>1. CASE i = n
        <5>1. n + 1 \in 0 .. n + 1 /\ n \in 0 .. n + 1 /\ n # n + 1
          BY <3>2
        <5>2. h[n + 1] = step[<<n, g[n]>>] /\ h[n] = g[n]
          BY <5>1
        <5> QED BY <4>1, <5>2
      <4>2. CASE i # n
        <5>1. i \in 0 .. n - 1 /\ i + 1 \in 0 .. n + 1 /\ i + 1 # n + 1 /\ i \in 0 .. n + 1
          BY <3>2, <4>2
        <5>2. h[i + 1] = g[i + 1] /\ h[i] = g[i]
          BY <5>1, <4>2
        <5> QED BY <3>1, <5>1, <5>2
      <4> QED BY <4>1, <4>2
    <3> HIDE DEF h
    <3>5. Upto(n + 1, h)
      BY <3>3, <3>4
    <3> HIDE DEF Upto
    <3> QED BY <3>2, <3>5
  <2> HIDE DEF Known
  <2> QED BY <2>1, <2>2, StepByStep DEF Known
<1>2. ASSUME NEW n \in Nat, NEW g, NEW h, Upto(n, g), Upto(n + 1, h)
      PROVE  g[n] = h[n]
  <2> DEFINE Equal == {i \in Nat : i <= n => g[i] = h[i]}
  <2>1. 0 \in Equal
    BY <1>2
  <2>2. ASSUME NEW i \in Equal PROVE i + 1 \in Equal
    <3>1. CASE i + 1 <= n
      <4>1. i \in 0 .. n - 1 /\ i \in 0 .. (n + 1) - 1 /\ g[i] = h[i]
        BY <3>1
      <4>2. g[i + 1] = step[<<i, g[i]>>] /\ h[i + 1] = step[<<i, h[i]>>]
        BY <1>2, <4>1
      <4>3. g[i + 1] = h[i + 1] /\ i + 1 \in Nat
        BY <4>1, <4>2
      <4> QED BY <4>3
    <3>2. CASE ~(i + 1 <= n)
      BY <3>2
    <3> QED BY <3>1, <3>2
  <2> HIDE DEF Equal
  <2>3. Equal = Nat
    BY <2>1, <2>2, StepByStep DEF Equal
  <2> QED BY <2>3 DEF Equal
<1> DEFINE at(n) == CHOOSE g : Upto(n, g)
           f == [n \in Nat |-> at(n)[n]]
<1>3. ASSUME NEW n \in Nat PROVE Upto(n, at(n))
  <2>1. n \in Known
    BY <1>1
  <2> HIDE DEF Upto
  <2>2. \E g : Upto(n, g)
    BY <2>1
  <2> QED BY <2>2
<1> HIDE DEF at, Known
<1>4. f \in [Nat -> S] /\ f[0] = e
  <2>1. ASSUME NEW n \in Nat PROVE at(n)[n] \in S
    BY <1>3
  <2>2. at(0)[0] = e
    BY <1>3
  <2> QED BY <2>1, <2>2
<1>5. ASSUME NEW n \in Nat PROVE f[n + 1] = step[<<n, f[n]>>]
  <2>1. n + 1 \in Nat /\ n \in 0 .. (n + 1) - 1
    OBVIOUS
  <2>2. at(n + 1)[n + 1] = step[<<n, at(n + 1)[n]>>]
    BY <1>3, <2>1
  <2>3. at(n)[n] = at(n + 1)[n]
    <3>1. Upto(n, at(n)) /\ Upto(n + 1, at(n + 1))
      BY <1>3, <2>1
    <3> HIDE DEF Upto
    <3> QED BY <1>2, <3>1
  <2> QED BY <2>1, <2>2, <2>3
<1> HIDE DEF f
<1>6. Steps(S, e, step, f)
  BY <1>4, <1>5 DEF Steps
<1> QED BY <1>6

-----------------------------------------------------------------------------
(* Sequences. *)

(* Popping the last element of an injective sequence leaves an injective   *)
(* sequence over the other elements.                                       *)
LEMMA PopLast ==
    ASSUME NEW S, NEW q \in Seq(S), q # <<>>,
           \A i, j \in DOMAIN q : q[i] = q[j] => i = j
    PROVE  LET p == SubSeq(q, 1, Len(q) - 1) IN
           /\ q[Len(q)] \in S
           /\ p \in Seq(S)
           /\ \A i, j \in DOMAIN p : p[i] = p[j] => i = j
           /\ {p[i] : i \in DOMAIN p} = {q[i] : i \in DOMAIN q} \ {q[Len(q)]}
<1> DEFINE n == Len(q)
           p == SubSeq(q, 1, n - 1)
<1>1. n \in Nat /\ n >= 1 /\ DOMAIN q = 1 .. n
  OBVIOUS
<1>2. p \in Seq(S) /\ Len(p) = n - 1 /\ DOMAIN p = 1 .. n - 1
  BY <1>1
<1>3. \A i \in 1 .. n - 1 : p[i] = q[i]
  BY <1>1, <1>2
<1>4. q[n] \in S
  BY <1>1
<1>5. \A i, j \in DOMAIN p : p[i] = p[j] => i = j
  BY <1>1, <1>2, <1>3
<1>6. {p[i] : i \in DOMAIN p} = {q[i] : i \in DOMAIN q} \ {q[n]}
  <2>1. ASSUME NEW i \in DOMAIN p PROVE p[i] \in {q[k] : k \in DOMAIN q} \ {q[n]}
    BY <1>1, <1>2, <1>3
  <2>2. ASSUME NEW k \in DOMAIN q, q[k] # q[n] PROVE q[k] \in {p[i] : i \in DOMAIN p}
    <3>1. k \in 1 .. n - 1
      BY <1>1, <2>2
    <3> QED BY <3>1, <1>2, <1>3
  <2> QED BY <2>1, <2>2
<1> QED BY <1>2, <1>4, <1>5, <1>6

(* Pushing a new element on an injective sequence leaves an injective       *)
(* sequence that also holds that element.                                  *)
LEMMA PushNew ==
    ASSUME NEW S, NEW q \in Seq(S), NEW e \in S, e \notin {q[i] : i \in DOMAIN q},
           \A i, j \in DOMAIN q : q[i] = q[j] => i = j
    PROVE  LET p == Append(q, e) IN
           /\ p \in Seq(S)
           /\ \A i, j \in DOMAIN p : p[i] = p[j] => i = j
           /\ {p[i] : i \in DOMAIN p} = {q[i] : i \in DOMAIN q} \cup {e}
<1> DEFINE n == Len(q)
           p == Append(q, e)
<1>1. n \in Nat /\ DOMAIN q = 1 .. n
  OBVIOUS
<1>2. p \in Seq(S) /\ Len(p) = n + 1 /\ DOMAIN p = 1 .. n + 1
  BY <1>1
<1>3. p[n + 1] = e /\ \A i \in 1 .. n : p[i] = q[i]
  BY <1>1, <1>2
<1>4. \A i, j \in DOMAIN p : p[i] = p[j] => i = j
  BY <1>1, <1>2, <1>3
<1>5. {p[i] : i \in DOMAIN p} = {q[i] : i \in DOMAIN q} \cup {e}
  <2>1. ASSUME NEW i \in DOMAIN p PROVE p[i] \in {q[k] : k \in DOMAIN q} \cup {e}
    BY <1>1, <1>2, <1>3
  <2>2. ASSUME NEW k \in DOMAIN q PROVE q[k] \in {p[i] : i \in DOMAIN p}
    BY <1>1, <1>2, <1>3
  <2>3. e \in {p[i] : i \in DOMAIN p}
    BY <1>1, <1>2, <1>3
  <2> QED BY <2>1, <2>2, <2>3
<1> QED BY <1>2, <1>4, <1>5
=============================================================================
