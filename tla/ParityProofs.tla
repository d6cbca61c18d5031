---------------------------- MODULE ParityProofs ----------------------------
(***************************************************************************)
(* The three executions of a program agree, for every capacity, every      *)
(* number of values and every bound on the program: which tags are live    *)
(* (SameLiveness), and what the program observes (SameObservation).        *)
(***************************************************************************)
EXTENDS CribParity, BasicLemmas, FiniteSetTheorems, TLAPS

-----------------------------------------------------------------------------
(* What an execution knows of its elements, whichever way it stores it: D  *)
(* is the slots there are, occ those in use, gen their generations, and T  *)
(* the tags the program holds.                                             *)
Alive(occ, gen, t) == t.slot \in occ /\ gen[t.slot] = t.generation

(* No tag is ahead of its slot, and one that is level with it is alive.    *)
Past(D, occ, gen, T) == \A t \in T : t.slot \in D =>
                           /\ t.generation <= gen[t.slot]
                           /\ t.generation = gen[t.slot] => t.slot \in occ

(* The program holds the tag of every element in use.                      *)
Covered(occ, gen, T) == \A s \in occ : \E t \in T : t.slot = s /\ gen[s] = t.generation

-----------------------------------------------------------------------------
(* The inductive invariant.  SameLiveness alone is not inductive: a `cop`  *)
(* makes a fresh tag in each execution, and that it makes no stale tag     *)
(* live in one of them only is Past; that the runtimes are full together   *)
(* is Covered and Distinct.                                                *)
rOcc == {s \in R!Slots : rOccupied[s]}
sOcc == {s \in S!Slots : sOccupied[s]}
aOcc == {i \in DOMAIN slots : slots[i].live}
aGen == [i \in DOMAIN slots |-> slots[i].generation]

rTags == {t.r : t \in tags}
sTags == {t.s : t \in tags}
aTags == {t.a : t \in tags}

rAlive(t) == Alive(rOcc, rGeneration, t.r)
sAlive(t) == Alive(sOcc, sGeneration, t.s)
aAlive(t) == Alive(aOcc, aGen, t.a)

Element == [value : Value, generation : Nat, live : BOOLEAN]
CribTag == [slot : R!Slots \cup {NullSlot}, generation : Nat]
TagOf(D) == [r : CribTag, s : CribTag, a : [slot : D \cup {0}, generation : Nat]]
Block    == [tag : tags, snapshot : Value, binding : Value]

TypeOK == /\ rOccupied \in [R!Slots -> BOOLEAN] /\ sOccupied \in [S!Slots -> BOOLEAN]
          /\ rGeneration \in [R!Slots -> Nat] /\ sGeneration \in [S!Slots -> Nat]
          /\ rStore \in [R!Slots -> Value] /\ sStore \in [S!Slots -> Value]
          /\ rFree \in Seq(R!Slots)
          /\ slots \in Seq(Element)
          /\ tags \subseteq TagOf(DOMAIN slots)
          /\ open \in Seq(Block)
          /\ evicts \in 0 .. MaxEvicts

(* The counters have not wrapped. *)
NoWrap == \A s \in R!Slots : rGeneration[s] <= evicts /\ sGeneration[s] <= evicts

FreeListExact == /\ \A i, j \in DOMAIN rFree : rFree[i] = rFree[j] => i = j
                 /\ {rFree[i] : i \in DOMAIN rFree} = R!Slots \ rOcc

Sides == /\ Past(R!Slots, rOcc, rGeneration, rTags) /\ Covered(rOcc, rGeneration, rTags)
         /\ Past(S!Slots, sOcc, sGeneration, sTags) /\ Covered(sOcc, sGeneration, sTags)
         /\ Past(DOMAIN slots, aOcc, aGen, aTags) /\ Covered(aOcc, aGen, aTags)

(* The executions issued each tag together: two tags that agree in one     *)
(* execution are one tag.                                                  *)
Distinct == \A t, u \in tags : t.r = u.r \/ t.s = u.s \/ t.a = u.a => t = u

Same == \A t \in tags : (rAlive(t) <=> sAlive(t)) /\ (sAlive(t) <=> aAlive(t))

Lockstep == TypeOK /\ NoWrap /\ FreeListExact /\ Sides /\ Distinct /\ Same

LInv == IF wild THEN Full ELSE Lockstep

(* What the elements hold.  The interpreter's copy of an element that a    *)
(* `holla` has open is the snapshot, and the binding is what the runtimes  *)
(* hold.                                                                   *)
SameValue == \A t \in tags : aAlive(t) =>
                /\ rStore[t.r.slot] = sStore[t.s.slot]
                /\ ~IsOpen(t) => slots[t.a.slot].value = rStore[t.r.slot]

Faithful(i) == LET b == open[i] IN
               /\ aAlive(b.tag)
               /\ b.binding = rStore[b.tag.r.slot]
               /\ b.snapshot = slots[b.tag.a.slot].value

Opened == /\ \A i \in DOMAIN open : Faithful(i)
          /\ \A i, j \in DOMAIN open : open[i].tag = open[j].tag => i = j

Shows == SameObservation /\ SameValue /\ Opened

OInv == SameObservation /\ (~wild => Shows)

-----------------------------------------------------------------------------
(* One execution. *)

(* `cop` in one execution: a slot s that is not in use, old or new, is put *)
(* in use, and its tag is added.                                           *)
Issue(D, occ, gen, T, null, D2, gen2, s, new) ==
    /\ occ \subseteq D /\ gen \in [D -> Nat] /\ gen2 \in [D2 -> Nat]
    /\ D2 = D \cup {s} /\ null \notin D2 /\ s \notin occ
    /\ \A d \in D : gen2[d] = gen[d]
    /\ \A t \in T : t.slot \in D \cup {null} /\ t.generation \in Nat
    /\ Past(D, occ, gen, T) /\ Covered(occ, gen, T)
    /\ new.slot = s /\ new.generation = gen2[s]

(* The tag is new, alone alive among its slot's tags, and no other tag     *)
(* changes.                                                                *)
LEMMA IssueOne ==
    ASSUME NEW D, NEW occ, NEW gen, NEW T, NEW null, NEW D2, NEW gen2, NEW s, NEW new,
           Issue(D, occ, gen, T, null, D2, gen2, s, new)
    PROVE  /\ new \notin T
           /\ Past(D2, occ \cup {s}, gen2, T \cup {new})
           /\ Covered(occ \cup {s}, gen2, T \cup {new})
           /\ Alive(occ \cup {s}, gen2, new)
           /\ \A t \in T : Alive(occ \cup {s}, gen2, t) <=> Alive(occ, gen, t)
<1> USE DEF Issue
<1>1. ASSUME NEW t \in T, t.slot = s
      PROVE  t.generation < gen2[s] /\ ~Alive(occ, gen, t)
  <2>1. s \in D /\ gen2[s] = gen[s]
    BY <1>1
  <2>2. t.generation <= gen[s] /\ t.generation # gen[s]
    BY <1>1, <2>1 DEF Past
  <2>3. t.generation \in Nat /\ gen[s] \in Nat
    BY <2>1
  <2> QED BY <1>1, <2>1, <2>2, <2>3 DEF Alive
<1>2. new \notin T
  BY <1>1
<1>3. \A t \in T : Alive(occ \cup {s}, gen2, t) <=> Alive(occ, gen, t)
  <2> SUFFICES ASSUME NEW t \in T
               PROVE  Alive(occ \cup {s}, gen2, t) <=> Alive(occ, gen, t)
    OBVIOUS
  <2>1. CASE t.slot = s
    BY <1>1, <2>1 DEF Alive
  <2>2. CASE t.slot # s
    BY <2>2 DEF Alive
  <2> QED BY <2>1, <2>2
<1>4. Past(D2, occ \cup {s}, gen2, T \cup {new})
  <2> SUFFICES ASSUME NEW t \in T \cup {new}, t.slot \in D2
               PROVE  /\ t.generation <= gen2[t.slot]
                      /\ t.generation = gen2[t.slot] => t.slot \in occ \cup {s}
    BY DEF Past
  <2>1. CASE t = new
    BY <2>1
  <2>2. CASE t \in T /\ t.slot = s
    BY <1>1, <2>2
  <2>3. CASE t \in T /\ t.slot # s
    BY <2>3 DEF Past
  <2> QED BY <2>1, <2>2, <2>3
<1>5. Covered(occ \cup {s}, gen2, T \cup {new})
  BY DEF Covered
<1>6. Alive(occ \cup {s}, gen2, new)
  BY DEF Alive
<1> QED BY <1>2, <1>3, <1>4, <1>5, <1>6

(* A reclaim of the slots E in one execution. *)
Bumped(D, gen, E, gen2) ==
    /\ gen2 \in [D -> Nat] /\ E \subseteq D
    /\ \A d \in E : gen2[d] = gen[d] + 1
    /\ \A d \in D \ E : gen2[d] = gen[d]

Reclaimed(D, occ, gen, T, E, gen2) ==
    /\ occ \subseteq D /\ gen \in [D -> Nat]
    /\ Bumped(D, gen, E, gen2)
    /\ \A t \in T : t.generation \in Nat
    /\ Past(D, occ, gen, T) /\ Covered(occ, gen, T)

(* The tags of E die, the others stay as they were.                        *)
LEMMA ReclaimSome ==
    ASSUME NEW D, NEW occ, NEW gen, NEW T, NEW E, NEW gen2,
           Reclaimed(D, occ, gen, T, E, gen2)
    PROVE  /\ Past(D, occ \ E, gen2, T)
           /\ Covered(occ \ E, gen2, T)
           /\ \A t \in T : Alive(occ \ E, gen2, t) <=> Alive(occ, gen, t) /\ t.slot \notin E
<1> USE DEF Reclaimed, Bumped
<1>1. Past(D, occ \ E, gen2, T)
  <2> SUFFICES ASSUME NEW t \in T, t.slot \in D
               PROVE  /\ t.generation <= gen2[t.slot]
                      /\ t.generation = gen2[t.slot] => t.slot \in occ \ E
    BY DEF Past
  <2>1. /\ t.generation <= gen[t.slot]
        /\ t.generation = gen[t.slot] => t.slot \in occ
        /\ t.generation \in Nat /\ gen[t.slot] \in Nat
    BY DEF Past
  <2>2. CASE t.slot \in E
    <3>1. gen2[t.slot] = gen[t.slot] + 1
      BY <2>2
    <3> QED BY <2>1, <3>1
  <2>3. CASE t.slot \notin E
    BY <2>1, <2>3
  <2> QED BY <2>2, <2>3
<1>2. Covered(occ \ E, gen2, T)
  BY DEF Covered
<1>3. \A t \in T : Alive(occ \ E, gen2, t) <=> Alive(occ, gen, t) /\ t.slot \notin E
  BY DEF Alive
<1> QED BY <1>1, <1>2, <1>3

-----------------------------------------------------------------------------
(* The three executions. *)

(* Being alive is what each execution's own check finds.                   *)
LEMMA ChecksFindAlive ==
    ASSUME Lockstep, NEW t \in tags
    PROVE  /\ R!IsLive(t.r) <=> rAlive(t)
           /\ S!IsLive(t.s) <=> sAlive(t)
           /\ A!IsCurrent(t.a) <=> aAlive(t)
<1>1. R!IsLive(t.r) <=> rAlive(t)
  BY DEF R!IsLive, rAlive, Alive, rOcc
<1>2. S!IsLive(t.s) <=> sAlive(t)
  BY DEF S!IsLive, sAlive, Alive, sOcc
<1>3. A!IsCurrent(t.a) <=> aAlive(t)
  BY DEF A!IsCurrent, aAlive, Alive, aOcc, aGen
<1> QED BY <1>1, <1>2, <1>3

(* An alive tag names an element of each execution, and no other alive tag *)
(* names the same one.                                                     *)
LEMMA AliveTag ==
    ASSUME Lockstep, NEW t \in tags, rAlive(t) \/ sAlive(t) \/ aAlive(t)
    PROVE  /\ rAlive(t) /\ sAlive(t) /\ aAlive(t)
           /\ t.r.slot \in rOcc /\ t.s.slot \in sOcc /\ t.a.slot \in aOcc
           /\ \A u \in tags : /\ rAlive(u) \/ sAlive(u) \/ aAlive(u)
                              /\ \/ u.r.slot = t.r.slot
                                 \/ u.s.slot = t.s.slot
                                 \/ u.a.slot = t.a.slot
                              => u = t
<1>1. ASSUME NEW u \in tags, rAlive(u) \/ sAlive(u) \/ aAlive(u)
      PROVE  rAlive(u) /\ sAlive(u) /\ aAlive(u)
  BY <1>1 DEF Lockstep, Same
<1>2. rAlive(t) /\ sAlive(t) /\ aAlive(t)
  BY <1>1
<1>3. t.r.slot \in rOcc /\ t.s.slot \in sOcc /\ t.a.slot \in aOcc
  BY <1>2 DEF rAlive, sAlive, aAlive, Alive
<1>4. ASSUME NEW u \in tags, rAlive(u) \/ sAlive(u) \/ aAlive(u),
             u.r.slot = t.r.slot \/ u.s.slot = t.s.slot \/ u.a.slot = t.a.slot
      PROVE  u = t
  <2>1. rAlive(u) /\ sAlive(u) /\ aAlive(u)
    BY <1>1, <1>4
  <2>2. /\ u.r \in CribTag /\ u.s \in CribTag
        /\ u.a \in [slot : DOMAIN slots \cup {0}, generation : Nat]
        /\ t.r \in CribTag /\ t.s \in CribTag
        /\ t.a \in [slot : DOMAIN slots \cup {0}, generation : Nat]
    BY DEF Lockstep, TypeOK, TagOf
  <2>3. u.r.slot = t.r.slot => u.r = t.r
    BY <2>1, <1>2, <2>2 DEF rAlive, Alive, CribTag
  <2>4. u.s.slot = t.s.slot => u.s = t.s
    BY <2>1, <1>2, <2>2 DEF sAlive, Alive, CribTag
  <2>5. u.a.slot = t.a.slot => u.a = t.a
    BY <2>1, <1>2, <2>2 DEF aAlive, Alive
  <2> QED BY <1>4, <2>3, <2>4, <2>5 DEF Lockstep, Distinct
<1> QED BY <1>2, <1>3, <1>4

(* The runtimes have the same number of elements in use: when one is full  *)
(* so is the other.                                                        *)
LEMMA FullTogether ==
    ASSUME Lockstep
    PROVE  rOcc = R!Slots <=> sOcc = S!Slots
<1> DEFINE n == Capacity
<1>1. /\ R!Slots = 0 .. n - 1 /\ S!Slots = 0 .. n - 1
      /\ rOcc \subseteq 0 .. n - 1 /\ sOcc \subseteq 0 .. n - 1
  BY DEF R!Slots, S!Slots, rOcc, sOcc
<1>2. IsFiniteSet(0 .. n - 1)
  BY ParityAssumption, FS_Interval
<1>3. IsFiniteSet(rOcc) /\ IsFiniteSet(sOcc)
  BY <1>1, <1>2, FS_Subset
<1> DEFINE rTag(s) == CHOOSE t \in tags : rAlive(t) /\ t.r.slot = s
           sTag(s) == CHOOSE t \in tags : sAlive(t) /\ t.s.slot = s
           rToS == [s \in rOcc |-> rTag(s).s.slot]
           sToR == [s \in sOcc |-> sTag(s).r.slot]
<1>4. ASSUME NEW s \in rOcc PROVE rTag(s) \in tags /\ rAlive(rTag(s)) /\ rTag(s).r.slot = s
  <2>1. \E t \in tags : t.r.slot = s /\ rGeneration[s] = t.r.generation
    BY DEF Lockstep, Sides, Covered, rTags
  <2>2. \E t \in tags : rAlive(t) /\ t.r.slot = s
    BY <2>1 DEF rAlive, Alive
  <2> QED BY <2>2
<1>5. ASSUME NEW s \in sOcc PROVE sTag(s) \in tags /\ sAlive(sTag(s)) /\ sTag(s).s.slot = s
  <2>1. \E t \in tags : t.s.slot = s /\ sGeneration[s] = t.s.generation
    BY DEF Lockstep, Sides, Covered, sTags
  <2>2. \E t \in tags : sAlive(t) /\ t.s.slot = s
    BY <2>1 DEF sAlive, Alive
  <2> QED BY <2>2
<1> HIDE DEF rTag, sTag
<1>6. rToS \in Injection(rOcc, sOcc)
  <2>1. \A s \in rOcc : rTag(s).s.slot \in sOcc
    BY <1>4, AliveTag
  <2>2. \A a, b \in rOcc : rTag(a).s.slot = rTag(b).s.slot => a = b
    BY <1>4, AliveTag
  <2> QED BY <2>1, <2>2 DEF Injection, IsInjective
<1>7. sToR \in Injection(sOcc, rOcc)
  <2>1. \A s \in sOcc : sTag(s).r.slot \in rOcc
    BY <1>5, AliveTag
  <2>2. \A a, b \in sOcc : sTag(a).r.slot = sTag(b).r.slot => a = b
    BY <1>5, AliveTag
  <2> QED BY <2>1, <2>2 DEF Injection, IsInjective
<1>8. Cardinality(rOcc) = Cardinality(sOcc)
  <2>1. Cardinality(rOcc) <= Cardinality(sOcc)
    BY <1>3, <1>6, FS_Injection
  <2>2. Cardinality(sOcc) <= Cardinality(rOcc)
    BY <1>3, <1>7, FS_Injection
  <2>3. Cardinality(rOcc) \in Nat /\ Cardinality(sOcc) \in Nat
    BY <1>3, FS_CardinalityType
  <2> QED BY <2>1, <2>2, <2>3
<1> QED BY <1>1, <1>2, <1>8, FS_Subset

-----------------------------------------------------------------------------
(* The first step of the program's `cop`, in each execution.               *)
LEMMA CopInRuntime ==
    ASSUME Lockstep, R!bet_cop, rFree # <<>>
    PROVE  LET t == R!bet_cop_tag IN
           /\ t \in CribTag /\ t.slot \in R!Slots \ rOcc /\ t \notin rTags
           /\ rOccupied' \in [R!Slots -> BOOLEAN] /\ rGeneration' = rGeneration
           /\ rFree' \in Seq(R!Slots) /\ FreeListExact'
           /\ rOcc' = rOcc \cup {t.slot}
           /\ Past(R!Slots, rOcc', rGeneration', rTags \cup {t})
           /\ Covered(rOcc', rGeneration', rTags \cup {t})
           /\ Alive(rOcc', rGeneration', t)
           /\ \A u \in tags : rAlive(u)' <=> rAlive(u)
<1> DEFINE t == R!bet_cop_tag
           s == rFree[Len(rFree)]
<1>1. /\ rFree \in Seq(R!Slots) /\ rFree # <<>>
      /\ \A i, j \in DOMAIN rFree : rFree[i] = rFree[j] => i = j
      /\ {rFree[i] : i \in DOMAIN rFree} = R!Slots \ rOcc
  BY DEF Lockstep, TypeOK, FreeListExact
<1>2. /\ rOccupied \in [R!Slots -> BOOLEAN] /\ rGeneration \in [R!Slots -> Nat]
      /\ rOcc \in SUBSET R!Slots
  BY DEF Lockstep, TypeOK, rOcc
<1>3. t = [slot |-> s, generation |-> rGeneration[s]]
  BY <1>1 DEF R!bet_cop_tag
<1>4. /\ rFree' = SubSeq(rFree, 1, Len(rFree) - 1)
      /\ rOccupied' = [rOccupied EXCEPT ![s] = TRUE]
      /\ rGeneration' = rGeneration
  BY <1>1 DEF R!bet_cop
<1>5. /\ s \in R!Slots /\ rFree' \in Seq(R!Slots)
      /\ \A i, j \in DOMAIN rFree' : rFree'[i] = rFree'[j] => i = j
      /\ {rFree'[i] : i \in DOMAIN rFree'} = {rFree[i] : i \in DOMAIN rFree} \ {s}
  <2> DEFINE p == SubSeq(rFree, 1, Len(rFree) - 1)
  <2>1. /\ s \in R!Slots /\ p \in Seq(R!Slots)
        /\ \A i, j \in DOMAIN p : p[i] = p[j] => i = j
        /\ {p[i] : i \in DOMAIN p} = {rFree[i] : i \in DOMAIN rFree} \ {s}
    BY <1>1, PopLast
  <2>2. rFree' = p
    BY <1>4
  <2> HIDE DEF p, s
  <2> QED BY <2>1, <2>2
<1>6. s \in {rFree[i] : i \in DOMAIN rFree}
  <2>1. Len(rFree) \in DOMAIN rFree
    BY <1>1
  <2> QED BY <2>1
<1>7. s \in R!Slots \ rOcc
  BY <1>1, <1>6
<1>8. t.slot = s /\ t.generation = rGeneration[s] /\ t \in CribTag
  BY <1>2, <1>3, <1>7 DEF CribTag
<1>9. rOccupied' \in [R!Slots -> BOOLEAN] /\ rOcc' = rOcc \cup {s}
  BY <1>2, <1>4, <1>7 DEF rOcc, R!Slots
<1>10. FreeListExact'
  BY <1>1, <1>5, <1>9 DEF FreeListExact, R!Slots
<1>11. /\ \A u \in rTags : u.slot \in R!Slots \cup {NullSlot} /\ u.generation \in Nat
       /\ NullSlot \notin R!Slots
       /\ Past(R!Slots, rOcc, rGeneration, rTags)
       /\ Covered(rOcc, rGeneration, rTags)
  <2>1. NullSlot \notin R!Slots
    BY ParityAssumption DEF R!Slots
  <2>2. tags \subseteq TagOf(DOMAIN slots) /\ R!Slots = R!Slots
    BY DEF Lockstep, TypeOK
  <2>3. \A u \in rTags : u.slot \in R!Slots \cup {NullSlot} /\ u.generation \in Nat
    BY <2>2 DEF TagOf, CribTag, rTags
  <2> QED BY <2>1, <2>3 DEF Lockstep, Sides
<1> HIDE DEF t, s
<1>12. R!Slots = R!Slots \cup {s}
  BY <1>7
<1>13. /\ t \notin rTags
       /\ Past(R!Slots, rOcc \cup {s}, rGeneration, rTags \cup {t})
       /\ Covered(rOcc \cup {s}, rGeneration, rTags \cup {t})
       /\ Alive(rOcc \cup {s}, rGeneration, t)
       /\ \A u \in rTags : /\ Alive(rOcc \cup {s}, rGeneration, u)
                              <=> Alive(rOcc, rGeneration, u)
  <2>1. Issue(R!Slots, rOcc, rGeneration, rTags, NullSlot, R!Slots,
              rGeneration, s, t)
    BY <1>2, <1>7, <1>8, <1>11, <1>12 DEF Issue
  <2> QED BY <2>1, IssueOne
<1>14. \A u \in tags : rAlive(u)' <=> rAlive(u)
  BY <1>4, <1>9, <1>13 DEF rAlive, rTags
<1> QED BY <1>4, <1>5, <1>7, <1>8, <1>9, <1>10, <1>13, <1>14 DEF t

(* The scan of the reference runtime finds a slot that is not in use.      *)
LEMMA FirstFreeIsFree ==
    ASSUME S!FreeSlots # {}
    PROVE  S!FirstFree \in S!FreeSlots
<1>1. S!FreeSlots \in SUBSET Nat
  BY DEF S!FreeSlots, S!Slots
<1>2. \E n \in S!FreeSlots : \A m \in S!FreeSlots : n <= m
  BY <1>1, LeastNumber
<1> QED BY <1>2 DEF S!FirstFree

LEMMA CopInStub ==
    ASSUME Lockstep, S!bet_cop, S!FreeSlots # {}
    PROVE  LET t == S!bet_cop_tag IN
           /\ t \in CribTag /\ t.slot \in S!Slots \ sOcc /\ t \notin sTags
           /\ sOccupied' \in [S!Slots -> BOOLEAN] /\ sGeneration' = sGeneration
           /\ sOcc' = sOcc \cup {t.slot}
           /\ Past(S!Slots, sOcc', sGeneration', sTags \cup {t})
           /\ Covered(sOcc', sGeneration', sTags \cup {t})
           /\ Alive(sOcc', sGeneration', t)
           /\ \A u \in tags : sAlive(u)' <=> sAlive(u)
<1> DEFINE t == S!bet_cop_tag
           s == S!FirstFree
<1>2. /\ sOccupied \in [S!Slots -> BOOLEAN] /\ sGeneration \in [S!Slots -> Nat]
      /\ sOcc \in SUBSET S!Slots
  BY DEF Lockstep, TypeOK, sOcc
<1>3. t = [slot |-> s, generation |-> sGeneration[s]]
  BY DEF S!bet_cop_tag
<1>4. /\ sOccupied' = [sOccupied EXCEPT ![s] = TRUE]
      /\ sGeneration' = sGeneration
  BY DEF S!bet_cop
<1>7. s \in S!Slots \ sOcc
  BY FirstFreeIsFree DEF S!FreeSlots, sOcc
<1> HIDE DEF s
<1>8. t.slot = s /\ t.generation = sGeneration[s] /\ t \in CribTag
  <2>1. s \in R!Slots /\ sGeneration[s] \in Nat
    BY <1>2, <1>7 DEF R!Slots, S!Slots
  <2> QED BY <1>3, <2>1 DEF CribTag
<1>9. sOccupied' \in [S!Slots -> BOOLEAN] /\ sOcc' = sOcc \cup {s}
  BY <1>2, <1>4, <1>7 DEF sOcc, S!Slots
<1>11. /\ \A u \in sTags : u.slot \in S!Slots \cup {NullSlot} /\ u.generation \in Nat
       /\ NullSlot \notin S!Slots
       /\ Past(S!Slots, sOcc, sGeneration, sTags)
       /\ Covered(sOcc, sGeneration, sTags)
  <2>1. NullSlot \notin S!Slots
    BY ParityAssumption DEF S!Slots
  <2>2. tags \subseteq TagOf(DOMAIN slots) /\ R!Slots = S!Slots
    BY DEF Lockstep, TypeOK, R!Slots, S!Slots
  <2>3. \A u \in sTags : u.slot \in S!Slots \cup {NullSlot} /\ u.generation \in Nat
    BY <2>2 DEF TagOf, CribTag, sTags
  <2> QED BY <2>1, <2>3 DEF Lockstep, Sides
<1> HIDE DEF t
<1>12. S!Slots = S!Slots \cup {s}
  BY <1>7
<1>13. /\ t \notin sTags
       /\ Past(S!Slots, sOcc \cup {s}, sGeneration, sTags \cup {t})
       /\ Covered(sOcc \cup {s}, sGeneration, sTags \cup {t})
       /\ Alive(sOcc \cup {s}, sGeneration, t)
       /\ \A u \in sTags : /\ Alive(sOcc \cup {s}, sGeneration, u)
                              <=> Alive(sOcc, sGeneration, u)
  <2>1. Issue(S!Slots, sOcc, sGeneration, sTags, NullSlot, S!Slots,
              sGeneration, s, t)
    BY <1>2, <1>7, <1>8, <1>11, <1>12 DEF Issue
  <2> QED BY <2>1, IssueOne
<1>14. \A u \in tags : sAlive(u)' <=> sAlive(u)
  BY <1>4, <1>9, <1>13 DEF sAlive, sTags
<1> QED BY <1>4, <1>7, <1>8, <1>9, <1>13, <1>14 DEF t

(* The interpreter's alloc reuses a slot, or adds one.                     *)
LEMMA AllocSlot ==
    ASSUME Lockstep, NEW v \in Value, A!alloc(v)
    PROVE  LET t == A!alloc_tag IN
           /\ t.slot \in Nat \ {0} /\ t.slot \notin aOcc /\ t.generation \in Nat
           /\ t = [slot |-> t.slot, generation |-> t.generation]
           /\ slots' \in Seq(Element)
           /\ DOMAIN slots' = DOMAIN slots \cup {t.slot}
           /\ aOcc' = aOcc \cup {t.slot}
           /\ aGen' \in [DOMAIN slots' -> Nat]
           /\ \A i \in DOMAIN slots : aGen'[i] = aGen[i]
           /\ aGen'[t.slot] = t.generation
           /\ slots'[t.slot].value = v
           /\ \A i \in DOMAIN slots : i # t.slot => slots'[i] = slots[i]
<1>1. slots \in Seq(Element)
  BY DEF Lockstep, TypeOK
<1>2. Len(slots) \in Nat /\ DOMAIN slots = 1 .. Len(slots)
  BY <1>1
<1>3. CASE A!Freed = {}
  <2> DEFINE e == [value |-> v, generation |-> 0, live |-> TRUE]
             n == Len(slots) + 1
  <2>1. A!alloc_tag = [slot |-> n, generation |-> 0]
    BY <1>3 DEF A!alloc_tag
  <2>2. slots' = Append(slots, e)
    BY <1>3 DEF A!alloc
  <2>3. e \in Element
    BY DEF Element
  <2>4. e.live = TRUE /\ e.generation = 0 /\ e.value = v
    OBVIOUS
  <2> HIDE DEF e
  <2>5. /\ slots' \in Seq(Element) /\ DOMAIN slots' = 1 .. n
        /\ slots'[n] = e /\ \A i \in DOMAIN slots : slots'[i] = slots[i]
    BY <1>1, <1>2, <2>2, <2>3
  <2>6. DOMAIN slots' = DOMAIN slots \cup {n} /\ n \notin DOMAIN slots
    BY <1>2, <2>5
  <2>7. aOcc' = aOcc \cup {n} /\ n \notin aOcc
    BY <2>4, <2>5, <2>6 DEF aOcc
  <2>8. /\ aGen' = [i \in DOMAIN slots' |-> slots'[i].generation]
        /\ \A i \in DOMAIN slots' : slots'[i].generation \in Nat
    <3>1. \A i \in DOMAIN slots' : slots'[i] \in Element
      BY <2>5
    <3> QED BY <3>1 DEF aGen, Element
  <2>9. /\ \A i \in DOMAIN slots : aGen'[i] = aGen[i]
        /\ aGen'[n] = 0
    BY <2>4, <2>5, <2>6, <2>8 DEF aGen
  <2>10. n \in Nat \ {0}
    BY <1>2
  <2> QED BY <2>1, <2>4, <2>5, <2>6, <2>7, <2>8, <2>9, <2>10
<1>4. CASE A!Freed # {}
  <2> DEFINE n == A!Reused
  <2>1. n \in A!Freed
    <3>1. A!Freed \in SUBSET Nat
      BY <1>2 DEF A!Freed
    <3>2. \E i \in A!Freed : \A j \in A!Freed : i <= j
      BY <1>4, <3>1, LeastNumber
    <3> QED BY <3>2 DEF A!Reused
  <2>2. A!alloc_tag = [slot |-> n, generation |-> slots[n].generation]
    BY <1>4 DEF A!alloc_tag
  <2>3. slots' = [slots EXCEPT ![n].value = v, ![n].live = TRUE]
    BY <1>4 DEF A!alloc
  <2> HIDE DEF n
  <2>4. n \in DOMAIN slots /\ n \notin aOcc /\ n \in Nat \ {0}
    BY <1>2, <2>1 DEF A!Freed, aOcc
  <2>5. slots[n] \in Element
    BY <1>1, <2>4
  <2> DEFINE e == [slots[n] EXCEPT !.value = v, !.live = TRUE]
  <2>6. e \in Element /\ e.live = TRUE /\ e.value = v
        /\ e.generation = slots[n].generation
    BY <2>5 DEF Element
  <2>7. slots' = [slots EXCEPT ![n] = e]
    BY <1>1, <2>3, <2>4, <2>5 DEF Element
  <2> HIDE DEF e
  <2>8. /\ slots' \in Seq(Element) /\ DOMAIN slots' = DOMAIN slots
        /\ slots'[n] = e /\ \A i \in DOMAIN slots : i # n => slots'[i] = slots[i]
    BY <1>1, <1>2, <2>4, <2>6, <2>7
  <2>9. aOcc' = aOcc \cup {n}
    BY <2>4, <2>6, <2>8 DEF aOcc
  <2>10. /\ aGen' = [i \in DOMAIN slots |-> slots'[i].generation]
         /\ \A i \in DOMAIN slots : slots'[i].generation \in Nat
    <3>1. \A i \in DOMAIN slots' : slots'[i] \in Element
      BY <2>8
    <3> QED BY <2>8, <3>1 DEF aGen, Element
  <2>11. \A i \in DOMAIN slots : aGen'[i] = aGen[i]
    BY <2>6, <2>8, <2>10 DEF aGen
  <2>12. aGen'[n] = slots[n].generation /\ slots[n].generation \in Nat
    BY <2>4, <2>5, <2>6, <2>8, <2>10 DEF Element
  <2> QED BY <2>2, <2>4, <2>6, <2>8, <2>9, <2>10, <2>11, <2>12
<1> QED BY <1>3, <1>4

LEMMA CopInInterpreter ==
    ASSUME Lockstep, NEW v \in Value, A!alloc(v)
    PROVE  LET t == A!alloc_tag IN
           /\ t \in [slot : DOMAIN slots' \cup {0}, generation : Nat] /\ t \notin aTags
           /\ Past(DOMAIN slots', aOcc', aGen', aTags \cup {t})
           /\ Covered(aOcc', aGen', aTags \cup {t})
           /\ Alive(aOcc', aGen', t)
           /\ \A u \in tags : aAlive(u)' <=> aAlive(u)
<1> DEFINE t == A!alloc_tag
<1>1. /\ t.slot \in Nat \ {0} /\ t.slot \notin aOcc /\ t.generation \in Nat
      /\ t = [slot |-> t.slot, generation |-> t.generation]
      /\ slots' \in Seq(Element)
      /\ DOMAIN slots' = DOMAIN slots \cup {t.slot}
      /\ aOcc' = aOcc \cup {t.slot}
      /\ aGen' \in [DOMAIN slots' -> Nat]
      /\ \A i \in DOMAIN slots : aGen'[i] = aGen[i]
      /\ aGen'[t.slot] = t.generation
  BY AllocSlot
<1> HIDE DEF t
<1>2. t \in [slot : DOMAIN slots' \cup {0}, generation : Nat]
  BY <1>1
<1>3. aOcc \subseteq DOMAIN slots /\ aGen \in [DOMAIN slots -> Nat]
  <2>1. \A i \in DOMAIN slots : slots[i] \in Element
    BY DEF Lockstep, TypeOK
  <2> QED BY <2>1 DEF aOcc, aGen, Element
<1>4. /\ \A u \in aTags : u.slot \in DOMAIN slots \cup {0} /\ u.generation \in Nat
      /\ Past(DOMAIN slots, aOcc, aGen, aTags) /\ Covered(aOcc, aGen, aTags)
  BY DEF Lockstep, TypeOK, TagOf, Sides, aTags
<1>5. 0 \notin DOMAIN slots'
  <2>1. slots' \in Seq(Element)
    BY <1>1
  <2>2. DOMAIN slots' = 1 .. Len(slots') /\ Len(slots') \in Nat
    BY ONLY <2>1
  <2> QED BY <2>2
<1>6. Issue(DOMAIN slots, aOcc, aGen, aTags, 0, DOMAIN slots', aGen', t.slot, t)
  BY <1>1, <1>3, <1>4, <1>5 DEF Issue
<1>7. /\ t \notin aTags
      /\ Past(DOMAIN slots', aOcc \cup {t.slot}, aGen', aTags \cup {t})
      /\ Covered(aOcc \cup {t.slot}, aGen', aTags \cup {t})
      /\ Alive(aOcc \cup {t.slot}, aGen', t)
      /\ \A u \in aTags : /\ Alive(aOcc \cup {t.slot}, aGen', u)
                             <=> Alive(aOcc, aGen, u)
  BY <1>6, IssueOne
<1>8. \A u \in tags : aAlive(u)' <=> aAlive(u)
  BY <1>1, <1>7 DEF aAlive, aTags
<1> QED BY <1>1, <1>2, <1>7, <1>8 DEF t

(* When one runtime hands out a tag, so does the other: a `cop` that does  *)
(* not go wild finds a slot in both, and one that does finds both full.    *)
LEMMA CopTogether ==
    ASSUME Lockstep
    PROVE  /\ rFree = <<>> <=> S!FreeSlots = {}
           /\ R!bet_cop_tag = R!NullTag <=> rFree = <<>>
           /\ S!bet_cop_tag = S!NullTag <=> S!FreeSlots = {}
           /\ rFree = <<>> => Full
<1>1. /\ rFree \in Seq(R!Slots)
      /\ {rFree[i] : i \in DOMAIN rFree} = R!Slots \ rOcc
      /\ NullSlot \notin R!Slots /\ NullSlot \notin S!Slots
  <2>1. NullSlot \notin R!Slots /\ NullSlot \notin S!Slots
    BY ParityAssumption DEF R!Slots, S!Slots
  <2> QED BY <2>1 DEF Lockstep, TypeOK, FreeListExact
<1>2. rFree = <<>> <=> R!Slots \ rOcc = {}
  <2>1. CASE rFree = <<>>
    <3>1. DOMAIN rFree = {}
      BY <2>1
    <3> QED BY <1>1, <2>1, <3>1
  <2>2. CASE rFree # <<>>
    <3>1. 1 \in DOMAIN rFree
      BY <1>1, <2>2
    <3> QED BY <1>1, <2>2, <3>1
  <2> QED BY <2>1, <2>2
<1>3. S!FreeSlots = S!Slots \ sOcc
  BY DEF S!FreeSlots, sOcc
<1>4. rOcc \subseteq R!Slots /\ sOcc \subseteq S!Slots
  BY DEF rOcc, sOcc
<1>5. rFree = <<>> <=> S!FreeSlots = {}
  BY <1>2, <1>3, <1>4, FullTogether
<1>6. R!bet_cop_tag = R!NullTag <=> rFree = <<>>
  <2>1. CASE rFree # <<>>
    <3>1. Len(rFree) \in DOMAIN rFree
      BY <1>1, <2>1
    <3>2. rFree[Len(rFree)] \in R!Slots
      BY <1>1, <3>1
    <3> QED BY <1>1, <2>1, <3>2 DEF R!bet_cop_tag, R!NullTag
  <2> QED BY <2>1 DEF R!bet_cop_tag, R!NullTag
<1>7. S!bet_cop_tag = S!NullTag <=> S!FreeSlots = {}
  <2>1. CASE S!FreeSlots # {}
    <3>1. S!FirstFree \in S!Slots
      BY <2>1, FirstFreeIsFree DEF S!FreeSlots
    <3> QED BY <1>1, <2>1, <3>1 DEF S!bet_cop_tag, S!NullTag
  <2> QED BY <2>1 DEF S!bet_cop_tag, S!NullTag
<1>8. ASSUME rFree = <<>> PROVE Full
  <2>1. rOcc = R!Slots /\ sOcc = S!Slots /\ R!Slots = S!Slots
    BY <1>2, <1>3, <1>4, <1>5, <1>8 DEF R!Slots, S!Slots
  <2> QED BY <2>1 DEF Full, rOcc, sOcc
<1> QED BY <1>5, <1>6, <1>7, <1>8

LEMMA CopKeepsLockstep ==
    ASSUME Lockstep, NEW v \in Value, lower_cop(v)
    PROVE  LInv'
<1> DEFINE rt == R!bet_cop_tag
           st == S!bet_cop_tag
           at == A!alloc_tag
           new == [r |-> rt, s |-> st, a |-> at]
<1>1. /\ R!bet_cop /\ S!bet_cop /\ A!alloc(v)
      /\ rStore' = IF rt = R!NullTag THEN rStore ELSE [rStore EXCEPT ![rt.slot] = v]
      /\ sStore' = IF st = S!NullTag THEN sStore ELSE [sStore EXCEPT ![st.slot] = v]
      /\ wild' = (rt = R!NullTag \/ st = S!NullTag)
      /\ tags' = tags \cup {new}
      /\ open' = open /\ evicts' = evicts
  BY DEF lower_cop
<1>2. CASE rFree = <<>>
  <2>1. wild'
    BY <1>1, <1>2, CopTogether
  <2>2. Full
    BY <1>2, CopTogether
  <2>3. rOccupied' = rOccupied
    BY <1>1, <1>2 DEF R!bet_cop, R!metaVars
  <2>4. sOccupied' = sOccupied
    BY <1>1, <1>2, CopTogether DEF S!bet_cop
  <2> QED BY <2>1, <2>2, <2>3, <2>4 DEF LInv, Full, R!Slots
<1>3. CASE rFree # <<>>
  <2>1. ~wild' /\ S!FreeSlots # {} /\ rt # R!NullTag /\ st # S!NullTag
    BY <1>1, <1>3, CopTogether
  <2>2. /\ rt \in CribTag /\ rt.slot \in R!Slots \ rOcc /\ rt \notin rTags
        /\ rOccupied' \in [R!Slots -> BOOLEAN] /\ rGeneration' = rGeneration
        /\ rFree' \in Seq(R!Slots) /\ FreeListExact'
        /\ rOcc' = rOcc \cup {rt.slot}
        /\ Past(R!Slots, rOcc', rGeneration', rTags \cup {rt})
        /\ Covered(rOcc', rGeneration', rTags \cup {rt})
        /\ Alive(rOcc', rGeneration', rt)
        /\ \A u \in tags : rAlive(u)' <=> rAlive(u)
    BY <1>1, <1>3, CopInRuntime
  <2>3. /\ st \in CribTag /\ st.slot \in S!Slots \ sOcc /\ st \notin sTags
        /\ sOccupied' \in [S!Slots -> BOOLEAN] /\ sGeneration' = sGeneration
        /\ sOcc' = sOcc \cup {st.slot}
        /\ Past(S!Slots, sOcc', sGeneration', sTags \cup {st})
        /\ Covered(sOcc', sGeneration', sTags \cup {st})
        /\ Alive(sOcc', sGeneration', st)
        /\ \A u \in tags : sAlive(u)' <=> sAlive(u)
    BY <1>1, <2>1, CopInStub
  <2>4. /\ at \in [slot : DOMAIN slots' \cup {0}, generation : Nat] /\ at \notin aTags
        /\ Past(DOMAIN slots', aOcc', aGen', aTags \cup {at})
        /\ Covered(aOcc', aGen', aTags \cup {at})
        /\ Alive(aOcc', aGen', at)
        /\ \A u \in tags : aAlive(u)' <=> aAlive(u)
    BY <1>1, CopInInterpreter
  <2>5. slots' \in Seq(Element) /\ DOMAIN slots \subseteq DOMAIN slots'
    BY <1>1, AllocSlot
  <2> HIDE DEF rt, st, at
  <2>6. new.r = rt /\ new.s = st /\ new.a = at
    OBVIOUS
  <2>7. new \in TagOf(DOMAIN slots')
    BY <2>2, <2>3, <2>4 DEF TagOf
  <2> HIDE DEF new
  <2>14. PICK n : n = new
    OBVIOUS
  <2>8. TypeOK'
    <3>1. tags' \subseteq TagOf(DOMAIN slots')
      <4>1. tags \subseteq TagOf(DOMAIN slots')
        BY <2>5 DEF Lockstep, TypeOK, TagOf
      <4> QED BY <4>1, <2>7, <1>1
    <3>2. rStore' \in [R!Slots -> Value] /\ sStore' \in [S!Slots -> Value]
      BY <1>1 DEF Lockstep, TypeOK
    <3>3. open' \in Seq(Block')
      <4>1. Block \subseteq Block'
        BY <1>1 DEF Block
      <4>2. open \in Seq(Block)
        BY DEF Lockstep, TypeOK
      <4> QED BY <1>1, <4>1, <4>2
    <3> QED BY <1>1, <2>2, <2>3, <2>5, <3>1, <3>2, <3>3
            DEF Lockstep, TypeOK, R!Slots, S!Slots, TagOf, CribTag
  <2>9. NoWrap'
    BY <1>1, <2>2, <2>3 DEF Lockstep, NoWrap, R!Slots
  <2>10. rTags' = rTags \cup {rt} /\ sTags' = sTags \cup {st} /\ aTags' = aTags \cup {at}
    BY <1>1, <2>6 DEF rTags, sTags, aTags
  <2>11. Sides'
    BY <2>2, <2>3, <2>4, <2>10 DEF Sides, R!Slots, S!Slots
  <2>12. Distinct'
    <3>1. ASSUME NEW t \in tags PROVE t.r # rt /\ t.s # st /\ t.a # at
      BY <2>2, <2>3, <2>4 DEF rTags, sTags, aTags
    <3> QED BY <1>1, <2>6, <3>1 DEF Lockstep, Distinct
  <2>13. Same'
    <3>1. rAlive(n)' /\ sAlive(n)' /\ aAlive(n)'
      BY <2>2, <2>3, <2>4, <2>6, <2>14 DEF rAlive, sAlive, aAlive
    <3>2. ASSUME NEW t \in tags
          PROVE  (rAlive(t)' <=> sAlive(t)') /\ (sAlive(t)' <=> aAlive(t)')
      <4>1. (rAlive(t) <=> sAlive(t)) /\ (sAlive(t) <=> aAlive(t))
        BY DEF Lockstep, Same
      <4>2. (rAlive(t)' <=> rAlive(t)) /\ (sAlive(t)' <=> sAlive(t)) /\ (aAlive(t)' <=> aAlive(t))
        BY <2>2, <2>3, <2>4
      <4> QED BY <4>1, <4>2
    <3>3. tags' = tags \cup {n}
      BY <1>1, <2>14
    <3> QED BY <3>1, <3>2, <3>3 DEF Same
  <2> QED BY <2>1, <2>2, <2>8, <2>9, <2>11, <2>12, <2>13 DEF LInv, Lockstep
<1> QED BY <1>2, <1>3

-----------------------------------------------------------------------------
(* Reclaims.  One that takes the same tags' elements in the three          *)
(* executions keeps them in lockstep.                                      *)
LEMMA ReclaimTogether ==
    ASSUME Lockstep,
           NEW Er \in SUBSET R!Slots, rOcc' = rOcc \ Er,
           NEW Es \in SUBSET S!Slots, sOcc' = sOcc \ Es,
           NEW Ea \in SUBSET DOMAIN slots, aOcc' = aOcc \ Ea,
           DOMAIN slots' = DOMAIN slots,
           Bumped(R!Slots, rGeneration, Er, rGeneration'),
           Bumped(S!Slots, sGeneration, Es, sGeneration'),
           Bumped(DOMAIN slots, aGen, Ea, aGen'),
           TypeOK', FreeListExact', tags' = tags, evicts' = evicts + 1,
           \A t \in tags : aAlive(t) => /\ t.r.slot \in Er <=> t.s.slot \in Es
                                        /\ t.s.slot \in Es <=> t.a.slot \in Ea
    PROVE  /\ Lockstep'
           /\ \A t \in tags : aAlive(t)' <=> aAlive(t) /\ t.a.slot \notin Ea
<1>1. /\ rOcc \subseteq R!Slots /\ rGeneration \in [R!Slots -> Nat]
      /\ sOcc \subseteq S!Slots /\ sGeneration \in [S!Slots -> Nat]
  BY DEF Lockstep, TypeOK, rOcc, sOcc
<1>2. aOcc \subseteq DOMAIN slots /\ aGen \in [DOMAIN slots -> Nat]
  <2>1. \A i \in DOMAIN slots : slots[i] \in Element
    BY DEF Lockstep, TypeOK
  <2> QED BY <2>1 DEF aOcc, aGen, Element
<1>3. Reclaimed(R!Slots, rOcc, rGeneration, rTags, Er, rGeneration')
  <2>2. \A t \in rTags : t.generation \in Nat
    BY DEF Lockstep, TypeOK, TagOf, CribTag, rTags
  <2> QED BY <1>1, <2>2 DEF Reclaimed, Lockstep, Sides
<1>4. Reclaimed(S!Slots, sOcc, sGeneration, sTags, Es, sGeneration')
  <2>2. \A t \in sTags : t.generation \in Nat
    BY DEF Lockstep, TypeOK, TagOf, CribTag, sTags
  <2> QED BY <1>1, <2>2 DEF Reclaimed, Lockstep, Sides
<1>5. Reclaimed(DOMAIN slots, aOcc, aGen, aTags, Ea, aGen')
  <2>2. \A t \in aTags : t.generation \in Nat
    BY DEF Lockstep, TypeOK, TagOf, aTags
  <2> QED BY <1>2, <2>2 DEF Reclaimed, Lockstep, Sides
<1>6. rTags' = rTags /\ sTags' = sTags /\ aTags' = aTags
  BY DEF rTags, sTags, aTags
<1>7. Sides'
  <2>1. Past(R!Slots, rOcc', rGeneration', rTags) /\ Covered(rOcc', rGeneration', rTags)
    BY <1>3, ReclaimSome
  <2>2. Past(S!Slots, sOcc', sGeneration', sTags) /\ Covered(sOcc', sGeneration', sTags)
    BY <1>4, ReclaimSome
  <2>3. Past(DOMAIN slots, aOcc', aGen', aTags) /\ Covered(aOcc', aGen', aTags)
    BY <1>5, ReclaimSome
  <2> QED BY <1>6, <2>1, <2>2, <2>3 DEF Sides, R!Slots, S!Slots
<1>8. ASSUME NEW t \in tags
      PROVE  /\ rAlive(t)' <=> rAlive(t) /\ t.r.slot \notin Er
             /\ sAlive(t)' <=> sAlive(t) /\ t.s.slot \notin Es
             /\ aAlive(t)' <=> aAlive(t) /\ t.a.slot \notin Ea
  <2>1. t.r \in rTags /\ t.s \in sTags /\ t.a \in aTags
    BY DEF rTags, sTags, aTags
  <2>2. Alive(rOcc', rGeneration', t.r) <=> Alive(rOcc, rGeneration, t.r) /\ t.r.slot \notin Er
    <3>1. \A u \in rTags : /\ Alive(rOcc \ Er, rGeneration', u)
                               <=> Alive(rOcc, rGeneration, u) /\ u.slot \notin Er
      BY <1>3, ReclaimSome
    <3> QED BY <2>1, <3>1
  <2>3. Alive(sOcc', sGeneration', t.s) <=> Alive(sOcc, sGeneration, t.s) /\ t.s.slot \notin Es
    <3>1. \A u \in sTags : /\ Alive(sOcc \ Es, sGeneration', u)
                               <=> Alive(sOcc, sGeneration, u) /\ u.slot \notin Es
      BY <1>4, ReclaimSome
    <3> QED BY <2>1, <3>1
  <2>4. Alive(aOcc', aGen', t.a) <=> Alive(aOcc, aGen, t.a) /\ t.a.slot \notin Ea
    <3>1. \A u \in aTags : /\ Alive(aOcc \ Ea, aGen', u)
                               <=> Alive(aOcc, aGen, u) /\ u.slot \notin Ea
      BY ONLY <1>5, ReclaimSome
    <3> QED BY <2>1, <3>1
  <2> QED BY <2>2, <2>3, <2>4 DEF rAlive, sAlive, aAlive
<1>9. Same'
  <2>1. ASSUME NEW t \in tags
        PROVE  (rAlive(t)' <=> sAlive(t)') /\ (sAlive(t)' <=> aAlive(t)')
    <3>1. (rAlive(t) <=> sAlive(t)) /\ (sAlive(t) <=> aAlive(t))
      BY DEF Lockstep, Same
    <3> QED BY <1>8, <3>1
  <2> QED BY <2>1 DEF Same
<1>10. Distinct'
  BY DEF Lockstep, Distinct
<1>11. NoWrap'
  <2>1. evicts \in Int
    BY DEF Lockstep, TypeOK
  <2> SUFFICES ASSUME NEW s \in R!Slots
               PROVE  rGeneration'[s] <= evicts + 1 /\ sGeneration'[s] <= evicts + 1
    BY DEF NoWrap, R!Slots
  <2>2. s \in S!Slots /\ rGeneration[s] \in Nat /\ sGeneration[s] \in Nat
    BY <1>1 DEF R!Slots, S!Slots
  <2>3. rGeneration[s] <= evicts /\ sGeneration[s] <= evicts
    BY DEF Lockstep, NoWrap
  <2>4. /\ rGeneration'[s] \in Nat /\ rGeneration'[s] <= rGeneration[s] + 1
        /\ sGeneration'[s] \in Nat /\ sGeneration'[s] <= sGeneration[s] + 1
    BY <2>2 DEF Bumped
  <2> QED BY <2>1, <2>2, <2>3, <2>4
<1> QED BY <1>7, <1>8, <1>9, <1>10, <1>11 DEF Lockstep

(* The counters are too far from their end for a reclaim to wrap one.      *)
LEMMA NextGeneration ==
    ASSUME Lockstep, evicts < MaxEvicts, NEW s \in R!Slots
    PROVE  /\ R!wrapping_add(rGeneration[s]) = rGeneration[s] + 1
           /\ S!wrapping_add(sGeneration[s]) = sGeneration[s] + 1
<1>1. s \in S!Slots
  BY DEF R!Slots, S!Slots
<1>2. /\ rGeneration[s] \in Nat /\ rGeneration[s] <= evicts
      /\ sGeneration[s] \in Nat /\ sGeneration[s] <= evicts
      /\ evicts \in Nat
  BY <1>1 DEF Lockstep, TypeOK, NoWrap
<1> QED BY <1>2, ParityAssumption DEF R!wrapping_add, S!wrapping_add

(* The list bet_crib_new and bet_evict build holds every slot once.        *)
LEMMA RuntimeAllFree ==
    /\ R!AllFree \in Seq(R!Slots)
    /\ \A i, j \in DOMAIN R!AllFree : R!AllFree[i] = R!AllFree[j] => i = j
    /\ {R!AllFree[i] : i \in DOMAIN R!AllFree} = R!Slots
<1> USE ParityAssumption DEF R!AllFree, R!Slots
<1>1. R!AllFree \in Seq(R!Slots)
  OBVIOUS
<1>2. \A i, j \in DOMAIN R!AllFree : R!AllFree[i] = R!AllFree[j] => i = j
  OBVIOUS
<1>3. ASSUME NEW i \in DOMAIN R!AllFree PROVE R!AllFree[i] \in R!Slots
  OBVIOUS
<1>4. ASSUME NEW s \in R!Slots PROVE s \in {R!AllFree[i] : i \in DOMAIN R!AllFree}
  <2>1. s + 1 \in DOMAIN R!AllFree /\ R!AllFree[s + 1] = s
    OBVIOUS
  <2> QED BY <2>1
<1> QED BY <1>1, <1>2, <1>3, <1>4

(* What both evicts of the interpreter do to an element. *)
LEMMA ReclaimedElement ==
    ASSUME NEW e \in Element
    PROVE  LET f == [e EXCEPT !.generation = @ + 1, !.live = FALSE] IN
           /\ f \in Element /\ ~f.live
           /\ f.generation = e.generation + 1 /\ f.value = e.value
<1> DEFINE f == [e EXCEPT !.generation = @ + 1, !.live = FALSE]
<1>1. e.generation + 1 \in Nat
  BY DEF Element
<1>2. f \in Element
  BY <1>1 DEF Element
<1>3. ~f.live
  BY DEF Element
<1>4. f.generation = e.generation + 1
  BY DEF Element
<1>5. f.value = e.value
  BY DEF Element
<1> QED BY <1>2, <1>3, <1>4, <1>5

(* `evict` of the whole crib. *)
LEMMA EvictAllKeepsLockstep ==
    ASSUME Lockstep, EvictAll, evicts < MaxEvicts
    PROVE  Lockstep' /\ \A t \in tags : ~aAlive(t)'
<1> USE DEF EvictAll
<1>1. /\ rOccupied \in [R!Slots -> BOOLEAN] /\ rGeneration \in [R!Slots -> Nat]
      /\ sOccupied \in [S!Slots -> BOOLEAN] /\ sGeneration \in [S!Slots -> Nat]
      /\ slots \in Seq(Element) /\ evicts \in Nat
  BY DEF Lockstep, TypeOK
<1>2. /\ rOccupied' = [s \in R!Slots |-> FALSE]
      /\ rGeneration' = [s \in R!Slots |-> R!wrapping_add(rGeneration[s])]
      /\ rFree' = R!AllFree /\ rStore' = rStore
  BY DEF R!bet_evict
<1>3. /\ sOccupied' = [s \in S!Slots |-> FALSE]
      /\ sGeneration' = [s \in S!Slots |-> S!wrapping_add(sGeneration[s])]
      /\ sStore' = sStore
  BY DEF S!bet_evict
<1>4. slots' = [i \in DOMAIN slots |-> [slots[i] EXCEPT !.generation = @ + 1, !.live = FALSE]]
  BY DEF A!evict
<1>5. /\ slots' \in Seq(Element) /\ DOMAIN slots' = DOMAIN slots
      /\ \A i \in DOMAIN slots : /\ ~slots'[i].live
                                 /\ slots'[i].generation = slots[i].generation + 1
  <2>1. \A i \in DOMAIN slots : slots[i] \in Element
    BY <1>1
  <2>2. \A i \in DOMAIN slots : /\ slots'[i] \in Element
                                /\ ~slots'[i].live
                                /\ slots'[i].generation = slots[i].generation + 1
    <3> SUFFICES ASSUME NEW i \in DOMAIN slots
                 PROVE  /\ slots'[i] \in Element
                        /\ ~slots'[i].live
                        /\ slots'[i].generation = slots[i].generation + 1
      OBVIOUS
    <3>1. slots'[i] = [slots[i] EXCEPT !.generation = @ + 1, !.live = FALSE]
      BY <1>4
    <3> QED BY <2>1, <3>1, ReclaimedElement
  <2>3. DOMAIN slots' = DOMAIN slots
    BY <1>4
  <2>4. DOMAIN slots = 1 .. Len(slots) /\ Len(slots) \in Nat
    BY <1>1
  <2>5. slots' \in [1 .. Len(slots) -> Element]
    BY <1>4, <2>2, <2>4
  <2>6. slots' \in Seq(Element)
    BY <2>4, <2>5
  <2> QED BY <2>2, <2>3, <2>6
<1> DEFINE Ea == DOMAIN slots
<1>6. rOcc' = rOcc \ R!Slots /\ sOcc' = sOcc \ S!Slots /\ aOcc' = aOcc \ Ea
  <2>1. rOcc' = {} /\ sOcc' = {}
    BY <1>2, <1>3 DEF rOcc, sOcc, R!Slots, S!Slots
  <2>2. aOcc' = {}
    BY <1>5 DEF aOcc
  <2> QED BY <2>1, <2>2 DEF rOcc, sOcc, aOcc
<1>7. /\ Bumped(R!Slots, rGeneration, R!Slots, rGeneration')
      /\ Bumped(S!Slots, sGeneration, S!Slots, sGeneration')
  <2>1. R!Slots = S!Slots
    BY DEF R!Slots, S!Slots
  <2>2. \A d \in R!Slots : /\ R!wrapping_add(rGeneration[d]) = rGeneration[d] + 1
                           /\ S!wrapping_add(sGeneration[d]) = sGeneration[d] + 1
    BY NextGeneration
  <2> QED BY <1>1, <1>2, <1>3, <2>1, <2>2 DEF Bumped
<1>8. Bumped(DOMAIN slots, aGen, Ea, aGen')
  <2>1. \A d \in DOMAIN slots : slots[d] \in Element
    BY <1>1
  <2>2. \A d \in DOMAIN slots : slots[d].generation \in Nat
    BY <2>1 DEF Element
  <2> QED BY <1>5, <2>2 DEF aGen, Bumped
<1>9. R!AllFree \in Seq(R!Slots) /\ FreeListExact'
  <2>1. /\ R!AllFree \in Seq(R!Slots)
        /\ \A i, j \in DOMAIN R!AllFree : R!AllFree[i] = R!AllFree[j] => i = j
        /\ {R!AllFree[i] : i \in DOMAIN R!AllFree} = R!Slots
    BY RuntimeAllFree
  <2> QED BY <1>2, <1>6, <2>1 DEF FreeListExact, rOcc, R!Slots
<1>10. TypeOK'
  <2>1. /\ rOccupied' \in [R!Slots -> BOOLEAN] /\ sOccupied' \in [S!Slots -> BOOLEAN]
        /\ rGeneration' \in [R!Slots -> Nat] /\ sGeneration' \in [S!Slots -> Nat]
    BY <1>1, <1>2, <1>3, <1>7 DEF Bumped
  <2>2. evicts' = evicts + 1 /\ evicts' \in 0 .. MaxEvicts
    BY <1>1, ParityAssumption
  <2>3. open' \in Seq(Block')
    BY DEF Lockstep, TypeOK, Block
  <2> QED BY <1>2, <1>3, <1>5, <1>9, <2>1, <2>2, <2>3
          DEF Lockstep, TypeOK, R!Slots, S!Slots, TagOf, CribTag
<1>11. \A t \in tags : aAlive(t) => /\ t.r.slot \in R!Slots <=> t.s.slot \in S!Slots
                                    /\ t.s.slot \in S!Slots <=> t.a.slot \in Ea
  BY AliveTag DEF rOcc, sOcc, aOcc
<1>12. tags' = tags /\ evicts' = evicts + 1
  OBVIOUS
<1> HIDE DEF EvictAll
<1>13. /\ Lockstep'
       /\ \A t \in tags : aAlive(t)' <=> aAlive(t) /\ t.a.slot \notin Ea
  BY <1>5, <1>6, <1>7, <1>8, <1>9, <1>10, <1>11, <1>12, ReclaimTogether
<1> QED BY <1>13, AliveTag DEF aOcc

(* `evict` of one element, by its tag. *)
LEMMA EvictInInterpreter ==
    ASSUME Lockstep, NEW t \in tags, aAlive(t), A!evict_slot(t.a)
    PROVE  LET n == t.a.slot IN
           /\ n \in DOMAIN slots
           /\ slots' \in Seq(Element) /\ DOMAIN slots' = DOMAIN slots
           /\ ~slots'[n].live /\ slots'[n].generation = slots[n].generation + 1
           /\ slots'[n].value = slots[n].value
           /\ \A i \in DOMAIN slots : i # n => slots'[i] = slots[i]
<1> DEFINE n == t.a.slot
           e == slots[n]
<1>1. slots \in Seq(Element) /\ n \in DOMAIN slots
  BY DEF Lockstep, TypeOK, aAlive, Alive, aOcc
<1>2. A!IsCurrent(t.a)
  BY ChecksFindAlive
<1>3. slots' = [slots EXCEPT ![n].live = FALSE, ![n].generation = @ + 1]
  BY <1>2 DEF A!evict_slot
<1>4. e \in Element /\ e.generation + 1 \in Nat
  <2>1. e \in Element
    BY <1>1
  <2> QED BY <2>1 DEF Element
<1>5. slots'[n] \in Element
  BY <1>1, <1>3, <1>4 DEF Element
<1>6. ~slots'[n].live
  BY <1>1, <1>3, <1>4 DEF Element
<1>7. slots'[n].generation = e.generation + 1
  BY <1>1, <1>3, <1>4 DEF Element
<1>8. slots'[n].value = e.value
  BY <1>1, <1>3, <1>4 DEF Element
<1>9. DOMAIN slots' = DOMAIN slots /\ \A i \in DOMAIN slots : i # n => slots'[i] = slots[i]
  BY <1>1, <1>3
<1>10. slots' \in Seq(Element)
  <2>1. DOMAIN slots = 1 .. Len(slots) /\ Len(slots) \in Nat
    BY <1>1
  <2>2. \A i \in DOMAIN slots : slots'[i] \in Element
    BY <1>1, <1>5, <1>9
  <2>3. slots' \in [1 .. Len(slots) -> Element]
    BY <1>3, <2>1, <2>2
  <2> QED BY <2>1, <2>3
<1> QED BY <1>1, <1>6, <1>7, <1>8, <1>9, <1>10

LEMMA EvictOneKeepsLockstep ==
    ASSUME Lockstep, NEW t \in tags, aAlive(t), EvictOne(t), evicts < MaxEvicts
    PROVE  Lockstep' /\ \A u \in tags : aAlive(u)' <=> aAlive(u) /\ u # t
<1> DEFINE Er == {t.r.slot}
           Es == {t.s.slot}
           Ea == {t.a.slot}
<1>1. /\ rOccupied \in [R!Slots -> BOOLEAN] /\ rGeneration \in [R!Slots -> Nat]
      /\ sOccupied \in [S!Slots -> BOOLEAN] /\ sGeneration \in [S!Slots -> Nat]
      /\ rFree \in Seq(R!Slots)
      /\ slots \in Seq(Element) /\ evicts \in Nat
  BY DEF Lockstep, TypeOK
<1>2. /\ rAlive(t) /\ sAlive(t) /\ t.r.slot \in rOcc /\ t.s.slot \in sOcc /\ t.a.slot \in aOcc
      /\ \A u \in tags : /\ rAlive(u) \/ sAlive(u) \/ aAlive(u)
                         /\ \/ u.r.slot = t.r.slot
                            \/ u.s.slot = t.s.slot
                            \/ u.a.slot = t.a.slot
                         => u = t
  BY AliveTag
<1>3. /\ t.r.slot \in R!Slots /\ t.s.slot \in S!Slots /\ t.s.slot \in R!Slots
      /\ t.a.slot \in DOMAIN slots
  BY <1>2 DEF rOcc, sOcc, aOcc, R!Slots, S!Slots
<1>4. /\ rOccupied' = [rOccupied EXCEPT ![t.r.slot] = FALSE]
      /\ rGeneration' = [rGeneration EXCEPT ![t.r.slot] = R!wrapping_add(@)]
      /\ rFree' = Append(rFree, t.r.slot) /\ rStore' = rStore
  <2>1. R!IsLive(t.r)
    BY <1>2, ChecksFindAlive
  <2> QED BY <2>1 DEF EvictOne, R!bet_evict_slot, R!Reclaim
<1>5. /\ sOccupied' = [sOccupied EXCEPT ![t.s.slot] = FALSE]
      /\ sGeneration' = [sGeneration EXCEPT ![t.s.slot] = S!wrapping_add(@)]
      /\ sStore' = sStore
  <2>1. S!IsLive(t.s)
    BY <1>2, ChecksFindAlive
  <2> QED BY <2>1 DEF EvictOne, S!bet_evict_slot
<1>6. LET n == t.a.slot IN
      /\ slots' \in Seq(Element) /\ DOMAIN slots' = DOMAIN slots
      /\ ~slots'[n].live /\ slots'[n].generation = slots[n].generation + 1
      /\ \A i \in DOMAIN slots : i # n => slots'[i] = slots[i]
  BY EvictInInterpreter DEF EvictOne
<1>7. rOcc' = rOcc \ Er
  BY <1>1, <1>3, <1>4 DEF rOcc, R!Slots
<1>8. sOcc' = sOcc \ Es
  BY <1>1, <1>3, <1>5 DEF sOcc, S!Slots
<1>9. aOcc' = aOcc \ Ea
  BY <1>3, <1>6 DEF aOcc
<1>10. /\ Bumped(R!Slots, rGeneration, Er, rGeneration')
       /\ Bumped(S!Slots, sGeneration, Es, sGeneration')
  <2>1. PICK a \in R!Slots, b \in R!Slots : a = t.r.slot /\ b = t.s.slot
    BY <1>3
  <2>2. /\ R!wrapping_add(rGeneration[a]) = rGeneration[a] + 1
        /\ S!wrapping_add(sGeneration[b]) = sGeneration[b] + 1
    BY NextGeneration
  <2>3. Bumped(R!Slots, rGeneration, {a}, rGeneration')
    BY <1>1, <1>4, <2>1, <2>2 DEF Bumped
  <2>4. Bumped(S!Slots, sGeneration, {b}, sGeneration')
    <3>1. b \in S!Slots
      BY <1>3, <2>1
    <3> QED BY <1>1, <1>5, <2>1, <2>2, <3>1 DEF Bumped
  <2> QED BY <2>1, <2>3, <2>4
<1>11. Bumped(DOMAIN slots, aGen, Ea, aGen')
  <2>1. \A d \in DOMAIN slots : slots[d].generation \in Nat
    <3>1. \A d \in DOMAIN slots : slots[d] \in Element
      BY <1>1
    <3> QED BY <3>1 DEF Element
  <2> QED BY <1>3, <1>6, <2>1 DEF aGen, Bumped
<1>12. rFree' \in Seq(R!Slots) /\ FreeListExact'
  <2>1. /\ \A i, j \in DOMAIN rFree : rFree[i] = rFree[j] => i = j
        /\ {rFree[i] : i \in DOMAIN rFree} = R!Slots \ rOcc
    BY DEF Lockstep, FreeListExact
  <2>2. t.r.slot \notin {rFree[i] : i \in DOMAIN rFree}
    BY <1>2, <2>1
  <2>6. PICK s \in R!Slots : s = t.r.slot
    BY <1>3
  <2>7. rFree \in Seq(R!Slots) /\ s \notin {rFree[i] : i \in DOMAIN rFree}
    BY <1>1, <2>2, <2>6
  <2> DEFINE q == Append(rFree, s)
  <2>3. /\ q \in Seq(R!Slots)
        /\ \A i, j \in DOMAIN q : q[i] = q[j] => i = j
        /\ {q[i] : i \in DOMAIN q} = {rFree[i] : i \in DOMAIN rFree} \cup {s}
    BY <2>1, <2>7, PushNew
  <2>4. rFree' = q
    BY <1>4, <2>6
  <2> HIDE DEF q
  <2>5. {rFree'[i] : i \in DOMAIN rFree'} = (R!Slots \ rOcc')
    <3>1. rOcc' = rOcc \ {s} /\ s \in rOcc
      BY <1>2, <1>7, <2>6
    <3>2. {q[i] : i \in DOMAIN q} = (R!Slots \ rOcc) \cup {s}
      BY <2>1, <2>3
    <3>3. (R!Slots \ rOcc) \cup {s} = R!Slots \ (rOcc \ {s})
      BY <2>6, <3>1
    <3> QED BY <2>4, <3>1, <3>2, <3>3
  <2> QED BY <2>3, <2>4, <2>5 DEF FreeListExact, R!Slots
<1>13. TypeOK'
  <2>1. /\ rOccupied' \in [R!Slots -> BOOLEAN] /\ sOccupied' \in [S!Slots -> BOOLEAN]
        /\ rGeneration' \in [R!Slots -> Nat] /\ sGeneration' \in [S!Slots -> Nat]
    <3>1. rOccupied' \in [R!Slots -> BOOLEAN] /\ sOccupied' \in [S!Slots -> BOOLEAN]
      BY <1>1, <1>4, <1>5
    <3>2. rGeneration' \in [R!Slots -> Nat]
      BY <1>1, <1>10 DEF Bumped
    <3>3. sGeneration' \in [S!Slots -> Nat]
      BY <1>1, <1>10 DEF Bumped
    <3> QED BY <3>1, <3>2, <3>3
  <2>2. evicts' = evicts + 1 /\ evicts' \in 0 .. MaxEvicts
    BY <1>1, ParityAssumption DEF EvictOne
  <2>3. open' \in Seq(Block')
    BY DEF EvictOne, Lockstep, TypeOK, Block
  <2> QED BY <1>4, <1>5, <1>6, <1>12, <2>1, <2>2, <2>3
          DEF EvictOne, Lockstep, TypeOK, R!Slots, S!Slots, TagOf, CribTag
<1>14. \A u \in tags : aAlive(u) => /\ u.r.slot \in Er <=> u.s.slot \in Es
                                    /\ u.s.slot \in Es <=> u.a.slot \in Ea
  BY <1>2
<1>15. tags' = tags /\ evicts' = evicts + 1
  BY DEF EvictOne
<1>16. Er \in SUBSET R!Slots /\ Es \in SUBSET S!Slots /\ Ea \in SUBSET DOMAIN slots
  BY <1>3
<1> HIDE DEF Er, Es, Ea
<1>17. /\ Lockstep'
       /\ \A u \in tags : aAlive(u)' <=> aAlive(u) /\ u.a.slot \notin Ea
  BY <1>6, <1>7, <1>8, <1>9, <1>10, <1>11, <1>12, <1>13, <1>14, <1>15, <1>16, ReclaimTogether
<1>18. \A u \in tags : aAlive(u) => (u.a.slot \in Ea <=> u = t)
  BY <1>2 DEF Ea
<1> QED BY <1>17, <1>18

(* A stale tag is stale in the three executions: evicting by it does       *)
(* nothing.                                                                *)
LEMMA EvictStale ==
    ASSUME Lockstep, NEW t \in tags, ~aAlive(t), EvictOne(t)
    PROVE  UNCHANGED <<rVars, sVars, slots, tags, open, wild, cops>>
<1>1. ~R!IsLive(t.r) /\ ~S!IsLive(t.s) /\ ~A!IsCurrent(t.a)
  BY ChecksFindAlive, AliveTag
<1> QED BY <1>1 DEF EvictOne, R!bet_evict_slot, S!bet_evict_slot, A!evict_slot,
                    R!cribVars, S!cribVars, rVars, sVars

-----------------------------------------------------------------------------
(* The other steps change only what elements hold and which blocks are     *)
(* open.                                                                   *)
LEMMA QuietKeepsLockstep ==
    ASSUME Lockstep,
           UNCHANGED <<rOccupied, rGeneration, rFree, sOccupied, sGeneration, tags, evicts>>,
           rStore' \in [R!Slots -> Value], sStore' \in [S!Slots -> Value],
           slots' \in Seq(Element), DOMAIN slots' = DOMAIN slots,
           aOcc' = aOcc, aGen' = aGen,
           open' \in Seq(Block)
    PROVE  Lockstep' /\ \A u \in tags : aAlive(u)' <=> aAlive(u)
<1>1. rOcc' = rOcc /\ sOcc' = sOcc
  BY DEF rOcc, sOcc, R!Slots, S!Slots
<1>2. rTags' = rTags /\ sTags' = sTags /\ aTags' = aTags
  BY DEF rTags, sTags, aTags
<1>3. TypeOK'
  BY DEF Lockstep, TypeOK, R!Slots, S!Slots, TagOf, CribTag, Block
<1>4. NoWrap' /\ FreeListExact' /\ Distinct'
  BY <1>1 DEF Lockstep, NoWrap, FreeListExact, Distinct, R!Slots
<1>5. Sides'
  BY <1>1, <1>2 DEF Lockstep, Sides, R!Slots, S!Slots
<1>6. \A u \in tags : /\ rAlive(u)' <=> rAlive(u)
                      /\ sAlive(u)' <=> sAlive(u)
                      /\ aAlive(u)' <=> aAlive(u)
  BY <1>1 DEF rAlive, sAlive, aAlive
<1>7. Same'
  <2>1. ASSUME NEW t \in tags
        PROVE  (rAlive(t)' <=> sAlive(t)') /\ (sAlive(t)' <=> aAlive(t)')
    <3>1. (rAlive(t) <=> sAlive(t)) /\ (sAlive(t) <=> aAlive(t))
      BY DEF Lockstep, Same
    <3> QED BY <1>6, <3>1
  <2> QED BY <2>1 DEF Same
<1> QED BY <1>3, <1>4, <1>5, <1>6, <1>7 DEF Lockstep

(* Nothing of an execution changes but the list of open blocks.            *)
LEMMA OpenKeepsLockstep ==
    ASSUME Lockstep, UNCHANGED <<rVars, sVars, slots, tags, evicts>>,
           open' \in Seq(Block)
    PROVE  Lockstep' /\ \A u \in tags : aAlive(u)' <=> aAlive(u)
<1>1. aOcc' = aOcc /\ aGen' = aGen
  BY DEF aOcc, aGen
<1>2. /\ UNCHANGED <<rOccupied, rGeneration, rFree, sOccupied, sGeneration, tags, evicts>>
      /\ UNCHANGED <<rStore, sStore, slots>>
  BY DEF rVars, sVars
<1>3. /\ rStore' \in [R!Slots -> Value] /\ sStore' \in [S!Slots -> Value]
      /\ slots' \in Seq(Element) /\ DOMAIN slots' = DOMAIN slots
  BY <1>2 DEF Lockstep, TypeOK
<1> QED BY <1>1, <1>2, <1>3, QuietKeepsLockstep

(* An eviction by a stale tag is counted, and nothing else.                *)
LEMMA CountKeepsLockstep ==
    ASSUME Lockstep, UNCHANGED <<rVars, sVars, slots, tags, open>>,
           evicts' = evicts + 1, evicts' \in 0 .. MaxEvicts
    PROVE  Lockstep' /\ \A u \in tags : aAlive(u)' <=> aAlive(u)
<1>1. /\ rOcc' = rOcc /\ sOcc' = sOcc /\ aOcc' = aOcc /\ aGen' = aGen
      /\ rTags' = rTags /\ sTags' = sTags /\ aTags' = aTags
      /\ rGeneration' = rGeneration /\ sGeneration' = sGeneration
  BY DEF rOcc, sOcc, aOcc, aGen, rTags, sTags, aTags, rVars, sVars, R!Slots, S!Slots
<1>2. TypeOK'
  BY DEF Lockstep, TypeOK, rVars, sVars, R!Slots, S!Slots, TagOf, CribTag, Block
<1>3. NoWrap'
  <2> SUFFICES ASSUME NEW s \in R!Slots
               PROVE  rGeneration[s] <= evicts + 1 /\ sGeneration[s] <= evicts + 1
    BY <1>1 DEF NoWrap, R!Slots
  <2>1. rGeneration[s] \in Nat /\ sGeneration[s] \in Nat /\ evicts \in Nat
    <3>1. s \in S!Slots
      BY DEF R!Slots, S!Slots
    <3> QED BY <3>1 DEF Lockstep, TypeOK
  <2> QED BY <2>1 DEF Lockstep, NoWrap
<1>4. FreeListExact' /\ Distinct'
  BY <1>1 DEF Lockstep, FreeListExact, Distinct, rVars, R!Slots
<1>5. Sides'
  BY <1>1 DEF Lockstep, Sides, R!Slots, S!Slots
<1>6. \A u \in tags : /\ rAlive(u)' <=> rAlive(u)
                      /\ sAlive(u)' <=> sAlive(u)
                      /\ aAlive(u)' <=> aAlive(u)
  BY <1>1 DEF rAlive, sAlive, aAlive
<1>7. Same'
  <2>1. ASSUME NEW t \in tags
        PROVE  (rAlive(t)' <=> sAlive(t)') /\ (sAlive(t)' <=> aAlive(t)')
    <3>1. (rAlive(t) <=> sAlive(t)) /\ (sAlive(t) <=> aAlive(t))
      BY DEF Lockstep, Same
    <3> QED BY <1>6, <3>1
  <2> QED BY <2>1 DEF Same
<1> QED BY <1>2, <1>3, <1>4, <1>5, <1>6, <1>7 DEF Lockstep

(* A live `holla` opens a block on what the interpreter holds.             *)
LEMMA HollaKeepsLockstep ==
    ASSUME Lockstep, NEW t \in tags, exec_holla(t)
    PROVE  Lockstep' /\ \A u \in tags : aAlive(u)' <=> aAlive(u)
<1>1. open \in Seq(Block) /\ slots \in Seq(Element)
  BY DEF Lockstep, TypeOK
<1>2. open' \in Seq(Block)
  <2>1. CASE R!IsLive(t.r) /\ S!IsLive(t.s) /\ A!IsCurrent(t.a)
    <3> DEFINE e == slots[t.a.slot].value
    <3>1. A!resolve(t.a) = e
      BY <2>1 DEF A!resolve
    <3>2. e \in Value
      <4>1. slots[t.a.slot] \in Element
        BY <1>1, <2>1 DEF A!IsCurrent
      <4> QED BY <4>1 DEF Element
    <3>3. open' = Append(open, [tag |-> t, snapshot |-> e, binding |-> e])
      BY <2>1, <3>1 DEF exec_holla, Seen
    <3>4. [tag |-> t, snapshot |-> e, binding |-> e] \in Block
      BY <3>2 DEF Block
    <3> QED BY <1>1, <3>3, <3>4
  <2>2. CASE ~(R!IsLive(t.r) /\ S!IsLive(t.s) /\ A!IsCurrent(t.a))
    <3>1. open' = open
      BY <2>2 DEF exec_holla, Seen
    <3> QED BY <1>1, <3>1
  <2> QED BY <2>1, <2>2
<1> QED BY <1>2, OpenKeepsLockstep DEF exec_holla

LEMMA WriteKeepsLockstep ==
    ASSUME Lockstep, NEW i \in DOMAIN open, NEW v \in Value, WriteBinding(i, v)
    PROVE  Lockstep' /\ \A u \in tags : aAlive(u)' <=> aAlive(u)
<1>1. open \in Seq(Block)
  BY DEF Lockstep, TypeOK
<1>2. open' \in Seq(Block)
  <2>1. open[i] \in Block
    BY <1>1
  <2>2. [open[i] EXCEPT !.binding = v] \in Block
    BY <2>1 DEF Block
  <2>3. open' = [open EXCEPT ![i] = [open[i] EXCEPT !.binding = v]]
    BY DEF WriteBinding
  <2> QED BY <1>1, <2>2, <2>3
<1>3. rStore' \in [R!Slots -> Value] /\ sStore' \in [S!Slots -> Value]
  BY DEF Lockstep, TypeOK, WriteBinding, R!WriteSlot
<1>4. /\ UNCHANGED <<rOccupied, rGeneration, rFree, sOccupied, sGeneration, tags, evicts>>
      /\ UNCHANGED slots
  BY DEF WriteBinding, R!WriteSlot
<1>5. aOcc' = aOcc /\ aGen' = aGen
  BY <1>4 DEF aOcc, aGen
<1>6. slots' \in Seq(Element) /\ DOMAIN slots' = DOMAIN slots
  BY <1>4 DEF Lockstep, TypeOK
<1> QED BY <1>2, <1>3, <1>4, <1>5, <1>6, QuietKeepsLockstep

(* What the end of a live arm leaves in the interpreter's arena.           *)
LEMMA WriteBack ==
    ASSUME Lockstep, EndHolla
    PROVE  LET b == open[Len(open)]
               n == b.tag.a.slot IN
           /\ b \in Block
           /\ slots' \in Seq(Element) /\ DOMAIN slots' = DOMAIN slots
           /\ \A i \in DOMAIN slots : /\ slots'[i].live <=> slots[i].live
                                      /\ slots'[i].generation = slots[i].generation
                                      /\ i # n => slots'[i] = slots[i]
           /\ aAlive(b.tag) /\ slots[n].value = b.snapshot => slots'[n].value = b.binding
<1> DEFINE b == open[Len(open)]
           n == b.tag.a.slot
<1>1. open \in Seq(Block) /\ slots \in Seq(Element) /\ open # <<>>
  BY DEF Lockstep, TypeOK, EndHolla
<1>2. b \in Block
  BY <1>1
<1>3. b.tag \in tags /\ b.binding \in Value
  BY <1>2 DEF Block
<1>4. A!IsCurrent(b.tag.a) <=> aAlive(b.tag)
  BY <1>3, ChecksFindAlive
<1> HIDE DEF b
<1>5. CASE b.binding # b.snapshot /\ aAlive(b.tag)
  <2>1. n \in DOMAIN slots
    BY <1>4, <1>5 DEF A!IsCurrent
  <2>2. slots[n] \in Element
    BY <1>1, <2>1
  <2>3. slots' = [slots EXCEPT ![n].value = b.binding]
    BY <1>4, <1>5 DEF EndHolla, A!write_slot, b
  <2> HIDE DEF n
  <2>4. [slots[n] EXCEPT !.value = b.binding] \in Element
    BY <1>3, <2>2 DEF Element
  <2>5. slots'[n] = [slots[n] EXCEPT !.value = b.binding]
    BY <2>1, <2>3
  <2>6. /\ slots'[n].generation = slots[n].generation
        /\ slots'[n].value = b.binding
    BY <2>2, <2>5 DEF Element
  <2>7. slots'[n].live <=> slots[n].live
    BY <2>2, <2>5 DEF Element
  <2>8. DOMAIN slots' = DOMAIN slots /\ \A i \in DOMAIN slots : i # n => slots'[i] = slots[i]
    BY <2>1, <2>3
  <2>9. slots' \in Seq(Element)
    BY <1>1, <2>1, <2>3, <2>4
  <2> QED BY <1>2, <2>6, <2>7, <2>8, <2>9 DEF b, n
<1>6. CASE ~(b.binding # b.snapshot /\ aAlive(b.tag))
  <2>1. slots' = slots
    BY <1>4, <1>6 DEF EndHolla, A!write_slot, b
  <2> QED BY <1>1, <1>2, <1>6, <2>1 DEF b
<1> QED BY <1>5, <1>6

LEMMA EndKeepsLockstep ==
    ASSUME Lockstep, EndHolla
    PROVE  Lockstep' /\ \A u \in tags : aAlive(u)' <=> aAlive(u)
<1>1. /\ slots' \in Seq(Element) /\ DOMAIN slots' = DOMAIN slots
      /\ \A i \in DOMAIN slots : /\ slots'[i].live <=> slots[i].live
                                 /\ slots'[i].generation = slots[i].generation
  BY WriteBack
<1>2. aOcc' = aOcc /\ aGen' = aGen
  BY <1>1 DEF aOcc, aGen
<1>3. open' \in Seq(Block)
  <2>1. open \in Seq(Block) /\ open # <<>>
    BY DEF Lockstep, TypeOK, EndHolla
  <2> QED BY <2>1 DEF EndHolla
<1>4. UNCHANGED <<rOccupied, rGeneration, rFree, sOccupied, sGeneration, tags, evicts>>
  BY DEF EndHolla, rVars, sVars
<1>5. rStore' \in [R!Slots -> Value] /\ sStore' \in [S!Slots -> Value]
  BY DEF EndHolla, rVars, sVars, Lockstep, TypeOK
<1> QED BY <1>1, <1>2, <1>3, <1>4, <1>5, QuietKeepsLockstep

-----------------------------------------------------------------------------
LEMMA InitLockstep == Init => Lockstep
<1> SUFFICES ASSUME Init PROVE Lockstep
  OBVIOUS
<1> USE ParityAssumption
<1>1. /\ rOccupied = [s \in R!Slots |-> FALSE] /\ rGeneration = [s \in R!Slots |-> 0]
      /\ rFree = R!AllFree /\ rStore \in [R!Slots -> Value]
  BY DEF Init, R!bet_crib_new
<1>2. /\ sOccupied = [s \in S!Slots |-> FALSE] /\ sGeneration = [s \in S!Slots |-> 0]
      /\ sStore \in [S!Slots -> Value]
  BY DEF Init, S!bet_crib_new
<1>3. slots = <<>> /\ tags = {NullTags} /\ open = <<>> /\ evicts = 0
  BY DEF Init, A!new_arena
<1>4. DOMAIN slots = {}
  BY <1>3
<1>5. rOcc = {} /\ sOcc = {} /\ aOcc = {}
  BY <1>1, <1>2, <1>4 DEF rOcc, sOcc, aOcc
<1>6. TypeOK
  <2>1. tags \subseteq TagOf(DOMAIN slots)
    <3>1. R!NullTag \in CribTag /\ S!NullTag \in CribTag
      BY DEF R!NullTag, S!NullTag, CribTag
    <3>2. A!GhostedTag \in [slot : DOMAIN slots \cup {0}, generation : Nat]
      BY DEF A!GhostedTag
    <3> QED BY <1>3, <3>1, <3>2 DEF TagOf, NullTags
  <2>2. rFree \in Seq(R!Slots)
    BY <1>1, RuntimeAllFree
  <2>3. slots \in Seq(Element) /\ open \in Seq(Block)
    BY <1>3
  <2>4. evicts \in 0 .. MaxEvicts
    BY <1>3
  <2> QED BY <1>1, <1>2, <2>1, <2>2, <2>3, <2>4 DEF TypeOK
<1>7. NoWrap
  BY <1>1, <1>2, <1>3 DEF NoWrap, R!Slots, S!Slots
<1>8. FreeListExact
  BY <1>1, <1>5, RuntimeAllFree DEF FreeListExact
<1>9. Sides
  <2>1. /\ \A t \in rTags : t.slot \notin R!Slots
        /\ \A t \in sTags : t.slot \notin S!Slots
    BY <1>3 DEF rTags, sTags, NullTags, R!NullTag, S!NullTag, R!Slots, S!Slots
  <2> QED BY <1>4, <1>5, <2>1 DEF Sides, Past, Covered
<1>10. Distinct
  BY <1>3 DEF Distinct
<1>11. Same
  BY <1>5 DEF Same, rAlive, sAlive, aAlive, Alive
<1> QED BY <1>6, <1>7, <1>8, <1>9, <1>10, <1>11 DEF Lockstep

LEMMA StutterKeepsLockstep ==
    ASSUME LInv, UNCHANGED vars
    PROVE  LInv'
<1>1. CASE wild
  BY <1>1 DEF LInv, Full, vars, rVars, sVars, R!Slots
<1>2. CASE ~wild
  <2>1. Lockstep /\ UNCHANGED <<rVars, sVars, slots, tags, evicts>> /\ open' = open /\ wild' = wild
    BY <1>2 DEF LInv, vars
  <2>2. open' \in Seq(Block)
    BY <2>1 DEF Lockstep, TypeOK
  <2> QED BY <1>2, <2>1, <2>2, OpenKeepsLockstep DEF LInv
<1> QED BY <1>1, <1>2

LEMMA NextLockstep == LInv /\ [Next]_vars => LInv'
<1> SUFFICES ASSUME LInv, [Next]_vars PROVE LInv'
  OBVIOUS
<1>1. CASE UNCHANGED vars
  BY <1>1, StutterKeepsLockstep
<1>2. CASE Next
  <2>1. ~wild /\ Lockstep
    BY <1>2 DEF Next, LInv
  <2>2. ASSUME NEW v \in Value, lower_cop(v) PROVE LInv'
    BY <2>1, <2>2, CopKeepsLockstep
  <2>3. ASSUME evicts < MaxEvicts, EvictAll PROVE LInv'
    <3>1. wild' = wild
      BY <2>3 DEF EvictAll
    <3> QED BY <2>1, <2>3, <3>1, EvictAllKeepsLockstep DEF LInv
  <2>4. ASSUME evicts < MaxEvicts, NEW t \in tags, EvictOne(t) PROVE LInv'
    <3>1. wild' = wild
      BY <2>4 DEF EvictOne
    <3>2. CASE aAlive(t)
      BY <2>1, <2>4, <3>1, <3>2, EvictOneKeepsLockstep DEF LInv
    <3>3. CASE ~aAlive(t)
      <4>1. UNCHANGED <<rVars, sVars, slots, tags, open>>
        BY <2>1, <2>4, <3>3, EvictStale
      <4>2. evicts' = evicts + 1 /\ evicts' \in 0 .. MaxEvicts
        <5>1. evicts \in 0 .. MaxEvicts /\ MaxEvicts \in Nat
          BY <2>1, ParityAssumption DEF Lockstep, TypeOK
        <5>2. evicts' = evicts + 1
          BY <2>4 DEF EvictOne
        <5> QED BY <2>4, <5>1, <5>2
      <4>3. Lockstep'
        BY <2>1, <4>1, <4>2, CountKeepsLockstep
      <4> QED BY <2>1, <3>1, <4>3 DEF LInv
    <3> QED BY <3>2, <3>3
  <2>5. ASSUME NEW t \in tags, exec_holla(t) PROVE LInv'
    <3>1. wild' = wild
      BY <2>5 DEF exec_holla
    <3> QED BY <2>1, <2>5, <3>1, HollaKeepsLockstep DEF LInv
  <2>6. ASSUME NEW i \in DOMAIN open, ReadBinding(i) PROVE LInv'
    <3>1. UNCHANGED <<rVars, sVars, slots, tags, open, wild, evicts>>
      BY <2>6 DEF ReadBinding
    <3>2. open' \in Seq(Block)
      BY <2>1, <3>1 DEF Lockstep, TypeOK
    <3> QED BY <2>1, <3>1, <3>2, OpenKeepsLockstep DEF LInv
  <2>7. ASSUME NEW i \in DOMAIN open, NEW v \in Value, WriteBinding(i, v) PROVE LInv'
    <3>1. wild' = wild
      BY <2>7 DEF WriteBinding
    <3> QED BY <2>1, <2>7, <3>1, WriteKeepsLockstep DEF LInv
  <2>8. ASSUME EndHolla PROVE LInv'
    <3>1. wild' = wild
      BY <2>8 DEF EndHolla
    <3> QED BY <2>1, <2>8, <3>1, EndKeepsLockstep DEF LInv
  <2>9. ASSUME NEW t \in tags, Trust(t) PROVE LInv'
    <3>1. UNCHANGED <<rVars, sVars, slots, tags, open, wild, evicts>>
      BY <2>9 DEF Trust
    <3>2. open' \in Seq(Block)
      BY <2>1, <3>1 DEF Lockstep, TypeOK
    <3> QED BY <2>1, <3>1, <3>2, OpenKeepsLockstep DEF LInv
  <2> QED BY <1>2, <2>2, <2>3, <2>4, <2>5, <2>6, <2>7, <2>8, <2>9 DEF Next
<1> QED BY <1>1, <1>2

LEMMA LockstepLiveness == LInv => SameLiveness
<1> SUFFICES ASSUME LInv PROVE SameLiveness
  OBVIOUS
<1>1. CASE wild
  BY <1>1 DEF LInv, SameLiveness
<1>2. CASE ~wild
  <2>1. Lockstep
    BY <1>2 DEF LInv
  <2>2. ASSUME NEW t \in tags
        PROVE  (R!IsLive(t.r) <=> S!IsLive(t.s)) /\ (S!IsLive(t.s) <=> A!IsCurrent(t.a))
    <3>1. (rAlive(t) <=> sAlive(t)) /\ (sAlive(t) <=> aAlive(t))
      BY <2>1 DEF Lockstep, Same
    <3> QED BY <2>1, <3>1, ChecksFindAlive
  <2> QED BY <1>2, <2>2 DEF SameLiveness
<1> QED BY <1>1, <1>2

(* Whatever the program does, a tag it holds is live in all three          *)
(* executions or in none, until a `cop` finds all elements of both         *)
(* runtimes in use.                                                        *)
THEOREM TagsAgree == Spec => []SameLiveness
<1>1. Init => LInv
  BY InitLockstep DEF LInv, Init
<1>2. Spec => []LInv
  BY <1>1, NextLockstep, PTL DEF Spec
<1> QED BY <1>2, LockstepLiveness, PTL

-----------------------------------------------------------------------------
(* What the executions show.  One lemma per step, from lockstep on.        *)
LEMMA OpenTag ==
    ASSUME Lockstep, Opened, NEW i \in DOMAIN open
    PROVE  /\ open[i].tag \in tags /\ open[i].binding \in Value
           /\ open[i].snapshot \in Value
           /\ aAlive(open[i].tag) /\ IsOpen(open[i].tag)
<1>1. open[i] \in Block
  BY DEF Lockstep, TypeOK
<1> QED BY <1>1 DEF Block, Opened, Faithful, IsOpen

LEMMA CopShows ==
    ASSUME Lockstep, Shows, NEW v \in Value, lower_cop(v), ~wild'
    PROVE  Shows'
<1> DEFINE rt == R!bet_cop_tag
           st == S!bet_cop_tag
           at == A!alloc_tag
           new == [r |-> rt, s |-> st, a |-> at]
<1>1. /\ R!bet_cop /\ S!bet_cop /\ A!alloc(v)
      /\ rt # R!NullTag /\ st # S!NullTag
      /\ rStore' = [rStore EXCEPT ![rt.slot] = v]
      /\ sStore' = [sStore EXCEPT ![st.slot] = v]
      /\ tags' = tags \cup {new}
      /\ open' = open /\ seen' = Nothing
  BY DEF lower_cop
<1>2. rFree # <<>> /\ S!FreeSlots # {}
  BY <1>1, CopTogether
<1>3. rt.slot \in R!Slots \ rOcc
  BY <1>1, <1>2, CopInRuntime
<1>4. st.slot \in S!Slots \ sOcc
  BY <1>1, <1>2, CopInStub
<1>5. /\ at.slot \notin aOcc /\ slots'[at.slot].value = v
      /\ \A i \in DOMAIN slots : i # at.slot => slots'[i] = slots[i]
  BY <1>1, AllocSlot
<1>6. \A u \in tags : aAlive(u)' <=> aAlive(u)
  BY <1>1, CopInInterpreter
<1>7. new.r = rt /\ new.s = st /\ new.a = at
  OBVIOUS
<1> HIDE DEF rt, st, at
<1>8. PICK n : n = new
  OBVIOUS
<1> HIDE DEF new
<1>9. /\ rStore \in [R!Slots -> Value] /\ sStore \in [S!Slots -> Value]
      /\ \A u \in tags : aAlive(u) => /\ u.r.slot \in rOcc /\ u.s.slot \in sOcc
                                      /\ u.a.slot \in aOcc
      /\ aOcc \subseteq DOMAIN slots
  BY AliveTag DEF Lockstep, TypeOK, aOcc
<1>10. ASSUME NEW u \in tags, aAlive(u)
       PROVE  /\ rStore'[u.r.slot] = rStore[u.r.slot]
              /\ sStore'[u.s.slot] = sStore[u.s.slot]
              /\ slots'[u.a.slot] = slots[u.a.slot]
  <2>1. u.r.slot # rt.slot /\ u.s.slot # st.slot /\ u.a.slot # at.slot
    BY <1>3, <1>4, <1>5, <1>9, <1>10
  <2>2. u.a.slot \in DOMAIN slots
    BY <1>9, <1>10
  <2> QED BY <1>1, <1>5, <1>9, <2>1, <2>2
<1>11. SameValue'
  <2>1. \A t : IsOpen(t)' <=> IsOpen(t)
    BY <1>1 DEF IsOpen
  <2>2. ASSUME NEW u \in tags, aAlive(u)'
        PROVE  /\ rStore'[u.r.slot] = sStore'[u.s.slot]
               /\ ~IsOpen(u)' => slots'[u.a.slot].value = rStore'[u.r.slot]
    BY <1>6, <1>10, <2>1, <2>2 DEF Shows, SameValue
  <2>3. /\ rStore'[n.r.slot] = sStore'[n.s.slot]
        /\ slots'[n.a.slot].value = rStore'[n.r.slot]
    BY <1>1, <1>3, <1>4, <1>5, <1>7, <1>8, <1>9
  <2>4. tags' = tags \cup {n}
    BY <1>1, <1>8
  <2> QED BY <2>2, <2>3, <2>4 DEF SameValue
<1>12. Opened'
  <2> SUFFICES ASSUME NEW i \in DOMAIN open PROVE Faithful(i)'
    BY <1>1 DEF Shows, Opened
  <2>1. open[i].tag \in tags /\ aAlive(open[i].tag)
    BY OpenTag DEF Shows
  <2>2. PICK u \in tags : u = open[i].tag
    BY <2>1
  <2>3. aAlive(u)'
    BY <1>6, <2>1, <2>2
  <2>4. Faithful(i)
    BY DEF Shows, Opened
  <2>5. /\ open[i].binding = rStore'[u.r.slot]
        /\ open[i].snapshot = slots'[u.a.slot].value
    BY <1>10, <2>1, <2>2, <2>4 DEF Faithful
  <2>6. open'[i] = open[i] /\ open'[i].tag = u
    BY <1>1, <2>2
  <2> QED BY <2>2, <2>3, <2>5, <2>6 DEF Faithful
<1>13. SameObservation'
  BY <1>1 DEF SameObservation, Nothing, Seen
<1> QED BY <1>11, <1>12, <1>13 DEF Shows

(* A step that neither stores to an element nor opens or closes a block,   *)
(* and that reclaims no element a block has open.                          *)
LEMMA StillShows ==
    ASSUME Lockstep, Shows,
           UNCHANGED <<rStore, sStore, tags, open>>,
           \A i \in DOMAIN slots : slots'[i].value = slots[i].value,
           \A u \in tags : aAlive(u)' => aAlive(u),
           \A u \in tags : IsOpen(u) /\ aAlive(u) => aAlive(u)',
           SameObservation'
    PROVE  Shows'
<1>1. \A u \in tags : aAlive(u) => u.a.slot \in DOMAIN slots
  BY AliveTag DEF aOcc
<1>2. SameValue'
  <2>1. \A t : IsOpen(t)' <=> IsOpen(t)
    BY DEF IsOpen
  <2>2. ASSUME NEW u \in tags, aAlive(u)'
        PROVE  /\ rStore'[u.r.slot] = sStore'[u.s.slot]
               /\ ~IsOpen(u)' => slots'[u.a.slot].value = rStore'[u.r.slot]
    BY <1>1, <2>1, <2>2 DEF Shows, SameValue
  <2> QED BY <2>2 DEF SameValue
<1>3. Opened'
  <2> SUFFICES ASSUME NEW i \in DOMAIN open PROVE Faithful(i)'
    BY DEF Shows, Opened
  <2>1. open[i].tag \in tags /\ aAlive(open[i].tag) /\ IsOpen(open[i].tag)
    BY OpenTag DEF Shows
  <2>2. PICK u \in tags : u = open[i].tag
    BY <2>1
  <2>3. aAlive(u)' /\ u.a.slot \in DOMAIN slots
    BY <1>1, <2>1, <2>2
  <2>4. Faithful(i)
    BY DEF Shows, Opened
  <2>5. /\ open[i].binding = rStore'[u.r.slot]
        /\ open[i].snapshot = slots'[u.a.slot].value
    BY <2>2, <2>3, <2>4 DEF Faithful
  <2> QED BY <2>2, <2>3, <2>5 DEF Faithful
<1> QED BY <1>2, <1>3 DEF Shows

LEMMA EvictAllShows ==
    ASSUME ExclusiveHolla, Lockstep, Shows, EvictAll, evicts < MaxEvicts
    PROVE  Shows'
<1>1. open = <<>> /\ UNCHANGED <<rStore, sStore, tags, open>> /\ SameObservation'
  BY DEF EvictAll, R!bet_evict, S!bet_evict, SameObservation, Nothing, Seen
<1>2. \A u \in tags : ~IsOpen(u) /\ ~aAlive(u)'
  BY <1>1, EvictAllKeepsLockstep DEF IsOpen
<1>3. \A i \in DOMAIN slots : slots'[i].value = slots[i].value
  <2> SUFFICES ASSUME NEW i \in DOMAIN slots PROVE slots'[i].value = slots[i].value
    OBVIOUS
  <2>1. slots'[i] = [slots[i] EXCEPT !.generation = @ + 1, !.live = FALSE]
    BY DEF EvictAll, A!evict
  <2>2. slots[i] \in Element
    BY DEF Lockstep, TypeOK
  <2> QED BY <2>1, <2>2, ReclaimedElement
<1> QED BY <1>1, <1>2, <1>3, StillShows

LEMMA EvictOneShows ==
    ASSUME ExclusiveHolla, Lockstep, Shows, NEW t \in tags, EvictOne(t), evicts < MaxEvicts
    PROVE  Shows'
<1>1. ~IsOpen(t) /\ SameObservation'
  BY DEF EvictOne, SameObservation, Nothing, Seen
<1>2. CASE aAlive(t)
  <2>1. UNCHANGED <<rStore, sStore, tags, open>>
    BY <1>2 DEF EvictOne, R!bet_evict_slot, R!Reclaim, S!bet_evict_slot,
                R!cribVars, S!cribVars
  <2>2. \A i \in DOMAIN slots : slots'[i].value = slots[i].value
    BY <1>2, EvictInInterpreter DEF EvictOne
  <2>3. \A u \in tags : aAlive(u)' <=> aAlive(u) /\ u # t
    BY <1>2, EvictOneKeepsLockstep
  <2>4. /\ \A u \in tags : aAlive(u)' => aAlive(u)
        /\ \A u \in tags : IsOpen(u) /\ aAlive(u) => aAlive(u)'
    BY <1>1, <2>3
  <2> QED BY <1>1, <2>1, <2>2, <2>4, StillShows
<1>3. CASE ~aAlive(t)
  <2>1. UNCHANGED <<rVars, sVars, slots, tags, open, wild, cops>>
    BY <1>3, EvictStale
  <2>2. /\ UNCHANGED <<rStore, sStore, tags, open>>
        /\ \A i \in DOMAIN slots : slots'[i].value = slots[i].value
        /\ aOcc' = aOcc /\ aGen' = aGen
    BY <2>1 DEF rVars, sVars, aOcc, aGen
  <2>3. \A u \in tags : aAlive(u)' <=> aAlive(u)
    BY <2>2 DEF aAlive
  <2>4. /\ \A u \in tags : aAlive(u)' => aAlive(u)
        /\ \A u \in tags : IsOpen(u) /\ aAlive(u) => aAlive(u)'
    BY <2>3
  <2> QED BY <1>1, <2>2, <2>4, StillShows
<1> QED BY <1>2, <1>3

LEMMA LookShows ==
    ASSUME Lockstep, Shows, UNCHANGED <<rVars, sVars, slots, tags, open>>, SameObservation'
    PROVE  Shows'
<1>1. /\ UNCHANGED <<rStore, sStore, tags, open>>
      /\ \A i \in DOMAIN slots : slots'[i].value = slots[i].value
      /\ aOcc' = aOcc /\ aGen' = aGen
  BY DEF rVars, sVars, aOcc, aGen
<1>2. \A u \in tags : aAlive(u)' <=> aAlive(u)
  BY <1>1 DEF aAlive
<1>3. /\ \A u \in tags : aAlive(u)' => aAlive(u)
      /\ \A u \in tags : IsOpen(u) /\ aAlive(u) => aAlive(u)'
  BY <1>2
<1> QED BY <1>1, <1>3, StillShows

LEMMA ReadShows ==
    ASSUME Lockstep, Shows, NEW i \in DOMAIN open, ReadBinding(i)
    PROVE  Shows'
<1> DEFINE t == open[i].tag
<1>1. t \in tags /\ aAlive(t) /\ open[i].binding = rStore[t.r.slot]
  BY OpenTag DEF Shows, Opened, Faithful
<1>2. rStore[t.r.slot] = sStore[t.s.slot]
  BY <1>1 DEF Shows, SameValue
<1>3. SameObservation'
  BY <1>1, <1>2 DEF ReadBinding, SameObservation, Seen
<1> QED BY <1>3, LookShows DEF ReadBinding

LEMMA TrustShows ==
    ASSUME ExclusiveHolla, Lockstep, Shows, NEW t \in tags, Trust(t)
    PROVE  Shows'
<1>1. ~IsOpen(t) /\ R!IsLive(t.r)
  BY DEF Trust
<1>2. /\ aAlive(t) /\ t.r.slot \in R!Slots /\ t.s.slot \in S!Slots
      /\ t.a.slot \in DOMAIN slots
  BY <1>1, ChecksFindAlive, AliveTag DEF rOcc, sOcc, aOcc
<1>3. rStore[t.r.slot] = sStore[t.s.slot] /\ slots[t.a.slot].value = rStore[t.r.slot]
  BY <1>1, <1>2 DEF Shows, SameValue
<1>4. SameObservation'
  BY <1>2, <1>3 DEF Trust, SameObservation, Seen, R!bet_slot_ptr, S!bet_slot_ptr,
                    A!resolve_unchecked
<1> QED BY <1>4, LookShows DEF Trust

LEMMA HollaShows ==
    ASSUME ExclusiveHolla, Lockstep, Shows, NEW t \in tags, exec_holla(t)
    PROVE  Shows'
<1>1. ~IsOpen(t) /\ UNCHANGED <<rVars, sVars, slots, tags>>
  BY DEF exec_holla
<1>2. SameObservation'
  <2>1. /\ (R!IsLive(t.r) <=> S!IsLive(t.s)) /\ (S!IsLive(t.s) <=> A!IsCurrent(t.a))
        /\ R!IsLive(t.r) \in BOOLEAN /\ S!IsLive(t.s) \in BOOLEAN
        /\ A!IsCurrent(t.a) \in BOOLEAN
    <3>1. (rAlive(t) <=> sAlive(t)) /\ (sAlive(t) <=> aAlive(t))
      BY DEF Lockstep, Same
    <3> QED BY <3>1, ChecksFindAlive DEF R!IsLive, S!IsLive, A!IsCurrent
  <2>2. seen' = Seen(R!IsLive(t.r), S!IsLive(t.s), A!IsCurrent(t.a))
    BY DEF exec_holla
  <2>3. R!IsLive(t.r) = S!IsLive(t.s) /\ S!IsLive(t.s) = A!IsCurrent(t.a)
    BY <2>1
  <2> QED BY <2>2, <2>3 DEF SameObservation, Seen
<1>3. CASE aAlive(t)
  <2> DEFINE e == slots[t.a.slot].value
             b == [tag |-> t, snapshot |-> e, binding |-> e]
             n == Len(open) + 1
  <2>1. open' = Append(open, b)
    <3>1. R!IsLive(t.r) /\ S!IsLive(t.s) /\ A!IsCurrent(t.a)
      BY <1>3, ChecksFindAlive, AliveTag
    <3>2. A!resolve(t.a) = e
      BY <3>1 DEF A!resolve
    <3> QED BY <3>1, <3>2 DEF exec_holla, Seen
  <2>2. b.tag = t /\ b.snapshot = e /\ b.binding = e
    OBVIOUS
  <2>3. rStore[t.r.slot] = sStore[t.s.slot] /\ e = rStore[t.r.slot]
    BY <1>1, <1>3 DEF Shows, SameValue
  <2>4. /\ UNCHANGED <<rStore, sStore, slots, tags>> /\ aOcc' = aOcc /\ aGen' = aGen
    BY <1>1 DEF rVars, sVars, aOcc, aGen
  <2>5. \A u \in tags : aAlive(u)' <=> aAlive(u)
    BY <2>4 DEF aAlive
  <2>6. open \in Seq(Block)
    BY DEF Lockstep, TypeOK
  <2> HIDE DEF b
  <2>7. /\ Len(open) \in Nat /\ DOMAIN open' = 1 .. n /\ DOMAIN open = 1 .. Len(open)
        /\ open'[n] = b /\ \A i \in DOMAIN open : open'[i] = open[i]
    BY <2>1, <2>6
  <2>8. \A u : IsOpen(u) => IsOpen(u)'
    BY <2>7 DEF IsOpen
  <2>9. SameValue'
    <3>1. ASSUME NEW u \in tags, aAlive(u)'
          PROVE  /\ rStore'[u.r.slot] = sStore'[u.s.slot]
                 /\ ~IsOpen(u)' => slots'[u.a.slot].value = rStore'[u.r.slot]
      BY <2>4, <2>5, <2>8, <3>1 DEF Shows, SameValue
    <3> QED BY <2>4, <3>1 DEF SameValue
  <2>10. \A i \in DOMAIN open : open[i].tag # t
    BY <1>1 DEF IsOpen
  <2>11. \A i, j \in DOMAIN open' : open'[i].tag = open'[j].tag => i = j
    <3>1. \A i, j \in DOMAIN open : open[i].tag = open[j].tag => i = j
      BY DEF Shows, Opened
    <3> QED BY <2>2, <2>7, <2>10, <3>1
  <2>12. \A i \in DOMAIN open' : Faithful(i)'
    <3> SUFFICES ASSUME NEW i \in DOMAIN open' PROVE Faithful(i)'
      OBVIOUS
    <3>1. CASE i \in DOMAIN open
      <4>1. open[i].tag \in tags /\ Faithful(i)
        BY <3>1, OpenTag DEF Shows, Opened
      <4>2. PICK u \in tags : u = open[i].tag
        BY <4>1
      <4>3. aAlive(u)'
        BY <2>5, <4>1, <4>2 DEF Faithful
      <4>4. Faithful(i)'
        BY <2>4, <2>7, <3>1, <4>1, <4>2, <4>3 DEF Faithful
      <4> QED BY <4>4
    <3>2. CASE i = n
      BY <2>2, <2>3, <2>4, <2>5, <2>7, <1>3, <3>2 DEF Faithful
    <3> QED BY <2>7, <3>1, <3>2
  <2> QED BY <1>2, <2>9, <2>11, <2>12 DEF Shows, Opened
<1>4. CASE ~aAlive(t)
  <2>1. ~R!IsLive(t.r)
    BY <1>4, ChecksFindAlive, AliveTag
  <2>2. open' = open
    BY <2>1 DEF exec_holla, Seen
  <2> QED BY <1>1, <1>2, <2>2, LookShows
<1> QED BY <1>3, <1>4

LEMMA WriteShows ==
    ASSUME Lockstep, Shows, NEW i \in DOMAIN open, NEW v \in Value, WriteBinding(i, v)
    PROVE  Shows'
<1>1. PICK t \in tags : t = open[i].tag
  BY OpenTag DEF Shows
<1>2. /\ aAlive(t) /\ t.r.slot \in R!Slots /\ t.s.slot \in S!Slots
      /\ \A u \in tags : /\ aAlive(u)
                         /\ u.r.slot = t.r.slot \/ u.s.slot = t.s.slot
                         => u = t
  BY <1>1, OpenTag, AliveTag DEF Shows, rOcc, sOcc
<1>3. /\ rStore' = [rStore EXCEPT ![t.r.slot] = v]
      /\ sStore' = [sStore EXCEPT ![t.s.slot] = v]
      /\ open' = [open EXCEPT ![i].binding = v]
      /\ tags' = tags /\ slots' = slots
  BY <1>1 DEF WriteBinding, R!WriteSlot
<1>4. rStore \in [R!Slots -> Value] /\ sStore \in [S!Slots -> Value] /\ open \in Seq(Block)
  BY DEF Lockstep, TypeOK
<1>5. \A u \in tags : aAlive(u)' <=> aAlive(u)
  BY WriteKeepsLockstep
<1>6. /\ rStore'[t.r.slot] = v /\ sStore'[t.s.slot] = v
      /\ \A u \in tags : aAlive(u) /\ u # t => /\ rStore'[u.r.slot] = rStore[u.r.slot]
                                               /\ sStore'[u.s.slot] = sStore[u.s.slot]
  BY <1>2, <1>3, <1>4
<1>7. /\ DOMAIN open' = DOMAIN open
      /\ \A j \in DOMAIN open : /\ open'[j].tag = open[j].tag
                                /\ open'[j].snapshot = open[j].snapshot
                                /\ j # i => open'[j].binding = open[j].binding
      /\ open'[i].binding = v
  <2>1. open' = [open EXCEPT ![i] = [open[i] EXCEPT !.binding = v]]
    BY <1>3
  <2>2. open[i] \in Block
    BY <1>4
  <2>3. /\ [open[i] EXCEPT !.binding = v].binding = v
        /\ [open[i] EXCEPT !.binding = v].tag = open[i].tag
        /\ [open[i] EXCEPT !.binding = v].snapshot = open[i].snapshot
    BY <2>2 DEF Block
  <2> QED BY <2>1, <2>3
<1>8. \A u : IsOpen(u)' <=> IsOpen(u)
  BY <1>7 DEF IsOpen
<1>9. SameValue'
  <2>1. ASSUME NEW u \in tags, aAlive(u)'
        PROVE  /\ rStore'[u.r.slot] = sStore'[u.s.slot]
               /\ ~IsOpen(u)' => slots'[u.a.slot].value = rStore'[u.r.slot]
    <3>1. CASE u = t
      <4>1. IsOpen(u)
        BY <1>1, <3>1 DEF IsOpen
      <4> QED BY <1>6, <1>8, <3>1, <4>1
    <3>2. CASE u # t
      BY <1>3, <1>5, <1>6, <1>8, <2>1, <3>2 DEF Shows, SameValue
    <3> QED BY <3>1, <3>2
  <2> QED BY <1>3, <2>1 DEF SameValue
<1>10. \A j, k \in DOMAIN open' : open'[j].tag = open'[k].tag => j = k
  BY <1>7 DEF Shows, Opened
<1>11. \A j \in DOMAIN open' : Faithful(j)'
  <2> SUFFICES ASSUME NEW j \in DOMAIN open PROVE Faithful(j)'
    BY <1>7
  <2>1. open[j].tag \in tags /\ Faithful(j)
    BY OpenTag DEF Shows, Opened
  <2>2. PICK u \in tags : u = open[j].tag
    BY <2>1
  <2>3. aAlive(u) /\ aAlive(u)'
    BY <1>5, <2>1, <2>2 DEF Faithful
  <2>4. open'[j].tag = u /\ open'[j].snapshot = slots'[u.a.slot].value
    BY <1>3, <1>7, <2>1, <2>2 DEF Faithful
  <2>5. open'[j].binding = rStore'[u.r.slot]
    <3>1. CASE j = i
      BY <1>1, <1>6, <1>7, <2>2, <3>1
    <3>2. CASE j # i
      <4>1. u # t
        BY <1>1, <2>2, <3>2 DEF Shows, Opened
      <4> QED BY <1>6, <1>7, <2>1, <2>2, <2>3, <3>2, <4>1 DEF Faithful
    <3> QED BY <3>1, <3>2
  <2> QED BY <2>3, <2>4, <2>5 DEF Faithful
<1>12. SameObservation'
  BY DEF WriteBinding, SameObservation, Nothing, Seen
<1> QED BY <1>9, <1>10, <1>11, <1>12 DEF Shows, Opened

LEMMA EndShows ==
    ASSUME Lockstep, Shows, EndHolla
    PROVE  Shows'
<1> DEFINE n == Len(open)
<1>1. open \in Seq(Block) /\ open # <<>> /\ slots \in Seq(Element)
  BY DEF Lockstep, TypeOK, EndHolla
<1>2. n \in DOMAIN open /\ n \in Nat /\ DOMAIN open = 1 .. n
  BY <1>1
<1>3. PICK t \in tags : t = open[n].tag
  BY <1>2, OpenTag DEF Shows
<1>4. /\ aAlive(t) /\ t.a.slot \in DOMAIN slots
      /\ open[n].binding = rStore[t.r.slot] /\ open[n].snapshot = slots[t.a.slot].value
      /\ \A u \in tags : aAlive(u) /\ u.a.slot = t.a.slot => u = t
  <2>1. Faithful(n)
    BY <1>2 DEF Shows, Opened
  <2> QED BY <1>3, <2>1, AliveTag DEF Faithful, aOcc
<1>5. /\ slots'[t.a.slot].value = rStore[t.r.slot]
      /\ \A i \in DOMAIN slots : i # t.a.slot => slots'[i] = slots[i]
  BY <1>3, <1>4, WriteBack
<1>6. /\ UNCHANGED <<rStore, sStore, tags>> /\ SameObservation'
      /\ open' = SubSeq(open, 1, n - 1)
  BY DEF EndHolla, rVars, sVars, SameObservation, Nothing, Seen
<1>7. \A u \in tags : aAlive(u)' <=> aAlive(u)
  BY EndKeepsLockstep
<1>8. DOMAIN open' = 1 .. n - 1 /\ \A i \in 1 .. n - 1 : open'[i] = open[i]
  BY <1>1, <1>2, <1>6
<1>9. \A u : IsOpen(u) /\ u # t => IsOpen(u)'
  BY <1>2, <1>3, <1>8 DEF IsOpen
<1>10. SameValue'
  <2>1. ASSUME NEW u \in tags, aAlive(u)'
        PROVE  /\ rStore'[u.r.slot] = sStore'[u.s.slot]
               /\ ~IsOpen(u)' => slots'[u.a.slot].value = rStore'[u.r.slot]
    <3>1. rStore'[u.r.slot] = sStore'[u.s.slot]
      BY <1>6, <1>7, <2>1 DEF Shows, SameValue
    <3>2. CASE u = t
      BY <1>5, <1>6, <3>1, <3>2
    <3>3. CASE u # t
      <4>1. u.a.slot # t.a.slot /\ u.a.slot \in DOMAIN slots
        BY <1>4, <1>7, <2>1, <3>3, AliveTag DEF aOcc
      <4> QED BY <1>5, <1>6, <1>7, <1>9, <2>1, <3>1, <3>3, <4>1 DEF Shows, SameValue
    <3> QED BY <3>2, <3>3
  <2> QED BY <1>6, <2>1 DEF SameValue
<1>11. \A i, j \in DOMAIN open' : open'[i].tag = open'[j].tag => i = j
  BY <1>2, <1>8 DEF Shows, Opened
<1>12. \A i \in DOMAIN open' : Faithful(i)'
  <2> SUFFICES ASSUME NEW i \in 1 .. n - 1 PROVE Faithful(i)'
    BY <1>8
  <2>1. i \in DOMAIN open /\ i # n
    <3> HIDE DEF n
    <3> QED BY <1>2
  <2>2. open[i].tag \in tags /\ Faithful(i)
    BY <2>1, OpenTag DEF Shows, Opened
  <2>3. PICK u \in tags : u = open[i].tag
    BY <2>2
  <2>4. u # t /\ aAlive(u) /\ aAlive(u)'
    BY <1>2, <1>3, <1>7, <2>1, <2>2, <2>3 DEF Shows, Opened, Faithful
  <2>5. u.a.slot # t.a.slot /\ u.a.slot \in DOMAIN slots
    BY <1>4, <2>4, AliveTag DEF aOcc
  <2>6. slots'[u.a.slot] = slots[u.a.slot] /\ open'[i] = open[i]
    BY <1>5, <1>8, <2>5
  <2> QED BY <1>6, <2>2, <2>3, <2>4, <2>6 DEF Faithful
<1> QED BY <1>6, <1>10, <1>11, <1>12 DEF Shows, Opened

LEMMA InitShows == Init => OInv
<1> SUFFICES ASSUME Init PROVE OInv
  OBVIOUS
<1>1. Lockstep /\ SameObservation /\ open = <<>> /\ tags = {NullTags} /\ slots = <<>>
  BY InitLockstep DEF Init, SameObservation, Nothing, Seen, A!new_arena
<1>2. \A t \in tags : ~aAlive(t)
  BY <1>1 DEF aAlive, Alive, aOcc
<1> QED BY <1>1, <1>2 DEF OInv, Shows, SameValue, Opened

LEMMA NextShows ==
    ASSUME ExclusiveHolla, LInv, OInv, [Next]_vars
    PROVE  OInv'
<1>1. CASE wild
  <2>1. UNCHANGED <<seen, wild>>
    BY <1>1 DEF Next, vars
  <2> QED BY <1>1, <2>1 DEF OInv, SameObservation
<1>2. CASE ~wild /\ UNCHANGED vars
  <2>1. Lockstep /\ Shows /\ UNCHANGED <<rVars, sVars, slots, tags, open>> /\ wild' = wild
    BY <1>2 DEF LInv, OInv, vars
  <2>2. SameObservation'
    BY <1>2 DEF OInv, SameObservation, vars
  <2>3. Shows'
    BY <2>1, <2>2, LookShows
  <2> QED BY <2>3 DEF OInv, Shows
<1>3. CASE ~wild /\ Next
  <2>1. Lockstep /\ Shows
    BY <1>3 DEF LInv, OInv
  <2>2. ASSUME NEW v \in Value, lower_cop(v) PROVE OInv'
    <3>1. CASE wild'
      <4>1. SameObservation'
        BY <2>2 DEF lower_cop, SameObservation, Nothing, Seen
      <4> QED BY <3>1, <4>1 DEF OInv
    <3>2. CASE ~wild'
      <4>1. Shows'
        BY <2>1, <2>2, <3>2, CopShows
      <4> QED BY <4>1 DEF OInv, Shows
    <3> QED BY <3>1, <3>2
  <2>3. ASSUME Shows' PROVE OInv'
    BY <2>3 DEF OInv, Shows
  <2>4. ASSUME evicts < MaxEvicts, EvictAll PROVE OInv'
    BY <2>1, <2>3, <2>4, EvictAllShows
  <2>5. ASSUME evicts < MaxEvicts, NEW t \in tags, EvictOne(t) PROVE OInv'
    BY <2>1, <2>3, <2>5, EvictOneShows
  <2>6. ASSUME NEW t \in tags, exec_holla(t) PROVE OInv'
    BY <2>1, <2>3, <2>6, HollaShows
  <2>7. ASSUME NEW i \in DOMAIN open, ReadBinding(i) PROVE OInv'
    BY <2>1, <2>3, <2>7, ReadShows
  <2>8. ASSUME NEW i \in DOMAIN open, NEW v \in Value, WriteBinding(i, v) PROVE OInv'
    BY <2>1, <2>3, <2>8, WriteShows
  <2>9. ASSUME EndHolla PROVE OInv'
    BY <2>1, <2>3, <2>9, EndShows
  <2>10. ASSUME NEW t \in tags, Trust(t) PROVE OInv'
    BY <2>1, <2>3, <2>10, TrustShows
  <2> QED BY <1>3, <2>2, <2>4, <2>5, <2>6, <2>7, <2>8, <2>9, <2>10 DEF Next
<1> QED BY <1>1, <1>2, <1>3

(* A program that keeps `holla` exclusive sees the same in the three       *)
(* executions: every `holla` takes the same arm, every read through a      *)
(* binding or a trusted tag shows the same value, although each execution  *)
(* hands out slots in an order of its own and the interpreter works on a   *)
(* copy.                                                                   *)
THEOREM ExecutionsAgree ==
    ASSUME ExclusiveHolla
    PROVE  Spec => []SameObservation
<1>1. Init => LInv /\ OInv
  BY InitLockstep, InitShows DEF LInv, Init
<1>2. LInv /\ OInv /\ [Next]_vars => LInv' /\ OInv'
  BY NextLockstep, NextShows
<1>3. LInv /\ OInv => SameObservation
  BY DEF OInv
<1> QED BY <1>1, <1>2, <1>3, PTL DEF Spec
=============================================================================
