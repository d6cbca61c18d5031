----------------------------- MODULE CribProofs -----------------------------
(***************************************************************************)
(* Proofs about the typed crib and the program that uses it, for every     *)
(* capacity, every generation width and every bound on the epochs.         *)
(***************************************************************************)
EXTENDS CribProgram, BasicLemmas, FiniteSetTheorems, TLAPS

-----------------------------------------------------------------------------
(* The inductive invariant.  ResolvesIffLive is not inductive: it says     *)
(* nothing of how far a stale tag's generation is behind its slot's, which *)
(* is what keeps the next bump from making them equal.  TagAge says it,    *)
(* without division: the slot's generation is the tag's, advanced by the   *)
(* number of reclaims since the tag was issued, wrapped at most once.      *)
Advance(g, k) == IF g + k < GenMod THEN g + k ELSE g + k - GenMod

TagAge == \A t \in held : t.slot \in Slots =>
             /\ t.born <= epoch[t.slot]
             /\ generation[t.slot] = Advance(t.generation, epoch[t.slot] - t.born)

(* A handle that was handed out is of the current or an earlier epoch of   *)
(* its slot, and of the current one only while the slot is occupied.       *)
IssuedPast == \A s \in Slots, e \in 0 .. MaxEpoch : <<s, e>> \in issued =>
                 /\ e <= epoch[s]
                 /\ e = epoch[s] => occupied[s]

(* The program holds tags it was given and nothing else.                   *)
HeldIssued == \A t \in held : IF t.slot \in Slots
                              THEN HandleOf(t) \in issued
                              ELSE t = HeldNull

IInv == /\ TypeOK
        /\ FreeListExact
        /\ TagAge
        /\ IssuedPast
        /\ HeldIssued
        /\ NoTagOutlivesWrap

-----------------------------------------------------------------------------
(* The list bet_crib_new and bet_evict build holds every slot once.        *)
LEMMA AllFreeExact ==
    /\ AllFree \in Seq(Slots)
    /\ \A i, j \in DOMAIN AllFree : AllFree[i] = AllFree[j] => i = j
    /\ {AllFree[i] : i \in DOMAIN AllFree} = Slots
<1> USE CribAssumption DEF AllFree, Slots
<1>1. AllFree \in Seq(Slots)
  OBVIOUS
<1>2. \A i, j \in DOMAIN AllFree : AllFree[i] = AllFree[j] => i = j
  OBVIOUS
<1>3. {AllFree[i] : i \in DOMAIN AllFree} = Slots
  <2>1. ASSUME NEW i \in DOMAIN AllFree PROVE AllFree[i] \in Slots
    OBVIOUS
  <2>2. ASSUME NEW s \in Slots PROVE s \in {AllFree[i] : i \in DOMAIN AllFree}
    <3>1. s + 1 \in DOMAIN AllFree /\ AllFree[s + 1] = s
      OBVIOUS
    <3> QED BY <3>1
  <2> QED BY <2>1, <2>2
<1> QED BY <1>1, <1>2, <1>3

(* A tag whose slot is current resolves, any other is ghosted.             *)
LEMMA ResolvesFromIInv == IInv => ResolvesIffLive
<1> SUFFICES ASSUME IInv, NEW t \in held
             PROVE  IsLive(TagOf(t)) <=> t.slot \in Slots /\ epoch[t.slot] = t.born
  BY DEF ResolvesIffLive
<1> USE CribAssumption, EpochAssumption
<1>1. t \in Held
  BY DEF IInv, TypeOK
<1>2. CASE t.slot \notin Slots
  BY <1>2 DEF IsLive, TagOf
<1>3. CASE t.slot \in Slots
  <2>1. /\ generation[t.slot] = Advance(t.generation, epoch[t.slot] - t.born)
        /\ t.born <= epoch[t.slot]
        /\ epoch[t.slot] - t.born < GenMod
        /\ t.born = epoch[t.slot] => occupied[t.slot]
    <3>1. HandleOf(t) \in issued /\ t.born \in 0 .. MaxEpoch
      BY <1>1, <1>3 DEF IInv, HeldIssued, Held
    <3> QED BY <1>3, <3>1 DEF IInv, TagAge, IssuedPast, NoTagOutlivesWrap, HandleOf
  <2>2. /\ epoch[t.slot] \in Nat /\ t.born \in Nat
        /\ t.generation \in Nat /\ t.generation < GenMod
    BY <1>1, <1>3 DEF IInv, TypeOK, Held, Gens
  <2>3. generation[t.slot] = t.generation <=> epoch[t.slot] = t.born
    BY <2>1, <2>2 DEF Advance
  <2> QED BY <1>3, <2>1, <2>3 DEF IsLive, TagOf
<1> QED BY <1>2, <1>3

-----------------------------------------------------------------------------
(* bet_crib_new: every slot vacant and on the free list, no tag held.      *)
LEMMA InitIInv == Init => IInv
<1> SUFFICES ASSUME Init PROVE IInv
  OBVIOUS
<1> USE CribAssumption, EpochAssumption DEF Init, bet_crib_new
<1>1. TypeOK
  BY AllFreeExact DEF TypeOK, CribTypeOK, Held, HeldNull, Gens, Slots
<1>2. FreeListExact
  BY AllFreeExact DEF FreeListExact
<1>3. TagAge /\ HeldIssued /\ NoTagOutlivesWrap
  BY DEF TagAge, HeldIssued, NoTagOutlivesWrap, HeldNull, Slots
<1>4. IssuedPast
  BY DEF IssuedPast
<1> QED BY <1>1, <1>2, <1>3, <1>4 DEF IInv

(* bet_cop on a crib with a free slot: the popped slot becomes occupied    *)
(* and the new tag is of its current epoch.                                *)
LEMMA CopIInv == IInv /\ Cop /\ NoTagOutlivesWrap' => IInv'
<1> SUFFICES ASSUME IInv, Cop, NoTagOutlivesWrap' PROVE IInv'
  OBVIOUS
<1> USE CribAssumption, EpochAssumption
<1>t. TypeOK /\ CribTypeOK
  BY DEF IInv, TypeOK
<1>1. CASE free = <<>>
  <2>1. /\ bet_cop_tag = NullTag
        /\ UNCHANGED <<occupied, generation, free, store, epoch, issued>>
    BY <1>1 DEF Cop, bet_cop, bet_cop_tag, metaVars
  <2>2. NullTag.slot \notin Slots /\ HeldNull.slot \notin Slots
    BY DEF NullTag, HeldNull, Slots
  <2>3. held' = held \cup {HeldNull}
    BY <2>1, <2>2 DEF Cop, NullTag, HeldNull
  <2>4. TypeOK'
    BY <2>1, <2>3, <1>t DEF TypeOK, CribTypeOK, Held, HeldNull, Gens
  <2>5. FreeListExact' /\ IssuedPast'
    BY <2>1 DEF IInv, FreeListExact, IssuedPast
  <2>6. TagAge' /\ HeldIssued'
    BY <2>1, <2>2, <2>3 DEF IInv, TagAge, HeldIssued, HandleOf, Advance
  <2> QED BY <2>4, <2>5, <2>6 DEF IInv
<1>2. CASE free # <<>>
  <2> DEFINE s == free[Len(free)]
             t == [slot |-> s, generation |-> generation[s], born |-> epoch[s]]
  <2>1. /\ s \in Slots
        /\ free' = SubSeq(free, 1, Len(free) - 1)
        /\ free' \in Seq(Slots)
        /\ \A i, j \in DOMAIN free' : free'[i] = free'[j] => i = j
        /\ {free'[i] : i \in DOMAIN free'} = {free[i] : i \in DOMAIN free} \ {s}
    <3>1. free' = SubSeq(free, 1, Len(free) - 1)
      BY <1>2 DEF Cop, bet_cop
    <3>2. free \in Seq(Slots) /\ \A i, j \in DOMAIN free : free[i] = free[j] => i = j
      BY <1>t DEF IInv, FreeListExact, CribTypeOK
    <3> HIDE DEF s
    <3>3. LET p == SubSeq(free, 1, Len(free) - 1) IN
          /\ free[Len(free)] \in Slots
          /\ p \in Seq(Slots)
          /\ \A i, j \in DOMAIN p : p[i] = p[j] => i = j
          /\ {p[i] : i \in DOMAIN p} = {free[i] : i \in DOMAIN free} \ {free[Len(free)]}
      BY <1>2, <3>2, PopLast
    <3> QED BY <3>1, <3>3 DEF s
  <2>2. /\ occupied' = [occupied EXCEPT ![s] = TRUE]
        /\ UNCHANGED <<generation, store, epoch>>
    BY <1>2 DEF Cop, bet_cop
  <2>3. bet_cop_tag = [slot |-> s, generation |-> generation[s]] /\ bet_cop_tag # NullTag
    BY <1>2, <2>1 DEF bet_cop_tag, NullTag, Slots
  <2>4. held' = held \cup {t} /\ issued' = issued \cup {HandleOf(t)}
    BY <2>1, <2>3 DEF Cop, HandleOf
  <2>5. t \in Held /\ HandleOf(t) = <<s, epoch[s]>> /\ HandleOf(t) \in Handle
    BY <2>1, <1>t DEF TypeOK, CribTypeOK, Held, HandleOf, Handle
  <2>6. TypeOK'
    <3>1. occupied' \in [Slots -> BOOLEAN]
      BY <2>2, <1>t, Zenon DEF CribTypeOK
    <3> QED BY <2>1, <2>2, <2>4, <2>5, <3>1, <1>t DEF TypeOK, CribTypeOK
  <2>7. FreeListExact'
    <3>1. {r \in Slots : ~occupied'[r]} = {r \in Slots : ~occupied[r]} \ {s}
      BY <2>1, <2>2, <1>t, Zenon DEF CribTypeOK
    <3> QED BY <2>1, <3>1 DEF IInv, FreeListExact
  <2>8. TagAge'
    <3>1. Advance(generation[s], epoch[s] - epoch[s]) = generation[s]
      BY <2>1, <1>t DEF TypeOK, CribTypeOK, Gens, Advance
    <3> QED BY <2>2, <2>4, <3>1, <1>t DEF IInv, TagAge, TypeOK, Advance
  <2>9. IssuedPast'
    BY <2>1, <2>2, <2>4, <2>5, <1>t DEF IInv, IssuedPast, TypeOK, CribTypeOK
  <2>10. HeldIssued'
    <3>1. ASSUME NEW u \in held
          PROVE  IF u.slot \in Slots THEN HandleOf(u) \in issued' ELSE u = HeldNull
      BY <2>4 DEF IInv, HeldIssued
    <3>2. t.slot = s /\ HandleOf(t) \in issued'
      BY <2>4
    <3> QED BY <2>1, <2>4, <3>1, <3>2 DEF HeldIssued
  <2> QED BY <2>6, <2>7, <2>8, <2>9, <2>10 DEF IInv
<1> QED BY <1>1, <1>2

(* Looking through a tag and forgetting one change nothing that IInv is    *)
(* about.                                                                  *)
LEMMA ObserveIInv ==
    ASSUME IInv, NoTagOutlivesWrap', held' \subseteq held,
           UNCHANGED <<occupied, generation, free, epoch, issued>>,
           store' \in [Slots -> Value]
    PROVE  IInv'
<1>1. TypeOK'
  BY DEF IInv, TypeOK, CribTypeOK
<1>2. FreeListExact' /\ IssuedPast'
  BY DEF IInv, FreeListExact, IssuedPast
<1>3. TagAge' /\ HeldIssued'
  BY DEF IInv, TagAge, HeldIssued, Advance, HandleOf
<1> QED BY <1>1, <1>2, <1>3 DEF IInv

(* bet_evict_slot: a live tag's slot is reclaimed, any other tag changes   *)
(* nothing.                                                                *)
LEMMA EvictSlotIInv ==
    ASSUME IInv, NEW u \in held, EvictSlot(u), NoTagOutlivesWrap', WithinBound'
    PROVE  IInv'
<1> USE CribAssumption, EpochAssumption
<1>t. TypeOK /\ CribTypeOK
  BY DEF IInv, TypeOK
<1>h. held' = held /\ issued' = issued
  BY DEF EvictSlot
<1>1. CASE ~IsLive(TagOf(u))
  <2>1. UNCHANGED <<occupied, generation, free, store>>
    BY <1>1 DEF EvictSlot, bet_evict_slot, cribVars
  <2>2. epoch' = epoch
    BY <2>1, <1>t DEF EvictSlot, TypeOK
  <2> QED BY <2>1, <2>2, <1>h, <1>t, ObserveIInv DEF CribTypeOK
<1>2. CASE IsLive(TagOf(u))
  <2> DEFINE s == u.slot
  <2>1. s \in Slots /\ occupied[s]
    BY <1>2 DEF IsLive, TagOf
  <2>2. Reclaim(s)
    BY <1>2 DEF EvictSlot, bet_evict_slot, TagOf
  <2>3. /\ occupied' = [occupied EXCEPT ![s] = FALSE]
        /\ generation' = [generation EXCEPT ![s] = wrapping_add(generation[s])]
        /\ free' = Append(free, s)
        /\ store' = store
    BY <2>2 DEF Reclaim
  <2>4. /\ occupied' \in [Slots -> BOOLEAN]
        /\ occupied'[s] = FALSE
        /\ \A r \in Slots \ {s} : occupied'[r] = occupied[r]
    BY <2>1, <2>3, <1>t, Zenon DEF CribTypeOK
  <2>5. epoch' = [r \in Slots |-> IF r = s THEN epoch[r] + 1 ELSE epoch[r]]
    <3>1. \A r \in Slots : (occupied'[r] # occupied[r]) <=> r = s
      BY <2>1, <2>4
    <3> QED BY <3>1 DEF EvictSlot
  <2>6. epoch' \in [Slots -> 0 .. MaxEpoch]
    BY <2>5, <1>t DEF WithinBound, TypeOK
  <2>7. /\ generation' \in [Slots -> Gens]
        /\ generation'[s] = wrapping_add(generation[s])
        /\ \A r \in Slots \ {s} : generation'[r] = generation[r]
    BY <2>1, <2>3, <1>t DEF CribTypeOK, wrapping_add, Gens
  <2>8. /\ free' \in Seq(Slots)
        /\ \A i, j \in DOMAIN free' : free'[i] = free'[j] => i = j
        /\ {free'[i] : i \in DOMAIN free'} = {free[i] : i \in DOMAIN free} \cup {s}
    <3>1. s \notin {free[i] : i \in DOMAIN free}
      BY <2>1 DEF IInv, FreeListExact
    <3>2. free \in Seq(Slots) /\ \A i, j \in DOMAIN free : free[i] = free[j] => i = j
      BY <1>t DEF IInv, FreeListExact, CribTypeOK
    <3> HIDE DEF s
    <3>3. LET p == Append(free, s) IN
          /\ p \in Seq(Slots)
          /\ \A i, j \in DOMAIN p : p[i] = p[j] => i = j
          /\ {p[i] : i \in DOMAIN p} = {free[i] : i \in DOMAIN free} \cup {s}
      BY <2>1, <3>1, <3>2, PushNew
    <3> QED BY <2>3, <3>3
  <2>9. TypeOK'
    BY <2>3, <2>4, <2>6, <2>7, <2>8, <1>h, <1>t DEF TypeOK, CribTypeOK
  <2>10. FreeListExact'
    <3>1. {r \in Slots : ~occupied'[r]} = {r \in Slots : ~occupied[r]} \cup {s}
      BY <2>1, <2>4
    <3> QED BY <2>8, <3>1 DEF IInv, FreeListExact
  <2>11. TagAge'
    <3> SUFFICES ASSUME NEW t \in held, t.slot \in Slots
                 PROVE  /\ t.born <= epoch'[t.slot]
                        /\ generation'[t.slot]
                             = Advance(t.generation, epoch'[t.slot] - t.born)
      BY <1>h DEF TagAge
    <3>1. /\ t.born <= epoch[t.slot]
          /\ generation[t.slot] = Advance(t.generation, epoch[t.slot] - t.born)
          /\ epoch'[t.slot] - t.born < GenMod
      BY <1>h DEF IInv, TagAge, NoTagOutlivesWrap
    <3>2. /\ t.born \in Nat /\ epoch[t.slot] \in Nat
          /\ t.generation \in Nat /\ t.generation < GenMod
      BY <1>t DEF TypeOK, Held, Gens
    <3>3. CASE t.slot = s
      <4>1. epoch'[t.slot] = epoch[t.slot] + 1 /\ generation'[t.slot] = wrapping_add(generation[t.slot])
        BY <3>3, <2>1, <2>5, <2>7
      <4> QED BY <4>1, <3>1, <3>2 DEF Advance, wrapping_add
    <3>4. CASE t.slot # s
      <4>1. epoch'[t.slot] = epoch[t.slot] /\ generation'[t.slot] = generation[t.slot]
        BY <3>4, <2>5, <2>7
      <4> QED BY <4>1, <3>1
    <3> QED BY <3>3, <3>4
  <2>12. IssuedPast'
    BY <2>1, <2>4, <2>5, <1>h, <1>t DEF IInv, IssuedPast, TypeOK
  <2>13. HeldIssued'
    BY <1>h DEF IInv, HeldIssued, HandleOf
  <2> QED BY <2>9, <2>10, <2>11, <2>12, <2>13 DEF IInv
<1> QED BY <1>1, <1>2

(* bet_evict: every slot is reclaimed at once.                             *)
LEMMA EvictIInv == IInv /\ Evict /\ NoTagOutlivesWrap' /\ WithinBound' => IInv'
<1> SUFFICES ASSUME IInv, Evict, NoTagOutlivesWrap', WithinBound' PROVE IInv'
  OBVIOUS
<1> USE CribAssumption, EpochAssumption
<1>t. TypeOK /\ CribTypeOK
  BY DEF IInv, TypeOK
<1>1. /\ occupied' = [r \in Slots |-> FALSE]
      /\ generation' = [r \in Slots |-> wrapping_add(generation[r])]
      /\ free' = AllFree
      /\ epoch' = [r \in Slots |-> epoch[r] + 1]
      /\ UNCHANGED <<store, held, issued>>
  BY DEF Evict, bet_evict
<1>2. epoch' \in [Slots -> 0 .. MaxEpoch]
  BY <1>1, <1>t DEF WithinBound, TypeOK
<1>3. generation' \in [Slots -> Gens]
  BY <1>1, <1>t DEF CribTypeOK, wrapping_add, Gens
<1>4. TypeOK'
  BY <1>1, <1>2, <1>3, <1>t, AllFreeExact DEF TypeOK, CribTypeOK
<1>5. FreeListExact'
  BY <1>1, AllFreeExact DEF FreeListExact
<1>6. TagAge'
  <2> SUFFICES ASSUME NEW t \in held, t.slot \in Slots
               PROVE  /\ t.born <= epoch'[t.slot]
                      /\ generation'[t.slot]
                           = Advance(t.generation, epoch'[t.slot] - t.born)
    BY <1>1 DEF TagAge
  <2>1. /\ t.born <= epoch[t.slot]
        /\ generation[t.slot] = Advance(t.generation, epoch[t.slot] - t.born)
        /\ epoch'[t.slot] - t.born < GenMod
    BY <1>1 DEF IInv, TagAge, NoTagOutlivesWrap
  <2>2. /\ t.born \in Nat /\ epoch[t.slot] \in Nat
        /\ t.generation \in Nat /\ t.generation < GenMod
    BY <1>t DEF TypeOK, Held, Gens
  <2>3. epoch'[t.slot] = epoch[t.slot] + 1 /\ generation'[t.slot] = wrapping_add(generation[t.slot])
    BY <1>1
  <2> QED BY <2>1, <2>2, <2>3 DEF Advance, wrapping_add
<1>7. IssuedPast'
  BY <1>1, <1>t DEF IInv, IssuedPast, TypeOK
<1>8. HeldIssued'
  BY <1>1 DEF IInv, HeldIssued, HandleOf
<1> QED BY <1>4, <1>5, <1>6, <1>7, <1>8 DEF IInv

(* Every operation of the crib, and forgetting a tag, preserves the        *)
(* inductive invariant.                                                    *)
LEMMA NextIInv == IInv /\ [Next]_vars => IInv'
<1> SUFFICES ASSUME IInv, [Next]_vars PROVE IInv'
  OBVIOUS
<1>t. CribTypeOK
  BY DEF IInv, TypeOK
<1>1. CASE UNCHANGED vars
  <2>1. UNCHANGED <<occupied, generation, free, store, held, epoch, issued>>
    BY <1>1 DEF vars
  <2>2. NoTagOutlivesWrap'
    BY <2>1 DEF IInv, NoTagOutlivesWrap
  <2> QED BY <2>1, <2>2, <1>t, ObserveIInv DEF CribTypeOK
<1>2. CASE Next
  <2>b. NoTagOutlivesWrap' /\ WithinBound'
    BY <1>2 DEF Next
  <2>1. CASE Cop
    BY <2>1, <2>b, CopIInv
  <2>2. CASE Evict
    BY <2>2, <2>b, EvictIInv
  <2>3. ASSUME NEW t \in held, Read(t) PROVE IInv'
    BY <2>3, <2>b, <1>t, ObserveIInv DEF Read, cribVars, CribTypeOK
  <2>4. ASSUME NEW t \in held, Trust(t) PROVE IInv'
    BY <2>4, <2>b, <1>t, ObserveIInv DEF Trust, cribVars, CribTypeOK
  <2>5. ASSUME NEW t \in held, EvictSlot(t) PROVE IInv'
    BY <2>5, <2>b, EvictSlotIInv
  <2>6. ASSUME NEW t \in held, Forget(t) PROVE IInv'
    BY <2>6, <2>b, <1>t, ObserveIInv DEF Forget, cribVars, CribTypeOK
  <2>7. ASSUME NEW t \in held, NEW v \in Value, Write(t, v) PROVE IInv'
    <3>1. /\ UNCHANGED <<occupied, generation, free, held, epoch, issued>>
          /\ store' \in [Slots -> Value]
      BY <2>7, <1>t DEF Write, WriteSlot, cribVars, CribTypeOK
    <3> QED BY <3>1, <2>b, ObserveIInv
  <2> QED BY <1>2, <2>1, <2>2, <2>3, <2>4, <2>5, <2>6, <2>7 DEF Next, Step
<1> QED BY <1>1, <1>2

(* Every reachable state of the crib and its program satisfies the         *)
(* inductive invariant.                                                    *)
THEOREM Invariance == Spec => []IInv
<1>1. Init => IInv
  BY InitIInv
<1>2. IInv /\ [Next]_vars => IInv'
  BY NextIInv
<1> QED BY <1>1, <1>2, PTL DEF Spec

(* Slots, generations, the free list and the held tags keep their types.   *)
THEOREM TypeCorrect == Spec => []TypeOK
<1>1. IInv => TypeOK
  BY DEF IInv
<1> QED BY <1>1, Invariance, PTL

(* The free list of the slab never loses a slot and never lists one twice. *)
THEOREM FreeListIsExact == Spec => []FreeListExact
<1>1. IInv => FreeListExact
  BY DEF IInv
<1> QED BY <1>1, Invariance, PTL

(* No stale tag ever resolves and no live tag is ever ghosted, for every   *)
(* generation width, as long as no tag is kept through a full wrap.        *)
THEOREM StaleTagsGhost == Spec => []ResolvesIffLive
<1>1. IInv => ResolvesIffLive
  BY ResolvesFromIInv
<1> QED BY <1>1, Invariance, PTL

-----------------------------------------------------------------------------
(* Refinement: the slab implements the abstract handle table.              *)

(* As many handles are live as slots are occupied, so the table is full    *)
(* exactly when the free list is empty.                                    *)
LEMMA LiveCount ==
    ASSUME IInv
    PROVE  /\ free = <<>> => Cardinality(LiveHandles) = Capacity
           /\ free # <<>> => Cardinality(LiveHandles) < Capacity
<1> DEFINE Occ == {s \in Slots : occupied[s]}
           f == [s \in Occ |-> <<s, epoch[s]>>]
<1> USE CribAssumption
<1>1. IsFiniteSet(Slots) /\ Cardinality(Slots) = Capacity
  <2>1. 0 \in Int /\ Capacity - 1 \in Int /\ ~(0 > Capacity - 1) /\ (Capacity - 1) - 0 + 1 = Capacity
    OBVIOUS
  <2> QED BY <2>1, FS_Interval DEF Slots
<1>2. /\ IsFiniteSet(Occ)
      /\ Cardinality(Occ) <= Capacity
      /\ Cardinality(Occ) = Capacity => Occ = Slots
  <2>1. Occ \in SUBSET Slots
    OBVIOUS
  <2> HIDE DEF Occ
  <2> QED BY <1>1, <2>1, FS_Subset
<1>3. Cardinality(LiveHandles) = Cardinality(Occ)
  <2>1. f \in Bijection(Occ, LiveHandles)
    <3>1. f \in [Occ -> LiveHandles]
      BY DEF LiveHandles
    <3>2. \A a, b \in Occ : f[a] = f[b] => a = b
      OBVIOUS
    <3>3. \A h \in LiveHandles : \E a \in Occ : f[a] = h
      BY DEF LiveHandles
    <3> HIDE DEF f, Occ
    <3> QED BY <3>1, <3>2, <3>3 DEF Bijection, Injection, Surjection, IsInjective
  <2>2. ExistsBijection(Occ, LiveHandles)
    BY <2>1 DEF ExistsBijection
  <2> HIDE DEF Occ
  <2> QED BY <1>2, <2>2, FS_Bijection
<1>4. {free[i] : i \in DOMAIN free} = Slots \ Occ
  BY DEF IInv, FreeListExact
<1>5. CASE free = <<>>
  <2>1. Occ = Slots
    BY <1>4, <1>5
  <2> QED BY <1>1, <1>3, <1>5, <2>1
<1>6. CASE free # <<>>
  <2>1. free[Len(free)] \in {free[i] : i \in DOMAIN free}
    BY <1>6 DEF IInv, TypeOK, CribTypeOK
  <2>2. Occ # Slots
    BY <1>4, <2>1
  <2>3. Cardinality(Occ) \in Nat
    BY <1>2, FS_CardinalityType
  <2> HIDE DEF Occ
  <2> QED BY <1>2, <1>3, <1>6, <2>2, <2>3
<1> QED BY <1>5, <1>6

(* The cardinality the instantiated module speaks of is the same.          *)
LEMMA SameCardinality == Handles!Cardinality(LiveHandles) = Cardinality(LiveHandles)
BY DEF Handles!Cardinality, Cardinality

(* A held tag resolves exactly when its handle is live in the table.       *)
LEMMA LiveTag ==
    ASSUME IInv, NEW t \in held
    PROVE  /\ IsLive(TagOf(t)) <=> HandleOf(t) \in LiveHandles
           /\ HandleOf(t) \in LiveHandles => Contents[HandleOf(t)] = store[t.slot]
           /\ HandleOf(t) \in issued \cup {NullHandle}
<1>1. IsLive(TagOf(t)) <=> t.slot \in Slots /\ epoch[t.slot] = t.born
  BY ResolvesFromIInv DEF ResolvesIffLive
<1>2. IsLive(TagOf(t)) => occupied[t.slot]
  BY DEF IsLive, TagOf
<1>3. HandleOf(t) \in LiveHandles <=> /\ t.slot \in Slots
                                      /\ occupied[t.slot]
                                      /\ epoch[t.slot] = t.born
  BY DEF HandleOf, LiveHandles
<1>4. HandleOf(t) \in LiveHandles => Contents[HandleOf(t)] = store[t.slot]
  BY DEF HandleOf, Contents
<1>5. HandleOf(t) \in issued \cup {NullHandle}
  BY DEF IInv, HeldIssued, HandleOf, HeldNull, NullHandle
<1> QED BY <1>1, <1>2, <1>3, <1>4, <1>5

(* The crib bet_crib_new builds is the empty handle table.                 *)
LEMMA InitRefines == Init => Handles!Init
<1> SUFFICES ASSUME Init PROVE Handles!Init
  OBVIOUS
<1>1. LiveHandles = {}
  BY DEF Init, bet_crib_new, LiveHandles
<1>2. Contents = [h \in {} |-> NullHandle]
  BY <1>1 DEF Contents
<1> QED BY <1>1, <1>2 DEF Init, Handles!Init, Result, Handles!Result

(* bet_cop issues a live handle never seen before, or a null one exactly   *)
(* when the table is full.                                                 *)
LEMMA CopRefines == IInv /\ Cop => Handles!Cop
<1> SUFFICES ASSUME IInv, Cop PROVE Handles!Cop
  OBVIOUS
<1> USE CribAssumption
<1>t. TypeOK /\ CribTypeOK
  BY DEF IInv, TypeOK
<1>1. CASE free = <<>>
  <2>1. bet_cop_tag = NullTag /\ NullTag.slot \notin Slots
    BY <1>1 DEF bet_cop_tag, NullTag, Slots
  <2>2. UNCHANGED <<occupied, generation, free, store, epoch, issued>>
    BY <1>1, <2>1 DEF Cop, bet_cop, metaVars
  <2>3. LiveHandles' = LiveHandles /\ Contents' = Contents
    BY <2>2 DEF LiveHandles, Contents
  <2>4. obs' = Result("cop", NullHandle, "ghosted")
    BY <2>1 DEF Cop, HandleOf, NullTag, NullHandle
  <2> QED BY <1>1, <2>2, <2>3, <2>4, LiveCount, SameCardinality DEF Handles!Cop, Result, Handles!Result
<1>2. CASE free # <<>>
  <2> DEFINE s == free[Len(free)]
             h == <<s, epoch[s]>>
  <2>1. s \in Slots /\ ~occupied[s]
    <3>1. s \in {free[i] : i \in DOMAIN free}
      BY <1>2, <1>t DEF CribTypeOK
    <3> QED BY <3>1 DEF IInv, FreeListExact
  <2>2. bet_cop_tag = [slot |-> s, generation |-> generation[s]] /\ bet_cop_tag # NullTag
    BY <1>2, <2>1 DEF bet_cop_tag, NullTag, Slots
  <2>3. /\ occupied' = [occupied EXCEPT ![s] = TRUE]
        /\ UNCHANGED <<store, epoch>>
        /\ issued' = issued \cup {h}
        /\ obs' = Result("cop", h, "ok")
    BY <1>2, <2>1, <2>2 DEF Cop, bet_cop, HandleOf
  <2>4. h \in Handle \ issued
    <3>1. epoch[s] \in 0 .. MaxEpoch
      BY <2>1, <1>t DEF TypeOK
    <3> QED BY <2>1, <3>1 DEF Handle, IInv, IssuedPast
  <2>5. LiveHandles' = LiveHandles \cup {h}
    <3>1. \A r \in Slots : occupied'[r] <=> (occupied[r] \/ r = s)
      BY <2>1, <2>3, <1>t, Zenon DEF CribTypeOK
    <3> QED BY <2>1, <2>3, <3>1 DEF LiveHandles
  <2>6. Contents' = [x \in LiveHandles \cup {h} |-> IF x = h THEN store[s] ELSE Contents[x]]
    BY <2>3, <2>5 DEF Contents
  <2>7. store[s] \in Value
    BY <2>1, <1>t DEF CribTypeOK
  <2> HIDE DEF h, s
  <2> QED BY <1>2, <2>3, <2>4, <2>5, <2>6, <2>7, LiveCount, SameCardinality DEF Handles!Cop, Result, Handles!Result
<1> QED BY <1>1, <1>2

(* The operations that only look through a tag.                            *)
LEMMA LookRefines ==
    ASSUME IInv, NEW t \in held
    PROVE  /\ Read(t) => Handles!Read(HandleOf(t))
           /\ Trust(t) => Handles!Trust(HandleOf(t))
<1>t. CribTypeOK
  BY DEF IInv, TypeOK
<1>1. ASSUME Read(t) PROVE Handles!Read(HandleOf(t))
  <2>1. UNCHANGED <<occupied, store, epoch, issued>>
    BY <1>1 DEF Read, cribVars
  <2>2. LiveHandles' = LiveHandles /\ Contents' = Contents
    BY <2>1 DEF LiveHandles, Contents
  <2>3. bet_holla_check(TagOf(t)) = IF HandleOf(t) \in LiveHandles
                                    THEN Contents[HandleOf(t)] ELSE "ghosted"
    BY LiveTag DEF bet_holla_check, TagOf
  <2> QED BY <1>1, <2>1, <2>2, <2>3 DEF Read, Handles!Read, Result, Handles!Result
<1>2. ASSUME Trust(t) PROVE Handles!Trust(HandleOf(t))
  <2>1. UNCHANGED <<occupied, store, epoch, issued>>
    BY <1>2 DEF Trust, cribVars
  <2>2. LiveHandles' = LiveHandles /\ Contents' = Contents
    BY <2>1 DEF LiveHandles, Contents
  <2>3. bet_slot_ptr(t.slot) \in Value \cup {"ghosted"}
    BY <1>t DEF bet_slot_ptr, CribTypeOK
  <2>4. HandleOf(t) \in LiveHandles => bet_slot_ptr(t.slot) = Contents[HandleOf(t)]
    BY LiveTag DEF bet_slot_ptr, IsLive, TagOf
  <2> QED BY <1>2, <2>1, <2>2, <2>3, <2>4 DEF Trust, Handles!Trust, Result, Handles!Result
<1> QED BY <1>1, <1>2

(* A store through a tag reaches the value of its own handle, and a store  *)
(* through a ghosted tag reaches nothing.                                  *)
LEMMA WriteRefines ==
    ASSUME IInv, NEW t \in held, NEW v \in Value, Write(t, v)
    PROVE  Handles!Write(HandleOf(t), v)
<1>t. CribTypeOK
  BY DEF IInv, TypeOK
<1>1. UNCHANGED <<occupied, epoch, issued>>
  BY DEF Write, WriteSlot, cribVars
<1>2. LiveHandles' = LiveHandles
  BY <1>1 DEF LiveHandles
<1>3. CASE ~IsLive(TagOf(t))
  <2>1. store' = store /\ obs' = Result("write", HandleOf(t), "ghosted")
    BY <1>3 DEF Write, cribVars
  <2>2. Contents' = Contents
    BY <1>2, <2>1 DEF Contents
  <2>3. HandleOf(t) \notin LiveHandles
    BY <1>3, LiveTag
  <2> QED BY <1>1, <1>2, <2>1, <2>2, <2>3 DEF Handles!Write, Result, Handles!Result
<1>4. CASE IsLive(TagOf(t))
  <2>1. /\ store' = [store EXCEPT ![t.slot] = v]
        /\ obs' = Result("write", HandleOf(t), v)
    BY <1>4 DEF Write, WriteSlot
  <2>2. HandleOf(t) \in LiveHandles /\ t.slot \in Slots
    BY <1>4, LiveTag DEF IsLive, TagOf
  <2>3. \A x \in LiveHandles : x[1] \in Slots /\ (x[1] = t.slot => x = HandleOf(t))
    BY <2>2 DEF LiveHandles, HandleOf
  <2>4. HandleOf(t)[1] = t.slot
    BY DEF HandleOf
  <2>5. Contents' = [Contents EXCEPT ![HandleOf(t)] = v]
    BY <1>2, <1>t, <2>1, <2>2, <2>3, <2>4 DEF Contents, CribTypeOK
  <2> QED BY <1>1, <1>2, <2>1, <2>2, <2>5 DEF Handles!Write, Result, Handles!Result
<1> QED BY <1>3, <1>4

(* bet_evict_slot retires the tag's own handle and no other.               *)
LEMMA EvictSlotRefines ==
    ASSUME IInv, NEW t \in held, EvictSlot(t)
    PROVE  Handles!EvictSlot(HandleOf(t))
<1>t. CribTypeOK /\ TypeOK
  BY DEF IInv, TypeOK
<1>1. issued' = issued /\ obs' = Result("evict", HandleOf(t), "ok")
  BY DEF EvictSlot
<1>2. store' = store
  BY DEF EvictSlot, bet_evict_slot, Reclaim, cribVars
<1>3. LiveHandles' = LiveHandles \ {HandleOf(t)}
  <2>1. CASE ~IsLive(TagOf(t))
    <3>1. occupied' = occupied
      BY <2>1 DEF EvictSlot, bet_evict_slot, cribVars
    <3>2. \A r \in Slots : epoch'[r] = epoch[r]
      BY <3>1 DEF EvictSlot
    <3>3. HandleOf(t) \notin LiveHandles
      BY <2>1, LiveTag
    <3> QED BY <3>1, <3>2, <3>3 DEF LiveHandles
  <2>2. CASE IsLive(TagOf(t))
    <3>1. t.slot \in Slots /\ epoch[t.slot] = t.born
      BY <2>2, ResolvesFromIInv DEF ResolvesIffLive
    <3>2. occupied' = [occupied EXCEPT ![t.slot] = FALSE]
      BY <2>2 DEF EvictSlot, bet_evict_slot, Reclaim, TagOf
    <3>3. /\ occupied'[t.slot] = FALSE
          /\ \A r \in Slots : r # t.slot => occupied'[r] = occupied[r]
      BY <3>1, <3>2, <1>t, Zenon DEF CribTypeOK
    <3>4. \A r \in Slots : r # t.slot => epoch'[r] = epoch[r]
      BY <3>3 DEF EvictSlot
    <3>5. HandleOf(t) = <<t.slot, epoch[t.slot]>>
      BY <3>1 DEF HandleOf
    <3> QED BY <3>1, <3>3, <3>4, <3>5 DEF LiveHandles
  <2> QED BY <2>1, <2>2
<1>4. Contents' = [x \in LiveHandles \ {HandleOf(t)} |-> Contents[x]]
  BY <1>2, <1>3 DEF Contents
<1> QED BY <1>1, <1>3, <1>4 DEF Handles!EvictSlot, Result, Handles!Result

(* bet_evict retires every handle of the table.                            *)
LEMMA EvictRefines == IInv /\ Evict => Handles!Evict
<1> SUFFICES ASSUME IInv, Evict PROVE Handles!Evict
  OBVIOUS
<1>1. /\ occupied' = [r \in Slots |-> FALSE]
      /\ issued' = issued
      /\ obs' = Result("evictall", NullHandle, "ok")
  BY DEF Evict, bet_evict
<1>2. LiveHandles' = {}
  BY <1>1 DEF LiveHandles
<1>3. Contents' = [x \in {} |-> NullHandle]
  BY <1>2 DEF Contents
<1> QED BY <1>1, <1>2, <1>3 DEF Handles!Evict, Result, Handles!Result

(* Every step of the slab is a step of the handle table or invisible in    *)
(* it: forgetting a tag, and stuttering.                                   *)
LEMMA StepRefines == IInv /\ [Next]_vars => [Handles!Next]_(Handles!vars)
<1> SUFFICES ASSUME IInv, [Next]_vars PROVE Handles!Next \/ UNCHANGED Handles!vars
  OBVIOUS
<1>1. ASSUME UNCHANGED <<occupied, store, epoch, issued, obs>> PROVE UNCHANGED Handles!vars
  <2>1. LiveHandles' = LiveHandles /\ Contents' = Contents
    BY <1>1 DEF LiveHandles, Contents
  <2> QED BY <1>1, <2>1 DEF Handles!vars
<1>2. CASE UNCHANGED vars
  BY <1>1, <1>2 DEF vars
<1>3. CASE Cop
  BY <1>3, CopRefines DEF Handles!Next
<1>4. CASE Evict
  BY <1>4, EvictRefines DEF Handles!Next
<1>5. ASSUME NEW t \in held, Read(t) PROVE Handles!Next
  BY <1>5, LookRefines, LiveTag DEF Handles!Next
<1>6. ASSUME NEW t \in held, Trust(t) PROVE Handles!Next
  BY <1>6, LookRefines, LiveTag DEF Handles!Next
<1>7. ASSUME NEW t \in held, EvictSlot(t) PROVE Handles!Next
  BY <1>7, EvictSlotRefines, LiveTag DEF Handles!Next
<1>8. ASSUME NEW t \in held, Forget(t) PROVE UNCHANGED Handles!vars
  BY <1>1, <1>8 DEF Forget, cribVars
<1>9. ASSUME NEW t \in held, NEW v \in Value, Write(t, v) PROVE Handles!Next
  BY <1>9, WriteRefines, LiveTag DEF Handles!Next
<1> QED BY <1>2, <1>3, <1>4, <1>5, <1>6, <1>7, <1>8, <1>9 DEF Next, Step

(* The runtime's slab with LIFO free list and wrapping generations         *)
(* implements the abstract handle table, for every capacity.               *)
THEOREM Refinement == Spec => ImplementsGenHandles
<1>1. Init => Handles!Init
  BY InitRefines
<1>2. IInv /\ [Next]_vars => [Handles!Next]_(Handles!vars)
  BY StepRefines
<1> QED BY <1>1, <1>2, Invariance, PTL DEF Spec, Handles!Spec, ImplementsGenHandles
=============================================================================
