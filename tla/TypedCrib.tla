------------------------------ MODULE TypedCrib ------------------------------
(***************************************************************************)
(* The runtime's typed crib (crates/runtime/src/lib.rs): a slab of         *)
(* Capacity slots, each with an occupied bit and a wrapping generation,    *)
(* and a LIFO list of the free slots.  One operator per ABI entry point:   *)
(* an action for an entry point that changes the crib, a state function    *)
(* for what an entry point returns.                                        *)
(***************************************************************************)
EXTENDS Integers, Sequences

CONSTANTS Capacity,  \* slots of the slab, a u32 in the code
          NullSlot,  \* the slot of Tag::NULL, u32::MAX in the code
          GenMod,    \* number of generations before the counter wraps, 2^64
          Value      \* contents of an element

(* A crib whose slab has bytes: bet_crib_new allocates no slab when        *)
(* elem_size * capacity is 0.  Capacity is a u32, so u32::MAX is never the *)
(* index of a slot.                                                        *)
ASSUME CribAssumption == /\ Capacity \in Nat \ {0}
                         /\ NullSlot \in Nat
                         /\ NullSlot >= Capacity
                         /\ GenMod \in Nat \ {0}

VARIABLES occupied,    \* SlotMeta.occupied
          generation,  \* SlotMeta.generation
          free,        \* TypedCrib.free
          store        \* the bytes behind TypedCrib.base, one value per slot

metaVars == <<occupied, generation, free>>
cribVars == <<occupied, generation, free, store>>

Slots == 0 .. Capacity - 1
Gens  == 0 .. GenMod - 1

Tag     == [slot : Slots \cup {NullSlot}, generation : Gens]
NullTag == [slot |-> NullSlot, generation |-> 0]

CribTypeOK == /\ occupied \in [Slots -> BOOLEAN]
              /\ generation \in [Slots -> Gens]
              /\ free \in Seq(Slots)
              /\ store \in [Slots -> Value]

(* 0, 1, ..., Capacity - 1: how bet_crib_new and bet_evict fill the list.  *)
AllFree == [i \in 1 .. Capacity |-> i - 1]

(* The slab is not zeroed: alloc_or_die hands out uninitialised bytes.     *)
bet_crib_new == /\ occupied = [s \in Slots |-> FALSE]
                /\ generation = [s \in Slots |-> 0]
                /\ free = AllFree
                /\ store \in [Slots -> Value]

wrapping_add_mutant(g) == g + 1
wrapping_add(g) == IF g + 1 = GenMod THEN 0 ELSE g + 1

(* The guard of bet_holla_check and of bet_evict_slot.                     *)
IsLive_mutant(tag) == tag.slot \in Slots /\ occupied[tag.slot]
IsLive(tag) == /\ tag.slot \in Slots
               /\ occupied[tag.slot]
               /\ generation[tag.slot] = tag.generation

(* What bet_cop returns, and what it does to the crib.  It does not touch  *)
(* the slab: the caller initialises the element.                           *)
bet_cop_tag == IF free = <<>>
               THEN NullTag
               ELSE [slot |-> free[Len(free)],
                     generation |-> generation[free[Len(free)]]]

bet_cop == \/ /\ free # <<>>
              /\ free' = SubSeq(free, 1, Len(free) - 1)
              /\ occupied' = [occupied EXCEPT ![free[Len(free)]] = TRUE]
              /\ UNCHANGED generation
           \/ /\ free = <<>>
              /\ UNCHANGED metaVars

bet_evict_mutant == /\ occupied' = [s \in Slots |-> FALSE]
                    /\ free' = AllFree
                    /\ UNCHANGED <<generation, store>>
bet_evict == /\ occupied' = [s \in Slots |-> FALSE]
             /\ generation' = [s \in Slots |-> wrapping_add(generation[s])]
             /\ free' = AllFree
             /\ UNCHANGED store

Reclaim(s) == /\ occupied' = [occupied EXCEPT ![s] = FALSE]
              /\ generation' = [generation EXCEPT ![s] = wrapping_add(@)]
              /\ free' = Append(free, s)
              /\ UNCHANGED store

bet_evict_slot_mutant(tag) == IF tag.slot \in Slots
                              THEN Reclaim(tag.slot)
                              ELSE UNCHANGED cribVars
bet_evict_slot(tag) == IF IsLive(tag)
                       THEN Reclaim(tag.slot)
                       ELSE UNCHANGED cribVars

(* What the pointer a checked resolve returns reads as; "ghosted" stands   *)
(* for the null pointer.                                                   *)
bet_holla_check(tag) == IF IsLive(tag) THEN store[tag.slot] ELSE "ghosted"

(* The unchecked resolve behind `trust`: only the bounds are checked.      *)
bet_slot_ptr(slot) == IF slot \in Slots THEN store[slot] ELSE "ghosted"

(* A store through a resolved element pointer.                             *)
WriteSlot(s, v) == /\ store' = [store EXCEPT ![s] = v]
                   /\ UNCHANGED <<occupied, generation, free>>
=============================================================================
