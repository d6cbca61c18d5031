------------------------------ MODULE StubCrib ------------------------------
(***************************************************************************)
(* The reference runtime's typed crib (crates/rt-stub/src/lib.rs): the same *)
(* ABI as TypedCrib, but no free list.  `cop` takes the first unoccupied   *)
(* slot of a linear scan.                                                  *)
(***************************************************************************)
EXTENDS Integers

CONSTANTS Capacity, NullSlot, GenMod, Value

VARIABLES occupied, generation, store

cribVars == <<occupied, generation, store>>

Slots == 0 .. Capacity - 1
NullTag == [slot |-> NullSlot, generation |-> 0]

bet_crib_new == /\ occupied = [s \in Slots |-> FALSE]
                /\ generation = [s \in Slots |-> 0]
                /\ store \in [Slots -> Value]

wrapping_add(g) == IF g + 1 = GenMod THEN 0 ELSE g + 1

IsLive(tag) == /\ tag.slot \in Slots
               /\ occupied[tag.slot]
               /\ generation[tag.slot] = tag.generation

FreeSlots == {s \in Slots : ~occupied[s]}
FirstFree == CHOOSE s \in FreeSlots : \A r \in FreeSlots : s <= r

bet_cop_tag == IF FreeSlots = {}
               THEN NullTag
               ELSE [slot |-> FirstFree, generation |-> generation[FirstFree]]

bet_cop == /\ occupied' = IF FreeSlots = {} THEN occupied
                          ELSE [occupied EXCEPT ![FirstFree] = TRUE]
           /\ UNCHANGED generation

bet_evict == /\ occupied' = [s \in Slots |-> FALSE]
             /\ generation' = [s \in Slots |-> wrapping_add(generation[s])]
             /\ UNCHANGED store

(* The freed slot is reused without a new generation.                      *)
bet_evict_slot_mutant(tag) ==
    /\ occupied' = IF IsLive(tag) THEN [occupied EXCEPT ![tag.slot] = FALSE]
                   ELSE occupied
    /\ UNCHANGED <<generation, store>>
bet_evict_slot(tag) ==
    IF IsLive(tag)
    THEN /\ occupied' = [occupied EXCEPT ![tag.slot] = FALSE]
         /\ generation' = [generation EXCEPT ![tag.slot] = wrapping_add(@)]
         /\ UNCHANGED store
    ELSE UNCHANGED cribVars

bet_slot_ptr(slot) == IF slot \in Slots THEN store[slot] ELSE "ghosted"
=============================================================================
