----------------------------- MODULE InterpArena -----------------------------
(***************************************************************************)
(* The tree-walking interpreter's arena (crates/interp/src/interp.rs,      *)
(* struct Arena): a growable list of generational slots.  The capacity the *)
(* program declared is not kept: alloc grows the slab when no slot is      *)
(* free.  Slots are numbered from 1.                                       *)
(***************************************************************************)
EXTENDS Integers, Sequences

VARIABLE slots   \* Arena.slots: [value, generation, live]

GhostedTag == [slot |-> 0, generation |-> 0]   \* Value::Ghosted in a tag

new_arena == slots = <<>>

Freed   == {i \in DOMAIN slots : ~slots[i].live}
Reused  == CHOOSE i \in Freed : \A j \in Freed : i <= j

alloc_tag == IF Freed = {} THEN [slot |-> Len(slots) + 1, generation |-> 0]
             ELSE [slot |-> Reused, generation |-> slots[Reused].generation]

alloc(v) == slots' = IF Freed = {}
                     THEN Append(slots, [value |-> v, generation |-> 0, live |-> TRUE])
                     ELSE [slots EXCEPT ![Reused].value = v, ![Reused].live = TRUE]

IsCurrent(tag) == /\ tag.slot \in DOMAIN slots
                  /\ slots[tag.slot].live
                  /\ slots[tag.slot].generation = tag.generation

resolve(tag) == IF IsCurrent(tag) THEN slots[tag.slot].value ELSE "ghosted"

resolve_unchecked(tag) == IF tag.slot \in DOMAIN slots
                          THEN slots[tag.slot].value ELSE "ghosted"

(* The write-back of a holla binding. *)
write_slot(tag, v) ==
    slots' = IF IsCurrent(tag) THEN [slots EXCEPT ![tag.slot].value = v] ELSE slots

evict_mutant == slots' = [i \in DOMAIN slots |-> [slots[i] EXCEPT !.live = FALSE]]
evict == slots' = [i \in DOMAIN slots |->
                     [slots[i] EXCEPT !.generation = @ + 1, !.live = FALSE]]

evict_slot(tag) ==
    slots' = IF IsCurrent(tag)
             THEN [slots EXCEPT ![tag.slot].live = FALSE, ![tag.slot].generation = @ + 1]
             ELSE slots
=============================================================================
