----------------------------- MODULE CribProgram -----------------------------
(***************************************************************************)
(* A program using one typed crib through the ABI entry points: it keeps   *)
(* any of the tags it was given, copies them, uses them long after their   *)
(* slot was freed and reused, and forgets them.  The ghost variables name  *)
(* each handle by its slot and by how often that slot had been reclaimed   *)
(* when the handle was issued, a number that never wraps.                  *)
(***************************************************************************)
EXTENDS TypedCrib, FiniteSets

CONSTANT MaxEpoch   \* bound on the reclaims of one slot

ASSUME EpochAssumption == MaxEpoch \in Nat

VARIABLES held,     \* tags the program can still use
          epoch,    \* ghost: how often each slot was reclaimed
          issued,   \* ghost: handles handed out so far
          obs       \* ghost: what the last operation returned

ghostVars == <<held, epoch, issued, obs>>
vars == <<occupied, generation, free, store, held, epoch, issued, obs>>

Handle     == Slots \X (0 .. MaxEpoch)
NullHandle == <<NullSlot, 0>>

(* A tag the program holds, with the ghost epoch it was issued in.         *)
Held == [slot : Slots \cup {NullSlot}, generation : Gens, born : 0 .. MaxEpoch]

HeldNull    == [slot |-> NullSlot, generation |-> 0, born |-> 0]
HandleOf(t) == <<t.slot, t.born>>
TagOf(t)    == [slot |-> t.slot, generation |-> t.generation]

Result(op, h, r) == [op |-> op, handle |-> h, res |-> r]

TypeOK == /\ CribTypeOK
          /\ held \subseteq Held
          /\ epoch \in [Slots -> 0 .. MaxEpoch]
          /\ issued \subseteq Handle

Init == /\ bet_crib_new
        /\ held = {HeldNull}      \* the zero default of a tag field
        /\ epoch = [s \in Slots |-> 0]
        /\ issued = {}
        /\ obs = Result("init", NullHandle, "none")

Cop == LET tag == bet_cop_tag
           t == [slot |-> tag.slot, generation |-> tag.generation,
                 born |-> IF tag.slot \in Slots THEN epoch[tag.slot] ELSE 0]
       IN /\ bet_cop
          /\ held' = held \cup {t}
          /\ issued' = IF tag = NullTag THEN issued ELSE issued \cup {HandleOf(t)}
          /\ obs' = Result("cop", HandleOf(t), IF tag = NullTag THEN "ghosted" ELSE "ok")
          /\ UNCHANGED <<store, epoch>>

Read(t) == /\ obs' = Result("read", HandleOf(t), bet_holla_check(TagOf(t)))
           /\ UNCHANGED <<cribVars, held, epoch, issued>>

Write(t, v) == /\ IF IsLive(TagOf(t))
                  THEN /\ WriteSlot(t.slot, v)
                       /\ obs' = Result("write", HandleOf(t), v)
                  ELSE /\ UNCHANGED cribVars
                       /\ obs' = Result("write", HandleOf(t), "ghosted")
               /\ UNCHANGED <<held, epoch, issued>>

Trust(t) == /\ obs' = Result("trust", HandleOf(t), bet_slot_ptr(t.slot))
            /\ UNCHANGED <<cribVars, held, epoch, issued>>

(* The ghost epoch follows the generation the code really bumped.          *)
EvictSlot(t) == /\ bet_evict_slot(TagOf(t))
                /\ epoch' = [s \in Slots |-> IF occupied'[s] # occupied[s]
                                             THEN epoch[s] + 1 ELSE epoch[s]]
                /\ obs' = Result("evict", HandleOf(t), "ok")
                /\ UNCHANGED <<held, issued>>

Evict == /\ bet_evict
         /\ epoch' = [s \in Slots |-> epoch[s] + 1]
         /\ obs' = Result("evictall", NullHandle, "ok")
         /\ UNCHANGED <<held, issued>>

(* A tag variable goes out of scope or is overwritten.                     *)
Forget(t) == /\ held' = held \ {t}
             /\ UNCHANGED <<cribVars, epoch, issued, obs>>

(* What a 64-bit generation buys: nobody keeps a tag through GenMod        *)
(* reclaims of its slot.  An assumption about the program, not a check the *)
(* code makes.                                                             *)
NoTagOutlivesWrap == \A t \in held :
                        t.slot \in Slots => epoch[t.slot] - t.born < GenMod

WithinBound == \A s \in Slots : epoch[s] <= MaxEpoch

Step == \/ Cop
        \/ Evict
        \/ \E t \in held : \/ Read(t)
                           \/ Trust(t)
                           \/ EvictSlot(t)
                           \/ Forget(t)
                           \/ \E v \in Value : Write(t, v)

Next == Step /\ NoTagOutlivesWrap' /\ WithinBound'

Spec == Init /\ [][Next]_vars

-----------------------------------------------------------------------------
(* The free list holds every unoccupied slot exactly once: an element is   *)
(* never handed out twice and no slot is lost, whatever mix of per-slot    *)
(* evicts, double evicts and mass evicts the program makes.                *)
FreeListExact ==
    /\ \A i, j \in DOMAIN free : free[i] = free[j] => i = j
    /\ {free[i] : i \in DOMAIN free} = {s \in Slots : ~occupied[s]}

(* A tag resolves exactly as long as the handle it was issued for has not  *)
(* been reclaimed: a stale tag is ghosted even when its slot has been      *)
(* reused and the generation has wrapped since, and a live tag is never    *)
(* ghosted by operations on other slots.                                   *)
ResolvesIffLive ==
    \A t \in held : IsLive(TagOf(t)) <=> /\ t.slot \in Slots
                                         /\ epoch[t.slot] = t.born

-----------------------------------------------------------------------------
(* The crib implements the handle interface.                               *)
LiveHandles == {<<s, epoch[s]>> : s \in {r \in Slots : occupied[r]}}

Contents    == [h \in LiveHandles |-> store[h[1]]]

Handles == INSTANCE GenHandles WITH live <- LiveHandles, mem <- Contents

(* Every operation of the runtime's crib is an operation of the abstract   *)
(* handle table: fresh handles, ghosting for ever after a reclaim, no      *)
(* other element's contents disturbed, null only when the crib is full.    *)
ImplementsGenHandles == Handles!Spec
=============================================================================
