----------------------------- MODULE CribParity -----------------------------
(***************************************************************************)
(* One program run three ways in lockstep: compiled against the runtime,   *)
(* compiled against the reference runtime (rt-stub), and interpreted.      *)
(*                                                                         *)
(* The compiled program gets `cop` as three calls (bet_cop,                *)
(* bet_holla_check, a store through the returned pointer) and holds a live *)
(* pointer for the whole live arm of a `holla`.  The interpreter binds a   *)
(* snapshot and writes it back when the arm ends, if it changed.           *)
(***************************************************************************)
EXTENDS Integers, Sequences

CONSTANTS Capacity, NullSlot, GenMod, Value,
          MaxCops,          \* bound: cops the program makes
          MaxEvicts,        \* bound: reclaims the program makes
          MaxOpen,          \* bound: nesting of holla blocks
          ExclusiveHolla    \* no element is evicted, or opened again, while
                            \* a holla block has it open

(* Fewer reclaims than generations, as with the code's 64-bit counters.    *)
ASSUME ParityAssumption == /\ Capacity \in Nat \ {0}
                           /\ NullSlot \in Nat /\ NullSlot >= Capacity
                           /\ {MaxCops, MaxEvicts, MaxOpen} \subseteq Nat
                           /\ GenMod \in Nat /\ MaxEvicts < GenMod
                           /\ ExclusiveHolla \in BOOLEAN

VARIABLES rOccupied, rGeneration, rFree, rStore,   \* runtime
          sOccupied, sGeneration, sStore,          \* rt-stub
          slots,                                   \* interpreter
          tags,     \* tag values the program holds, one tag per execution
          open,     \* the holla blocks being executed, innermost last
          wild,     \* compiled code stored through a null pointer
          seen,     \* what the last step showed in each execution
          cops, evicts

R == INSTANCE TypedCrib WITH occupied <- rOccupied, generation <- rGeneration,
                             free <- rFree, store <- rStore
S == INSTANCE StubCrib  WITH occupied <- sOccupied, generation <- sGeneration,
                             store <- sStore
A == INSTANCE InterpArena

rVars == <<rOccupied, rGeneration, rFree, rStore>>
sVars == <<sOccupied, sGeneration, sStore>>
vars  == <<rVars, sVars, slots, tags, open, wild, seen, cops, evicts>>

NullTags == [r |-> R!NullTag, s |-> S!NullTag, a |-> A!GhostedTag]
Seen(r, s, a) == [r |-> r, s |-> s, a |-> a]
Nothing == Seen("none", "none", "none")

Init == /\ R!bet_crib_new /\ S!bet_crib_new /\ A!new_arena
        /\ tags = {NullTags}
        /\ open = <<>>
        /\ wild = FALSE
        /\ seen = Nothing
        /\ cops = 0 /\ evicts = 0

(* `cop v in c`, frontend lower_cop and backend lower_cop: the element the *)
(* fresh tag resolves to gets the initialiser.  When the crib is full the  *)
(* tag is null, bet_holla_check returns null, and the fields are stored    *)
(* through that null pointer.  The interpreter's eval_cop just allocates.  *)
lower_cop(v) ==
    LET rt == R!bet_cop_tag
        st == S!bet_cop_tag
        new == [r |-> rt, s |-> st, a |-> A!alloc_tag]
    IN /\ R!bet_cop /\ S!bet_cop /\ A!alloc(v)
       /\ rStore' = IF rt = R!NullTag THEN rStore ELSE [rStore EXCEPT ![rt.slot] = v]
       /\ sStore' = IF st = S!NullTag THEN sStore ELSE [sStore EXCEPT ![st.slot] = v]
       /\ wild' = (rt = R!NullTag \/ st = S!NullTag)
       /\ tags' = tags \cup {new}
       /\ seen' = Nothing
       /\ cops' = cops + 1
       /\ UNCHANGED <<open, evicts>>

IsOpen(t) == \E i \in DOMAIN open : open[i].tag = t

(* `holla x = t in c`: HollaCheck binds x to the slot's address; the       *)
(* interpreter binds a copy of the value and remembers the original.  The  *)
(* arm each execution takes is observable.                                 *)
exec_holla(t) ==
    LET live == Seen(R!IsLive(t.r), S!IsLive(t.s), A!IsCurrent(t.a))
        value == A!resolve(t.a)
    IN /\ ExclusiveHolla => ~IsOpen(t)
       /\ seen' = live
       /\ open' = IF live.r /\ live.s /\ live.a
                  THEN Append(open, [tag |-> t, snapshot |-> value, binding |-> value])
                  ELSE open
       /\ UNCHANGED <<rVars, sVars, slots, tags, wild, cops, evicts>>

(* A read through the binding of the i-th open block.                      *)
ReadBinding(i) ==
    /\ seen' = Seen(rStore[open[i].tag.r.slot], sStore[open[i].tag.s.slot], open[i].binding)
    /\ UNCHANGED <<rVars, sVars, slots, tags, open, wild, cops, evicts>>

(* An assignment through the binding of the i-th open block.               *)
WriteBinding(i, v) ==
    /\ R!WriteSlot(open[i].tag.r.slot, v)
    /\ sStore' = [sStore EXCEPT ![open[i].tag.s.slot] = v]
    /\ open' = [open EXCEPT ![i].binding = v]
    /\ seen' = Nothing
    /\ UNCHANGED <<sOccupied, sGeneration, slots, tags, wild, cops, evicts>>

(* The innermost live arm ends: the interpreter writes the binding back if *)
(* it differs from the snapshot and the tag is still current.              *)
EndHolla ==
    LET b == open[Len(open)]
    IN /\ open # <<>>
       /\ IF b.binding # b.snapshot
          THEN A!write_slot(b.tag.a, b.binding)
          ELSE UNCHANGED slots
       /\ open' = SubSeq(open, 1, Len(open) - 1)
       /\ seen' = Nothing
       /\ UNCHANGED <<rVars, sVars, tags, wild, cops, evicts>>

(* `t.trust() in c`, where the program knows the tag is live.              *)
Trust(t) ==
    /\ R!IsLive(t.r)
    /\ seen' = Seen(R!bet_slot_ptr(t.r.slot), S!bet_slot_ptr(t.s.slot),
                    A!resolve_unchecked(t.a))
    /\ ExclusiveHolla => ~IsOpen(t)
    /\ UNCHANGED <<rVars, sVars, slots, tags, open, wild, cops, evicts>>

EvictOne(t) ==
    /\ ExclusiveHolla => ~IsOpen(t)
    /\ R!bet_evict_slot(t.r) /\ S!bet_evict_slot(t.s) /\ A!evict_slot(t.a)
    /\ evicts' = evicts + 1
    /\ seen' = Nothing
    /\ UNCHANGED <<tags, open, wild, cops>>

EvictAll ==
    /\ ExclusiveHolla => open = <<>>
    /\ R!bet_evict /\ S!bet_evict /\ A!evict
    /\ evicts' = evicts + 1
    /\ seen' = Nothing
    /\ UNCHANGED <<tags, open, wild, cops>>

Next == /\ ~wild
        /\ \/ cops < MaxCops /\ \E v \in Value : lower_cop(v)
           \/ evicts < MaxEvicts /\ (EvictAll \/ \E t \in tags : EvictOne(t))
           \/ Len(open) < MaxOpen /\ \E t \in tags : exec_holla(t)
           \/ \E i \in DOMAIN open : ReadBinding(i) \/ \E v \in Value : WriteBinding(i, v)
           \/ EndHolla
           \/ \E t \in tags : Trust(t)

Spec == Init /\ [][Next]_vars

-----------------------------------------------------------------------------
(* Every holla takes the same arm and every read shows the same value in   *)
(* the three executions, although each hands out slots in its own order.   *)
SameObservation == seen.r = seen.s /\ seen.s = seen.a

(* A tag value the program holds is live in all three executions or stale  *)
(* in all three, whether or not the program looks.  The one way out is a   *)
(* cop when all Capacity elements are alive, at once in both runtimes: no  *)
(* mix of evicts loses a slot to compiled code (Reclaim, bet_cop).         *)
Full == \A s \in R!Slots : rOccupied[s] /\ sOccupied[s]
SameLiveness ==
    IF wild THEN Full
    ELSE \A t \in tags : /\ R!IsLive(t.r) <=> S!IsLive(t.s)
                         /\ S!IsLive(t.s) <=> A!IsCurrent(t.a)
=============================================================================
