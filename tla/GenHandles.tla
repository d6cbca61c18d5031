----------------------------- MODULE GenHandles -----------------------------
(***************************************************************************)
(* What a typed crib promises to the program, with no slots and no         *)
(* generations in sight.  `cop` hands out a handle that was never handed   *)
(* out before (or the null handle when all Capacity handles are live); a   *)
(* `holla` through a handle reaches that handle's own storage for as long  *)
(* as the handle is live and is ghosted for ever after; `evict` ends one   *)
(* handle or all of them.  The null handle is never live.                  *)
(***************************************************************************)
EXTENDS Integers, FiniteSets

CONSTANTS Handle,    \* every handle that can ever be issued
          NullHandle,
          Value,     \* contents of an element
          Capacity   \* elements the crib has room for

VARIABLES live,      \* handles that resolve
          issued,    \* handles handed out so far
          mem,       \* contents reached through each live handle
          obs        \* what the last operation returned to the program

vars == <<live, issued, mem, obs>>

Result(op, h, r) == [op |-> op, handle |-> h, res |-> r]

Init == /\ live = {}
        /\ issued = {}
        /\ mem = [h \in {} |-> NullHandle]
        /\ obs = Result("init", NullHandle, "none")

(* A fresh element starts with arbitrary contents: `cop` reserves storage  *)
(* and the caller writes the initialiser through the handle.               *)
Cop == \/ /\ Cardinality(live) < Capacity
          /\ \E h \in Handle \ issued, v \in Value :
                /\ live' = live \cup {h}
                /\ issued' = issued \cup {h}
                /\ mem' = [x \in live \cup {h} |-> IF x = h THEN v ELSE mem[x]]
                /\ obs' = Result("cop", h, "ok")
       \/ /\ Cardinality(live) = Capacity
          /\ obs' = Result("cop", NullHandle, "ghosted")
          /\ UNCHANGED <<live, issued, mem>>

Read(h) == /\ obs' = Result("read", h, IF h \in live THEN mem[h] ELSE "ghosted")
           /\ UNCHANGED <<live, issued, mem>>

Write(h, v) == /\ mem' = IF h \in live THEN [mem EXCEPT ![h] = v] ELSE mem
               /\ obs' = Result("write", h, IF h \in live THEN v ELSE "ghosted")
               /\ UNCHANGED <<live, issued>>

(* `trust` makes a promise only about a handle that is live.               *)
Trust(h) == /\ \E r \in Value \cup {"ghosted"} :
                  /\ h \in live => r = mem[h]
                  /\ obs' = Result("trust", h, r)
            /\ UNCHANGED <<live, issued, mem>>

EvictSlot(h) == /\ live' = live \ {h}
                /\ mem' = [x \in live \ {h} |-> mem[x]]
                /\ obs' = Result("evict", h, "ok")
                /\ UNCHANGED issued

Evict == /\ live' = {}
         /\ mem' = [x \in {} |-> NullHandle]
         /\ obs' = Result("evictall", NullHandle, "ok")
         /\ UNCHANGED issued

Next == \/ Cop
        \/ Evict
        \/ \E h \in issued \cup {NullHandle} :
              \/ Read(h)
              \/ Trust(h)
              \/ EvictSlot(h)
              \/ \E v \in Value : Write(h, v)

Spec == Init /\ [][Next]_vars
=============================================================================
