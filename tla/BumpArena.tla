------------------------------ MODULE BumpArena ------------------------------
(***************************************************************************)
(* The runtime's bump crib, which is also the per-thread scratch arena     *)
(* (crates/runtime/src/lib.rs, struct BumpCrib): pointer-stable chunks, an *)
(* active chunk and an offset in it.  Addresses are machine addresses, so  *)
(* alignment padding depends on where the heap put a chunk and sums can    *)
(* pass the end of the address space.  Chunks are numbered from 1.         *)
(***************************************************************************)
EXTENDS Integers, Sequences, FiniteSets

CONSTANTS AddrMax,     \* usize::MAX
          MinCap,      \* smallest first chunk, 16 in the code
          MinAlign,    \* alignment of a chunk, 16 in the code
          Reserve,     \* the size bet_crib_new_bump is asked for
          Bases,       \* addresses at which the heap may place a chunk
          Requests,    \* the [size, align] pairs the program asks for
          MaxAllocs,   \* bound: allocations between two resets
          MaxResets    \* bound: resets

ASSUME ArenaAssumption == /\ {AddrMax, MinAlign} \subseteq Nat \ {0}
                          /\ {MinCap, Reserve} \subseteq Nat
                          /\ Requests \subseteq [size : 0 .. AddrMax, align : Nat \ {0}]
                          /\ Bases \subseteq Nat
                          /\ \A b \in Bases : b % MinAlign = 0 /\ b > 0

VARIABLES chunks,        \* [base, cap, align], in list order
          current,       \* the active chunk
          offset,        \* bump offset within the active chunk
          next_reserve,  \* size hint for the next fresh chunk
          req,           \* the request the alloc loop works on, or Idle
          hops,          \* ghost: chunks this request has moved past
          last,          \* ghost: the allocation returned last
          covered,       \* ghost: addresses handed out since the last reset
          handed,        \* ghost: bytes handed out since the last reset
          log, prevLog,  \* ghost: requests of this frame and the one before
          grew,          \* ghost: this frame allocated a chunk
          resets,        \* ghost: frames so far
          dead           \* the process has aborted

arenaVars == <<chunks, current, offset, next_reserve>>
frameVars == <<covered, handed, log, prevLog, grew, resets>>
vars == <<arenaVars, frameVars, req, hops, last, dead>>

Idle == [size |-> -1, align |-> 1]
None == [ptr |-> -1, size |-> 0, align |-> 1]

Maximum(a, b) == IF a >= b THEN a ELSE b
saturating(n) == IF n > AddrMax THEN AddrMax ELSE n

(* Bytes lo, lo + 1, ..., of a block.                                      *)
Block(lo, size) == lo .. lo + size - 1
ChunkBlock(c)   == Block(c.base, c.cap)

(* Addresses a fresh chunk may be given: layout() refuses a size above     *)
(* isize::MAX, the heap never overlaps live chunks nor runs off the end.   *)
alloc_or_die(cap, align, owned) ==
    {b \in Bases : /\ cap <= AddrMax \div 2
                   /\ b % align = 0
                   /\ b + cap + MinAlign <= AddrMax
                   /\ \A c \in owned : Block(b, cap) \cap ChunkBlock(c) = {}}

align_up(addr, align) == ((addr + align - 1) \div align) * align

(* The request fits iff `aligned + size` neither overflows nor passes the  *)
(* end of the chunk.                                                       *)
Fits_mutant(c, off, r) ==
    (align_up(c.base + off, r.align) + r.size) % (AddrMax + 1) <= c.base + c.cap
Fits(c, off, r) == LET end == align_up(c.base + off, r.align) + r.size
                   IN end <= AddrMax /\ end <= c.base + c.cap

Init == LET cap == Maximum(Reserve, MinCap)
        IN /\ \E b \in alloc_or_die(cap, MinAlign, {}) :
                 chunks = <<[base |-> b, cap |-> cap, align |-> MinAlign]>>
           /\ current = 1
           /\ offset = 0
           /\ next_reserve = cap
           /\ req = Idle /\ hops = 0 /\ last = None
           /\ covered = {} /\ handed = 0
           /\ log = <<>> /\ prevLog = <<>>
           /\ grew = FALSE /\ resets = 0
           /\ dead = FALSE

(* bet_bump_alloc: the loop of BumpCrib::alloc starts on a request.        *)
bet_bump_alloc(r) ==
    /\ req = Idle
    /\ Len(log) < MaxAllocs
    /\ req' = r
    /\ hops' = 0
    /\ log' = Append(log, r)
    /\ UNCHANGED <<arenaVars, covered, handed, prevLog, grew, resets, last, dead>>

(* One pass of the loop that finds room in the active chunk.               *)
Place ==
    LET c == chunks[current]
        ptr == align_up(c.base + offset, req.align)
    IN /\ req # Idle
       /\ Fits(c, offset, req)
       /\ offset' = ptr + req.size - c.base
       /\ last' = [ptr |-> ptr, size |-> req.size, align |-> req.align]
       /\ covered' = covered \cup Block(ptr, req.size)
       /\ handed' = handed + req.size
       /\ req' = Idle
       /\ UNCHANGED <<chunks, current, next_reserve, log, prevLog, grew, resets, hops, dead>>

InsertAfter(q, i, e) == SubSeq(q, 1, i) \o <<e>> \o SubSeq(q, i + 1, Len(q))

(* One pass that does not: move to the next retained chunk if it can hold  *)
(* the request, otherwise splice in a fresh one right after the active one.*)
ReusesNext_mutant == current < Len(chunks)
ReusesNext == current < Len(chunks) /\ Fits(chunks[current + 1], 0, req)

Move ==
    LET want == Maximum(next_reserve, saturating(req.size + req.align))
        align == Maximum(req.align, MinAlign)
        owned == {chunks[i] : i \in DOMAIN chunks}
    IN /\ req # Idle
       /\ ~Fits(chunks[current], offset, req)
       /\ \/ /\ ReusesNext
             /\ UNCHANGED <<chunks, next_reserve, grew>>
          \/ /\ ~ReusesNext
             /\ \E b \in alloc_or_die(want, align, owned) :
                   chunks' = InsertAfter(chunks, current,
                                         [base |-> b, cap |-> want, align |-> align])
             /\ next_reserve' = Maximum(saturating(2 * next_reserve), want)
             /\ grew' = TRUE
       /\ current' = current + 1
       /\ offset' = 0
       /\ hops' = hops + 1
       /\ UNCHANGED <<req, covered, handed, log, prevLog, resets, last, dead>>

(* The heap is out of memory, or the layout is refused: die().             *)
OutOfMemory ==
    /\ req # Idle
    /\ ~Fits(chunks[current], offset, req)
    /\ ~ReusesNext
    /\ dead' = TRUE
    /\ UNCHANGED <<arenaVars, frameVars, req, hops, last>>

(* bet_evict on a bump crib, bet_scratch_reset: rewind, keep the chunks.   *)
reset_mutant == current' = current /\ offset' = 0
reset == current' = 1 /\ offset' = 0

bet_evict ==
    /\ req = Idle
    /\ resets < MaxResets
    /\ reset
    /\ covered' = {} /\ handed' = 0
    /\ prevLog' = log /\ log' = <<>>
    /\ grew' = FALSE
    /\ resets' = resets + 1
    /\ last' = None
    /\ UNCHANGED <<chunks, next_reserve, req, hops, dead>>

(* bet_mem_receipts: whole capacity of the chunks before the active one,   *)
(* plus the offset in the active one.                                      *)
CapBefore[n \in 0 .. Len(chunks)] == IF n = 0 THEN 0 ELSE chunks[n].cap + CapBefore[n - 1]
used_mutant == offset
used == CapBefore[current - 1] + offset

Next == /\ ~dead
        /\ \/ \E r \in Requests : bet_bump_alloc(r)
           \/ Place
           \/ Move
           \/ OutOfMemory
           \/ bet_evict

Spec == Init /\ [][Next]_vars

-----------------------------------------------------------------------------
(* No two allocations of a frame overlap, none lies outside the chunks the *)
(* arena owns, however chunks were spliced in, reused or padded, and each  *)
(* has the alignment asked for, also above the alignment of its chunk.     *)
SoundBlocks == /\ Cardinality(covered) = handed
               /\ covered \subseteq UNION {ChunkBlock(chunks[i]) : i \in DOMAIN chunks}
               /\ last # None => last.ptr % last.align = 0

(* mem.receipts() never reports less than the bytes handed out since the   *)
(* reset, and reports 0 right after a reset.                               *)
ReceiptsHonest == /\ used >= handed
                  /\ log = <<>> => used = 0

(* A chunk fresh or reused always holds the request it was chosen for, so  *)
(* the loop of alloc moves at most once.                                   *)
OneHop == hops <= 1

(* A frame that repeats the requests of the frame before, so far, has      *)
(* allocated no memory: the grown capacity is really reused.               *)
ReplayIsFree ==
    (/\ resets > 0
     /\ Len(log) <= Len(prevLog)
     /\ \A i \in DOMAIN log : log[i] = prevLog[i]) => ~grew
=============================================================================
