----------------------------- MODULE RuntimeProofs ---------------------------
(***************************************************************************)
(* Proofs about the runtime crate.  First the bump arena, for every        *)
(* address width, every placement of chunks by the heap and every set of   *)
(* requests; then tasks and single-threaded handles, for any number of     *)
(* threads, tasks and handles.                                             *)
(***************************************************************************)
EXTENDS BumpArena, SlideTasks, BasicLemmas, FiniteSetTheorems, SequenceTheorems, TLAPS

Chunk == [base : Nat, cap : Nat, align : Nat]
End(c) == c.base + c.cap

-----------------------------------------------------------------------------
(* The inductive invariant. *)
ArenaTypes ==
    /\ chunks \in Seq(Chunk)
    /\ current \in 1 .. Len(chunks)
    /\ offset \in Nat
    /\ next_reserve \in Nat
    /\ req \in Requests \cup {Idle}
    /\ handed \in Nat
    /\ IsFiniteSet(covered)

(* The heap gave every chunk a place of its own, inside the address space. *)
ChunksApart ==
    /\ \A i \in DOMAIN chunks : End(chunks[i]) <= AddrMax
    /\ \A i, j \in DOMAIN chunks :
          i # j => ChunkBlock(chunks[i]) \cap ChunkBlock(chunks[j]) = {}

(* What was handed out lies behind the bump: before the offset in the      *)
(* active chunk, and nowhere in the chunks after it, which is why a        *)
(* retained chunk may be entered at its beginning.                         *)
BehindBump ==
    /\ offset <= chunks[current].cap
    /\ covered \subseteq UNION {ChunkBlock(chunks[i]) : i \in DOMAIN chunks}
    /\ \A a \in covered, i \in current .. Len(chunks) :
          a \in ChunkBlock(chunks[i]) => i = current /\ a < chunks[current].base + offset

Counted == /\ Cardinality(covered) = handed
           /\ last # None => last.ptr % last.align = 0

BlocksInv == ArenaTypes /\ ChunksApart /\ BehindBump /\ Counted

-----------------------------------------------------------------------------
(* What align_up returns: the next multiple of align. *)
LEMMA AlignUp ==
    ASSUME NEW a \in Nat, NEW n \in Nat \ {0}
    PROVE  /\ align_up(a, n) \in Nat
           /\ a <= align_up(a, n) /\ align_up(a, n) < a + n
           /\ align_up(a, n) % n = 0
<1> DEFINE d == (a + n - 1) \div n
           m == (a + n - 1) % n
<1>1. d \in Nat /\ m \in 0 .. n - 1 /\ a + n - 1 = d * n + m
  BY Z3
<1>2. align_up(a, n) = d * n
  BY DEF align_up
<1>3. d * n \in Nat
  BY <1>1, Z3
<1>4. (d * n) % n = 0
  BY <1>1, Z3
<1> QED BY <1>1, <1>2, <1>3, <1>4

(* p is q with e put in after its element i. *)
Spliced(q, i, e, p) ==
    /\ p \in Seq(Chunk)
    /\ Len(p) = Len(q) + 1
    /\ p[i + 1] = e
    /\ \A j \in 1 .. i : p[j] = q[j]
    /\ \A j \in i + 2 .. Len(p) : p[j] = q[j - 1]

(* A fresh chunk goes in right after the active one. *)
LEMMA Splice ==
    ASSUME NEW q \in Seq(Chunk), NEW i \in 1 .. Len(q), NEW e \in Chunk
    PROVE  Spliced(q, i, e, InsertAfter(q, i, e))
<1> DEFINE before == SubSeq(q, 1, i)
           after == SubSeq(q, i + 1, Len(q))
<1>1. before \in Seq(Chunk) /\ Len(before) = i /\ \A j \in 1 .. i : before[j] = q[j]
  OBVIOUS
<1>2. /\ after \in Seq(Chunk) /\ Len(after) = Len(q) - i
      /\ \A j \in 1 .. Len(q) - i : after[j] = q[i + j]
  OBVIOUS
<1> HIDE DEF before, after
<1>3. /\ before \o <<e>> \in Seq(Chunk) /\ Len(before \o <<e>>) = i + 1
      /\ (before \o <<e>>)[i + 1] = e
      /\ \A j \in 1 .. i : (before \o <<e>>)[j] = q[j]
  BY <1>1
<1>4. InsertAfter(q, i, e) = (before \o <<e>>) \o after
  BY DEF InsertAfter, before, after
<1> HIDE DEF before, after
<1> DEFINE head == before \o <<e>>
<1>5. head \in Seq(Chunk) /\ Len(head) = i + 1
  BY <1>3
<1> HIDE DEF head
<1>6. /\ head \o after \in Seq(Chunk) /\ Len(head \o after) = Len(q) + 1
      /\ \A j \in 1 .. i + 1 : (head \o after)[j] = head[j]
      /\ \A j \in i + 2 .. Len(q) + 1 : (head \o after)[j] = after[j - i - 1]
  <2>1. i \in Nat /\ Len(q) \in Nat
    OBVIOUS
  <2>2. head \o after \in Seq(Chunk) /\ Len(head \o after) = Len(head) + Len(after)
    BY <1>2, <1>5, ConcatProperties
  <2>3. \A j \in 1 .. Len(head) + Len(after) :
          (head \o after)[j] = IF j <= Len(head) THEN head[j] ELSE after[j - Len(head)]
    BY <1>2, <1>5, ConcatProperties
  <2> QED BY <1>2, <1>5, <2>1, <2>2, <2>3
<1>7. \A j \in i + 2 .. Len(q) + 1 : after[j - i - 1] = q[j - 1]
  BY <1>2
<1>8. InsertAfter(q, i, e) = head \o after
  BY <1>4 DEF head
<1>9. head[i + 1] = e /\ \A j \in 1 .. i : head[j] = q[j]
  BY <1>3 DEF head
<1> DEFINE p == head \o after
<1>10. Spliced(q, i, e, p)
  <2>1. i \in Nat /\ i + 1 \in 1 .. i + 1
    OBVIOUS
  <2>2. p \in Seq(Chunk) /\ Len(p) = Len(q) + 1 /\ p[i + 1] = head[i + 1]
    BY <1>6, <2>1
  <2>3. \A j \in 1 .. i : p[j] = head[j]
    BY <1>6, <2>1
  <2> HIDE DEF p
  <2>4. \A j \in i + 2 .. Len(p) : p[j] = after[j - i - 1]
    BY <1>6, <2>2 DEF p
  <2> QED BY <1>7, <1>9, <2>2, <2>3, <2>4 DEF Spliced
<1> QED BY <1>8, <1>10

-----------------------------------------------------------------------------
LEMMA InitBlocks == Init => BlocksInv
<1> SUFFICES ASSUME Init PROVE BlocksInv
  OBVIOUS
<1> USE ArenaAssumption
<1> DEFINE cap == Maximum(Reserve, MinCap)
<1>1. cap \in Nat
  BY DEF Maximum
<1>2. PICK b \in alloc_or_die(cap, MinAlign, {}) :
         chunks = <<[base |-> b, cap |-> cap, align |-> MinAlign]>>
  BY DEF Init
<1>3. b \in Nat /\ b + cap <= AddrMax
  BY <1>1, <1>2 DEF alloc_or_die
<1>4. ArenaTypes
  BY <1>1, <1>2, <1>3, FS_EmptySet DEF Init, ArenaTypes, Chunk
<1>5. ChunksApart /\ BehindBump
  BY <1>1, <1>2, <1>3 DEF Init, ChunksApart, BehindBump, End
<1>6. Counted
  BY FS_EmptySet DEF Init, Counted
<1> QED BY <1>4, <1>5, <1>6 DEF BlocksInv

(* The bytes Place hands out are new ones of the active chunk. *)
LEMMA PlaceIsNew ==
    ASSUME BlocksInv, Place
    PROVE  LET c == chunks[current]
               ptr == align_up(c.base + offset, req.align)
           IN  /\ req.size \in Nat /\ req.align \in Nat \ {0}
               /\ c \in Chunk /\ ptr \in Nat
               /\ c.base + offset <= ptr /\ ptr + req.size <= End(c)
               /\ ptr % req.align = 0
               /\ Block(ptr, req.size) \subseteq ChunkBlock(c)
               /\ covered \cap Block(ptr, req.size) = {}
<1> USE DEF BlocksInv
<1> DEFINE c == chunks[current]
           ptr == align_up(c.base + offset, req.align)
<1>1. req.size \in Nat /\ req.align \in Nat \ {0}
  BY ArenaAssumption DEF Place, ArenaTypes
<1>2. c \in Chunk /\ c.base \in Nat /\ c.cap \in Nat /\ c.base + offset \in Nat
  <2>1. c \in Chunk /\ offset \in Nat
    BY DEF ArenaTypes
  <2> QED BY <2>1 DEF Chunk
<1>3. ptr \in Nat /\ c.base + offset <= ptr /\ ptr % req.align = 0
  BY <1>1, <1>2, AlignUp
<1>4. ptr + req.size <= End(c)
  BY DEF Place, Fits, End
<1> HIDE DEF ptr
<1>5. Block(ptr, req.size) \subseteq ChunkBlock(c)
  <2>1. offset \in Nat
    BY DEF ArenaTypes
  <2>2. Block(ptr, req.size) = ptr .. ptr + req.size - 1 /\ ChunkBlock(c) = c.base .. c.base + c.cap - 1
    BY DEF Block, ChunkBlock
  <2>3. c.base <= ptr /\ ptr + req.size <= c.base + c.cap
    BY <1>2, <1>3, <1>4, <2>1 DEF End
  <2> HIDE DEF c
  <2> QED BY <1>1, <1>2, <1>3, <2>2, <2>3
<1>6. ASSUME NEW a \in covered, a \in Block(ptr, req.size) PROVE FALSE
  <2>1. a < c.base + offset
    BY <1>5, <1>6 DEF BehindBump, ArenaTypes
  <2>2. a \in Int /\ ptr <= a
    BY <1>1, <1>3, <1>6 DEF Block
  <2> QED BY <1>2, <1>3, <2>1, <2>2
<1> QED BY <1>1, <1>2, <1>3, <1>4, <1>5, <1>6 DEF ptr

LEMMA PlaceBlocks == ASSUME BlocksInv, Place PROVE BlocksInv'
<1> DEFINE c == chunks[current]
           ptr == align_up(c.base + offset, req.align)
           new == Block(ptr, req.size)
<1>1. /\ req.size \in Nat /\ req.align \in Nat \ {0}
      /\ c \in Chunk /\ ptr \in Nat
      /\ c.base + offset <= ptr /\ ptr + req.size <= End(c)
      /\ ptr % req.align = 0
      /\ new \subseteq ChunkBlock(c)
      /\ covered \cap new = {}
  BY PlaceIsNew
<1>2. /\ offset' = ptr + req.size - c.base
      /\ last' = [ptr |-> ptr, size |-> req.size, align |-> req.align]
      /\ covered' = covered \cup new
      /\ handed' = handed + req.size
      /\ req' = Idle
      /\ UNCHANGED <<chunks, current, next_reserve>>
  BY DEF Place
<1>3. c.base \in Nat /\ c.cap \in Nat
  BY <1>1 DEF Chunk
<1>4. IsFiniteSet(new) /\ Cardinality(new) = req.size
  <2>1. new = ptr .. ptr + req.size - 1
    BY DEF Block
  <2> DEFINE last_ == ptr + req.size - 1
  <2> HIDE DEF ptr
  <2>3. last_ \in Int /\ ptr \in Int
    BY <1>1
  <2>4. /\ IsFiniteSet(ptr .. last_)
        /\ Cardinality(ptr .. last_) = IF ptr > last_ THEN 0 ELSE last_ - ptr + 1
    <3> HIDE DEF last_
    <3> QED BY <2>3, FS_Interval
  <2>2. /\ IsFiniteSet(ptr .. ptr + req.size - 1)
        /\ Cardinality(ptr .. ptr + req.size - 1) = req.size
    BY <1>1, <2>4
  <2> QED BY <2>1, <2>2
<1> HIDE DEF ptr, new
<1>5. IsFiniteSet(covered') /\ Cardinality(covered') = Cardinality(covered) + req.size
  <2>1. IsFiniteSet(covered) /\ Cardinality(covered) \in Nat
    BY FS_CardinalityType DEF BlocksInv, ArenaTypes
  <2>2. /\ IsFiniteSet(covered \cup new)
        /\ Cardinality(covered \cup new)
             = Cardinality(covered) + Cardinality(new) - Cardinality(covered \cap new)
    BY <1>4, <2>1, FS_Union
  <2>3. Cardinality(covered \cap new) = 0
    BY <1>1, FS_EmptySet
  <2> QED BY <1>1, <1>2, <1>4, <2>1, <2>2, <2>3
<1>10. offset \in Nat /\ offset' \in Nat /\ offset <= offset' /\ offset' <= c.cap
  <2>1. offset \in Nat
    BY DEF BlocksInv, ArenaTypes
  <2> HIDE DEF c
  <2> QED BY <1>1, <1>2, <1>3, <2>1 DEF End
<1>6. ArenaTypes'
  <2>1. handed' \in Nat
    BY <1>1, <1>2 DEF BlocksInv, ArenaTypes
  <2> QED BY <1>2, <1>5, <1>10, <2>1 DEF BlocksInv, ArenaTypes
<1>7. ChunksApart'
  BY <1>2 DEF BlocksInv, ChunksApart
<1>8. BehindBump'
  <2>1. offset' <= c.cap
    BY <1>10
  <2>2. covered' \subseteq UNION {ChunkBlock(chunks[i]) : i \in DOMAIN chunks}
    BY <1>1, <1>2 DEF BlocksInv, ArenaTypes, BehindBump
  <2>3. ASSUME NEW a \in covered, NEW i \in current .. Len(chunks), a \in ChunkBlock(chunks[i])
        PROVE  i = current /\ a < c.base + offset'
    <3>1. i = current /\ a < c.base + offset
      BY <2>3 DEF BlocksInv, BehindBump
    <3>2. a \in Int
      BY <2>3, <3>1, <1>3 DEF ChunkBlock, Block
    <3> QED BY <1>3, <1>10, <3>1, <3>2
  <2>4. ASSUME NEW a \in new, NEW i \in current .. Len(chunks), a \in ChunkBlock(chunks[i])
        PROVE  i = current /\ a < c.base + offset'
    <3>1. i = current
      BY <1>1, <2>4 DEF BlocksInv, ArenaTypes, ChunksApart
    <3>2. a \in Int /\ a < ptr + req.size
      BY <1>1, <2>4 DEF new, Block
    <3> HIDE DEF c
    <3> QED BY <1>1, <1>2, <1>3, <3>1, <3>2
  <2> QED BY <1>2, <2>1, <2>2, <2>3, <2>4 DEF BehindBump
<1>9. Counted'
  BY <1>1, <1>2, <1>5 DEF BlocksInv, Counted
<1> QED BY <1>6, <1>7, <1>8, <1>9 DEF BlocksInv

(* Move into the next retained chunk. *)
LEMMA ReuseBlocks == ASSUME BlocksInv, Move, UNCHANGED <<chunks, next_reserve>>, ReusesNext PROVE BlocksInv'
<1> USE DEF BlocksInv
<1>1. /\ current' = current + 1 /\ offset' = 0
      /\ UNCHANGED <<chunks, next_reserve, req, covered, handed, last>>
  BY DEF Move
<1>2. current + 1 \in 1 .. Len(chunks) /\ chunks[current + 1] \in Chunk
  BY DEF ReusesNext, ArenaTypes
<1>3. ArenaTypes' /\ ChunksApart' /\ Counted'
  BY <1>1, <1>2 DEF ArenaTypes, ChunksApart, Counted
<1>4. BehindBump'
  <2>1. ASSUME NEW a \in covered, NEW i \in current + 1 .. Len(chunks), a \in ChunkBlock(chunks[i])
        PROVE  FALSE
    BY <2>1 DEF BehindBump, ArenaTypes
  <2>2. 0 <= chunks[current + 1].cap
    BY <1>2 DEF Chunk
  <2> QED BY <1>1, <2>1, <2>2 DEF BehindBump
<1> QED BY <1>3, <1>4

(* A fresh chunk spliced in after the active one. *)
LEMMA FreshBlocks ==
    ASSUME BlocksInv, Move, NEW e \in Chunk,
           chunks' = InsertAfter(chunks, current, e),
           next_reserve' \in Nat,
           End(e) <= AddrMax,
           \A i \in DOMAIN chunks : ChunkBlock(e) \cap ChunkBlock(chunks[i]) = {}
    PROVE  BlocksInv'
<1> USE DEF BlocksInv
<1> DEFINE n == Len(chunks)
<1>1. /\ current' = current + 1 /\ offset' = 0
      /\ UNCHANGED <<req, covered, handed, last>>
  BY DEF Move
<1>2. n \in Nat /\ current \in 1 .. n /\ DOMAIN chunks = 1 .. n
  BY DEF ArenaTypes
<1>3. /\ chunks' \in Seq(Chunk)
      /\ Len(chunks') = n + 1
      /\ chunks'[current + 1] = e
      /\ \A j \in 1 .. current : chunks'[j] = chunks[j]
      /\ \A j \in current + 2 .. n + 1 : chunks'[j] = chunks[j - 1]
  <2>1. chunks \in Seq(Chunk) /\ current \in 1 .. Len(chunks)
    BY DEF ArenaTypes
  <2> HIDE DEF n
  <2>2. Spliced(chunks, current, e, chunks')
    BY <2>1, Splice
  <2> QED BY <2>2 DEF Spliced, n
<1>4. DOMAIN chunks' = 1 .. n + 1
  BY <1>2, <1>3
<1> HIDE DEF n
<1>5. ASSUME NEW j \in 1 .. n + 1, j # current + 1
      PROVE  \E i \in 1 .. n : chunks'[j] = chunks[i] /\ i = IF j <= current THEN j ELSE j - 1
  BY <1>2, <1>3, <1>5
<1>6. ArenaTypes'
  BY <1>1, <1>2, <1>3 DEF ArenaTypes
<1>7. ChunksApart'
  <2>1. \A j \in 1 .. n + 1 : End(chunks'[j]) <= AddrMax
    BY <1>2, <1>3, <1>5 DEF ChunksApart
  <2>2. ASSUME NEW i \in 1 .. n + 1, NEW j \in 1 .. n + 1, i # j
        PROVE  ChunkBlock(chunks'[i]) \cap ChunkBlock(chunks'[j]) = {}
    <3>1. CASE i = current + 1
      BY <1>2, <1>3, <1>5, <2>2, <3>1
    <3>2. CASE j = current + 1
      BY <1>2, <1>3, <1>5, <2>2, <3>2
    <3>3. CASE i # current + 1 /\ j # current + 1
      BY <1>2, <1>5, <2>2, <3>3 DEF ChunksApart
    <3> QED BY <3>1, <3>2, <3>3
  <2> QED BY <1>4, <2>1, <2>2 DEF ChunksApart
<1>8. BehindBump'
  <2>1. 0 <= chunks'[current + 1].cap
    BY <1>3 DEF Chunk
  <2>2. ASSUME NEW a \in covered PROVE \E j \in 1 .. n + 1 : a \in ChunkBlock(chunks'[j])
    <3>1. PICK i \in 1 .. n : a \in ChunkBlock(chunks[i])
      BY <1>2 DEF BehindBump
    <3>2. CASE i <= current
      BY <1>2, <1>3, <3>1, <3>2
    <3>3. CASE i > current
      <4>1. i + 1 \in current + 2 .. n + 1 /\ chunks'[i + 1] = chunks[i]
        BY <1>2, <1>3, <3>3
      <4> QED BY <1>2, <3>1, <4>1
    <3> QED BY <1>2, <3>2, <3>3
  <2>3. ASSUME NEW a \in covered, NEW j \in current + 1 .. n + 1, a \in ChunkBlock(chunks'[j])
        PROVE  FALSE
    <3>1. CASE j = current + 1
      BY <1>2, <1>3, <2>3, <3>1 DEF BehindBump
    <3>2. CASE j # current + 1
      <4>1. j - 1 \in current .. n /\ j - 1 # current /\ chunks'[j] = chunks[j - 1]
        BY <1>2, <1>3, <3>2
      <4> QED BY <2>3, <4>1 DEF BehindBump, n
    <3> QED BY <3>1, <3>2
  <2> QED BY <1>1, <1>3, <1>4, <2>1, <2>2, <2>3 DEF BehindBump
<1>9. Counted'
  BY <1>1 DEF Counted
<1> QED BY <1>6, <1>7, <1>8, <1>9

(* The chunk Move splices in is one the heap can give. *)
LEMMA FreshChunk ==
    ASSUME BlocksInv, Move, ~ReusesNext
    PROVE  \E e \in Chunk :
             /\ chunks' = InsertAfter(chunks, current, e)
             /\ next_reserve' \in Nat
             /\ End(e) <= AddrMax
             /\ \A i \in DOMAIN chunks : ChunkBlock(e) \cap ChunkBlock(chunks[i]) = {}
             /\ e.cap >= saturating(req.size + req.align)
             /\ e.cap <= AddrMax \div 2
<1> USE ArenaAssumption DEF BlocksInv
<1> DEFINE want == Maximum(next_reserve, saturating(req.size + req.align))
           align == Maximum(req.align, MinAlign)
           owned == {chunks[i] : i \in DOMAIN chunks}
<1>1. req.size \in Nat /\ req.align \in Nat \ {0}
  BY DEF Move, ArenaTypes
<1>2. saturating(req.size + req.align) \in Nat
  BY <1>1 DEF saturating
<1>3. want \in Nat /\ want >= saturating(req.size + req.align) /\ align \in Nat
  BY <1>1, <1>2 DEF Maximum, ArenaTypes
<1>4. PICK b \in alloc_or_die(want, align, owned) :
        chunks' = InsertAfter(chunks, current, [base |-> b, cap |-> want, align |-> align])
  BY DEF Move
<1>5. next_reserve' = Maximum(saturating(2 * next_reserve), want)
  BY DEF Move
<1> HIDE DEF want, align
<1>6. next_reserve' \in Nat
  BY <1>3, <1>5 DEF Maximum, saturating, ArenaTypes
<1>7. /\ b \in Nat /\ want <= AddrMax \div 2 /\ b + want <= AddrMax
      /\ \A i \in DOMAIN chunks : Block(b, want) \cap ChunkBlock(chunks[i]) = {}
  <2>1. /\ b \in Bases /\ want <= AddrMax \div 2 /\ b + want + MinAlign <= AddrMax
        /\ \A c \in owned : Block(b, want) \cap ChunkBlock(c) = {}
    BY <1>4 DEF alloc_or_die
  <2>2. b \in Nat /\ MinAlign \in Nat /\ AddrMax \in Nat
    BY <2>1
  <2> QED BY <1>3, <2>1, <2>2
<1> DEFINE e == [base |-> b, cap |-> want, align |-> align]
<1>8. e \in Chunk /\ End(e) <= AddrMax /\ ChunkBlock(e) = Block(b, want) /\ e.cap = want
  BY <1>3, <1>7 DEF Chunk, End, ChunkBlock
<1> QED BY <1>3, <1>4, <1>6, <1>7, <1>8

LEMMA StepBlocks == BlocksInv /\ [Next]_vars => BlocksInv'
<1> SUFFICES ASSUME BlocksInv, [Next]_vars PROVE BlocksInv'
  OBVIOUS
<1>1. ASSUME NEW r \in Requests, bet_bump_alloc(r) PROVE BlocksInv'
  BY <1>1 DEF bet_bump_alloc, arenaVars, BlocksInv, ArenaTypes, ChunksApart, BehindBump, Counted
<1>2. CASE Place
  BY <1>2, PlaceBlocks
<1>3. CASE Move
  <2>1. CASE ReusesNext
    BY <1>3, <2>1, ReuseBlocks DEF Move
  <2>2. CASE ~ReusesNext
    BY <1>3, <2>2, FreshChunk, FreshBlocks
  <2> QED BY <2>1, <2>2
<1>4. CASE OutOfMemory
  BY <1>4 DEF OutOfMemory, arenaVars, frameVars, BlocksInv, ArenaTypes, ChunksApart, BehindBump, Counted
<1>5. CASE bet_evict
  <2>1. /\ current' = 1 /\ offset' = 0 /\ covered' = {} /\ handed' = 0 /\ last' = None
        /\ UNCHANGED <<chunks, next_reserve, req>>
    BY <1>5 DEF bet_evict, reset
  <2>2. 1 \in 1 .. Len(chunks) /\ chunks[1].cap \in Nat
    <3>1. chunks \in Seq(Chunk) /\ Len(chunks) \in Nat /\ 1 \in 1 .. Len(chunks)
      BY DEF BlocksInv, ArenaTypes
    <3>2. chunks[1] \in Chunk
      BY <3>1
    <3> QED BY <3>1, <3>2 DEF Chunk
  <2>3. ArenaTypes' /\ ChunksApart' /\ BehindBump'
    BY <2>1, <2>2, FS_EmptySet DEF BlocksInv, ArenaTypes, ChunksApart, BehindBump
  <2>4. Counted'
    BY <2>1, FS_EmptySet DEF Counted
  <2> QED BY <2>3, <2>4 DEF BlocksInv
<1>6. CASE UNCHANGED vars
  BY <1>6 DEF vars, arenaVars, frameVars, BlocksInv, ArenaTypes, ChunksApart, BehindBump, Counted
<1> QED BY <1>1, <1>2, <1>3, <1>4, <1>5, <1>6 DEF Next

LEMMA BlocksInvariant == Spec => []BlocksInv
BY InitBlocks, StepBlocks, PTL DEF Spec

(* Allocations of a frame never overlap nor leave the arena's chunks, and  *)
(* have their alignment, however BumpCrib::alloc moved, spliced and reset. *)
THEOREM BlocksAreSound == Spec => []SoundBlocks
<1>1. BlocksInv => SoundBlocks
  BY DEF BlocksInv, BehindBump, Counted, SoundBlocks
<1> QED BY <1>1, BlocksInvariant, PTL

-----------------------------------------------------------------------------
(* A request that has moved on fits where it is now. *)
HopInv == /\ hops \in 0 .. 1
          /\ req # Idle /\ hops = 1 => Fits(chunks[current], offset, req)

(* A chunk as large as Move asks for holds the request wherever it starts. *)
LEMMA FreshFits ==
    ASSUME NEW r \in Requests, NEW e \in Chunk, End(e) <= AddrMax,
           e.cap >= saturating(r.size + r.align), e.cap <= AddrMax \div 2
    PROVE  Fits(e, 0, r)
<1>1. r.size \in Nat /\ r.align \in Nat \ {0} /\ AddrMax \in Nat \ {0}
  BY ArenaAssumption
<1>2. e.base \in Nat /\ e.cap \in Nat /\ e.base + 0 = e.base
  BY DEF Chunk
<1>3. align_up(e.base, r.align) \in Nat /\ align_up(e.base, r.align) < e.base + r.align
  BY <1>1, <1>2, AlignUp
<1>4. e.cap < AddrMax
  BY <1>1, <1>2
<1>5. e.cap >= r.size + r.align
  BY <1>1, <1>2, <1>4 DEF saturating
<1>6. align_up(e.base, r.align) + r.size <= End(e)
  BY <1>1, <1>2, <1>3, <1>5 DEF End
<1> QED BY <1>1, <1>2, <1>3, <1>6 DEF Fits, End

LEMMA StepHops == BlocksInv /\ HopInv /\ [Next]_vars => HopInv'
<1> SUFFICES ASSUME BlocksInv, HopInv, [Next]_vars PROVE HopInv'
  OBVIOUS
<1>1. CASE Move
  <2>1. hops = 0 /\ hops' = 1 /\ req' = req /\ current' = current + 1 /\ offset' = 0
    BY <1>1 DEF Move, HopInv
  <2>2. CASE ReusesNext
    BY <1>1, <2>1, <2>2 DEF Move, ReusesNext, HopInv
  <2>3. CASE ~ReusesNext
    <3>1. PICK e \in Chunk :
            /\ chunks' = InsertAfter(chunks, current, e)
            /\ End(e) <= AddrMax
            /\ e.cap >= saturating(req.size + req.align)
            /\ e.cap <= AddrMax \div 2
      BY <1>1, <2>3, FreshChunk
    <3>2. chunks \in Seq(Chunk) /\ current \in 1 .. Len(chunks) /\ req \in Requests
      BY <1>1 DEF Move, BlocksInv, ArenaTypes
    <3>3. chunks'[current + 1] = e
      BY <3>1, <3>2, Splice DEF Spliced
    <3>4. Fits(e, 0, req)
      BY <3>1, <3>2, FreshFits
    <3> QED BY <2>1, <3>3, <3>4 DEF HopInv
  <2> QED BY <2>2, <2>3
<1>2. ASSUME NEW r \in Requests, bet_bump_alloc(r) PROVE HopInv'
  BY <1>2 DEF bet_bump_alloc, HopInv
<1>3. CASE Place
  BY <1>3 DEF Place, HopInv
<1>4. CASE OutOfMemory
  BY <1>4 DEF OutOfMemory, arenaVars, HopInv, Fits
<1>5. CASE bet_evict
  BY <1>5 DEF bet_evict, HopInv
<1>6. CASE UNCHANGED vars
  BY <1>6 DEF vars, arenaVars, HopInv, Fits
<1> QED BY <1>1, <1>2, <1>3, <1>4, <1>5, <1>6 DEF Next

(* The loop of BumpCrib::alloc moves at most once: the retained chunk it   *)
(* enters was probed, and a fresh one has room for the request and its     *)
(* padding wherever the heap put it.                                       *)
THEOREM LoopMovesOnce == Spec => []OneHop
<1>1. Init => HopInv
  BY DEF Init, HopInv
<1>2. HopInv => OneHop
  BY DEF HopInv, OneHop
<1> QED BY <1>1, <1>2, BlocksInvariant, StepHops, PTL DEF Spec

-----------------------------------------------------------------------------
(* The receipts.  What CapBefore computes: the capacities of the first     *)
(* chunks, added up.                                                       *)
SumsOf(q, f) == f = [n \in 0 .. Len(q) |-> IF n = 0 THEN 0 ELSE q[n].cap + f[n - 1]]

LEMMA SumsExist ==
    ASSUME NEW q \in Seq(Chunk)
    PROVE  \E f : SumsOf(q, f)
<1> DEFINE step == [a \in Nat \X Nat |-> IF a[1] < Len(q) THEN q[a[1] + 1].cap + a[2] ELSE 0]
<1>1. ASSUME NEW n \in 1 .. Len(q) PROVE q[n].cap \in Nat
  <2>1. q[n] \in Chunk
    OBVIOUS
  <2> QED BY <2>1 DEF Chunk
<1>2. Len(q) \in Nat
  OBVIOUS
<1>3. step \in [Nat \X Nat -> Nat]
  <2>1. ASSUME NEW a \in Nat \X Nat, a[1] < Len(q) PROVE q[a[1] + 1].cap + a[2] \in Nat
    <3>1. a[1] + 1 \in 1 .. Len(q) /\ a[2] \in Nat
      BY <1>2, <2>1
    <3> QED BY <1>1, <3>1
  <2> QED BY <2>1
<1>4. \A n \in Nat, x \in Nat : n < Len(q) => step[<<n, x>>] = q[n + 1].cap + x
  OBVIOUS
<1> HIDE DEF step
<1>5. PICK g : Steps(Nat, 0, step, g)
  BY <1>3, Recursion DEF Steppable
<1>6. g \in [Nat -> Nat] /\ g[0] = 0 /\ \A n \in Nat : g[n + 1] = step[<<n, g[n]>>]
  BY <1>5 DEF Steps
<1> DEFINE f == [n \in 0 .. Len(q) |-> g[n]]
<1>7. ASSUME NEW n \in 0 .. Len(q)
      PROVE  g[n] = IF n = 0 THEN 0 ELSE q[n].cap + f[n - 1]
  <2>1. CASE n = 0
    BY <1>6, <2>1
  <2>2. CASE n # 0
    <3>1. n - 1 \in Nat /\ n - 1 \in 0 .. Len(q) /\ (n - 1) + 1 = n /\ n - 1 < Len(q)
      BY <1>2, <2>2
    <3>2. g[(n - 1) + 1] = step[<<n - 1, g[n - 1]>>] /\ g[n - 1] \in Nat
      BY <1>6, <3>1
    <3>3. g[n] = q[n].cap + g[n - 1] /\ f[n - 1] = g[n - 1]
      BY <1>4, <3>1, <3>2
    <3> QED BY <2>2, <3>3
  <2> QED BY <2>1, <2>2
<1>8. f = [n \in 0 .. Len(q) |-> IF n = 0 THEN 0 ELSE q[n].cap + f[n - 1]]
  BY <1>7
<1> HIDE DEF f
<1> QED BY <1>8 DEF SumsOf

LEMMA SumsAre ==
    ASSUME NEW q \in Seq(Chunk), NEW f, SumsOf(q, f)
    PROVE  /\ f[0] = 0
           /\ \A n \in 0 .. Len(q) : f[n] \in Nat
           /\ \A n \in 1 .. Len(q) : f[n] = q[n].cap + f[n - 1]
<1>1. Len(q) \in Nat /\ \A n \in 1 .. Len(q) : q[n].cap \in Nat
  <2>1. \A n \in 1 .. Len(q) : q[n] \in Chunk
    OBVIOUS
  <2> QED BY <2>1 DEF Chunk
<1>2. \A n \in 0 .. Len(q) : f[n] = IF n = 0 THEN 0 ELSE q[n].cap + f[n - 1]
  BY DEF SumsOf
<1>3. f[0] = 0
  BY <1>1, <1>2
<1>4. \A n \in 1 .. Len(q) : f[n] = q[n].cap + f[n - 1]
  BY <1>1, <1>2
<1> DEFINE Good == {n \in Nat : n <= Len(q) => f[n] \in Nat}
<1>5. Good = Nat
  <2>1. 0 \in Good
    BY <1>3
  <2>2. ASSUME NEW n \in Good PROVE n + 1 \in Good
    <3>1. CASE n + 1 <= Len(q)
      <4>1. n + 1 \in 1 .. Len(q) /\ (n + 1) - 1 = n /\ f[n] \in Nat
        BY <1>1, <3>1
      <4>2. f[n + 1] = q[n + 1].cap + f[(n + 1) - 1] /\ q[n + 1].cap \in Nat
        BY <1>1, <1>4, <4>1
      <4> QED BY <4>1, <4>2
    <3>2. CASE ~(n + 1 <= Len(q))
      BY <3>2
    <3> QED BY <3>1, <3>2
  <2>3. Good \subseteq Nat
    OBVIOUS
  <2> HIDE DEF Good
  <2> QED BY <2>1, <2>2, <2>3, StepByStep
<1>6. ASSUME NEW n \in 0 .. Len(q) PROVE f[n] \in Nat
  <2>1. n \in Nat /\ n <= Len(q)
    BY <1>1
  <2>2. n \in Good
    BY <1>5, <2>1
  <2> QED BY <2>1, <2>2
<1> QED BY <1>3, <1>4, <1>6

(* The sums over the first chunks do not depend on the later ones.         *)
LEMMA SumsOfPrefix ==
    ASSUME NEW q \in Seq(Chunk), NEW p \in Seq(Chunk), NEW f, NEW g,
           SumsOf(q, f), SumsOf(p, g),
           NEW m \in Nat, m <= Len(q), m <= Len(p),
           \A i \in 1 .. m : p[i] = q[i]
    PROVE  \A n \in 0 .. m : g[n] = f[n]
<1> DEFINE Equal == {n \in Nat : n <= m => g[n] = f[n]}
<1>1. 0 \in Equal
  BY SumsAre
<1>2. ASSUME NEW n \in Equal PROVE n + 1 \in Equal
  <2>1. CASE n + 1 <= m
    <3>1. n + 1 \in 1 .. Len(q) /\ n + 1 \in 1 .. Len(p) /\ n + 1 \in 1 .. m
          /\ (n + 1) - 1 = n /\ g[n] = f[n]
      BY <2>1
    <3>2. f[n + 1] = q[n + 1].cap + f[(n + 1) - 1]
      BY <3>1, SumsAre
    <3>3. g[n + 1] = p[n + 1].cap + g[(n + 1) - 1]
      BY <3>1, SumsAre
    <3>4. p[n + 1] = q[n + 1]
      BY <3>1
    <3> QED BY <3>1, <3>2, <3>3, <3>4
  <2>2. CASE ~(n + 1 <= m)
    BY <2>2
  <2> QED BY <2>1, <2>2
<1> HIDE DEF Equal
<1>3. Equal = Nat
  BY <1>1, <1>2, StepByStep DEF Equal
<1> QED BY <1>3 DEF Equal

LEMMA CapBeforeSums ==
    ASSUME chunks \in Seq(Chunk)
    PROVE  SumsOf(chunks, CapBefore)
BY SumsExist DEF SumsOf, CapBefore

(* Every byte handed out since the reset lies in a chunk before the active *)
(* one or before the offset in it; a frame without requests has not moved. *)
HandedInv == /\ \A f : SumsOf(chunks, f) => f[current - 1] + offset >= handed
             /\ log = <<>> => current = 1 /\ offset = 0 /\ handed = 0 /\ req = Idle

LEMMA InitHanded == Init => HandedInv
<1> SUFFICES ASSUME Init PROVE HandedInv
  OBVIOUS
<1>1. chunks \in Seq(Chunk) /\ current = 1 /\ offset = 0 /\ handed = 0 /\ req = Idle
  BY InitBlocks DEF Init, BlocksInv, ArenaTypes
<1>2. ASSUME NEW f, SumsOf(chunks, f) PROVE f[0] = 0
  BY <1>1, <1>2, SumsAre
<1> QED BY <1>1, <1>2 DEF HandedInv

(* Moving on counts the whole of the chunk that is left, and leaves the    *)
(* sums up to it alone.                                                    *)
LEMMA MoveHanded ==
    ASSUME BlocksInv, HandedInv, Move
    PROVE  \A g : SumsOf(chunks', g) => g[current] >= handed
<1> SUFFICES ASSUME NEW g, SumsOf(chunks', g) PROVE g[current] >= handed
  OBVIOUS
<1>1. /\ chunks \in Seq(Chunk) /\ Len(chunks) \in Nat /\ current \in 1 .. Len(chunks)
      /\ offset \in Nat /\ handed \in Nat /\ offset <= chunks[current].cap
  BY DEF BlocksInv, ArenaTypes, BehindBump
<1>2. chunks[current].cap \in Nat
  <2>1. chunks[current] \in Chunk
    BY <1>1
  <2> QED BY <2>1 DEF Chunk
<1>3. PICK f : SumsOf(chunks, f)
  BY <1>1, SumsExist
<1>4. f[current - 1] \in Nat /\ f[current] = chunks[current].cap + f[current - 1]
  <2>1. current - 1 \in 0 .. Len(chunks)
    BY <1>1
  <2> QED BY <1>1, <1>3, <2>1, SumsAre
<1>5. f[current - 1] + offset >= handed
  BY <1>3 DEF HandedInv
<1>6. f[current] >= handed
  BY <1>1, <1>2, <1>4, <1>5
<1>7. g[current] = f[current]
  <2>1. /\ chunks' \in Seq(Chunk) /\ current <= Len(chunks')
        /\ \A i \in 1 .. current : chunks'[i] = chunks[i]
    <3>1. CASE ReusesNext
      BY <1>1, <3>1 DEF Move
    <3>2. CASE ~ReusesNext
      <4>1. PICK e \in Chunk : chunks' = InsertAfter(chunks, current, e)
        BY <3>2, FreshChunk
      <4>2. Spliced(chunks, current, e, chunks')
        BY <1>1, <4>1, Splice
      <4> QED BY <1>1, <4>2 DEF Spliced
    <3> QED BY <3>1, <3>2
  <2>2. current \in Nat /\ current <= Len(chunks) /\ current \in 0 .. current
    BY <1>1
  <2> QED BY <1>1, <1>3, <2>1, <2>2, SumsOfPrefix
<1> QED BY <1>6, <1>7

LEMMA StepHanded == BlocksInv /\ HandedInv /\ [Next]_vars => HandedInv'
<1> SUFFICES ASSUME BlocksInv, HandedInv, [Next]_vars PROVE HandedInv'
  OBVIOUS
<1>1. chunks \in Seq(Chunk) /\ Len(chunks) \in Nat /\ current \in 1 .. Len(chunks) /\ offset \in Nat /\ handed \in Nat
  BY DEF BlocksInv, ArenaTypes
<1>2. ASSUME NEW r \in Requests, bet_bump_alloc(r) PROVE HandedInv'
  <2>1. /\ log' = Append(log, r)
        /\ UNCHANGED <<chunks, current, offset, handed>>
    BY <1>2 DEF bet_bump_alloc, arenaVars
  <2>2. log' # <<>>
    BY <2>1
  <2> QED BY <2>1, <2>2 DEF HandedInv
<1>3. CASE Place
  <2> DEFINE ptr == align_up(chunks[current].base + offset, req.align)
  <2>1. /\ req.size \in Nat /\ chunks[current] \in Chunk /\ ptr \in Nat
        /\ chunks[current].base + offset <= ptr
    BY <1>3, PlaceIsNew
  <2>2. /\ offset' = ptr + req.size - chunks[current].base
        /\ handed' = handed + req.size
        /\ req # Idle
        /\ UNCHANGED <<chunks, current, log>>
    BY <1>3 DEF Place
  <2>3. chunks[current].base \in Nat
    BY <2>1 DEF Chunk
  <2> DEFINE base == chunks[current].base
  <2>4. /\ req.size \in Nat /\ offset \in Nat /\ ptr \in Nat /\ base \in Nat
        /\ base + offset <= ptr /\ offset' = ptr + req.size - base
    BY <1>1, <2>1, <2>2, <2>3
  <2> HIDE DEF ptr, base
  <2>5. offset' >= offset + req.size /\ offset' \in Nat
    BY ONLY <2>4
  <2>6. ASSUME NEW f, SumsOf(chunks, f) PROVE f[current - 1] + offset' >= handed'
    <3>1. f[current - 1] + offset >= handed
      BY <2>6 DEF HandedInv
    <3>2. current - 1 \in 0 .. Len(chunks)
      BY <1>1
    <3>3. f[current - 1] \in Nat
      BY <1>1, <2>6, <3>2, SumsAre
    <3> QED BY <1>1, <2>1, <2>2, <2>5, <3>1, <3>3
  <2>7. log # <<>>
    BY <2>2 DEF HandedInv
  <2> QED BY <2>2, <2>6, <2>7 DEF HandedInv
<1>4. CASE Move
  <2>1. /\ current' = current + 1 /\ offset' = 0 /\ req # Idle
        /\ UNCHANGED <<handed, log>>
    BY <1>4 DEF Move
  <2>2. ASSUME NEW f, SumsOf(chunks', f) PROVE f[current' - 1] + offset' >= handed'
    <3>1. f[current] >= handed
      BY <1>4, <2>2, MoveHanded
    <3>2. f[current] \in Nat
      <4>1. chunks' \in Seq(Chunk) /\ current' \in 1 .. Len(chunks')
        BY <1>4, StepBlocks DEF BlocksInv, ArenaTypes
      <4>2. current \in 0 .. Len(chunks')
        BY <1>1, <2>1, <4>1
      <4> QED BY <2>2, <4>1, <4>2, SumsAre
    <3> QED BY <1>1, <2>1, <3>1, <3>2
  <2>3. log # <<>>
    BY <2>1 DEF HandedInv
  <2> QED BY <2>1, <2>2, <2>3 DEF HandedInv
<1>5. CASE OutOfMemory
  BY <1>5 DEF OutOfMemory, arenaVars, frameVars, HandedInv
<1>6. CASE bet_evict
  <2>1. /\ current' = 1 /\ offset' = 0 /\ handed' = 0 /\ req' = Idle
        /\ UNCHANGED chunks
    BY <1>6 DEF bet_evict, reset
  <2>2. ASSUME NEW f, SumsOf(chunks, f) PROVE f[0] = 0
    BY <1>1, <2>2, SumsAre
  <2> QED BY <2>1, <2>2 DEF HandedInv
<1>7. CASE UNCHANGED vars
  BY <1>7 DEF vars, arenaVars, frameVars, HandedInv
<1> QED BY <1>2, <1>3, <1>4, <1>5, <1>6, <1>7 DEF Next

(* What bet_mem_receipts reports is never less than the bytes handed out   *)
(* since the reset, padding and the unused ends of chunks included, and is *)
(* 0 right after a reset.                                                  *)
THEOREM ReceiptsAreHonest == Spec => []ReceiptsHonest
<1>1. ASSUME BlocksInv, HandedInv PROVE ReceiptsHonest
  <2>1. chunks \in Seq(Chunk) /\ current \in 1 .. Len(chunks)
    BY <1>1 DEF BlocksInv, ArenaTypes
  <2>2. SumsOf(chunks, CapBefore)
    BY <2>1, CapBeforeSums
  <2>3. CapBefore[0] = 0
    BY <2>1, <2>2, SumsAre
  <2>4. CapBefore[current - 1] + offset >= handed
    BY <1>1, <2>2 DEF HandedInv
  <2>5. ASSUME log = <<>> PROVE CapBefore[current - 1] + offset = 0
    <3>1. current - 1 = 0 /\ offset = 0
      BY <1>1, <2>5 DEF HandedInv
    <3> QED BY <2>3, <3>1
  <2> QED BY <2>4, <2>5 DEF ReceiptsHonest, used
<1>2. Spec => []HandedInv
  BY BlocksInvariant, InitHanded, StepHanded, PTL DEF Spec
<1> QED BY <1>1, <1>2, BlocksInvariant, PTL

-----------------------------------------------------------------------------
(* Replays.  Where BumpCrib::alloc puts a request is a function of the     *)
(* chunks and of the place <<active chunk, offset>> it starts from.        *)
Behind(c, off, r) == align_up(c.base + off, r.align) + r.size - c.base

Holds(ch, a, r) == \/ Fits(ch[a[1]], a[2], r)
                   \/ a[1] < Len(ch) /\ Fits(ch[a[1] + 1], 0, r)

Landing(ch, a, r) == IF Fits(ch[a[1]], a[2], r)
                     THEN <<a[1], Behind(ch[a[1]], a[2], r)>>
                     ELSE <<a[1] + 1, Behind(ch[a[1] + 1], 0, r)>>

(* p are the places passed by the first n requests of q, none of which     *)
(* needed a fresh chunk.                                                   *)
Walks(ch, q, n, p) == /\ p[0] = <<1, 0>>
                      /\ \A i \in 1 .. n : /\ Holds(ch, p[i - 1], q[i])
                                          /\ p[i] = Landing(ch, p[i - 1], q[i])

Reaches(ch, q, n, c, off) == \E p : /\ Walks(ch, q, n, p)
                                    /\ p[n] = <<c, off>>
                                    /\ \A i \in 0 .. n : p[i][1] \in 1 .. c

Repeats == Len(log) <= Len(prevLog) /\ \A i \in DOMAIN log : log[i] = prevLog[i]

(* The arena is where its requests lead to from the beginning; the chunks  *)
(* of a frame that did not grow also serve the frame before in the same    *)
(* way; and a frame that grew has left the requests of the one before.     *)
ReplayInv ==
    /\ log \in Seq(Requests) /\ prevLog \in Seq(Requests)
    /\ req = Idle => Reaches(chunks, log, Len(log), current, offset)
    /\ req # Idle => log # <<>> /\ log[Len(log)] = req
    /\ req # Idle /\ hops = 0 => Reaches(chunks, log, Len(log) - 1, current, offset)
    /\ req # Idle /\ hops = 1 =>
          /\ offset = 0 /\ current > 1
          /\ \E o \in Nat : /\ Reaches(chunks, log, Len(log) - 1, current - 1, o)
                            /\ ~Fits(chunks[current - 1], o, req)
    /\ resets > 0 /\ ~grew => \E p : Walks(chunks, prevLog, Len(prevLog), p)
    /\ resets > 0 /\ Repeats => ~grew

(* The same requests lead to the same places.                              *)
LEMMA WalksAgree ==
    ASSUME NEW ch, NEW q, NEW s, NEW n \in Nat, NEW m \in Nat, NEW p, NEW t,
           Walks(ch, q, n, p), Walks(ch, s, m, t), n <= m,
           \A i \in 1 .. n : q[i] = s[i]
    PROVE  p[n] = t[n]
<1> DEFINE Equal == {i \in Nat : i <= n => p[i] = t[i]}
<1>1. 0 \in Equal
  BY DEF Walks
<1>2. ASSUME NEW i \in Equal PROVE i + 1 \in Equal
  <2>1. CASE i + 1 <= n
    <3>1. i + 1 \in 1 .. n /\ i + 1 \in 1 .. m /\ (i + 1) - 1 = i /\ p[i] = t[i]
      BY <2>1
    <3>2. p[i + 1] = Landing(ch, p[(i + 1) - 1], q[i + 1])
      BY <3>1 DEF Walks
    <3>3. t[i + 1] = Landing(ch, t[(i + 1) - 1], s[i + 1])
      BY <3>1 DEF Walks
    <3>4. q[i + 1] = s[i + 1]
      BY <3>1
    <3> QED BY <3>1, <3>2, <3>3, <3>4
  <2>2. CASE ~(i + 1 <= n)
    BY <2>2
  <2> QED BY <2>1, <2>2
<1> HIDE DEF Equal
<1>3. Equal = Nat
  BY <1>1, <1>2, StepByStep DEF Equal
<1> QED BY <1>3 DEF Equal

(* Later requests do not matter for where the first n lead.                *)
LEMMA ReachesSame ==
    ASSUME NEW ch, NEW q, NEW s, NEW n \in Nat, NEW c, NEW off,
           Reaches(ch, q, n, c, off), \A i \in 1 .. n : q[i] = s[i]
    PROVE  Reaches(ch, s, n, c, off)
BY DEF Reaches, Walks

LEMMA ReachesStart ==
    ASSUME NEW ch, NEW q
    PROVE  Reaches(ch, q, 0, 1, 0)
<1> DEFINE p == [i \in {0} |-> <<1, 0>>]
<1>1. p[0] = <<1, 0>> /\ p[0][1] = 1
  OBVIOUS
<1> HIDE DEF p
<1>2. Walks(ch, q, 0, p)
  BY <1>1 DEF Walks
<1>3. \A i \in 0 .. 0 : p[i][1] \in 1 .. 1
  BY <1>1
<1> QED BY <1>1, <1>2, <1>3 DEF Reaches

LEMMA ReachesNext ==
    ASSUME NEW ch, NEW q, NEW n \in Nat, NEW c \in Nat, NEW off, NEW d \in Nat, NEW o,
           Reaches(ch, q, n, c, off), c <= d,
           Holds(ch, <<c, off>>, q[n + 1]),
           Landing(ch, <<c, off>>, q[n + 1]) = <<d, o>>, d >= 1
    PROVE  Reaches(ch, q, n + 1, d, o)
<1>1. PICK p : Walks(ch, q, n, p) /\ p[n] = <<c, off>> /\ \A i \in 0 .. n : p[i][1] \in 1 .. c
  BY DEF Reaches
<1> DEFINE t == [i \in 0 .. n + 1 |-> IF i = n + 1 THEN <<d, o>> ELSE p[i]]
<1>2. t[n + 1] = <<d, o>> /\ \A i \in 0 .. n : t[i] = p[i]
  <2>1. n + 1 \in 0 .. n + 1
    OBVIOUS
  <2>2. \A i \in 0 .. n : i \in 0 .. n + 1 /\ i # n + 1
    OBVIOUS
  <2> QED BY <2>1, <2>2
<1> HIDE DEF t
<1>3. t[0] = <<1, 0>>
  <2>1. 0 \in 0 .. n /\ p[0] = <<1, 0>>
    BY <1>1 DEF Walks
  <2> QED BY <2>1, <1>2
<1>4. ASSUME NEW i \in 1 .. n + 1
      PROVE  Holds(ch, t[i - 1], q[i]) /\ t[i] = Landing(ch, t[i - 1], q[i])
  <2>1. CASE i = n + 1
    <3>1. n \in 0 .. n /\ (n + 1) - 1 = n
      OBVIOUS
    <3>2. t[n] = <<c, off>>
      BY <1>1, <1>2, <3>1
    <3> QED BY <1>2, <2>1, <3>1, <3>2
  <2>2. CASE i # n + 1
    <3>1. i \in 1 .. n /\ i \in 0 .. n /\ i - 1 \in 0 .. n
      BY <2>2
    <3>2. t[i] = p[i] /\ t[i - 1] = p[i - 1]
      BY <1>2, <3>1
    <3>3. Holds(ch, p[i - 1], q[i]) /\ p[i] = Landing(ch, p[i - 1], q[i])
      BY <1>1, <3>1 DEF Walks
    <3> QED BY <3>2, <3>3
  <2> QED BY <2>1, <2>2
<1>5. ASSUME NEW i \in 0 .. n + 1 PROVE t[i][1] \in 1 .. d
  <2>1. CASE i = n + 1
    BY <1>2, <2>1
  <2>2. CASE i # n + 1
    <3>1. i \in 0 .. n
      BY <2>2
    <3>2. t[i] = p[i] /\ p[i][1] \in 1 .. c
      BY <1>1, <1>2, <3>1
    <3> QED BY <3>2
  <2> QED BY <2>1, <2>2
<1>6. Walks(ch, q, n + 1, t)
  BY <1>3, <1>4 DEF Walks
<1> QED BY <1>2, <1>5, <1>6 DEF Reaches

(* A chunk spliced in behind the active one changes nothing before it.     *)
LEMMA ReachesSpliced ==
    ASSUME NEW ch, NEW dh, NEW q, NEW n \in Nat, NEW c \in Nat, NEW off,
           Reaches(ch, q, n, c, off),
           \A i \in 1 .. c : dh[i] = ch[i], Len(dh) \in Nat, Len(dh) >= c
    PROVE  Reaches(dh, q, n, c, off)
<1>1. PICK p : Walks(ch, q, n, p) /\ p[n] = <<c, off>> /\ \A i \in 0 .. n : p[i][1] \in 1 .. c
  BY DEF Reaches
<1>2. ASSUME NEW i \in 1 .. n
      PROVE  Holds(dh, p[i - 1], q[i]) /\ p[i] = Landing(dh, p[i - 1], q[i])
  <2>1. i \in 0 .. n /\ i - 1 \in 0 .. n
    OBVIOUS
  <2>2. Holds(ch, p[i - 1], q[i]) /\ p[i] = Landing(ch, p[i - 1], q[i])
    BY <1>1 DEF Walks
  <2>3. PICK b \in 1 .. c : b = p[i - 1][1]
    BY <1>1, <2>1
  <2>4. dh[b] = ch[b]
    BY <2>3
  <2>5. CASE Fits(ch[b], p[i - 1][2], q[i])
    BY <2>2, <2>3, <2>4, <2>5 DEF Holds, Landing
  <2>6. CASE ~Fits(ch[b], p[i - 1][2], q[i])
    <3>1. /\ Fits(ch[b + 1], 0, q[i])
          /\ p[i] = <<b + 1, Behind(ch[b + 1], 0, q[i])>>
      BY <2>2, <2>3, <2>6 DEF Holds, Landing
    <3>2. p[i][1] = b + 1 /\ p[i][1] \in 1 .. c
      BY <1>1, <2>1, <3>1
    <3>3. b + 1 \in 1 .. c /\ b < Len(dh)
      BY <2>3, <3>2
    <3>4. dh[b + 1] = ch[b + 1]
      BY <3>3
    <3> QED BY <2>3, <2>4, <2>6, <3>1, <3>3, <3>4 DEF Holds, Landing
  <2> QED BY <2>5, <2>6
<1>3. Walks(dh, q, n, p)
  BY <1>1, <1>2 DEF Walks
<1> QED BY <1>1, <1>3 DEF Reaches

LEMMA InitReplay == Init => ReplayInv
<1> SUFFICES ASSUME Init PROVE ReplayInv
  OBVIOUS
<1>1. /\ current = 1 /\ offset = 0 /\ req = Idle /\ log = <<>> /\ prevLog = <<>>
      /\ grew = FALSE /\ resets = 0
  BY DEF Init
<1>2. log \in Seq(Requests) /\ prevLog \in Seq(Requests) /\ Len(log) = 0
  BY <1>1
<1>3. Reaches(chunks, log, Len(log), current, offset)
  BY <1>1, <1>2, ReachesStart
<1> QED BY <1>1, <1>2, <1>3 DEF ReplayInv

LEMMA AllocReplay ==
    ASSUME BlocksInv, ReplayInv, NEW r \in Requests, bet_bump_alloc(r)
    PROVE  ReplayInv'
<1>1. /\ req = Idle /\ req' = r /\ hops' = 0 /\ log' = Append(log, r)
      /\ UNCHANGED <<chunks, current, offset, prevLog, grew, resets>>
  BY DEF bet_bump_alloc, arenaVars
<1>2. r # Idle
  <2>1. r.size \in Nat
    BY ArenaAssumption
  <2>2. Idle.size = -1
    BY DEF Idle
  <2> QED BY <2>1, <2>2
<1>3. log \in Seq(Requests) /\ prevLog \in Seq(Requests) /\ Len(log) \in Nat
  BY DEF ReplayInv
<1>4. /\ log' \in Seq(Requests) /\ Len(log') = Len(log) + 1 /\ log'[Len(log) + 1] = r
      /\ \A i \in 1 .. Len(log) : log[i] = log'[i]
  BY <1>1, <1>3
<1>5. Reaches(chunks, log, Len(log), current, offset)
  BY <1>1 DEF ReplayInv
<1>6. Reaches(chunks, log', Len(log), current, offset)
  BY <1>3, <1>4, <1>5, ReachesSame
<1>7. log' # <<>> /\ log'[Len(log')] = r /\ Len(log') - 1 = Len(log)
  BY <1>3, <1>4
<1>8. ASSUME Repeats' PROVE Repeats
  <2>1. Len(prevLog) \in Nat /\ Len(log) <= Len(prevLog)
    BY <1>1, <1>3, <1>4, <1>8 DEF Repeats
  <2>2. ASSUME NEW i \in DOMAIN log PROVE log[i] = prevLog[i]
    <3>1. i \in 1 .. Len(log)
      BY <1>3
    <3>2. i \in DOMAIN log'
      BY <1>3, <1>4, <3>1
    <3> QED BY <1>1, <1>4, <1>8, <3>1, <3>2 DEF Repeats
  <2> QED BY <2>1, <2>2 DEF Repeats
<1>9. (resets > 0 /\ Repeats => ~grew)'
  BY <1>1, <1>8 DEF ReplayInv
<1>10. (resets > 0 /\ ~grew => \E p : Walks(chunks, prevLog, Len(prevLog), p))'
  BY <1>1 DEF ReplayInv
<1> QED BY <1>1, <1>2, <1>3, <1>4, <1>6, <1>7, <1>9, <1>10 DEF ReplayInv

LEMMA PlaceReplay ==
    ASSUME BlocksInv, HopInv, ReplayInv, Place
    PROVE  ReplayInv'
<1> DEFINE n == Len(log) - 1
<1>1. /\ req # Idle /\ req' = Idle /\ Fits(chunks[current], offset, req)
      /\ UNCHANGED <<chunks, current, log, prevLog, grew, resets>>
  BY DEF Place
<1>2. offset' = Behind(chunks[current], offset, req)
  BY DEF Place, Behind
<1>3. /\ log \in Seq(Requests) /\ prevLog \in Seq(Requests)
      /\ n \in Nat /\ Len(log) = n + 1 /\ log[n + 1] = req
  BY <1>1 DEF ReplayInv
<1>4. current \in Nat /\ current >= 1 /\ current <= Len(chunks) /\ Len(chunks) \in Nat
  BY DEF BlocksInv, ArenaTypes
<1> HIDE DEF n
<1>5. Reaches(chunks, log, n + 1, current, offset')
  <2>1. CASE hops = 0
    <3>1. Reaches(chunks, log, n, current, offset)
      BY <1>1, <2>1 DEF ReplayInv, n
    <3>2. Holds(chunks, <<current, offset>>, log[n + 1])
      BY <1>1, <1>3 DEF Holds
    <3>3. Landing(chunks, <<current, offset>>, log[n + 1]) = <<current, offset'>>
      BY <1>1, <1>2, <1>3 DEF Landing
    <3> QED BY <1>3, <1>4, <3>1, <3>2, <3>3, ReachesNext
  <2>2. CASE hops # 0
    <3>1. hops = 1
      BY <2>2 DEF HopInv
    <3>2. PICK o \in Nat : /\ Reaches(chunks, log, n, current - 1, o)
                           /\ ~Fits(chunks[current - 1], o, req)
      BY <1>1, <3>1 DEF ReplayInv, n
    <3>3. offset = 0 /\ current > 1
      BY <1>1, <3>1 DEF ReplayInv
    <3>4. PICK b \in Nat : b = current - 1 /\ b + 1 = current /\ b < Len(chunks) /\ b <= current
      BY <1>4, <3>3
    <3>5. Holds(chunks, <<b, o>>, log[n + 1])
      BY <1>1, <1>3, <3>3, <3>4 DEF Holds
    <3>6. Landing(chunks, <<b, o>>, log[n + 1]) = <<current, offset'>>
      BY <1>2, <1>3, <3>2, <3>3, <3>4 DEF Landing
    <3>7. Reaches(chunks, log, n, b, o)
      BY <3>2, <3>4
    <3> QED BY <1>3, <1>4, <3>4, <3>5, <3>6, <3>7, ReachesNext
  <2> QED BY <2>1, <2>2
<1>6. Repeats' <=> Repeats
  BY <1>1 DEF Repeats
<1> QED BY <1>1, <1>3, <1>5, <1>6 DEF ReplayInv

LEMMA MoveReplay ==
    ASSUME BlocksInv, HopInv, ReplayInv, Move
    PROVE  ReplayInv'
<1> DEFINE n == Len(log) - 1
<1>1. /\ req # Idle /\ req' = req /\ ~Fits(chunks[current], offset, req)
      /\ current' = current + 1 /\ offset' = 0 /\ hops' = hops + 1
      /\ UNCHANGED <<log, prevLog, resets>>
  BY DEF Move
<1>2. hops = 0 /\ hops' = 1
  BY <1>1 DEF HopInv
<1>3. /\ log \in Seq(Requests) /\ prevLog \in Seq(Requests)
      /\ n \in Nat /\ Len(log) = n + 1 /\ log[n + 1] = req /\ log # <<>>
  BY <1>1 DEF ReplayInv
<1>4. /\ current \in Nat /\ current >= 1 /\ current <= Len(chunks) /\ Len(chunks) \in Nat
      /\ offset \in Nat /\ chunks \in Seq(Chunk)
  BY DEF BlocksInv, ArenaTypes
<1>5. Reaches(chunks, log, n, current, offset)
  BY <1>1, <1>2 DEF ReplayInv
<1> HIDE DEF n
<1>6. Repeats' <=> Repeats
  BY <1>1 DEF Repeats
<1>7. CASE ReusesNext
  <2>1. UNCHANGED <<chunks, grew>>
    BY <1>7 DEF Move
  <2>2. current' > 1 /\ current' - 1 = current
    BY <1>1, <1>4
  <2>3. Reaches(chunks', log', Len(log') - 1, current' - 1, offset)
    BY <1>1, <1>5, <2>1, <2>2 DEF n
  <2>4. ~Fits(chunks'[current' - 1], offset, req')
    BY <1>1, <2>1, <2>2
  <2>5. (resets > 0 /\ ~grew => \E p : Walks(chunks, prevLog, Len(prevLog), p))'
    BY <1>1, <2>1 DEF ReplayInv
  <2>6. (resets > 0 /\ Repeats => ~grew)'
    BY <1>1, <1>6, <2>1 DEF ReplayInv
  <2>7. log'[Len(log')] = req'
    BY <1>1, <1>3
  <2> QED BY <1>1, <1>2, <1>3, <1>4, <2>2, <2>3, <2>4, <2>5, <2>6, <2>7 DEF ReplayInv
<1>8. CASE ~ReusesNext
  <2>1. grew' = TRUE
    BY <1>8 DEF Move
  <2>2. PICK e \in Chunk : chunks' = InsertAfter(chunks, current, e)
    BY <1>8, FreshChunk
  <2>3. /\ Len(chunks') \in Nat /\ Len(chunks') >= current
        /\ \A i \in 1 .. current : chunks'[i] = chunks[i]
    <3>1. current \in 1 .. Len(chunks)
      BY <1>4
    <3>2. Spliced(chunks, current, e, chunks')
      BY <1>4, <2>2, <3>1, Splice
    <3>3. Len(chunks') = Len(chunks) + 1 /\ \A i \in 1 .. current : chunks'[i] = chunks[i]
      BY <3>2 DEF Spliced
    <3> QED BY <1>4, <3>3
  <2>4. current' > 1 /\ current' - 1 = current /\ current \in 1 .. current
    BY <1>1, <1>4
  <2>5. Reaches(chunks', log, n, current, offset)
    BY <1>3, <1>4, <1>5, <2>3, ReachesSpliced
  <2>6. Reaches(chunks', log', Len(log') - 1, current' - 1, offset)
    BY <1>1, <2>4, <2>5 DEF n
  <2>7. ~Fits(chunks'[current' - 1], offset, req')
    <3>1. chunks'[current' - 1] = chunks[current]
      BY <2>3, <2>4
    <3> QED BY <1>1, <3>1
  <2>8. ASSUME resets > 0, Repeats PROVE FALSE
    <3>1. PICK t : Walks(chunks, prevLog, Len(prevLog), t)
      BY <2>8 DEF ReplayInv
    <3>2. PICK p : Walks(chunks, log, n, p) /\ p[n] = <<current, offset>>
      BY <1>5 DEF Reaches
    <3>3. /\ Len(prevLog) \in Nat /\ n + 1 <= Len(prevLog)
          /\ \A i \in 1 .. n + 1 : log[i] = prevLog[i]
      BY <1>3, <2>8 DEF Repeats
    <3>4. n <= Len(prevLog) /\ \A i \in 1 .. n : log[i] = prevLog[i]
      BY <1>3, <3>3
    <3>5. p[n] = t[n]
      BY <1>3, <3>1, <3>2, <3>3, <3>4, WalksAgree
    <3>6. n + 1 \in 1 .. n + 1 /\ n + 1 \in 1 .. Len(prevLog) /\ (n + 1) - 1 = n
      BY <1>3, <3>3
    <3>7. Holds(chunks, t[(n + 1) - 1], prevLog[n + 1])
      BY <3>1, <3>6 DEF Walks
    <3>8. Holds(chunks, <<current, offset>>, req)
      BY <1>3, <3>2, <3>3, <3>5, <3>6, <3>7
    <3> QED BY <1>1, <1>8, <3>8 DEF Holds, ReusesNext
  <2>9. log'[Len(log')] = req'
    BY <1>1, <1>3
  <2>10. (resets > 0 /\ Repeats => ~grew)'
    BY <1>1, <1>6, <2>8
  <2> QED BY <1>1, <1>2, <1>3, <1>4, <2>1, <2>4, <2>6, <2>7, <2>9, <2>10 DEF ReplayInv
<1> QED BY <1>7, <1>8

LEMMA StepReplay == BlocksInv /\ HopInv /\ ReplayInv /\ [Next]_vars => ReplayInv'
<1> SUFFICES ASSUME BlocksInv, HopInv, ReplayInv, [Next]_vars PROVE ReplayInv'
  OBVIOUS
<1>1. ASSUME NEW r \in Requests, bet_bump_alloc(r) PROVE ReplayInv'
  BY <1>1, AllocReplay
<1>2. CASE Place
  BY <1>2, PlaceReplay
<1>3. CASE Move
  BY <1>3, MoveReplay
<1>4. CASE OutOfMemory
  BY <1>4 DEF OutOfMemory, arenaVars, frameVars, ReplayInv, Repeats
<1>5. CASE bet_evict
  <2>1. /\ req = Idle /\ req' = Idle /\ current' = 1 /\ offset' = 0
        /\ prevLog' = log /\ log' = <<>> /\ grew' = FALSE /\ chunks' = chunks
    BY <1>5 DEF bet_evict, reset
  <2>2. log \in Seq(Requests) /\ Reaches(chunks, log, Len(log), current, offset)
    BY <2>1 DEF ReplayInv
  <2>3. \E p : Walks(chunks, log, Len(log), p)
    BY <2>2 DEF Reaches
  <2>4. log' \in Seq(Requests) /\ Len(log') = 0
    BY <2>1
  <2>5. Reaches(chunks', log', Len(log'), current', offset')
    BY <2>1, <2>4, ReachesStart
  <2> QED BY <2>1, <2>2, <2>3, <2>4, <2>5 DEF ReplayInv
<1>6. CASE UNCHANGED vars
  BY <1>6 DEF vars, arenaVars, frameVars, ReplayInv, Repeats
<1> QED BY <1>1, <1>2, <1>3, <1>4, <1>5, <1>6 DEF Next

(* A frame that repeats the requests of the frame before takes no memory   *)
(* from the heap: reset keeps the chunks and alloc walks them in the same  *)
(* way again, whatever addresses and paddings they have.                   *)
THEOREM ReplaysAreFree == Spec => []ReplayIsFree
<1>1. ReplayInv => ReplayIsFree
  BY DEF ReplayInv, ReplayIsFree, Repeats
<1>2. Init => HopInv
  BY DEF Init, HopInv
<1>3. Spec => []HopInv
  BY <1>2, BlocksInvariant, StepHops, PTL DEF Spec
<1>4. Spec => []ReplayInv
  BY <1>3, BlocksInvariant, InitReplay, StepReplay, PTL DEF Spec
<1> QED BY <1>1, <1>4, PTL

-----------------------------------------------------------------------------
(***************************************************************************)
(* Tasks and handles.                                                      *)
(***************************************************************************)
(* The inductive invariant.  The types of what the properties read:        *)
TaskTypes ==
    /\ next \in Nat
    /\ pc \in [Threads -> {"run", "spawned", "joining", "using"}]
    /\ status \in [Threads -> {"unborn", "running", "done"}]
    /\ registry \in [Ids -> Threads \cup {NoThread}]
    /\ taskOf \in [Ids -> Threads \cup {NoThread}]
    /\ taker \in [Ids -> Threads \cup {NoThread}]
    /\ waitFor \in [Threads -> Threads \cup {NoThread}]
    /\ child \in [Threads -> Threads \cup {NoThread}]
    /\ \A t \in Threads : pc[t] = "spawned" => child[t] \in Threads

HandleTypes ==
    /\ pc \in [Threads -> {"run", "spawned", "joining", "using"}]
    /\ owner \in [Handles -> Threads \cup {NoThread}]
    /\ freed \subseteq Handles
    /\ using \in [Threads -> Handles \cup {NoHandle}]

(* An id names one task from its registration on, and nothing before: so   *)
(* Register never gives away an id somebody has joined, and the handle a   *)
(* joiner finds is that of the id's own task.                              *)
RegistryExact == \A i \in Ids : /\ registry[i] # NoThread => registry[i] = taskOf[i]
                                /\ i < next => taskOf[i] \in Threads
                                /\ i >= next => registry[i] = NoThread /\ taker[i] = NoThread

JoinInv == TaskTypes /\ RegistryExact /\ JoinMeansDone

(* A thread inside a handle owns it, and it is not freed.                  *)
UsersOwn == \A t \in Threads : using[t] # NoHandle =>
               /\ pc[t] = "using"
               /\ owner[using[t]] = t
               /\ using[t] \notin freed

HandleInv == HandleTypes /\ UsersOwn

-----------------------------------------------------------------------------
(* Ids are numbers: there are finitely many threads.                       *)
LEMMA IdsAreNumbers == Ids \subseteq Nat \ {0}
<1>1. Cardinality(Threads) \in Nat
  BY FS_CardinalityType, TaskAssumption
<1> QED BY <1>1 DEF Ids

LEMMA InitJoins == TaskInit => JoinInv
<1> SUFFICES ASSUME TaskInit PROVE JoinInv
  OBVIOUS
<1>1. TaskTypes
  BY DEF TaskInit, TaskTypes
<1>2. RegistryExact /\ JoinMeansDone
  BY IdsAreNumbers DEF TaskInit, RegistryExact, JoinMeansDone
<1> QED BY <1>1, <1>2 DEF JoinInv

(* A step that leaves the registry alone and ends no wait keeps what the   *)
(* joins rely on: tasks that are done stay done.                           *)
LEMMA QuietStep ==
    ASSUME JoinInv, TaskTypes',
           UNCHANGED <<next, registry, waitFor, taker, taskOf>>,
           \A u \in Threads : status[u] = "done" => status'[u] = "done",
           \A u \in Threads : pc[u] = "joining" => pc'[u] = "joining"
    PROVE  JoinInv'
<1>1. RegistryExact'
  BY DEF JoinInv, RegistryExact
<1>2. ASSUME NEW i \in Ids, taker[i] # NoThread PROVE taker[i] \in Threads /\ taskOf[i] \in Threads
  BY <1>2, IdsAreNumbers DEF JoinInv, RegistryExact, TaskTypes
<1>3. JoinMeansDone'
  BY <1>2 DEF JoinInv, JoinMeansDone
<1> QED BY <1>1, <1>3 DEF JoinInv

LEMMA StepJoins == JoinInv /\ [TaskNext]_threadVars => JoinInv'
<1> SUFFICES ASSUME JoinInv, [TaskNext]_threadVars PROVE JoinInv'
  OBVIOUS
<1> USE DEF JoinInv
<1>1. ASSUME NEW t \in Threads, NEW c \in Threads, bet_slide(t, c) PROVE JoinInv'
  <2>1. TaskTypes'
    BY <1>1 DEF bet_slide, TaskTypes, taskVars
  <2>2. \A u \in Threads : status[u] = "done" => status'[u] = "done"
    BY <1>1 DEF bet_slide, TaskTypes
  <2>3. \A u \in Threads : pc[u] = "joining" => pc'[u] = "joining"
    BY <1>1 DEF bet_slide, TaskTypes, Runs
  <2> QED BY <1>1, <2>1, <2>2, <2>3, QuietStep DEF bet_slide, taskVars
<1>2. ASSUME NEW t \in Threads, Register(t) PROVE JoinInv'
  <2>1. TaskTypes'
    <3>1. child[t] \in Threads
      BY <1>2 DEF Register, TaskTypes
    <3>2. /\ registry' \in [Ids -> Threads \cup {NoThread}]
          /\ taskOf' \in [Ids -> Threads \cup {NoThread}]
      BY <1>2, <3>1 DEF Register, TaskTypes
    <3>3. /\ next' \in Nat
          /\ pc' \in [Threads -> {"run", "spawned", "joining", "using"}]
          /\ child' \in [Threads -> Threads \cup {NoThread}]
          /\ \A u \in Threads : pc'[u] = "spawned" => child'[u] \in Threads
      BY <1>2 DEF Register, TaskTypes
    <3> QED BY <1>2, <3>2, <3>3 DEF Register, TaskTypes
  <2>2. RegistryExact'
    BY <1>2, IdsAreNumbers DEF Register, TaskTypes, RegistryExact
  <2>3. ASSUME NEW i \in Ids, taker'[i] # NoThread
        PROVE  \/ status'[taskOf'[i]] = "done"
               \/ pc'[taker'[i]] = "joining" /\ waitFor'[taker'[i]] = taskOf'[i]
    <3>1. i # next /\ taskOf'[i] = taskOf[i]
      BY <1>2, <2>3, IdsAreNumbers DEF Register, TaskTypes, RegistryExact
    <3>2. pc[taker[i]] = "joining" => pc'[taker[i]] = "joining"
      BY <1>2, <2>3 DEF Register, TaskTypes
    <3> QED BY <1>2, <2>3, <3>1, <3>2 DEF Register, JoinMeansDone
  <2> QED BY <2>1, <2>2, <2>3 DEF JoinMeansDone
<1>3. ASSUME NEW t \in Threads, NEW id \in Ids, bet_task_join(t, id) PROVE JoinInv'
  <2>1. TaskTypes'
    BY <1>3 DEF bet_task_join, TaskTypes
  <2>2. RegistryExact'
    BY <1>3, IdsAreNumbers DEF bet_task_join, TaskTypes, RegistryExact
  <2>3. CASE registry[id] = NoThread
    BY <1>3, <2>1, <2>2, <2>3 DEF bet_task_join, JoinMeansDone
  <2>4. CASE registry[id] # NoThread
    <3>1. ASSUME NEW i \in Ids, taker'[i] # NoThread
          PROVE  \/ status'[taskOf'[i]] = "done"
                 \/ pc'[taker'[i]] = "joining" /\ waitFor'[taker'[i]] = taskOf'[i]
      <4>1. CASE i = id
        BY <1>3, <2>4, <4>1 DEF bet_task_join, TaskTypes, RegistryExact
      <4>2. CASE i # id /\ taker[i] = t
        BY <1>3, <2>4, <3>1, <4>2 DEF bet_task_join, TaskTypes, JoinMeansDone, Runs
      <4>3. CASE i # id /\ taker[i] # t
        BY <1>3, <2>4, <3>1, <4>3 DEF bet_task_join, TaskTypes, JoinMeansDone
      <4> QED BY <4>1, <4>2, <4>3
    <3> QED BY <2>1, <2>2, <3>1 DEF JoinMeansDone
  <2> QED BY <2>3, <2>4
<1>4. ASSUME NEW t \in Threads, JoinReturns(t) PROVE JoinInv'
  <2>1. TaskTypes'
    BY <1>4 DEF JoinReturns, TaskTypes
  <2>2. RegistryExact'
    BY <1>4 DEF JoinReturns, RegistryExact
  <2>3. ASSUME NEW i \in Ids, taker'[i] # NoThread
        PROVE  \/ status'[taskOf'[i]] = "done"
               \/ pc'[taker'[i]] = "joining" /\ waitFor'[taker'[i]] = taskOf'[i]
    <3>1. CASE taker[i] = t
      BY <1>4, <2>3, <3>1 DEF JoinReturns, JoinMeansDone
    <3>2. CASE taker[i] # t
      BY <1>4, <2>3, <3>2 DEF JoinReturns, JoinMeansDone, TaskTypes
    <3> QED BY <3>1, <3>2
  <2> QED BY <2>1, <2>2, <2>3 DEF JoinMeansDone
<1>5. ASSUME NEW t \in Threads, NEW h \in Handles, NewHandle(t, h) \/ FreeHandle(t, h)
      PROVE  JoinInv'
  <2>1. TaskTypes'
    BY <1>5 DEF NewHandle, FreeHandle, TaskTypes, taskVars
  <2> QED BY <1>5, <2>1, QuietStep DEF NewHandle, FreeHandle, taskVars
<1>6. ASSUME NEW t \in Threads, NEW h \in Handles, BeginAccess(t, h) PROVE JoinInv'
  <2>1. TaskTypes'
    BY <1>6 DEF BeginAccess, TaskTypes, taskVars
  <2>2. \A u \in Threads : pc[u] = "joining" => pc'[u] = "joining"
    BY <1>6 DEF BeginAccess, TaskTypes, Runs
  <2> QED BY <1>6, <2>1, <2>2, QuietStep DEF BeginAccess, taskVars
<1>7. ASSUME NEW t \in Threads, EndAccess(t) PROVE JoinInv'
  <2>1. TaskTypes'
    BY <1>7 DEF EndAccess, TaskTypes, taskVars
  <2>2. \A u \in Threads : pc[u] = "joining" => pc'[u] = "joining"
    BY <1>7 DEF EndAccess, TaskTypes
  <2> QED BY <1>7, <2>1, <2>2, QuietStep DEF EndAccess, taskVars
<1>8. ASSUME NEW t \in Threads, Finish(t) PROVE JoinInv'
  <2>1. TaskTypes'
    BY <1>8 DEF Finish, TaskTypes, taskVars
  <2>2. \A u \in Threads : status[u] = "done" => status'[u] = "done"
    BY <1>8 DEF Finish, TaskTypes
  <2> QED BY <1>8, <2>1, <2>2, QuietStep DEF Finish, taskVars
<1>9. CASE UNCHANGED threadVars
  <2>1. TaskTypes'
    BY <1>9 DEF threadVars, taskVars, TaskTypes
  <2> QED BY <1>9, <2>1, QuietStep DEF threadVars, taskVars
<1> QED BY <1>1, <1>2, <1>3, <1>4, <1>5, <1>6, <1>7, <1>8, <1>9 DEF TaskNext, ThreadStep

(* The thread that took a task's join handle comes back from bet_task_join *)
(* only after the task's entry function has returned, however spawning,    *)
(* registering, joining and ending interleave.                             *)
THEOREM JoinsWait == TaskSpec => []JoinMeansDone
<1>1. JoinInv => JoinMeansDone
  BY DEF JoinInv
<1> QED BY <1>1, InitJoins, StepJoins, PTL DEF TaskSpec

-----------------------------------------------------------------------------
LEMMA InitHandles == TaskInit => HandleInv
<1> SUFFICES ASSUME TaskInit PROVE HandleInv
  OBVIOUS
<1> QED BY DEF TaskInit, HandleInv, HandleTypes, UsersOwn

(* A step that leaves handles alone and lets no thread out of an accessor. *)
LEMMA HandlesAlone ==
    ASSUME HandleInv, HandleTypes', UNCHANGED handleVars,
           \A u \in Threads : pc[u] = "using" => pc'[u] = "using"
    PROVE  HandleInv'
BY DEF HandleInv, UsersOwn, handleVars

LEMMA StepHandles == ASSUME OwnersFree PROVE HandleInv /\ [TaskNext]_threadVars => HandleInv'
<1> SUFFICES ASSUME HandleInv, [TaskNext]_threadVars PROVE HandleInv'
  OBVIOUS
<1> USE DEF HandleInv
<1>1. ASSUME NEW t \in Threads,
             \/ \E c \in Threads : bet_slide(t, c)
             \/ Register(t)
             \/ \E id \in Ids : bet_task_join(t, id)
             \/ JoinReturns(t)
             \/ Finish(t)
      PROVE  HandleInv'
  <2>1. UNCHANGED handleVars
    BY <1>1 DEF bet_slide, Register, bet_task_join, JoinReturns, Finish
  <2>2. HandleTypes'
    BY <1>1, <2>1 DEF bet_slide, Register, bet_task_join, JoinReturns, Finish, HandleTypes, handleVars
  <2>3. \A u \in Threads : pc[u] = "using" => pc'[u] = "using"
    BY <1>1 DEF bet_slide, Register, bet_task_join, JoinReturns, Finish, HandleTypes, Runs
  <2> QED BY <2>1, <2>2, <2>3, HandlesAlone
<1>2. ASSUME NEW t \in Threads, NEW h \in Handles, NewHandle(t, h) PROVE HandleInv'
  BY <1>2, TaskAssumption DEF NewHandle, HandleTypes, UsersOwn
<1>3. ASSUME NEW t \in Threads, NEW h \in Handles, BeginAccess(t, h) PROVE HandleInv'
  <2>1. HandleTypes'
    BY <1>3 DEF BeginAccess, HandleTypes
  <2>2. UsersOwn'
    BY <1>3 DEF BeginAccess, check_affinity, HandleTypes, UsersOwn, Runs
  <2> QED BY <2>1, <2>2
<1>4. ASSUME NEW t \in Threads, EndAccess(t) PROVE HandleInv'
  <2>1. HandleTypes'
    BY <1>4 DEF EndAccess, HandleTypes
  <2>2. UsersOwn'
    BY <1>4 DEF EndAccess, HandleTypes, UsersOwn
  <2> QED BY <2>1, <2>2
<1>5. ASSUME NEW t \in Threads, NEW h \in Handles, FreeHandle(t, h) PROVE HandleInv'
  <2>1. HandleTypes'
    BY <1>5 DEF FreeHandle, HandleTypes
  <2>2. \A u \in Threads : using[u] # h
    BY <1>5, TaskAssumption DEF FreeHandle, HandleTypes, UsersOwn, Runs
  <2>3. UsersOwn'
    BY <1>5, <2>2 DEF FreeHandle, HandleTypes, UsersOwn
  <2> QED BY <2>1, <2>3
<1>6. CASE UNCHANGED threadVars
  BY <1>6 DEF threadVars, handleVars, HandleTypes, UsersOwn
<1> QED BY <1>1, <1>2, <1>3, <1>4, <1>5, <1>6 DEF TaskNext, ThreadStep

(* In a program that frees its handles on the threads that made them, no   *)
(* two threads are ever inside one crib, stash, vec or rng, and none is    *)
(* inside a freed one: check_affinity in every accessor is enough.         *)
THEOREM NoDataRace == ASSUME OwnersFree PROVE TaskSpec => []NoRace
<1>1. HandleInv => NoRace
  BY TaskAssumption DEF HandleInv, HandleTypes, UsersOwn, NoRace
<1>2. HandleInv /\ [TaskNext]_threadVars => HandleInv'
  BY StepHandles
<1> QED BY <1>1, <1>2, InitHandles, PTL DEF TaskSpec
=============================================================================
