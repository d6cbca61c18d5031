# A TLA+ development for bet

bet is a compiled language with an explicit arena discipline ("cribs", tags,
`holla`), a reference interpreter, an LLVM backend, a C-ABI runtime and a small
game library (`gg`).  This directory holds TLA+ modules for the parts of it
that keep state or translate programs, TLC runs over small instances, and TLAPS
proofs of every safety property of the runtime's memory and tasks, of the
parity of its executions, and of the game library.  Paths below are relative to
the repository root.

## 1. Inventory

| component | source | state | operations | modelled by |
|---|---|---|---|---|
| typed crib | `crates/runtime/src/lib.rs` (`TypedCrib`) | per slot: occupied, generation; free list (LIFO); element storage | `bet_crib_new`, `bet_cop`, `bet_holla_check`, `bet_slot_ptr`, `bet_evict`, `bet_evict_slot` | `TypedCrib`, `CribProgram`, `GenHandles`, `CribProofs` |
| bump crib, scratch | same (`BumpCrib`) | chunk list, active chunk, offset, size of the next chunk | `alloc`, `reset`, `used` | `BumpArena`, `RuntimeProofs` |
| tasks, thread affinity | same (`bet_slide`, `bet_task_join`, `check_affinity`) | task registry, owner stamp of each handle | spawn, register, join, access, free | `SlideTasks`, `RuntimeProofs` |
| reference runtime | `crates/rt-stub/src/lib.rs` | as the runtime | same ABI | `StubCrib` (typed crib only), `CribParity`, `ParityProofs` |
| interpreter | `crates/interp/src/{interp,value}.rs` | arenas, environments, control-flow signals, stamped integers | statements and expressions | `InterpArena` and the interpreter side of `CribParity` (memory), `InterpExec` (scopes and control), `SizedInts` (integers), `SizedProofs` |
| lowering | `crates/frontend/src/lower.rs` | function under construction: blocks, two cursors, scopes, loop targets | per statement and expression | `Lowering` (control), compiled side of `CribParity` (memory), `SizedRun` (types of integer expressions) |
| MidIR builder, validator | `crates/midir/src/{build,validate}.rs` | blocks, current block; kinds | block, terminate, finish; check_func | `MidIR` (blocks, downcast guards), `MirKinds` (kinds) |
| MidIR text form | `crates/midir/src/text.rs` | none between inputs; the id tables of one read | print, prescan, parse | `MirText`, `MirExchange` |
| code generation | `crates/backend/src/codegen.rs` | stack slots, blocks | per statement and terminator | `LoweredCode` (control), compiled side of `CribParity` (memory), `SizedInts` (integers), `SizedProofs` |
| lexer, parser | `crates/frontend/src/{lexer,parser}.rs` | position, `no_struct`, depth | lex, parse | `Surface`, `Parser` |
| loader, resolver | `crates/frontend/src/{loader,resolve}.rs` | import graph, walk stack, rename tables | load, resolve | `Modules`, `Meaning` |
| formatter | `crates/fmt/src/lib.rs` | comments still to print | format | `Formatter` |
| driver | `crates/driver/src/main.rs` | files | `bet fmt`, `bet build`, `--emit mir` | `FrontEnd`, `MirExchange` |
| mixer, audio output | `crates/gg-backend/src/lib.rs` (`mod mixer`, audio functions) | voice pool, sound registry, voice ids, command ring | play, stop, tune, sound; callback drain and mix | `Mixer`, `AudioOutput`, `AudioProofs` |
| input | same (`mod input`, `KeyTap`, `pump_input`) | raw transitions, debounced keys and buttons, event queue, quit flag | deliver, pump, poll | `KeyInput`, `KeyProofs` |
| compositor | same (`mod compose`, canvas functions) | canvas, window buffer, layout key, mouse mapping | frame, rect, sprite, flush, show, present | `Compositor`, `CompositorProofs` |
| raw sample ring, frame pacing | same | bounded ring; clock accumulators | push_audio, tick, sleep | not yet |
| maps, vecs, rng, strings, recover tokens | runtime, rt-stub | containers | ABI | not yet |
| linking, xtask, ports, self-hosted front end, lsp, playground | see `PROJECT.json` | none between inputs, or I/O | | no |

How they interact.  The same program reaches the memory operations by two
routes: the interpreter calls its own arenas, compiled code calls the C ABI,
which the runtime and rt-stub both implement.  `spec/semantics.md` and the
differential tests ask for the same observable behaviour from all of them:
`CribParity` composes the three for that reason, `LoweredCode` the interpreter
with the lowering and what is generated from it, and `SizedRun` the integers of
the interpreter with those of a debug and of a release build.  Files reach both
through the lexer, the parser, the loader and the resolver; the formatter hands
a file back to the lexer, and the text form of MidIR one compiler run's module
to another's.  In the game library the game
thread and the audio callback share two lock-free rings and nothing else; the
windowing library calls back into `KeyTap` from inside the game's own present.

What is hard here:

* statements that leave (`dip`, `skip`, `bet`, `bounce`, `yeet`) nested in
  statements that join, while blocks are reserved, selected and terminated out
  of order through two cursors kept in step by hand;
* a tag outliving its slot, through reuse and generation wrap, in three
  implementations that reuse slots in different orders;
* an arena whose padding depends on machine addresses and whose sums may
  overflow;
* spawn and registration being two steps, joins that wait outside the lock, and
  single-threaded handles that cross threads;
* commands for a voice whose slot was stolen while the command was in a ring
  that may be full;
* key transitions that are repeated, dropped, or lost with the focus;
* a window buffer that is reused, with bars painted only when a key changes;
* a printer that must put back the parentheses and comments the tree does not
  hold, and a renaming that must hit every use of a name and no other;
* a text form that names an extern by a name many externs share;
* an integer stamped with a type at run time on one route, typed by its place
  on the other.

`PROJECT.json` lists these as hazards, each at its line.

## 2. The modules and the code

**GenHandles** is the abstract specification of a typed crib: a table of
handles that are live or ghosted for ever, with no slots and no generations.

**TypedCrib** holds the runtime's operations on one crib as operators:
`bet_cop` pops the free list, `bet_evict_slot` clears the slot, bumps its
generation modulo `GenMod` and pushes it, `bet_evict` does so for every slot
and rebuilds the list.  **CribProgram** adds the program: it keeps every tag it
ever got until it forgets it, and reads, writes, trusts or evicts through any
of them.  Ghost epochs name a handle independently of the wrapping generation.
The one assumption about the program is `NoTagOutlivesWrap`: nobody keeps a tag
through `GenMod` (2^64 in the code) reclaims of one slot.

**StubCrib** and **InterpArena** are rt-stub's crib (first free slot by scan)
and the interpreter's `Arena` (reuses a vacant slot, otherwise grows).
**CribParity** runs one program in the runtime, in rt-stub and in the
interpreter in lockstep, each with its own tags.  Compiled code holds the
element's address during a `holla` arm; the interpreter binds a snapshot and
writes it back.  `ExclusiveHolla` selects the programs; a
program ends at the cop that found no slot.

**Surface** has the lexemes, `lex` with its automatic statement ends and
comment trivia, and the shape of syntax trees; **Parser** one operator per
production of `parser.rs`, with `no_struct`, precedence climbing and the depth
limit; **Formatter** the printer, its parentheses (`expr_prec`, `operand`) and
the merging of comments by position.  **Modules** is the loader's depth-first
walk (confinement, aliases, cycles) and the resolver's tables, mangling and
rewriting; **Meaning** is the reference definition they are compared with: what
each use of a name denotes under lexical scope, before and after merging.
**FrontEnd** is the developer who writes, edits, formats and builds; the pure
passes come in as constants, which `MCFrontEnd` defines as `Parse`, `Format`,
`LoadGraph` and `ResolveGraph`, together with the corpus.

**MirText** has the grammar of the text form twice, as forms the printer emits
and as forms the parser reads, since they differ, and the parser's scan for
names, its `place_ty` and `resolve_extern`.  **MirKinds** is the rest of the
validator over the same trees: kinds of places, operands and rvalues, calls,
casts, arithmetic modes, targets, with the downcast guards taken from `MidIR`.
**MirExchange** hands a module from one run to another as text; `Lost` lists
what the text does not keep.  `MCMirExchange` has the modules.

**SizedInts** has integer arithmetic twice, `int_binary`, `cast`, `coerce` and
`display` of the interpreter over numbers that carry a stamp, and
`lower_int_binop`, `lower_cast`, `guard_div`, `mask_shift_amount` and
`bounds_check` over bits; a value outside an instruction's domain is `Poison`.
Floats occur as what integers are converted to and from.  `Rounded` takes a
number to the nearest one of `p` significant bits, the even one of two as near;
`Single` and `Double` are the bits of f32 and f64.  Compiled code rounds to the
format of the type, the interpreter keeps an f64 whatever the type.
**SizedRun** runs one expression and store after another in lockstep,
interpreted, compiled for debugging and compiled for release.  `parted` is set
where the interpreter may differ (below); nothing is compared from there on.

**MidIR** has the IR as data, `FuncBuilder` (whose assertions become the set
`panics`) and the validator's `check_func`: targets, return arity, dominators
and the downcast guards.  **Lowering** has the statements of `lower.rs` that
move control, one operator per `lower_*` function, threading one record that is
both the `FuncBuilder` and the `LowerCtx`.  **InterpExec** executes the same
statements as `exec_stmt` does.  Programs are trees of records; types are left
out, `ask()` stands for a host function that answers yes or no, and printing
appends to the output.  **LoweredCode** takes the code the lowering built for one program, validates it
(`Compile`), calls it with some arguments (`define_func`: slots and parameters)
and executes it one statement or terminator at a time, as code generation
translates them; when it comes back, output and result are compared with the
interpreter's.  What the lowering built and what the interpreter shows are its
constants `Lowered` and `Expected`; `MCLoweredCode` has the family of programs
and computes both from their text with `Lowering!lower_fn_core` and
`InterpExec!call_fn`.

**BumpArena** follows `BumpCrib::alloc` pass by pass: place in the active
chunk, or move on (to the next retained chunk, or to a fresh one spliced in),
or die.  Chunk addresses are chosen by the heap (external), so alignment
padding and the overflow of `aligned + size` are real.

**SlideTasks** has one step per lock section: `bet_slide` spawns and later
registers, `bet_task_join` takes the handle and later returns, accessors check
the owner and work for a while, the free functions make no check.
`OwnersFree` selects programs that free on the owning thread.

**Mixer** has the pure parts (voice ids, the effect of a command, a voice's
advance, resampling as the set of source samples each output sample reads).
**AudioOutput** has the two threads: the game's calls, and the callback whose
every pop and every output slot is a step, so that the game runs in between.
Ghosts record which play call a voice belongs to and what the accepted commands
asked of it.  Sample values are left out.

**KeyInput** has the player (key moves with repeat, focus loss, button moves,
close), the delivery by the windowing library (external: it fills its key
array and calls `KeyTap`, one happening at a time, `Delivery`), and the game's
present, pump and poll.  `edges` runs `Keyboard::edge` over a list of
transitions; `pump` is `edges` over the raw queue and then over `Read`, the
library's array key by key.  `KeyTap` turns the newest transition away when its
queue is full, as the code does; the comment at `gg-backend/src/lib.rs:2441` says
the oldest are dropped.

**Compositor** has the canvas operations, `Present::compose` with its reused
buffer and layout key, the staging buffer `show` and `present` pack the
caller's frame into, the gauge that counts the growths of both buffers, the
window (external: resized and pointed at by the player) and the mouse mapping.
Colours are numbers; blending is left out.  `show` and `present` do nothing with
an empty frame: `imp::show` returns before `GgState::show` could find one, so the
branch for it there (`gg-backend/src/lib.rs:3076`) is dead and not an action.

**BasicLemmas** states what the proofs about several components need of
numbers and sequences: division, cells of a table, and induction (section 4).

Mutated variants of a definition (`..._mutant`, placed before it) are plausible
bugs; each one makes the property named in `PROJECT.json` fail.

## 3. The runs

| run | shows | bounds |
|---|---|---|
| crib_program | free list exact, tags resolve exactly while live, refinement of GenHandles | 2 slots, generations modulo 2, 3 reclaims per slot |
| crib_parity | runtime, rt-stub and interpreter show the same arms and values, and a tag is live in all three or in none, until a crib is full | 2 slots, 4 cops, 3 evicts, 2 nested hollas |
| bump_arena | blocks disjoint, inside the arena and aligned, honest receipts, one hop per request, a repeated frame allocates nothing | 6-bit addresses, 3 allocations per frame, 3 frames |
| slide_tasks | join waits, no two threads in a handle, joiners return | 3 threads, 2 handles |
| audio_output | stale commands never reach another voice, oldest voice is stolen, no buffer freed or overrun in the callback, resampling stays inside its source, stops are heard | 2 voices, ring of 2, 3 plays, generations modulo 3 |
| key_input | alternating edges and no stuck key, no lost tap, exactly one QUIT, QUIT is seen | 2 keys, raw queue of 2, 4 happenings |
| compositor | drawing inside the canvas, bars black, mouse names the pixel seen, neither buffer is reallocated while windows and frames repeat | 2 logical sizes three pixels apart and an empty one, 5 window sizes |
| lowered_code | the validator accepts what the lowering built, compiled code meets no undefined value, does what the interpreter does, and ends | 640 programs, 3 argument sets, 4 sequences of answers |
| front_end | printing keeps the tree and is a fixed point, no comment is dropped, a build reads each file it should once, names keep their meaning | 5600 expressions up to depth 3, every statement and item with an insertion in any gap, 150 projects of 2 to 4 files |
| mir_text | a module survives its text exactly when it holds no lost shape; the validator refuses misread bodies | 1079 modules, 738 of them valid |
| sized_ints | interpreter and compiled code agree except where named; a release build only drops the overflow traps | widths 2 and 4, float formats of 1 and 2 bits, 6 literals, 10 floats, 3 array lengths |
| missing_arm | *violation*: a `vibe` without an arm for a variant compiles and reaches `unreachable` | 80 programs |

Why the bounds are enough.  *crib_program*: with `GenMod` 2 and 3 reclaims a
slot's generation takes each value twice, so a stale tag meets its own
generation again (where the assumption forbids keeping it) and its neighbour's;
two slots suffice for one operation to disturb another slot.  *crib_parity*:
two evicts followed by two cops are the shortest program that makes the three
slot orders differ; there are cops and evicts to spare.  *bump_arena*: one
request exceeds the chunk, one exceeds the chunk's alignment, one ends past the
address space, one is empty; three frames make retained chunks meet new
requests.  *slide_tasks*: a task that spawns a task, and a thread that joins
both.  *audio_output*: three plays over two slots steal one voice; the ring
fills before the third.  *key_input*: press, release, press of one key
overflow the raw queue.  *compositor*: windows larger than, equal to and
smaller than the frame, odd remainders on both axes, and an empty one; the
frame changes its size under each of them, and is empty in between.

*lowered_code*: each of 8 constructs stands alone, in a loop, in a squad and in
both arms of a holla; its arms are drawn from 10 blocks that fall through,
assign, shadow, print, leave the loop, the round or the function in every way,
or use a constant of their own; programs whose `dip` has no loop are refused by
the lowering.  Two levels of nesting are what makes an inner statement leave
past an outer join, and the answers make loops run up to three times.  `MaxOut`
(16 prints) is never reached by the code as it is.

*front_end* (37437 states): every form of expression stands in every operand
place of every other, three levels deep, as a statement and in a header, where
struct literals and `{` conflict; `MAX_DEPTH` is 11 instead of 256 so that the
limit is reached.  A line break or one of four comments goes into every gap of
a text that has each statement, item and type once, and two of them into two
short texts.  The projects have pulls that form chains, diamonds, cycles and
escapes, one file by two spellings, aliases of file and built-in names, and
declarations that share names across files and with locals.  *mir_text*: every
rvalue, terminator, constant and type occurs in a function between two others;
calls are made with every argument place against orders of externs that share a
name; names are drawn from words that mean something else in the grammar.  106
of the valid modules come back changed: 50 are refused, the other 56 lost only
types of results, types of constants or have arguments without a kind.
*sized_ints* (87825 states): width 2 stands for 8 to 32 bits, where the
interpreter re-signs and zero-extends, and 4 for 64; the literals include both
ends of the narrow types and the first numbers outside them, and expressions
grow by one operator at a time without limit.  Floats of 1 and 2 significant bits
stand for the 24 and 53 of f32 and f64: 7 as a float rounds to 8, past the
largest number of its type, as 2^63-1 does to 2^63, and 3 as an f32 rounds to 4, as
16777217 does to its neighbour.  The theorems of section 4 cover the other
widths and formats.

Deadlock checking is off in six configurations, because the modelled system may
stop there: bump_arena (the bounds are used up or the process died),
slide_tasks (the main thread returned or the process aborted), crib_parity (a
cop found no slot), front_end (the text does not parse and has no edits left),
mir_text (the module was not read back) and sized_ints (a run stopped or the
runs parted).

**Fairness.**  *SlideTasks*: the OS schedules every runnable thread (weak
fairness of the steps inside a call), and tasks other than main come to an end
(strong fairness of `Finish`, since a task may enter and leave calls for ever
before it returns); joins never form a cycle.  *AudioOutput*: weak fairness of
the callback only, since the device keeps calling it and the callback runs on;
nothing is assumed of the game.  *KeyInput*: weak fairness of present and poll,
what a game's loop does; nothing is assumed of the player.  *LoweredCode*: weak
fairness of the steps of the compiled code, which runs on by itself; the loops
end because every round asks and the answers run out.  The other specifications
are safety only.

## 4. What is proved

*Typed crib.*  `CribProofs` proves, for every capacity, generation modulus,
value set and epoch bound (`CribAssumption`, `EpochAssumption`):

* `TypeCorrect`: `Spec => []TypeOK`;
* `FreeListIsExact`: `Spec => []FreeListExact`;
* `StaleTagsGhost`: `Spec => []ResolvesIffLive`;
* `Refinement`: `Spec => ImplementsGenHandles`.

All rest on `Invariance`, `Spec => []IInv`. `ResolvesIffLive` is not inductive:
that a tag's slot is current says nothing about its generation unless the
distance between a tag's generation and its slot's is known, and a vacant slot
whose current epoch had been issued already would resolve an old tag after the
next cop. `IInv` adds to the types and the exact free list: `TagAge` (a slot's
generation is a held tag's, advanced by the reclaims since the tag was issued
and wrapped at most once), `IssuedPast` (handed-out handles are of the current
or an earlier epoch, of the current one only while the slot is occupied),
`HeldIssued` (the program holds only tags it was given) and
`NoTagOutlivesWrap`, which makes equal generations mean equal epochs.
`ResolvesFromIInv` then derives the property. The step lemmas go action by
action; `PopLast` and `PushNew` say what popping and pushing does to an
injective sequence. The refinement adds `LiveCount`: as many handles are live
as slots are occupied, so the table is full exactly when the free list is
empty.

*Bump arena.*  `RuntimeProofs` proves, for every chunk size, alignment, request,
step of the reserve and place the allocator may give (`ArenaAssumption`: sizes
are naturals, chunk bases multiples of the arena's own alignment):

* `BlocksAreSound`: `Spec => []SoundBlocks`;
* `LoopMovesOnce`: `Spec => []OneHop`;
* `ReceiptsAreHonest`: `Spec => []ReceiptsHonest`;
* `ReplaysAreFree`: `Spec => []ReplayIsFree`.

That live blocks do not overlap is not inductive: a reset or a move leaves
chunks behind the active one that are entered again at offset 0.  `BlocksInv`
adds `BehindBump` (every live block lies below the bump offset of the active
chunk or in a chunk before it, so the chunks after it hold none), `ChunksApart`
(chunks do not overlap in the address space) and `Counted`.  A placement is then
new because it starts at the offset (`PlaceIsNew`), and a chunk put in after the
active one renumbers only chunks without blocks (`Splice`).  `AlignUp` says what
`align_up` returns.  `HopInv` is what bounds the loop of `BumpCrib::alloc`: a
request that has moved fits the chunk it moved to, whatever its padding.

`used` adds up the capacities of the chunks before the active one and the
offset; `HandedInv` says of every such sum that it covers the bytes handed out
since the reset, and a move into the next chunk or a new one keeps that because
the chunk it leaves is then counted whole.  That a repeated frame allocates
nothing needs the path of the frame before: `Walks(chunks, requests, n, p)` says
that `p` is where the first `n` requests of a frame lead, one position
(chunk and offset) to the next, none needing a fresh chunk, and `Reaches` where
they end.  Such a path is determined by the chunks and the requests
(`WalksAgree`).  `ReplayInv` carries along that this frame is where its
requests lead from the beginning, and that while nothing grew since the reset
the chunks also serve the frame before; a frame that repeats it therefore walks
the same path and finds each chunk there.

*Parity.*  `ParityProofs` proves, for every capacity, value set and bounds of
the program (`ParityAssumption`: fewer evicts than generations, so that the
counters do not wrap while the three are compared):

* `TagsAgree`: `Spec => []SameLiveness`;
* `ExecutionsAgree`: `ASSUME ExclusiveHolla PROVE Spec => []SameObservation`.

`Lockstep` is the invariant of the first.  Since the executions reuse slots in
different orders, nothing can be said slot by slot; what they share is the set
of tags, each of which is a triple.  `Past` (no tag is ahead of its slot's
generation, and one that is level with it is alive) and `Covered` (each element
in use has its tag in the program's hands) are stated once for the three
representations, and proved once for what `cop` (`Issue`) and the evicts do to
any of them; `Distinct` says that two triples that agree in one place are one.
With them the runtimes are full together, and a fresh tag revives none.  A
program that cops into a full crib leaves the comparison (`wild`).  For the
second, `OInv` adds that the stores agree (`SameValue`), except that an element
a `holla` has open is in the interpreter's snapshot until the arm ends
(`Opened`).  The assumption selects the programs of section 5: with overlapping
hollas the executions do differ.

*Tasks.*  `RuntimeProofs` also proves, for any finite set of threads and any
handles (`TaskAssumption`):

* `JoinsWait`: `TaskSpec => []JoinMeansDone`;
* `NoDataRace`: `ASSUME OwnersFree PROVE TaskSpec => []NoRace`.

The first rests on `RegistryExact`: an id names one task from its registration
on and nothing before, so the handle a joiner takes out is that of the id's own
task and no later registration reuses the id.  The second rests on `UsersOwn`: a
thread inside a handle owns it and it is not freed.  Its assumption is real: the
free functions make no affinity check (section 5).

*Sound.*  `AudioProofs` proves, for any pool, ring, sounds, formats and volumes
(`MixerAssumption`, `AudioAssumption`):

* `NothingFreedInCallback`: `Spec => []CallbackNeverFrees`;
* `MixerStaysInBuffer`: `Spec => []PosInBuffer`;
* `ResampleStaysInside`: `Spec => []ResampleInRange`;
* `CommandsReach`: `Spec => []CommandsReachTheirVoice`;
* `StealsOldest`: `Spec => []OldestIsStolen`.

`BuffersHeld` strengthens the first: a command in flight carries a buffer that
was really made, so the play that replaces a sound's placeholder takes away
nothing a voice refers to.  `Apply` and `Advance` say what a command and an
output slot do to a voice, `Resampled` that a resampled buffer has a length, and
`ResampleReads` where its samples come from.

The last two are about the pool once the ring is drained, which lies in the
future of the present state. `DrainedInv` carries that pool along as `P`:
draining the voices as they are with the commands in flight leads to `P`, and
`P` is what the accepted commands asked for (`Agrees`) and has the last plays
in their slots (`Latest`). A call of the game appends a command and moves `P`
by one command; a pop of the callback leaves `P` where it is; an output slot
advances voices before the commands still in the ring reach them, and the
drained pool differs from `P` only in positions and in voices that came to
their end, through all those commands (`Follows`). An id decodes to the slot
and generation it was made of (`IdDecodes`), so a command for a stolen slot is
turned away.

*Input.*  `KeyProofs` proves, for any number of keys, any capacity of the raw
queue and any length of run (`KeyAssumption`):

* `QuitsOnce`: `Spec => []OneQuit`;
* `EventsAlternate`: `Spec => []EdgesAlternate`;
* `TapsCount`: `Spec => []TapsSurvive`.

For the first, the flag counts the QUITs ever queued (`QuitCounted`). For the
second, `Alternates(L, q, M)` says that polling the events `q` takes a game
that knows the levels `L` to the levels `M`, each event being news to it; it
holds of the edges of any list of transitions (`EdgesAlternating`), of the
button events and of QUIT, can be joined (`AlternatesJoined`), and a poll takes
its head off (`AlternatesTail`). The invariant `Settled` is `Alternates` from
what was polled last to the debounced state, which is the library's after each
pump, because the pass over the array leaves every key as the array has it
(`Reconciled`). For the third, `TapsInv` looks ahead: while nothing was dropped
and the focus was kept, replaying the backlog leads to the keys the player
holds, and its KEY_DOWNs are the presses not yet queued (`Pending`). A present
then delivers the backlog itself (`DeliveryClean`), and the pass over the array
adds nothing (`AlreadyReconciled`).

*Compositor.*  `CompositorProofs` proves, for any boxes, blits, colours, frame
and window sizes (`CompositorAssumption`):

* `DrawsAreClipped`: `ASSUME FrameFirst PROVE Spec => []DrawingIsClipped`;
* `GaugeIsFlat`: `Spec => GrowthsStayFlat`;
* `MouseIsRight`: `Spec => []MouseNamesPixel`;
* `BarsStayBlack`: `ASSUME SizesFarApart PROVE Spec => []LetterboxIsBlack`.

The gauge counts two buffers that both shrink and grow: the one `compose` fits to
the window and the one `pack_frame_into` fits to a caller's frame, in any
window.  `GrowthsStayFlat` bounds each step by the records it sets, of windows
composed and of frames packed; that needs the capacities to cover what was met
before, whatever smaller sizes came in between (the conjunct `Gauge` of
`Screen`, by `PackedFrame` and `PresentBuffer`).  `Screen` also relates the
canvas, the buffer, the window and the cursor; `Told`
relates the mouse mapping to the layout of the frame that is shown, and the
rest of `MouseIsRight` is arithmetic: the division that maps a window
coordinate back names the source of the pixel under it, letterboxed or cropped
(`LogicalCoordinate`). `BarsInv` says that the buffer is black beside the
picture of the layout its key stands for. A key has the offsets and the scale
but no frame size; sizes that are equal or at least three pixels apart
(`SizesFarApart`) never share one in any window (`KeysTellApart`), since
halving an odd remainder hides less than that. Both assumptions are real
(section 5).

*Sized integers.*  `SizedProofs` proves, for every width of the word, of the
narrower integers and of the two float formats, all literals, floats and array
lengths:

* `OracleHolds`: `Spec => []InterpreterIsOracle`;
* `ReleaseDropsOnly`: `Spec => []ReleaseDropsOnlyOverflow`.

`WidthAssumption` says that the narrow widths are below the word and that a
width divides its number of values, as 8, 16, 32 and 64 do; `FloatAssumption`
that an f64 has at least the significant bits of an f32, as 53 and 24 are;
`SizedAssumption` that literals have no sign, that a finite float literal is an
f64 of whole halves (its magnitude is within f32's reach, as every integer of
the word is) and that an array has at most 2^63 elements (a Rust allocation has
at most `isize::MAX` bytes).  So what the run shows for widths 2 and 4 holds for 8
to 64, and what it shows for formats of 1 and 2 bits for those of 24 and 53.

`InterpreterIsOracle` says that the interpreted number and the bits are equal
modulo the compiled width, and that is not enough for the next step: the bits
must be those of the type.  `SizedInv` has, while the runs have not parted,
that the bits are the interpreted number's residue (`Matches`), that this number
is in the range of its stamp (`IsNumber`), and that a float is the same in both.
That release code holds the same bits until a debug build stops is the other
property itself.  Nothing need be known once the runs have parted or a debug
build has stopped, since no step is taken from there.

Below the invariant lies the arithmetic of fixed widths.  `2^n` is built in, and
the provers know nothing of it: `PowerOfTwo` and `NextPower` get it as the number
of subsets of `1 .. n`.  Then come residues (`Sums`, `Differences`, `Factors`,
`FewerBits`), what `wrap_to` and `View` do to a number (`Wrapped`,
`Viewed`, `StoredOnce`: a stored number is given by its low bits), and the bitwise
operators: `Bits` is a sum over binary digits, and the low bits of a result are
the result on the low bits (`BitsOfLowBits`).  Each operator is reduced to the
exact result on the operands it sees (`InterpretedSum`, `CheckedSum` and their
siblings), and the two sides are compared in the three cases of `Alike`: at one
type both see the same numbers (`AtItsTypeAgrees`), small numbers are in the
range of every type involved (`SmallAgrees`), and sums, differences, products
and bits agree modulo the narrower width (`RingAgrees`).  `EqualityAgrees`,
`UnaryAgrees`, `CastAgrees`, `FromFloatAgrees` and `IndexAgrees` are the rest.  Of
`Rounded` the proofs need that it changes nothing that fits (`NearestExact`) and
that a number that fits into an f32 fits into an f64 (`FitsMore`, from
`DroppedBits`): the float in both runs is then an f64 and the same
(`AlikeToFloat`, `AlikeFloat`).  For
release builds `AnyBuild` shows that the guards leave no instruction outside its
domain, whether or not the case is one of `Alike`.

*Induction.*  Recursive functions over sequences occur in several of these
(sums of capacities, paths through chunks, the drained pool, the edges of a
list of transitions). The library's induction theorems take an operator as a
parameter, which the provers cannot instantiate; `BasicLemmas` proves from
well-foundedness that a set of numbers which has 0 and the successor of each of
its elements is `Nat` (`StepByStep`), and that a function can be defined from
its value at 0 and a step (`Recursion`). A definition `f[n \in 0 .. k]` is then
shown to satisfy its own equations and followed step by step.

Only model-checked: liveness (`JoinersReturn`, `StopsAreHeard`, `QuitIsSeen`,
`CompiledCodeEnds`), which is out of the prover's reach; and the runs
lowered_code, missing_arm, front_end and mir_text, whose modules walk syntax trees
with `RECURSIVE` operators, which tlapm does not accept in a module with
theorems, and whose properties are inductions over trees.

## 5. Not modelled, and the plan

Left out for good: file and process I/O (linking, xtask), programs written in
bet (ports, the self-hosted front end), character classes, escapes and
indentation, and sample and pixel arithmetic.  Cribs whose element type has
size zero are outside `TypedCrib`, symbolic links and the playground's
in-memory reader outside `Modules`.  Maps, vecs, rng and strings of the runtime
are containers over the standard library; only their thread checks are
modelled.

What the passing runs leave out on purpose, because the code is known to do
otherwise there.

*Memory and threads*

* handles freed on another thread: `bet_crib_free` and the other free functions
  make no affinity check, and `NoRace` fails with `OwnersFree = FALSE`;
* a cop into a full crib stores through null (`codegen.rs:1916`), which
  `spec/semantics.md:132` does not mention; `CribParity` ends there;
* nested hollas on one element, or an evict inside one: the interpreter's
  snapshot (`interp.rs:602`) and compiled code's address differ, and
  `SameObservation` fails with `ExclusiveHolla = FALSE`;
* a padding that passes the end of the address space: the addition in `align_up`
  (`runtime/src/lib.rs:112`) is not checked, only the one of the size after it;
  the model adds without a width and refuses the place.

*Game library*

* a program that changes its logical size by one or two pixels: the layout key
  has no frame size, the bars keep the wider frame's column, and
  `LetterboxIsBlack` fails with two sizes that share a key (`TwoSizes`);
* `show` of a larger frame, then drawing before the next `frame`: the canvas is
  indexed past its end (`gg-backend/src/lib.rs:3080`), and `DrawingIsClipped`
  fails with `FrameFirst = FALSE`.

*Control flow*

* a local `facts` whose name a local variable has too: `lower_name` looks for
  locals first and keeps the constant for the rest of the function, the
  interpreter declares it in its block;
* an array assigned to inside the `squad` over it: compiled code reads the array
  element by element, the interpreter iterates over a copy.

*Front end* (`Lost` and `Misread` in `FrontEnd`)

* a `cop` or a `trust` followed by a postfix, a called field or element, a
  generic `cop` in a header and an infinite float do not print to text with the
  same tree, although the formatter's module comment says so of every program:
  `OutputReparses` states that and fails;
* block comments that end in an even run of stars (`StarFree`): the lexer takes
  stars in pairs and reads on to the end of a later comment, the formatter's
  own scan stops at the first star and slash, so what stands in between may
  become code; `PrintingKeepsTree` and `FixedPoint` leave such texts out;
* methods of a pulled file are renamed but their calls are not
  (`resolve.rs:216`), so they cannot be called; a type loses its name to a
  later function or variant of that name in its file, and a name a pulled file
  does not declare is found in the root.

*Text of MidIR* (`Lost` in `MirExchange`)

* tuples of fewer than two, a single tuple result, non-finite floats, integers
  of a type that is not one, user types named like built-in ones, a function
  named `fn`;
* `return nullptr`, which a function with a handle for a result prints for
  `bussin ghosted`: `starts_operand` (`text.rs:1650`) does not know `nullptr`;
* calls whose argument the text shows no type of (`place_ty` does not follow soa
  containers and tuples) bind to the first extern of the name.

*Sized integers* (`AtItsType`, `SmallEnough` and the `Alike` operators in `SizedRun`)

* assignments, fields, elements and results keep the stamp of the value:
  300 stays 300 where a compiled `u8` holds 44;
* `-x` of the minimum stops the interpreter and wraps compiled;
* float to integer wraps in the interpreter and saturates compiled:
  `9223372036854775807 as float as int`, which rounds to 2^63, is `i64::MIN`
  interpreted and `i64::MAX` compiled (`AlikeToInt`); `u64` from 2^63 on becomes a
  negative float in the interpreter (`AlikeToFloat`);
* an f32 is an f64 in the interpreter: `16777217 as f32 as int` is 16777217
  interpreted and 16777216 compiled, and a literal or an f64 that f32 has to round
  likewise keeps its digits (`AlikeToFloat`, `AlikeFloat`);
* literals outside the partner's type, in comparisons and equality; arithmetic of
  literals alone under a narrow context, which the interpreter does in 64 bits;
* byte literals are a value of their own: arithmetic on them stops the
  interpreter, and they equal no integer;
* an index of a narrow type whose top bit is set, unsigned in the upper half of its
  range or signed and negative: `bounds_check` compares it zero-extended, so it
  passes for a long enough array, and `getelementptr` then sign-extends it;
* an unsigned divisor whose low bits are zero but whose stored value is not
  stops only the interpreter.

Next, in this order:

1. **Control flow, the rest**: `sheesh` and errors in the interpreter (scopes
   when an error leaves a block), several-value `lowkey` and assignment, squads
   over a vec, a function that falls off its end; methods and generics through
   `Lowering`.
2. **Runtime containers**: stash, vec and rng, runtime against rt-stub and the
   interpreter; recover tokens.
3. **gg**: raw sample ring (producer and callback), fixed timestep and frame
   statistics, relative mouse motion.
4. **Proofs**: the guards of the validator (a downcast it accepts is dominated by
   the switch on its discriminant), with dominators as a set of paths instead of
   a recursive fixpoint; `PrintingKeepsTree` and the printed form of MidIR, once
   trees can be given as functions from paths.  Each strengthening is
   model-checked before it is proved.
