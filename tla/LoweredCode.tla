---------------------------- MODULE LoweredCode -----------------------------
(***************************************************************************)
(* What becomes of the code the lowering built: the validator looks at it, *)
(* and it is executed the way code generation                              *)
(* (crates/backend/src/codegen.rs) translates it, one step being a         *)
(* statement or a terminator.  The interpreter is the reference.           *)
(*                                                                         *)
(* Both ends are data here.  Lowered[p] is the builder the lowering of     *)
(* program p finished with (Lowering!lower_fn_core), and                   *)
(* Expected[<<p, w, t>>] what the interpreter shows for p                  *)
(* (InterpExec!call_fn), with arguments w of Worlds (a yikes, a sum, an    *)
(* array, and what a tag resolves to) and answers t of Tapes to its ask()  *)
(* calls.  MCLoweredCode gives both as functions of the program's text.    *)
(***************************************************************************)
EXTENDS MidIR, SequencesExt

CONSTANTS Lowered, Expected, Worlds, Tapes,
          MaxOut     \* prints made before a program is given up on

VARIABLES
  prog,     \* the program's name
  code,     \* the builder the lowering finished with
  world,    \* its arguments
  tape,     \* the answers
  left,     \* those not used yet
  pc, ip,   \* the block to execute, and the statement of it
  locals,   \* one stack slot per local
  out,      \* what was printed
  how,      \* "source", "built", "run", "return", "panic" or "undefined";
            \* "refused" (a lowering error), "crashed" (an assertion of the
            \* builder) or "invalid" (the validator's verdict)
  vals,     \* the returned values
  wild      \* storage was used that holds no value of the kind expected

vars == <<prog, code, world, tape, left, pc, ip, locals, out, how, vals, wild>>

blocks == code.blocks

-----------------------------------------------------------------------------
\* What a projected place holds.  An index past the end, which panics in
\* compiled code, counts as a use of storage that holds nothing.
RECURSIVE Project(_, _, _)
Project(ls, v, proj) ==
  IF proj = <<>> \/ v = Undef THEN v
  ELSE LET pr == Head(proj)
           i == CASE pr[1] = "field" -> pr[2]
                  [] pr[1] = "index" -> ls[pr[2].p.l][1] + 1
                  [] OTHER -> 1
       IN  CASE pr[1] = "downcast" ->
                  IF v[1] = <<pr[2]>> THEN Project(ls, v, Tail(proj)) ELSE Undef
             [] i \in DOMAIN v -> Project(ls, v[i], Tail(proj))
             [] OTHER -> Undef

\* The value of an operand.
lower_operand(ls, op) ==
  IF op.k = "const" THEN op.v ELSE Project(ls, ls[op.p.l], op.p.proj)

stmt == blocks[pc].stmts[ip]
term == blocks[pc].term
AtTerm == how = "run" /\ ip > Len(blocks[pc].stmts)

Init ==
  /\ prog \in DOMAIN Lowered
  /\ code = <<>>
  /\ world = <<>> /\ tape = <<>> /\ left = <<>>
  /\ pc = 1 /\ ip = 1
  /\ locals = <<>>
  /\ out = <<>>
  /\ how = "source"
  /\ vals = <<>>
  /\ wild = FALSE

\* The verdict on what the front end built.
Compile ==
  /\ how = "source"
  /\ code' = Lowered[prog]
  /\ how' = IF code'.err THEN "refused"
            ELSE IF code'.panics # {} THEN "crashed"
            ELSE IF ~check_func(code'.blocks, Rets) THEN "invalid"
            ELSE "built"
  /\ UNCHANGED <<prog, world, tape, left, pc, ip, locals, out, vals, wild>>

\* A call: stack slots for the locals, the arguments stored in the first ones.
define_func(w, answers) ==
  /\ how = "built"
  /\ how' = "run"
  /\ world' = w
  /\ tape' = answers
  /\ left' = answers
  /\ locals' = [l \in 1..code.nlocals |->
                  IF l \in DOMAIN Params THEN w[Params[l]] ELSE Undef]
  /\ UNCHANGED <<prog, code, pc, ip, out, vals, wild>>

\* One statement.  ask() answers no once the answers are used up.
lower_stmt_code ==
  /\ how = "run"
  /\ ip \in DOMAIN blocks[pc].stmts
  /\ Len(out) < MaxOut
  /\ LET rv == stmt.rv
         a == [i \in DOMAIN rv.args |-> lower_operand(locals, rv.args[i])]
         bad == \E i \in DOMAIN a : a[i] = Undef
         v == CASE rv.k = "use" -> a[1]
                [] rv.k = "add" -> <<a[1][1] + a[2][1]>>
                [] rv.k = "lt" -> IF a[1][1] < a[2][1] THEN <<1>> ELSE <<0>>
                [] rv.k = "discriminant" -> a[1][1]
                [] rv.k = "ask" -> IF left = <<>> THEN <<0>> ELSE <<Head(left)>>
                [] rv.k = "print" -> Undef
     IN  /\ locals' = [locals EXCEPT ![stmt.p.l] = IF bad THEN Undef ELSE v]
         /\ left' = IF rv.k = "ask" /\ left # <<>> THEN Tail(left) ELSE left
         /\ out' = IF rv.k = "print" /\ ~bad THEN Append(out, a[1][1]) ELSE out
         /\ wild' = (wild \/ bad)
  /\ ip' = ip + 1
  /\ UNCHANGED <<prog, code, world, tape, pc, how, vals>>

Jump(bb) ==
  /\ pc' = bb /\ ip' = 1
  /\ UNCHANGED <<prog, code, world, tape, left, out, how, vals>>

Goto ==
  /\ AtTerm
  /\ term.k = "goto"
  /\ Jump(term.to)
  /\ UNCHANGED <<locals, wild>>

Branch ==
  /\ AtTerm
  /\ term.k = "branch"
  /\ LET c == lower_operand(locals, term.cond)
     IN  /\ Jump(term.to[IF c = <<1>> THEN 1 ELSE 2])
         /\ wild' = (wild \/ c = Undef)
  /\ UNCHANGED locals

Switch ==
  /\ AtTerm
  /\ term.k = "switch"
  /\ LET c == lower_operand(locals, term.cond)
         hit == SelectSeq(term.cases, LAMBDA case : <<case.v>> = c)
     IN  /\ Jump(IF hit = <<>> THEN term.default ELSE Head(hit).to)
         /\ wild' = (wild \/ c = Undef)
  /\ UNCHANGED locals

\* bet_holla_check's answer is stored on both edges.
HollaCheck ==
  /\ AtTerm
  /\ term.k = "holla"
  /\ LET storage == lower_operand(locals, term.cond)
     IN  /\ Jump(term.to[IF storage = Undef THEN 2 ELSE 1])
         /\ locals' = [locals EXCEPT ![term.resolved.l] = storage]
  /\ UNCHANGED wild

\* return, panic and unreachable.
Leave ==
  /\ AtTerm
  /\ term.k \in {"return", "panic", "unreachable"}
  /\ how' = IF term.k = "unreachable" THEN "undefined" ELSE term.k
  /\ vals' = IF term.k = "return"
             THEN [i \in DOMAIN term.ops |-> lower_operand(locals, term.ops[i])]
             ELSE <<>>
  /\ wild' = (wild \/ \E i \in DOMAIN vals' : vals'[i] = Undef)
  /\ UNCHANGED <<prog, code, world, tape, left, pc, ip, locals, out>>

Ended ==
  /\ how \notin {"source", "built", "run"} \/ Len(out) = MaxOut
  /\ UNCHANGED vars

Next ==
  \/ Compile
  \/ \E w \in Worlds, answers \in Tapes : define_func(w, answers)
  \/ lower_stmt_code \/ Goto \/ Branch \/ Switch \/ HollaCheck \/ Leave
  \/ Ended

\* Compiled code runs on by itself.
Step == lower_stmt_code \/ Goto \/ Branch \/ Switch \/ HollaCheck \/ Leave
Spec == Init /\ [][Next]_vars /\ WF_vars(Step)

-----------------------------------------------------------------------------
(* However the statements nest, the lowering builds what the validator accepts:
   every block ends in exactly one terminator, so that no assertion of the builder
   fires (FuncBuilder::terminate and finish), although LowerCtx's cursor and the
   builder's move separately and blocks are reserved long before they are filled;
   targets exist, returns have the declared arity, and every payload read is
   dominated by the edge of a switch on that very discriminant. *)
ValidatorAccepts == how \notin {"crashed", "invalid"}

(* Compiled code never uses an uninitialised local, a payload of another
   variant, a null reference or an element past the end, and never runs into
   the unreachable terminators of vibe and of the epilogue. *)
NoUndefinedBehaviour == ~wild /\ how # "undefined"

(* interp == compiled: a run of the lowered code prints what the interpreter
   prints, and returns or panics as it does, with the same values. *)
SameBehaviour ==
  how \in {"return", "panic"} =>
    [out |-> out, how |-> how, vals |-> vals] = Expected[<<prog, world, tape>>]

(* The compiled loops come to an end where the interpreter's do: ask() runs
   out of answers, so no program here loops for ever. *)
CompiledCodeEnds == how = "run" ~> how # "run"
=============================================================================
