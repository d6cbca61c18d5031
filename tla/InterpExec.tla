----------------------------- MODULE InterpExec -----------------------------
(***************************************************************************)
(* crates/interp/src/interp.rs: how the tree-walking interpreter executes  *)
(* the same statements.  An environment e holds the stack of scopes, what  *)
(* was printed, and the answers the program's ask() calls still get        *)
(* (no, once they are used up).  Programs and values are those of          *)
(* Lowering and MidIR; a yikes that is not there is NoYikes (Ghosted).     *)
(***************************************************************************)
EXTENDS Integers, Sequences, SequencesExt

declare(e, n, v) ==
  [e EXCEPT !.scopes[Len(e.scopes)] =
     [x \in DOMAIN @ \cup {n} |-> IF x = n THEN v ELSE @[x]]]

env_push(e) == [e EXCEPT !.scopes = Append(@, <<>>)]
env_pop(e) == [e EXCEPT !.scopes = Front(@)]

\* The innermost scope that has n.
ScopeOf(e, n) ==
  CHOOSE i \in DOMAIN e.scopes :
    /\ n \in DOMAIN e.scopes[i]
    /\ \A j \in (i + 1)..Len(e.scopes) : n \notin DOMAIN e.scopes[j]

get(e, n) == e.scopes[ScopeOf(e, n)][n]
assign_place(e, n, v) == [e EXCEPT !.scopes[ScopeOf(e, n)][n] = v]

binary_op(k, l, r) ==
  CASE k = "add" -> <<l[1] + r[1]>>
    [] k = "lt" -> IF l[1] < r[1] THEN <<1>> ELSE <<0>>

ask(e) ==
  IF e.tape = <<>> THEN [e |-> e, v |-> <<0>>]
  ELSE [e |-> [e EXCEPT !.tape = Tail(@)], v |-> <<Head(e.tape)>>]

RECURSIVE eval_expr(_, _)

eval_binary(e, x) ==
  LET l == eval_expr(e, x.l)
      r == eval_expr(l.e, x.r)
  IN  CASE x.k = "and" -> IF l.v = <<0>> THEN l ELSE r
        [] x.k = "or" -> IF l.v = <<1>> THEN l ELSE r
        [] OTHER -> [e |-> r.e, v |-> binary_op(x.k, l.v, r.v)]

eval_expr(e, x) ==
  CASE x.k = "int" -> [e |-> e, v |-> <<x.v>>]
    [] x.k = "ghosted" -> [e |-> e, v |-> << <<0>> >>]
    [] x.k = "name" -> [e |-> e, v |-> get(e, x.n)]
    [] x.k = "hp" -> [e |-> e, v |-> get(e, x.n)[1]]
    [] x.k = "ask" -> ask(e)
    [] x.k \in {"add", "lt", "and", "or"} -> eval_binary(e, x)

-----------------------------------------------------------------------------
(* Statements: the environment after, how control leaves, with what.       *)

Flow(e, k, v) == [e |-> e, k |-> k, v |-> v]
Normal(e) == Flow(e, "normal", <<>>)

RECURSIVE exec_block(_, _)

exec_var(e, s) ==
  LET x == eval_expr(e, s.e) IN Normal(declare(x.e, s.n, x.v))

exec_assign(e, s) ==
  LET old == get(e, s.n)
      x == eval_expr(e, s.e)
  IN  Normal(assign_place(x.e, s.n,
               IF s.k = "assign" THEN x.v ELSE binary_op("add", old, x.v)))

spill(e, s) ==
  LET x == eval_expr(e, s.e) IN Normal([x.e EXCEPT !.out = Append(@, x.v[1])])

exec_bet(e, s) ==
  LET x1 == eval_expr(e, s.es[1])
      x2 == eval_expr(x1.e, s.es[2])
  IN  Flow(x2.e, "return", <<x1.v, x2.v>>)

exec_bounce(e, s) ==
  LET x == eval_expr(e, s.e)
  IN  IF x.v = << <<0>> >> THEN Normal(x.e) ELSE Flow(x.e, "return", << <<0>>, x.v >>)

RECURSIVE exec_fr(_, _, _)
exec_fr(e, arms, els) ==
  LET c == eval_expr(e, arms[1].c)
  IN  IF c.v = <<1>> THEN exec_block(c.e, arms[1].body)
      ELSE IF Len(arms) > 1 THEN exec_fr(c.e, Tail(arms), els)
      ELSE IF els # <<>> THEN exec_block(c.e, els[1])
      ELSE Normal(c.e)

\* What a loop does with the way its body ended: go on, stop, or pass it up.
GoesOn(f) == f.k \in {"normal", "continue"}
LoopEnd(f) == IF f.k = "break" THEN Normal(f.e) ELSE f

RECURSIVE exec_vibin(_, _)
exec_vibin(e, s) ==
  LET c == eval_expr(e, s.c)
      f == exec_block(c.e, s.body)
  IN  IF c.v = <<0>> THEN Normal(c.e)
      ELSE IF GoesOn(f) THEN exec_vibin(f.e, s) ELSE LoopEnd(f)

\* The iterated array is a snapshot; each item gets a scope of its own.
RECURSIVE exec_squad(_, _, _)
exec_squad(e, s, items) ==
  LET f == exec_block(declare(env_push(e), s.n, Head(items)), s.body)
      popped == [f EXCEPT !.e = env_pop(@)]
  IN  IF items = <<>> THEN Normal(e)
      ELSE IF GoesOn(f) THEN exec_squad(popped.e, s, Tail(items)) ELSE LoopEnd(popped)

\* The first arm that names the variant, the default, or a run-time error.
exec_vibe(e, s) ==
  LET x == eval_expr(e, s.e)
      matching == SelectSeq(s.arms, LAMBDA a : <<a.v>> = x.v[1])
      arm == Head(matching)
      bound == FoldLeft(LAMBDA acc, n : declare(acc, n, x.v[2]), env_push(x.e), arm.binds)
      f == exec_block(bound, arm.body)
  IN  IF matching # <<>> THEN [f EXCEPT !.e = env_pop(@)]
      ELSE IF s.els # <<>> THEN exec_block(x.e, s.els[1])
      ELSE Flow(x.e, "error", <<>>)

\* The live arm works on a copy of the element (CribParity has the write-back).
exec_holla(e, s) ==
  LET x == eval_expr(e, s.e)
      f == exec_block(declare(env_push(x.e), s.n, x.v[1]), s.live)
  IN  IF x.v = <<>> THEN exec_block(x.e, s.ghosted) ELSE [f EXCEPT !.e = env_pop(@)]

exec_stmt(e, s) ==
  CASE s.k = "var" -> exec_var(e, s)
    [] s.k = "facts" -> Normal(declare(e, s.n, <<s.v>>))
    [] s.k \in {"assign", "add"} -> exec_assign(e, s)
    [] s.k = "spill" -> spill(e, s)
    [] s.k = "bet" -> exec_bet(e, s)
    [] s.k = "bounce" -> exec_bounce(e, s)
    [] s.k = "yeet" -> Flow(e, "panic", <<>>)
    [] s.k = "dip" -> Flow(e, "break", <<>>)
    [] s.k = "skip" -> Flow(e, "continue", <<>>)
    [] s.k = "fr" -> exec_fr(e, s.arms, s.els)
    [] s.k = "vibin" -> exec_vibin(e, s)
    [] s.k = "squad" -> exec_squad(e, s, eval_expr(e, s.iter).v)
    [] s.k = "vibe" -> exec_vibe(e, s)
    [] s.k = "holla" -> exec_holla(e, s)

exec_block(e, stmts) ==
  LET f == FoldLeft(LAMBDA acc, s : IF acc.k = "normal" THEN exec_stmt(acc.e, s) ELSE acc,
                    Normal(env_push(e)), stmts)
  IN  [f EXCEPT !.e = env_pop(@)]

\* What a call of the function shows: its output, and how it came back.  Falling
\* off the end returns no values; a stray dip or skip is an error.
call_fn(args, body, tape) ==
  LET f == exec_block([scopes |-> <<args>>, out |-> <<>>, tape |-> tape], body)
  IN  [out |-> f.e.out,
       how |-> IF f.k = "normal" THEN "return"
               ELSE IF f.k \in {"break", "continue"} THEN "error" ELSE f.k,
       vals |-> f.v]
=============================================================================
