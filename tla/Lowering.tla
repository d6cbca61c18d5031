------------------------------ MODULE Lowering ------------------------------
(***************************************************************************)
(* crates/frontend/src/lower.rs: how the statements that move control are  *)
(* turned into blocks.  The builder's state is threaded through:           *)
(*   blocks, current   the FuncBuilder and its cursor (module MidIR)       *)
(*   cur, done         LowerCtx's own current block, and whether it is     *)
(*                     terminated; the two cursors are kept in step by     *)
(*                     hand in the code                                    *)
(*   scopes, consts    local bindings by scope; `facts` by name only       *)
(*   loops             (continue target, break target), innermost last     *)
(*   nlocals           locals so far;  err  a lowering error               *)
(* A statement or expression is a record with a kind k; an optional part   *)
(* is a sequence of at most one element.                                   *)
(***************************************************************************)
EXTENDS MidIR, SequencesExt

new_local(b) == [b EXCEPT !.nlocals = @ + 1]
NewLocal(b) == b.nlocals + 1

new_block(b) == [block(b) EXCEPT !.cur = Len(b.blocks) + 1, !.done = FALSE]
reserve_block(b) == at(block(b), b.cur)
NewBlock(b) == Len(b.blocks) + 1

select(b, bb) == [at(b, bb) EXCEPT !.cur = bb, !.done = FALSE]

term_goto(b, to) == IF b.done THEN b ELSE [goto(b, to) EXCEPT !.done = TRUE]
term_ret(b, ops) == IF b.done THEN b ELSE [ret(b, ops) EXCEPT !.done = TRUE]
term_panic(b) == IF b.done THEN b ELSE [panic(b) EXCEPT !.done = TRUE]

set_goto(b, from, to) == goto(at(b, from), to)
set_branch(b, from, c, t, e) == branch(at(b, from), c, t, e)

\* Without an arm of its own the default edge falls into the first case.
set_switch_mutant(b, from, s, cases, default) ==
  switch(at(b, from), s, cases, cases[1].to)

set_switch(b, from, s, cases, default) == switch(at(b, from), s, cases, default)
set_holla(b, from, tag, p, live, ghosted) ==
  holla_check(at(b, from), tag, p, live, ghosted)

push_scope(b) == [b EXCEPT !.scopes = Append(@, <<>>)]
pop_scope_mutant(b) == b
pop_scope(b) == [b EXCEPT !.scopes = Front(@)]

bind(b, n, l) ==
  [b EXCEPT !.scopes[Len(b.scopes)] =
     [x \in DOMAIN @ \cup {n} |-> IF x = n THEN l ELSE @[x]]]

\* The bindings of n, innermost last; empty when there is none.
lookup_local(b, n) ==
  LET having == SelectSeq(b.scopes, LAMBDA s : n \in DOMAIN s)
  IN  [i \in DOMAIN having |-> having[i][n]]

Err(b) == [b EXCEPT !.err = TRUE]

-----------------------------------------------------------------------------
(* Expressions: lower_expr gives the builder after it and the operand.     *)

RECURSIVE lower_expr(_, _)

lower_name(b, n) ==
  LET locals == lookup_local(b, n)
  IN  IF locals # <<>> THEN [b |-> b, op |-> Copy(Local(Last(locals)))]
      ELSE IF n \in DOMAIN b.consts THEN [b |-> b, op |-> Const(b.consts[n])]
      ELSE [b |-> Err(b), op |-> Const(Undef)]

\* A temporary for the result of an rvalue.
Temp(b, rv) ==
  [b |-> assign(new_local(b), Local(NewLocal(b)), rv), op |-> Copy(Local(NewLocal(b)))]

lower_binary(b, e) ==
  LET l == lower_expr(b, e.l)
      r == lower_expr(l.b, e.r)
  IN  Temp(r.b, Rvalue(e.k, <<l.op, r.op>>))

\* The short-circuit block forgets to record its answer.
lower_short_circuit_mutant(b, e) ==
  LET res == NewLocal(b)
      l == lower_expr(new_local(b), e.l)
      rhs_bb == NewBlock(l.b)
      r == lower_expr(new_block(l.b), e.r)
      rhs == assign(r.b, Local(res), Rvalue("use", <<r.op>>))
      short_bb == NewBlock(rhs)
      short == new_block(rhs)
      merge == NewBlock(short)
      joined == set_goto(set_goto(new_block(short), r.b.cur, merge), short_bb, merge)
  IN  [b |-> select(IF e.k = "and" THEN set_branch(joined, l.b.cur, l.op, rhs_bb, short_bb)
                                   ELSE set_branch(joined, l.b.cur, l.op, short_bb, rhs_bb),
                    merge),
       op |-> Copy(Local(res))]

lower_short_circuit(b, e) ==
  LET res == NewLocal(b)
      l == lower_expr(new_local(b), e.l)
      rhs_bb == NewBlock(l.b)
      r == lower_expr(new_block(l.b), e.r)
      rhs == assign(r.b, Local(res), Rvalue("use", <<r.op>>))
      short_bb == NewBlock(rhs)
      short_val == Const(IF e.k = "or" THEN <<1>> ELSE <<0>>)
      short == assign(new_block(rhs), Local(res), Rvalue("use", <<short_val>>))
      merge == NewBlock(short)
      joined == set_goto(set_goto(new_block(short), r.b.cur, merge), short_bb, merge)
  IN  [b |-> select(IF e.k = "and" THEN set_branch(joined, l.b.cur, l.op, rhs_bb, short_bb)
                                   ELSE set_branch(joined, l.b.cur, l.op, short_bb, rhs_bb),
                    merge),
       op |-> Copy(Local(res))]

\* h.hp, where h is the reference a holla bound.
lower_field(b, e) ==
  LET r == lower_name(b, e.n)
  IN  [r EXCEPT !.op.p = extend(extend(@, <<"deref", 0>>), <<"field", 1>>)]

lower_expr(b, e) ==
  CASE e.k = "int" -> [b |-> b, op |-> Const(<<e.v>>)]
    [] e.k = "ghosted" -> Temp(b, Rvalue("use", <<Const(NoYikes)>>))
    [] e.k = "name" -> lower_name(b, e.n)
    [] e.k = "hp" -> lower_field(b, e)
    [] e.k = "ask" -> Temp(b, Rvalue("ask", <<>>))
    [] e.k \in {"add", "lt"} -> lower_binary(b, e)
    [] e.k \in {"and", "or"} -> lower_short_circuit(b, e)

-----------------------------------------------------------------------------
(* Statements.                                                             *)

RECURSIVE lower_block(_, _)

lower_var(b, s) ==
  LET v == lower_expr(b, s.e)
  IN  bind(assign(new_local(v.b), Local(NewLocal(v.b)), Rvalue("use", <<v.op>>)),
           s.n, NewLocal(v.b))

lower_const(b, s) ==
  [b EXCEPT !.consts = [x \in DOMAIN @ \cup {s.n} |-> IF x = s.n THEN <<s.v>> ELSE @[x]]]

\* `x = e` and `x += e`: the place is resolved before the value.
lower_assign(b, s) ==
  LET locals == lookup_local(b, s.n)
      place == Local(Last(locals))
      v == lower_expr(b, s.e)
  IN  IF locals = <<>> THEN Err(b)
      ELSE assign(v.b, place, IF s.k = "assign" THEN Rvalue("use", <<v.op>>)
                              ELSE Rvalue("add", <<Copy(place), v.op>>))

lower_spill(b, s) ==
  LET v == lower_expr(b, s.e) IN Temp(v.b, Rvalue("print", <<v.op>>)).b

lower_bet(b, s) ==
  LET v1 == lower_expr(b, s.es[1])
      v2 == lower_expr(v1.b, s.es[2])
  IN  term_ret(v2.b, <<v1.op, v2.op>>)

\* The error goes back in the last slot, zero in the leading one.
lower_bounce(b, s) ==
  LET v == lower_expr(b, s.e)
      cond_end == v.b.cur
      merge == NewBlock(v.b)
      then_bb == merge + 1
      body == term_ret(new_block(reserve_block(v.b)), <<Const(<<0>>), v.op>>)
  IN  select(set_branch(body, cond_end, Copy(extend(v.op.p, <<"field", 1>>)), then_bb, merge),
             merge)

RECURSIVE emit_if_chain(_, _, _, _)
emit_if_chain(b, arms, els, merge) ==
  LET c == lower_expr(b, arms[1].c)
      then_bb == NewBlock(c.b)
      then == term_goto(lower_block(new_block(c.b), arms[1].body), merge)
      else_bb == NewBlock(then)
      else == IF Len(arms) > 1 THEN emit_if_chain(new_block(then), Tail(arms), els, merge)
              ELSE IF els # <<>> THEN term_goto(lower_block(new_block(then), els[1]), merge)
              ELSE term_goto(new_block(then), merge)
  IN  set_branch(else, c.b.cur, c.op, then_bb, else_bb)

lower_fr(b, s) ==
  LET merge == NewBlock(b)
  IN  select(emit_if_chain(reserve_block(b), s.arms, s.els, merge), merge)

\* A loop body: `skip` goes to next, `dip` to exit, and so does its end to next.
LoopBody(b, next, exit, body) ==
  LET inner == lower_block([b EXCEPT !.loops = Append(@, <<next, exit>>)], body)
  IN  [inner EXCEPT !.loops = b.loops]

lower_vibin(b, s) ==
  LET header == NewBlock(b)
      c == lower_expr(select(set_goto(reserve_block(b), b.cur, header), header), s.c)
      body_bb == NewBlock(c.b)
      exit == body_bb + 1
      br == set_branch(reserve_block(new_block(c.b)), c.b.cur, c.op, body_bb, exit)
      body == LoopBody(select(br, body_bb), header, exit, s.body)
  IN  select(term_goto(body, header), exit)

\* The counter, its test, and the body with the element bound: up to the point
\* where the user's block is lowered.
SquadHead(b, s) ==
  LET xs == lower_expr(b, s.iter)
      ctr == NewLocal(xs.b)
      init == assign(new_local(xs.b), Local(ctr), Rvalue("use", <<Const(<<0>>)>>))
      header == NewBlock(init)
      top == select(set_goto(reserve_block(init), init.cur, header), header)
      cond == Temp(top, Rvalue("lt", <<Copy(Local(ctr)), Const(<<s.len>>)>>))
      body_bb == NewBlock(cond.b)
      exit == body_bb + 1
      br == set_branch(reserve_block(new_block(cond.b)), cond.b.cur, cond.op, body_bb, exit)
      elem == Temp(push_scope(select(br, body_bb)),
                   Rvalue("use", <<Copy(extend(xs.op.p, <<"index", Copy(Local(ctr))>>))>>))
      incr == NewBlock(elem.b)
  IN  [b |-> reserve_block(bind(elem.b, s.n, elem.op.p.l)),
       ctr |-> ctr, header |-> header, exit |-> exit, incr |-> incr]

SquadTail(h, body) ==
  LET inc == assign(select(term_goto(pop_scope(body), h.incr), h.incr), Local(h.ctr),
                    Rvalue("add", <<Copy(Local(h.ctr)), Const(<<1>>)>>))
  IN  select(term_goto(inc, h.header), h.exit)

\* `skip` goes to the test, past the increment.
lower_squad_mutant(b, s) ==
  LET h == SquadHead(b, s) IN SquadTail(h, LoopBody(h.b, h.header, h.exit, s.body))

lower_squad(b, s) ==
  LET h == SquadHead(b, s) IN SquadTail(h, LoopBody(h.b, h.incr, h.exit, s.body))

\* One arm: the payload is copied out of the scrutinee first, then the body.
lower_arm(b, sum, arm, merge) ==
  LET payload == extend(extend(sum, <<"downcast", arm.v>>), <<"field", 2>>)
      bound == FoldLeft(LAMBDA acc, n :
                          LET t == Temp(acc, Rvalue("use", <<Copy(payload)>>))
                          IN  bind(t.b, n, t.op.p.l),
                        push_scope(new_block(b)), arm.binds)
  IN  term_goto(pop_scope(lower_block(bound, arm.body)), merge)

lower_vibe(b, s) ==
  LET sum == lower_expr(b, s.e)
      disc == Temp(sum.b, Rvalue("discriminant", <<sum.op>>))
      switch_block == disc.b.cur
      merge == NewBlock(disc.b)
      arms == FoldLeft(LAMBDA acc, arm :
                         [b |-> lower_arm(acc.b, sum.op.p, arm, merge),
                          cases |-> Append(acc.cases, [v |-> arm.v, to |-> NewBlock(acc.b)])],
                       [b |-> reserve_block(disc.b), cases |-> <<>>], s.arms)
      default_bb == NewBlock(arms.b)
      default == IF s.els # <<>>
                 THEN term_goto(lower_block(new_block(arms.b), s.els[1]), merge)
                 ELSE [unreachable(new_block(arms.b)) EXCEPT !.done = TRUE]
  IN  select(set_switch(default, switch_block, disc.op, arms.cases, default_bb), merge)

lower_holla(b, s) ==
  LET tag == lower_expr(b, s.e)
      resolved == NewLocal(tag.b)
      check_block == tag.b.cur
      merge == NewBlock(tag.b)
      live_bb == merge + 1
      live == lower_block(bind(push_scope(new_block(reserve_block(new_local(tag.b)))),
                               s.n, resolved), s.live)
      joined == term_goto(pop_scope(live), merge)
      ghosted_bb == NewBlock(joined)
      ghosted == term_goto(lower_block(new_block(joined), s.ghosted), merge)
  IN  select(set_holla(ghosted, check_block, tag.op, Local(resolved), live_bb, ghosted_bb),
             merge)

lower_stmt(b, s) ==
  CASE s.k = "var" -> lower_var(b, s)
    [] s.k = "facts" -> lower_const(b, s)
    [] s.k \in {"assign", "add"} -> lower_assign(b, s)
    [] s.k = "spill" -> lower_spill(b, s)
    [] s.k = "bet" -> lower_bet(b, s)
    [] s.k = "bounce" -> lower_bounce(b, s)
    [] s.k = "yeet" -> term_panic(b)
    [] s.k = "dip" -> IF b.loops = <<>> THEN Err(b) ELSE term_goto(b, Last(b.loops)[2])
    [] s.k = "skip" -> IF b.loops = <<>> THEN Err(b) ELSE term_goto(b, Last(b.loops)[1])
    [] s.k = "fr" -> lower_fr(b, s)
    [] s.k = "vibin" -> lower_vibin(b, s)
    [] s.k = "squad" -> lower_squad(b, s)
    [] s.k = "vibe" -> lower_vibe(b, s)
    [] s.k = "holla" -> lower_holla(b, s)

\* Statements after a terminated one are dropped, and so is everything after
\* an error.
lower_block(b, stmts) ==
  pop_scope(FoldLeft(LAMBDA acc, s : IF acc.done \/ acc.err THEN acc ELSE lower_stmt(acc, s),
                     push_scope(b), stmts))

\* The entry block with the parameters bound, the body, the epilogue: a value
\* function that falls off its end is unreachable there.
lower_fn_core(body) ==
  LET empty == [blocks |-> <<>>, current |-> 0, panics |-> {}, cur |-> 0, done |-> FALSE,
                scopes |-> << [n \in ToSet(Params) |-> CHOOSE i \in DOMAIN Params : Params[i] = n] >>,
                consts |-> <<>>, loops |-> <<>>, nlocals |-> Len(Params), err |-> FALSE]
      b == lower_block(new_block(empty), body)
  IN  finish(IF b.done THEN b ELSE unreachable(b))
=============================================================================
