------------------------------- MODULE MidIR -------------------------------
(***************************************************************************)
(* The mid-level IR as data (crates/midir/src/ir.rs), the builder          *)
(* (build.rs) and the validator (validate.rs).                             *)
(*                                                                         *)
(* A value in memory is a tuple: <<n>> a scalar (booleans are 0 and 1),    *)
(* << <<v>>, payload >> a sum, << <<present>> >> a yikes, << element >> a  *)
(* reference, and a tuple of values an array.  Undef is storage nothing    *)
(* was stored in, and also the null reference: using it is an error.       *)
(* Types are left out: programs are well typed.                            *)
(***************************************************************************)
EXTENDS Integers, Sequences, FiniteSets

Undef == <<>>
NoYikes == << <<0>> >>

Local(l) == [l |-> l, proj |-> <<>>]
extend(p, pr) == [p EXCEPT !.proj = Append(@, pr)]
Const(v) == [k |-> "const", v |-> v]
Copy(p) == [k |-> "copy", p |-> p]

\* The signature of every function here: its parameters, which are its first
\* locals, and how many values it returns.
Params == <<"y", "m", "xs", "t">>
Rets == 2

Rvalue(k, args) == [k |-> k, args |-> args]

(***************************************************************************)
(* FuncBuilder: blocks without a terminator yet hold None; `current` is    *)
(* the block statements and terminators go to; `panics` records the        *)
(* assertions that fire.                                                   *)
(***************************************************************************)
None == [k |-> "none"]

block(b) ==
  [b EXCEPT !.blocks = Append(@, [stmts |-> <<>>, term |-> None]),
            !.current = Len(b.blocks) + 1]

at(b, bb) == [b EXCEPT !.current = bb]

assign(b, p, rv) ==
  [b EXCEPT !.blocks[b.current].stmts = Append(@, [p |-> p, rv |-> rv])]

terminate(b, term) ==
  IF b.blocks[b.current].term = None
  THEN [b EXCEPT !.blocks[b.current].term = term]
  ELSE [b EXCEPT !.panics = @ \cup {"block already has a terminator"}]

goto(b, bb) == terminate(b, [k |-> "goto", to |-> bb])
branch(b, c, t, e) == terminate(b, [k |-> "branch", cond |-> c, to |-> <<t, e>>])
switch(b, s, cases, d) ==
  terminate(b, [k |-> "switch", cond |-> s, cases |-> cases, default |-> d])
holla_check(b, tag, p, live, ghosted) ==
  terminate(b, [k |-> "holla", cond |-> tag, resolved |-> p, to |-> <<live, ghosted>>])
ret(b, ops) == terminate(b, [k |-> "return", ops |-> ops])
panic(b) == terminate(b, [k |-> "panic"])
unreachable(b) == terminate(b, [k |-> "unreachable"])

\* finish panics on a block without a terminator.
finish(b) ==
  IF \E i \in DOMAIN b.blocks : b.blocks[i].term = None
  THEN [b EXCEPT !.panics = @ \cup {"block has no terminator"}]
  ELSE b

-----------------------------------------------------------------------------
(***************************************************************************)
(* The validator.  Block 1 is the entry.                                   *)
(***************************************************************************)
successors(t) ==
  CASE t.k = "goto" -> {t.to}
    [] t.k \in {"branch", "holla"} -> {t.to[1], t.to[2]}
    [] t.k = "switch" -> {t.cases[i].to : i \in DOMAIN t.cases} \cup {t.default}
    [] OTHER -> {}

compute_preds(f) ==
  [b \in DOMAIN f |-> {p \in DOMAIN f : b \in successors(f[p].term)}]

\* The greatest fixpoint of dom(b) = {b} \cup the meet over b's predecessors.
RECURSIVE Narrow(_, _)
Narrow(dom, preds) ==
  LET next == [b \in DOMAIN dom |->
                 IF b = 1 THEN {1}
                 ELSE {b} \cup {a \in DOMAIN dom : /\ preds[b] # {}
                                                   /\ \A p \in preds[b] : a \in dom[p]}]
  IN  IF next = dom THEN dom ELSE Narrow(next, preds)

compute_dominators(f) ==
  Narrow([b \in DOMAIN f |-> IF b = 1 THEN {1} ELSE DOMAIN f], compute_preds(f))

\* Every operand of a block, in order: of its statements, then its terminator.
Operands(blk) ==
  LET ofTerm(t) == IF t.k \in {"branch", "switch", "holla"} THEN <<t.cond>>
                   ELSE IF t.k = "return" THEN t.ops ELSE <<>>
      RECURSIVE From(_)
      From(i) == IF i > Len(blk.stmts) THEN ofTerm(blk.term)
                 ELSE blk.stmts[i].rv.args \o From(i + 1)
  IN  From(1)

\* The sum places downcast in a block, with the variant.  Assigned places and
\* index operands of lowered code are never downcast.
Downcasts(blk) ==
  LET ops == Operands(blk)
      Downcast(i, j) ==
                   /\ ops[i].k = "copy"
                   /\ j \in DOMAIN ops[i].p.proj
                   /\ ops[i].p.proj[j][1] = "downcast"
  IN  {[prefix |-> [ops[ij[1]].p EXCEPT !.proj = SubSeq(@, 1, ij[2] - 1)],
        variant |-> ops[ij[1]].p.proj[ij[2]][2]] :
         ij \in {ij2 \in (DOMAIN ops) \X (1..3) : Downcast(ij2[1], ij2[2])}}

\* The assignments of local l, as <<block, statement>>.
Defs(f, l) ==
  {d \in UNION {{i} \X (DOMAIN f[i].stmts) : i \in DOMAIN f} :
     f[d[1]].stmts[d[2]].p = Local(l)}

\* collect_switch_guards: block g ends in a switch on a local whose only
\* assignment reads the discriminant of `place` and dominates g.
GuardsOn(f, dom, g, place) ==
  LET t == f[g].term
      defs == Defs(f, t.cond.p.l)
  IN  /\ t.k = "switch"
      /\ t.cond.p.proj = <<>>
      /\ Cardinality(defs) = 1
      /\ \A h \in DOMAIN f : f[h].term.k = "holla" => f[h].term.resolved # Local(t.cond.p.l)
      /\ \A d \in defs : /\ f[d[1]].stmts[d[2]].rv.k = "discriminant"
                         /\ f[d[1]].stmts[d[2]].rv.args[1].p = place
                         /\ d[1] \in dom[g]

case_target_is_exclusive(t, to, v) ==
  /\ t.default # to
  /\ \A i \in DOMAIN t.cases : t.cases[i].to = to => t.cases[i].v = v

site_is_guarded(f, dom, preds, b, site) ==
  \E g \in DOMAIN f :
     /\ GuardsOn(f, dom, g, site.prefix)
     /\ \E i \in DOMAIN f[g].term.cases :
          LET c == f[g].term.cases[i]
          IN  /\ c.v = site.variant
              /\ c.to \in dom[b]
              /\ preds[c.to] = {g}
              /\ case_target_is_exclusive(f[g].term, c.to, c.v)

check_downcast_guards(f) ==
  LET preds == compute_preds(f)
      dom == compute_dominators(f)
  IN  \A b \in DOMAIN f : \A site \in Downcasts(f[b]) :
        site_is_guarded(f, dom, preds, b, site)

check_term(f, nrets, t) ==
  /\ successors(t) \subseteq DOMAIN f
  /\ t.k = "return" => Len(t.ops) = nrets

check_func(f, nrets) ==
  /\ f # <<>>
  /\ \A b \in DOMAIN f : check_term(f, nrets, f[b].term)
  /\ check_downcast_guards(f)
=============================================================================
