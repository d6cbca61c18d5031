------------------------------ MODULE Formatter ------------------------------
(***************************************************************************)
(* The formatter (fmt/src/lib.rs): a program printed back as text, its     *)
(* comments, which the tree does not carry, interleaved from the source.   *)
(*                                                                         *)
(* Expressions and types print to lexemes.  Statements and items thread    *)
(* the printer f: what is written so far and the next comment to write.    *)
(* x is what the printer reads: the source text and where its comments are.*)
(***************************************************************************)
EXTENDS Parser

Join(texts, sep) ==
  FoldLeftDomain(LAMBDA acc, i : IF i = 1 THEN texts[i] ELSE acc \o sep \o texts[i],
                 <<>>, texts)
Names(names) == Join([i \in DOMAIN names |-> <<names[i]>>], <<",">>)
Dotted(names) == Join([i \in DOMAIN names |-> <<names[i]>>], <<".">>)

Quoted(s) == "\"" \o s \o "\""

(***************************************************************************)
(* Types.                                                                  *)
(***************************************************************************)
RECURSIVE TypeText(_)
TypesText(types) == Join([i \in DOMAIN types |-> TypeText(types[i])], <<",">>)

TypeText(ty) ==
  CASE ty.k = "Wrap"  -> (IF ty.name = <<"[">> THEN <<"[", "]">> ELSE ty.name)
                           \o TypeText(ty.inner[1])
    [] ty.k = "Array" -> TypeText(ty.inner[1]) \o <<"[">> \o ty.name \o <<"]">>
    [] ty.k = "Fn"    -> <<"finna", "(">> \o TypesText(Front(ty.inner)) \o <<")", "->">>
                           \o TypeText(Last(ty.inner))
    [] ty.k = "Named" -> IF ty.inner = <<>> THEN Dotted(ty.name)
                         ELSE Dotted(ty.name) \o <<"[">> \o TypesText(ty.inner) \o <<"]">>
    [] ty.k = "Multi" -> <<"(">> \o TypesText(ty.inner) \o <<")">>

TypeArgs(types) == IF types = <<>> THEN <<>> ELSE <<"[">> \o TypesText(types) \o <<"]">>

(***************************************************************************)
(* Expressions.  noStruct is whether a bare struct literal would be read   *)
(* as a block here; it goes down through operators and postfix bases and   *)
(* is cleared inside brackets.                                             *)
(***************************************************************************)
PREC_CAST    == 10
PREC_UNARY   == 11
PREC_POSTFIX == 12

BinopPrec(op) == CHOOSE level \in 1..9 : op \in BinaryOps(level)
(* mutant: a cast is taken to bind as tightly as an atom *)
ExprPrec_mutant(e) ==
  CASE e.k = "Binary" -> BinopPrec(e.words[1])
    [] e.k = "Unary"  -> PREC_UNARY
    [] OTHER          -> PREC_POSTFIX

ExprPrec(e) ==
  CASE e.k = "Binary" -> BinopPrec(e.words[1])
    [] e.k = "Cast"   -> PREC_CAST
    [] e.k = "Unary"  -> PREC_UNARY
    [] OTHER          -> PREC_POSTFIX

(* An infinite float prints as the name inf with .0 appended. *)
Spell(literal) ==
  CASE literal = <<"Float", "inf">> -> <<"inf", ".", "0">>
    [] literal[1] = "Str" -> <<Quoted(literal[2])>>
    [] OTHER -> <<literal[2]>>

RECURSIVE ExprText(_, _)
Operand(e, paren, noStruct) ==
  IF paren THEN <<"(">> \o ExprText(e, FALSE) \o <<")">> ELSE ExprText(e, noStruct)
Postfix(e, noStruct) == Operand(e, ExprPrec(e) < PREC_POSTFIX, noStruct)

ExprsText(es) == Join([i \in DOMAIN es |-> ExprText(es[i], FALSE)], <<",">>)

Labelled(labels, es) ==
  Join([i \in DOMAIN es |-> (IF labels[i] = "" THEN <<>> ELSE <<labels[i], ":">>)
                              \o ExprText(es[i], FALSE)], <<",">>)
ArgsText(labels, es) == <<"(">> \o Labelled(labels, es) \o <<")">>

StructText(e) ==
  Dotted(e.name) \o TypeArgs(e.ts) \o <<"{">> \o Labelled(e.words, e.es) \o <<"}">>

CopInitText(e) ==
  IF e.k = "Struct" THEN StructText(e)
  ELSE Dotted(e.name) \o (IF e.es = <<>> THEN <<>> ELSE ArgsText(e.words, e.es))

ExprText(e, noStruct) ==
  CASE e.k = "Literal" -> Spell(e.name)
    [] e.k = "Name"    -> e.name \o TypeArgs(e.ts)
    [] e.k = "Unary"   -> e.words \o Operand(e.es[1], ExprPrec(e.es[1]) < PREC_UNARY, noStruct)
    [] e.k = "Binary"  ->
         Operand(e.es[1], ExprPrec(e.es[1]) < BinopPrec(e.words[1]), noStruct) \o e.words
           \o Operand(e.es[2], ExprPrec(e.es[2]) <= BinopPrec(e.words[1]), noStruct)
    [] e.k = "Cast"    -> Operand(e.es[1], ExprPrec(e.es[1]) < PREC_CAST, noStruct)
                            \o <<"as">> \o TypeText(e.ts[1])
    [] e.k = "Field"   -> Postfix(e.es[1], noStruct) \o <<".">> \o e.words \o TypeArgs(e.ts)
    [] e.k = "Method"  -> Postfix(e.es[1], noStruct) \o <<".", e.words[1]>> \o TypeArgs(e.ts)
                            \o ArgsText(Tail(e.words), Tail(e.es))
    [] e.k = "Call"    -> Postfix(e.es[1], noStruct) \o ArgsText(e.words, Tail(e.es))
    [] e.k = "Index"   -> Postfix(e.es[1], noStruct) \o <<"[">> \o ExprText(e.es[2], FALSE)
                            \o <<"]">>
    [] e.k = "Trust"   -> Postfix(e.es[1], noStruct) \o <<".", "trust", "(", ")", "in">>
                            \o Postfix(e.es[2], noStruct)
    [] e.k = "Struct"  -> IF noStruct THEN <<"(">> \o StructText(e) \o <<")">> ELSE StructText(e)
    [] e.k = "Array"   -> <<"[">> \o ExprsText(e.es) \o <<"]">>
    [] e.k = "Cop"     -> <<"cop">> \o CopInitText(e.es[1]) \o <<"in">> \o Postfix(e.es[2], noStruct)

(***************************************************************************)
(* Comments.  FlushBefore writes every comment that starts before pos on a *)
(* line of its own; TrailingComment puts those that follow end on its line *)
(* at the end of the line just written.                                    *)
(***************************************************************************)
Put(f, lexemes) == [f EXCEPT !.out = @ \o lexemes]
(* mutant: pending comments are taken last first *)
Lines_mutant(x, from, to) ==
  FlattenSeq([j \in 1..(to + 1 - from) |-> <<x.text[x.comments[to + 1 - j]], "\n">>])

Lines(x, from, to) ==
  FlattenSeq([j \in 1..(to + 1 - from) |-> <<x.text[x.comments[from + j - 1]], "\n">>])

FlushBefore(x, f, pos) ==
  LET to == Cardinality({j \in DOMAIN x.comments : x.comments[j] < pos})
  IN  IF to < f.next THEN f
      ELSE [out |-> f.out \o Lines(x, f.next, to), next |-> to + 1]

TrailingComment(x, f, end) ==
  LET sameLine(j) == /\ x.comments[f.next] >= end
                     /\ \A p \in end..(x.comments[j] - 1) : x.text[p] # "\n"
      run == {j \in f.next..Len(x.comments) : sameLine(j)}
      to  == f.next + Cardinality(run) - 1
  IN  IF run = {} THEN f
      ELSE [out  |-> Front(f.out) \o [j \in 1..Cardinality(run) |->
                                        x.text[x.comments[f.next + j - 1]]] \o <<"\n">>,
            next |-> to + 1]

(* mutant: the comments after the last item are forgotten *)
AllComments_mutant(x, f) == f

AllComments(x, f) == FlushBefore(x, f, Len(x.text) + 1)

(***************************************************************************)
(* Statements.                                                             *)
(***************************************************************************)
RECURSIVE StmtsText(_, _, _), Branches(_, _, _), ArmsText(_, _, _)

BlockBody(x, f, b) == FlushBefore(x, StmtsText(x, f, b.stmts), b.hi)
OpenBlock(x, f, head, b) == BlockBody(x, Put(f, head \o <<"{", "\n">>), b)
CloseBlock(x, f, head, b) == Put(OpenBlock(x, f, head, b), <<"}", "\n">>)

OptTypeText(types) == IF types = <<>> THEN <<>> ELSE <<":">> \o TypeText(types[1])
DeclText(k, names, types, values) ==
  CASE k = "Crib"  -> <<"crib">> \o names \o OptTypeText(types)
    [] k = "Const" -> <<"facts">> \o names \o OptTypeText(types) \o <<"=">>
                        \o ExprText(values[1], FALSE)
    [] k = "Var"   -> <<"lowkey">> \o Names(names) \o OptTypeText(types) \o <<"=">>
                        \o ExprsText(values)

(* fr and its arms: f has written everything before the condition of the first of s.bs. *)
Branches(x, f, s) ==
  LET n    == Len(s.bs)
      head(i) == CASE i = 1 -> <<"fr">> \o ExprText(s.es[1], TRUE)
                   [] i > 1 /\ i <= Len(s.es) -> <<"}", "naw", "fr">> \o ExprText(s.es[i], TRUE)
                   [] OTHER -> <<"}", "naw">>
  IN  Put(FoldLeftDomain(LAMBDA acc, i : OpenBlock(x, acc, head(i), s.bs[i]), f, s.bs),
          <<"}", "\n">>)

IsDefault(arm) == arm.variant = <<"naw">>

ArmsText(x, f, arms) ==
  LET arm   == arms[1]
      binds == IF arm.binds = <<>> THEN <<>> ELSE <<"(">> \o Names(arm.binds) \o <<")">>
      shown == CloseBlock(x, FlushBefore(x, f, arm.lo), Dotted(arm.variant) \o binds, arm)
  IN  IF arms = <<>> THEN f
      ELSE IF IsDefault(arm) THEN shown
      ELSE ArmsText(x, TrailingComment(x, shown, arm.hi), Tail(arms))

StmtText(x, f, s) ==
  LET line(lexemes) == Put(f, lexemes \o <<"\n">>)
      expr(i) == ExprText(s.es[i], FALSE)
  IN
  CASE s.k \in {"Var", "Const", "Crib"} -> line(DeclText(s.k, s.names, s.ts, s.vs))
    [] s.k = "Fr"     -> Branches(x, f, s)
    [] s.k = "Vibin"  -> CloseBlock(x, f, <<"vibin">> \o ExprText(s.es[1], TRUE), s.bs[1])
    [] s.k = "Squad"  -> CloseBlock(x, f, <<"squad">> \o s.names \o <<"in">>
                                            \o ExprText(s.es[1], TRUE), s.bs[1])
    [] s.k = "Vibe"   ->
         LET open == Put(f, <<"vibe">> \o ExprText(s.es[1], TRUE) \o <<"{", "\n">>)
         IN  Put(FlushBefore(x, ArmsText(x, open, s.bs), s.hi), <<"}", "\n">>)
    [] s.k = "Holla"  ->
         LET head == <<"holla">> \o s.names \o <<"=">> \o expr(1) \o <<"in">>
                       \o ExprText(s.es[2], TRUE)
         IN  CloseBlock(x, OpenBlock(x, f, head, s.bs[1]), <<"}", "ghosted">>, s.bs[2])
    [] s.k = "Sheesh" ->
         IF s.names = <<>> THEN CloseBlock(x, f, <<"sheesh">>, s.bs[1])
         ELSE CloseBlock(x, OpenBlock(x, f, <<"sheesh">>, s.bs[1]),
                         <<"}", "naw">> \o s.names, s.bs[2])
    [] s.k = "Evict"  ->
         line(<<"evict">> \o (IF Len(s.es) = 2 THEN expr(1) \o <<"in">> \o expr(2) ELSE expr(1)))
    [] s.k = "Slide"  -> line(<<"slide">> \o expr(1))
    [] s.k = "Bet"    -> line(<<"bet">> \o ExprsText(s.vs))
    [] s.k = "Bounce" -> line(<<"bounce">> \o expr(1))
    [] s.k = "Yeet"   -> line(<<"yeet", "(">> \o expr(1) \o <<")">>)
    [] s.k = "Dip"    -> line(<<"dip">>)
    [] s.k = "Skip"   -> line(<<"skip">>)
    [] s.k = "Assign" -> line(ExprsText(s.es) \o s.names \o ExprsText(s.vs))
    [] s.k = "Expr"   -> line(expr(1))

StmtsText(x, f, stmts) ==
  IF stmts = <<>> THEN f
  ELSE StmtsText(x, TrailingComment(x, StmtText(x, FlushBefore(x, f, stmts[1].lo), stmts[1]),
                                    stmts[1].hi), Tail(stmts))

(***************************************************************************)
(* Items and programs.                                                     *)
(***************************************************************************)
Vis(it) == IF it.vis = "flex" THEN <<"flex">> ELSE <<>>
GenericsText(names) == IF names = <<>> THEN <<>> ELSE <<"[">> \o Names(names) \o <<"]">>
ParamText(p) == <<p.name, ":">> \o TypeText(p.ts[1])
ParamsText(ps) ==
  <<"(">> \o Join([i \in DOMAIN ps |-> ParamText(ps[i])], <<",">>) \o <<")">>
RetText(types) == IF types = <<>> THEN <<>> ELSE <<"->">> \o TypeText(types[1])

MemberText(it, i) ==
  LET m == it.members[i] IN
  IF it.k = "Drip" THEN (IF m.vis = "" THEN <<>> ELSE <<m.vis>>) \o ParamText(m)
  ELSE <<m.name>> \o (IF m.ts = <<>> THEN <<>> ELSE <<"(">> \o TypesText(m.ts) \o <<")">>)
         \o (IF i < Len(it.members) THEN <<",">> ELSE <<>>)

MembersText(x, f, it) ==
  FoldLeftDomain(
    LAMBDA acc, i : TrailingComment(x,
                      Put(FlushBefore(x, acc, it.members[i].lo), MemberText(it, i) \o <<"\n">>),
                      it.members[i].hi),
    f, it.members)

FuncHead(it) ==
  Vis(it) \o <<"finna">>
    \o (IF it.recv = <<>> THEN <<>> ELSE <<"(">> \o ParamText(it.recv[1]) \o <<")">>)
    \o it.names \o GenericsText(it.gs) \o ParamsText(it.members) \o RetText(it.ts)

ItemText(x, f, it) ==
  CASE it.k = "Pull"   -> Put(f, <<"pull", Quoted(it.names[1])>>
                                   \o (IF Len(it.names) = 2 THEN <<"as", it.names[2]>> ELSE <<>>)
                                   \o <<"\n">>)
    [] it.k = "Func"   -> CloseBlock(x, f, FuncHead(it), it.body[1])
    [] it.k \in {"Drip", "Moods"} ->
         LET word == IF it.k = "Drip" THEN <<"drip">> ELSE <<"moods">>
             open == Put(f, Vis(it) \o word \o it.names \o GenericsText(it.gs) \o <<"{", "\n">>)
         IN  Put(FlushBefore(x, MembersText(x, open, it), it.hi), <<"}", "\n">>)
    [] it.k = "Extern" -> Put(f, <<"extern", Quoted(it.names[1]), "finna", it.names[2]>>
                                   \o ParamsText(it.members) \o RetText(it.ts) \o <<"\n">>)
    [] OTHER           -> Put(f, Vis(it) \o DeclText(it.k, it.names, it.ts, it.es) \o <<"\n">>)

CompactPair(a, b) == a.k = b.k /\ a.k \in {"Pull", "Const"}

ProgramText(x, items) ==
  LET gap(i) == IF i > 1 /\ ~ CompactPair(items[i - 1], items[i]) THEN <<"\n">> ELSE <<>>
      item(f, i) == TrailingComment(x, ItemText(x, FlushBefore(x, Put(f, gap(i)), items[i].lo),
                                                items[i]), items[i].hi)
  IN  AllComments(x, FoldLeftDomain(item, [out |-> <<>>, next |-> 1], items)).out

(* The canonical form of a text that parses to items. *)
Format(text, items) == ProgramText([text |-> text, comments |-> CommentsAt(text)], items)
=============================================================================
