------------------------------- MODULE Parser -------------------------------
(***************************************************************************)
(* The recursive-descent parser (frontend/src/parser.rs): a token sequence *)
(* to a program, or a syntax error.                                        *)
(*                                                                         *)
(* Every operator takes the tokens T, the position i it starts at and, for *)
(* types and expressions, the context c: whether a bare Name{ is a struct  *)
(* literal here (no_struct) and how deep the descent is.  It returns the   *)
(* node and the position after it; position 0 is a syntax error, and every *)
(* operator given position 0 returns it unchanged.                         *)
(***************************************************************************)
EXTENDS Surface

CONSTANT MAX_DEPTH
ASSUME MaxDepthAssumption == MAX_DEPTH \in Nat \ {0}

Got(v, i) == [v |-> v, at |-> i]
Node0 == Got(<<>>, 0)
Built(v, i) == IF i = 0 THEN Node0 ELSE Got(v, i)

Tok(T, i) == IF i \in DOMAIN T THEN T[i].tok ELSE "eof"
Lo(T, i)  == IF i \in DOMAIN T THEN T[i].lo ELSE 0
Hi(T, i)  == IF i - 1 \in DOMAIN T THEN T[i - 1].hi ELSE 0

Expect(T, i, t) == IF i # 0 /\ Tok(T, i) = t THEN i + 1 ELSE 0
Ident(T, i) ==
  IF i # 0 /\ IsIdent(Tok(T, i)) THEN Got(Tok(T, i), i + 1) ELSE Got("", 0)

SkipSemis(T, i) ==
  IF i = 0 THEN 0
  ELSE CHOOSE j \in i..(Len(T) + 1) :
         Tok(T, j) # ";" /\ \A k \in i..(j - 1) : Tok(T, k) = ";"

Outer == [noStruct |-> FALSE, depth |-> 0]
Header(c) == [c EXCEPT !.noStruct = TRUE]
Nested(c) == [c EXCEPT !.noStruct = FALSE]
Deeper(c) == [c EXCEPT !.depth = @ + 1]
TooDeep(c) == c.depth >= MAX_DEPTH

(***************************************************************************)
(* The names of a comma-separated list up to its closing token.            *)
(***************************************************************************)
RECURSIVE Idents(_, _)
Idents(T, i) ==
  LET head == Ident(T, i)
      rest == Idents(T, head.at + 1)
  IN  IF head.at = 0 \/ Tok(T, head.at) # "," THEN Got(<<head.v>>, head.at)
      ELSE Got(<<head.v>> \o rest.v, rest.at)

(* A name, or a name of an imported module: geometry.Point. *)
DottedName(T, i) ==
  LET head == Ident(T, i)
      member == Ident(T, head.at + 1)
  IN  IF head.at = 0 \/ Tok(T, head.at) # "." THEN Got(<<head.v>>, head.at)
      ELSE Got(<<head.v, member.v>>, member.at)

(***************************************************************************)
(* Types.                                                                  *)
(***************************************************************************)
NextIsInt(T, i) ==
  Tok(T, i + 1) \in DOMAIN Literals /\ Literals[Tok(T, i + 1)][1] = "Int"

RECURSIVE Type(_, _, _), TypeList(_, _, _), ArrayDims(_, _, _)

TypeList(T, i, c) ==
  LET head == Type(T, i, c)
      rest == TypeList(T, head.at + 1, c)
  IN  IF head.at = 0 \/ Tok(T, head.at) # "," THEN Got(<<head.v>>, head.at)
      ELSE Got(<<head.v>> \o rest.v, rest.at)

ArrayDims(T, i, ty) ==
  IF i # 0 /\ Tok(T, i) = "[" /\ NextIsInt(T, i)
  THEN ArrayDims(T, Expect(T, i + 2, "]"),
                 TypeNode("Array", <<Literals[Tok(T, i + 1)][2]>>, <<ty>>))
  ELSE Built(ty, i)

(* finna(types) -> type *)
FnType(T, i, c) ==
  LET open   == Expect(T, i + 1, "(")
      params == IF Tok(T, open) = ")" THEN Got(<<>>, open) ELSE TypeList(T, open, c)
      ret    == Type(T, Expect(T, Expect(T, params.at, ")"), "->"), c)
  IN  Built(TypeNode("Fn", <<>>, Append(params.v, ret.v)), ret.at)

NamedType(T, i, c) ==
  LET name == IF Tok(T, i) = "rawptr" THEN Got(<<"rawptr">>, i + 1) ELSE DottedName(T, i)
      args == TypeList(T, name.at + 1, c)
  IN  IF name.at # 0 /\ Tok(T, i) # "rawptr" /\ Tok(T, name.at) = "["
         /\ ~ NextIsInt(T, name.at)
      THEN ArrayDims(T, Expect(T, args.at, "]"), TypeNode("Named", name.v, args.v))
      ELSE ArrayDims(T, name.at, TypeNode("Named", name.v, <<>>))

Type(T, i, c0) ==
  LET c     == Deeper(c0)
      after == IF Tok(T, i) = "[" THEN Expect(T, i + 1, "]") ELSE i + 1
      inner == Type(T, after, c)
  IN  IF i = 0 \/ TooDeep(c0) THEN Node0
      ELSE CASE Tok(T, i) \in {"[", "tag", "crib", "soa"} ->
                  Built(TypeNode("Wrap", <<Tok(T, i)>>, <<inner.v>>), inner.at)
             [] Tok(T, i) = "finna" -> FnType(T, i, c)
             [] OTHER -> NamedType(T, i, c)

OptType(T, i) ==
  IF i # 0 /\ Tok(T, i) = ":"
  THEN LET ty == Type(T, i + 1, Outer) IN Built(<<ty.v>>, ty.at)
  ELSE Got(<<>>, i)

(***************************************************************************)
(* Whether the [ at i opens generic arguments: the bracket group must be   *)
(* followed by ( or, where struct literals are allowed, by {.              *)
(***************************************************************************)
RECURSIVE Closing(_, _, _)
Closing(T, i, open) ==
  LET now == CASE Tok(T, i) \in {"[", "(", "{"} -> open + 1
               [] Tok(T, i) \in {"]", ")", "}"} -> open - 1
               [] OTHER -> open
  IN  IF i > Len(T) \/ now = 0 THEN i ELSE Closing(T, i + 1, now)

LooksGeneric(T, i, c) ==
  LET after == Tok(T, Closing(T, i, 0) + 1)
  IN  Tok(T, i) = "[" /\ (after = "(" \/ (after = "{" /\ ~ c.noStruct))

GenericArgs(T, i, c) ==
  LET args == TypeList(T, i + 1, c)
  IN  IF i # 0 /\ LooksGeneric(T, i, c) THEN Built(args.v, Expect(T, args.at, "]"))
      ELSE Got(<<>>, i)

(***************************************************************************)
(* Expressions: the precedence ladder, then casts, prefix operators,       *)
(* postfix forms and primaries.                                            *)
(***************************************************************************)
RECURSIVE Expr(_, _, _), ExprList(_, _, _), Binary(_, _, _, _), BinaryRest(_, _, _, _),
          CastRest(_, _, _), Unary(_, _, _), PostfixRest(_, _, _), Primary(_, _, _),
          Args(_, _, _), Fields(_, _, _), Elements(_, _, _)

Expr(T, i, c) == IF i = 0 \/ TooDeep(c) THEN Node0 ELSE Binary(T, i, Deeper(c), 1)

ExprList(T, i, c) ==
  LET head == Expr(T, i, c)
      rest == ExprList(T, head.at + 1, c)
  IN  IF head.at = 0 \/ Tok(T, head.at) # "," THEN Got(<<head.v>>, head.at)
      ELSE Got(<<head.v>> \o rest.v, rest.at)

Binary(T, i, c, level) ==
  IF level = 10 THEN CastRest(T, Unary(T, i, c), c)
  ELSE BinaryRest(T, Binary(T, i, c, level + 1), c, level)

BinaryRest(T, lhs, c, level) ==
  LET rhs == Binary(T, lhs.at + 1, c, level + 1)
  IN  IF lhs.at = 0 \/ Tok(T, lhs.at) \notin BinaryOps(level) THEN lhs
      ELSE BinaryRest(T, Built(Node("Binary", <<>>, <<Tok(T, lhs.at)>>, <<>>,
                                    <<lhs.v, rhs.v>>), rhs.at), c, level)

CastRest(T, e, c) ==
  LET ty == Type(T, e.at + 1, c)
  IN  IF e.at = 0 \/ Tok(T, e.at) # "as" THEN e
      ELSE CastRest(T, Built(Node("Cast", <<>>, <<>>, <<ty.v>>, <<e.v>>), ty.at), c)

Unary(T, i, c0) ==
  LET c == Deeper(c0)
      operand == Unary(T, i + 1, c)
  IN  IF i = 0 \/ TooDeep(c0) THEN Node0
      ELSE IF Tok(T, i) \in UnaryOps
      THEN Built(Node("Unary", <<>>, <<Tok(T, i)>>, <<>>, <<operand.v>>), operand.at)
      ELSE PostfixRest(T, Primary(T, i, c), c)

(* An argument: an optional label, then an expression. *)
HasLabel(T, i) == (IsIdent(Tok(T, i)) \/ Tok(T, i) = "in") /\ Tok(T, i + 1) = ":"

Args(T, i, c) ==
  LET label == IF HasLabel(T, i) THEN Tok(T, i) ELSE ""
      value == Expr(T, IF HasLabel(T, i) THEN i + 2 ELSE i, c)
      rest  == Args(T, Expect(T, value.at, ","), c)
  IN  CASE i = 0 \/ value.at = 0 -> Got(<<>>, Expect(T, i, ")"))
        [] Tok(T, value.at) = "," ->
             Got(<<<<label, value.v>>>> \o rest.v, rest.at)
        [] OTHER -> Got(<<<<label, value.v>>>>, Expect(T, value.at, ")"))

Labels(args) == [i \in 1..Len(args) |-> args[i][1]]
Values(args) == [i \in 1..Len(args) |-> args[i][2]]

CallArgs(T, i, c) == Args(T, Expect(T, i, "("), Nested(c))

(* The fields of a struct literal after its {, separated by commas or line breaks. *)
Fields(T, i0, c) ==
  LET i     == SkipSemis(T, i0)
      name  == Ident(T, i)
      value == Expr(T, Expect(T, name.at, ":"), c)
      next  == SkipSemis(T, value.at)
      rest  == Fields(T, IF Tok(T, next) = "," THEN next + 1 ELSE next, c)
  IN  IF i = 0 \/ Tok(T, i) \in {"}", "eof"} THEN Got(<<>>, Expect(T, i, "}"))
      ELSE IF value.at = 0 THEN Node0
      ELSE Got(<<<<name.v, value.v>>>> \o rest.v, rest.at)

StructLit(T, i, c, name, types) ==
  LET fields == Fields(T, Expect(T, i, "{"), Nested(c))
  IN  Built(Node("Struct", name, Labels(fields.v), types, Values(fields.v)), fields.at)

(* The elements of an array literal after its [, a last comma allowed. *)
Elements(T, i, c) ==
  LET value == Expr(T, i, c)
      rest  == Elements(T, value.at + 1, c)
  IN  CASE i = 0 -> Node0
        [] Tok(T, i) = "]" -> Got(<<>>, i + 1)
        [] value.at # 0 /\ Tok(T, value.at) = "," -> Got(<<value.v>> \o rest.v, rest.at)
        [] OTHER -> Got(<<value.v>>, Expect(T, value.at, "]"))

(* cop init in crib *)
CopInit(T, i, c) ==
  LET name  == IF Tok(T, i + 1) = "." /\ IsIdent(Tok(T, i + 2)) THEN DottedName(T, i)
               ELSE LET head == Ident(T, i) IN Got(<<head.v>>, head.at)
      types == GenericArgs(T, name.at, c)
      args  == CallArgs(T, types.at, c)
  IN  CASE name.at = 0 \/ types.at = 0 -> Node0
        [] Tok(T, types.at) = "{" -> StructLit(T, types.at, c, name.v, types.v)
        [] Tok(T, types.at) = "(" ->
             Built(Node("Variant", name.v, Labels(args.v), <<>>, Values(args.v)), args.at)
        [] OTHER -> Got(Node("Variant", name.v, <<>>, <<>>, <<>>), types.at)

Cop(T, i, c) ==
  LET init == CopInit(T, i + 1, c)
      crib == PostfixRest(T, Primary(T, Expect(T, init.at, "in"), c), c)
  IN  Built(Node("Cop", <<>>, <<>>, <<>>, <<init.v, crib.v>>), crib.at)

NameOrStruct(T, i, c) ==
  LET types == GenericArgs(T, i + 1, c)
  IN  IF types.at # 0 /\ ~ c.noStruct /\ Tok(T, types.at) = "{"
      THEN StructLit(T, types.at, c, <<Tok(T, i)>>, types.v)
      ELSE Built(Node("Name", <<Tok(T, i)>>, <<>>, types.v, <<>>), types.at)

Primary(T, i, c) ==
  LET inner == Expr(T, i + 1, Nested(c))
      elems == Elements(T, i + 1, Nested(c))
  IN  CASE i = 0 -> Node0
        [] Tok(T, i) \in DOMAIN Literals ->
             Got(Node("Literal", Literals[Tok(T, i)], <<>>, <<>>, <<>>), i + 1)
        [] Tok(T, i) = "cop" -> Cop(T, i, c)
        [] Tok(T, i) = "(" -> Built(inner.v, Expect(T, inner.at, ")"))
        [] Tok(T, i) = "[" ->
             Built(Node("Array", <<>>, <<>>, <<>>, elems.v), elems.at)
        [] IsIdent(Tok(T, i)) -> NameOrStruct(T, i, c)
        [] OTHER -> Node0

(* One postfix form after the . at e.at: .trust() in, a method call, a qualified *)
(* struct literal or a field.                                                    *)
Member1(T, e, c) ==
  LET called == Expect(T, Expect(T, Expect(T, e.at + 2, "("), ")"), "in")
      crib   == Primary(T, called, c)
      name   == Ident(T, e.at + 1)
      types  == GenericArgs(T, name.at, c)
      args   == CallArgs(T, types.at, c)
  IN  CASE Tok(T, e.at + 1) = "trust" ->
             Built(Node("Trust", <<>>, <<>>, <<>>, <<e.v, crib.v>>), crib.at)
        [] Tok(T, e.at + 1) # "trust" /\ types.at = 0 -> Node0
        [] Tok(T, e.at + 1) # "trust" /\ Tok(T, types.at) = "(" ->
             Built(Node("Method", <<>>, <<name.v>> \o Labels(args.v), types.v,
                        <<e.v>> \o Values(args.v)), args.at)
        [] Tok(T, types.at) = "{" /\ ~ c.noStruct /\ e.v.k = "Name" /\ e.v.ts = <<>> ->
             StructLit(T, types.at, c, Append(e.v.name, name.v), types.v)
        [] OTHER -> Got(Node("Field", <<>>, <<name.v>>, types.v, <<e.v>>), types.at)

PostfixRest(T, e, c) ==
  LET args  == CallArgs(T, e.at, c)
      index == Expr(T, e.at + 1, Nested(c))
  IN  CASE e.at = 0 -> Node0
        [] Tok(T, e.at) = "." -> PostfixRest(T, Member1(T, e, c), c)
        [] Tok(T, e.at) = "(" ->
             PostfixRest(T, Built(Node("Call", <<>>, Labels(args.v), <<>>,
                                       <<e.v>> \o Values(args.v)), args.at), c)
        [] Tok(T, e.at) = "[" ->
             PostfixRest(T, Built(Node("Index", <<>>, <<>>, <<>>, <<e.v, index.v>>),
                                  Expect(T, index.at, "]")), c)
        [] OTHER -> e

(***************************************************************************)
(* Statements.  A header expression reads a bare Name{ as the block.       *)
(***************************************************************************)

HeadExpr(T, i) == Expr(T, i, Header(Outer))
BodyExpr(T, i) == Expr(T, i, Outer)
BodyList(T, i) == ExprList(T, i, Outer)

RECURSIVE Stmt(_, _), Stmts(_, _), Elifs(_, _), Arms(_, _)

(* The statements up to the closing } or the end of the tokens. *)
Stmts(T, i0) ==
  LET i    == SkipSemis(T, i0)
      head == Stmt(T, i)
      rest == Stmts(T, head.at)
  IN  IF i = 0 \/ Tok(T, i) \in {"}", "eof"} THEN Got(<<>>, i)
      ELSE IF head.at = 0 THEN Node0
      ELSE Got(<<head.v>> \o rest.v, rest.at)

BlockAs(T, i, variant, binds, lo) ==
  LET stmts == Stmts(T, Expect(T, i, "{"))
      end   == Expect(T, stmts.at, "}")
  IN  Built(BlockNode(variant, binds, stmts.v, lo, Hi(T, end)), end)
Block(T, i) == BlockAs(T, i, <<>>, <<>>, Lo(T, i))

VarDecl(T, i) ==
  LET targets == Idents(T, i + 1)
      ty      == OptType(T, targets.at)
      values  == BodyList(T, Expect(T, ty.at, "="))
  IN  Built(StmtNode("Var", targets.v, ty.v, <<>>, values.v, <<>>, 0, 0), values.at)

ConstDecl(T, i) ==
  LET name  == Ident(T, i + 1)
      ty    == OptType(T, name.at)
      value == BodyExpr(T, Expect(T, ty.at, "="))
  IN  Built(StmtNode("Const", <<name.v>>, ty.v, <<>>, <<value.v>>, <<>>, 0, 0), value.at)

CribDecl(T, i) ==
  LET name == Ident(T, i + 1)
      ty   == OptType(T, name.at)
  IN  Built(StmtNode("Crib", <<name.v>>, ty.v, <<>>, <<>>, <<>>, 0, 0), ty.at)

(* The arms after the first of fr: <<conditions, blocks>>, one block more with an else. *)
Elifs(T, i) ==
  LET cond == HeadExpr(T, i + 2)
      body == Block(T, cond.at)
      rest == Elifs(T, body.at)
      els  == Block(T, i + 1)
  IN  IF i = 0 \/ Tok(T, i) # "naw" THEN Got(<<<<>>, <<>>>>, i)
      ELSE IF Tok(T, i + 1) = "fr"
      THEN Built(<<<<cond.v>> \o rest.v[1], <<body.v>> \o rest.v[2]>>, rest.at)
      ELSE Built(<<<<>>, <<els.v>>>>, els.at)

FrStmt(T, i) ==
  LET cond == HeadExpr(T, i + 1)
      then == Block(T, cond.at)
      more == Elifs(T, then.at)
  IN  IF then.at = 0 \/ more.at = 0 THEN Node0
      ELSE Got(StmtNode("Fr", <<>>, <<>>, <<cond.v>> \o more.v[1], <<>>,
                        <<then.v>> \o more.v[2], 0, 0), more.at)

VibinStmt(T, i) ==
  LET cond == HeadExpr(T, i + 1)
      body == Block(T, cond.at)
  IN  Built(StmtNode("Vibin", <<>>, <<>>, <<cond.v>>, <<>>, <<body.v>>, 0, 0), body.at)

SquadStmt(T, i) ==
  LET var  == Ident(T, i + 1)
      iter == HeadExpr(T, Expect(T, var.at, "in"))
      body == Block(T, iter.at)
  IN  Built(StmtNode("Squad", <<var.v>>, <<>>, <<iter.v>>, <<>>, <<body.v>>, 0, 0), body.at)

(* The arms of a match; the naw arm, whose pattern is <<"naw">>, is the last. *)
MatchArm(T, i) ==
  LET variant == DottedName(T, i)
      binds   == IF Tok(T, variant.at) = "("
                 THEN LET names == Idents(T, variant.at + 1)
                      IN  Got(names.v, Expect(T, names.at, ")"))
                 ELSE Got(<<>>, variant.at)
  IN  IF variant.at = 0 \/ binds.at = 0 THEN Node0
      ELSE BlockAs(T, binds.at, variant.v, binds.v, Lo(T, i))

Arms(T, i0) ==
  LET i       == SkipSemis(T, i0)
      default == BlockAs(T, i + 1, <<"naw">>, <<>>, Lo(T, i + 1))
      arm     == MatchArm(T, i)
      rest    == Arms(T, arm.at)
  IN  IF i = 0 \/ Tok(T, i) \in {"}", "eof"} THEN Got(<<>>, i)
      ELSE IF Tok(T, i) = "naw" THEN Built(<<default.v>>, SkipSemis(T, default.at))
      ELSE IF arm.at = 0 THEN Node0
      ELSE Got(<<arm.v>> \o rest.v, rest.at)

VibeStmt(T, i) ==
  LET scrutinee == HeadExpr(T, i + 1)
      arms      == Arms(T, Expect(T, scrutinee.at, "{"))
  IN  Built(StmtNode("Vibe", <<>>, <<>>, <<scrutinee.v>>, <<>>, arms.v, 0, 0),
            Expect(T, arms.at, "}"))

HollaStmt(T, i) ==
  LET binding == Ident(T, i + 1)
      tag     == BodyExpr(T, Expect(T, binding.at, "="))
      crib    == HeadExpr(T, Expect(T, tag.at, "in"))
      live    == Block(T, crib.at)
      ghosted == Block(T, Expect(T, live.at, "ghosted"))
  IN  Built(StmtNode("Holla", <<binding.v>>, <<>>, <<tag.v, crib.v>>, <<>>,
                     <<live.v, ghosted.v>>, 0, 0), ghosted.at)

SheeshStmt(T, i) ==
  LET body == Block(T, i + 1)
      name == Ident(T, body.at + 1)
      recover == Block(T, name.at)
  IN  IF body.at # 0 /\ Tok(T, body.at) = "naw"
      THEN Built(StmtNode("Sheesh", <<name.v>>, <<>>, <<>>, <<>>, <<body.v, recover.v>>, 0, 0),
                 recover.at)
      ELSE Built(StmtNode("Sheesh", <<>>, <<>>, <<>>, <<>>, <<body.v>>, 0, 0), body.at)

(* evict crib, or evict tag in crib *)
EvictStmt(T, i) ==
  LET first == BodyExpr(T, i + 1)
      crib  == BodyExpr(T, first.at + 1)
  IN  IF first.at # 0 /\ Tok(T, first.at) = "in"
      THEN Built(StmtNode("Evict", <<>>, <<>>, <<first.v, crib.v>>, <<>>, <<>>, 0, 0), crib.at)
      ELSE Built(StmtNode("Evict", <<>>, <<>>, <<first.v>>, <<>>, <<>>, 0, 0), first.at)

BetStmt(T, i) ==
  LET values == IF Tok(T, i + 1) \in {"eof", ";", "}"} THEN Got(<<>>, i + 1)
                ELSE BodyList(T, i + 1)
  IN  Built(StmtNode("Bet", <<>>, <<>>, <<>>, values.v, <<>>, 0, 0), values.at)

YeetStmt(T, i) ==
  LET e == BodyExpr(T, Expect(T, i + 1, "("))
  IN  Built(StmtNode("Yeet", <<>>, <<>>, <<e.v>>, <<>>, <<>>, 0, 0), Expect(T, e.at, ")"))

ExprOrAssign(T, i) ==
  LET first   == BodyExpr(T, i)
      targets == BodyList(T, i)
      values  == BodyList(T, targets.at + 1)
      op      == Tok(T, targets.at)
  IN  CASE first.at = 0 -> Node0
        [] Tok(T, first.at) \notin AssignOps \cup {","} ->
             Built(StmtNode("Expr", <<>>, <<>>, <<first.v>>, <<>>, <<>>, 0, 0), first.at)
        [] OTHER ->
             IF targets.at = 0 \/ op \notin AssignOps THEN Node0
             ELSE Built(StmtNode("Assign", <<op>>, <<>>, targets.v, values.v, <<>>, 0, 0),
                        values.at)

Stmt(T, i) ==
  LET one(k) == LET e == BodyExpr(T, i + 1)
                IN  Built(StmtNode(k, <<>>, <<>>, <<e.v>>, <<>>, <<>>, 0, 0), e.at)
      word(k) == Got(StmtNode(k, <<>>, <<>>, <<>>, <<>>, <<>>, 0, 0), i + 1)
      s == CASE Tok(T, i) = "lowkey" -> VarDecl(T, i)
             [] Tok(T, i) = "facts"  -> ConstDecl(T, i)
             [] Tok(T, i) = "crib"   -> CribDecl(T, i)
             [] Tok(T, i) = "fr"     -> FrStmt(T, i)
             [] Tok(T, i) = "vibin"  -> VibinStmt(T, i)
             [] Tok(T, i) = "squad"  -> SquadStmt(T, i)
             [] Tok(T, i) = "vibe"   -> VibeStmt(T, i)
             [] Tok(T, i) = "holla"  -> HollaStmt(T, i)
             [] Tok(T, i) = "sheesh" -> SheeshStmt(T, i)
             [] Tok(T, i) = "evict"  -> EvictStmt(T, i)
             [] Tok(T, i) = "slide"  -> one("Slide")
             [] Tok(T, i) = "bet"    -> BetStmt(T, i)
             [] Tok(T, i) = "bounce" -> one("Bounce")
             [] Tok(T, i) = "yeet"   -> YeetStmt(T, i)
             [] Tok(T, i) = "dip"    -> word("Dip")
             [] Tok(T, i) = "skip"   -> word("Skip")
             [] OTHER -> ExprOrAssign(T, i)
  IN  IF i = 0 \/ s.at = 0 THEN Node0
      ELSE Got([s.v EXCEPT !.lo = Lo(T, i), !.hi = Hi(T, s.at)], s.at)

(***************************************************************************)
(* Items and programs.                                                     *)
(***************************************************************************)
GenericParams(T, i) ==
  LET names == Idents(T, i + 1)
  IN  IF i # 0 /\ Tok(T, i) = "[" THEN Built(names.v, Expect(T, names.at, "]"))
      ELSE Got(<<>>, i)

Param(T, i, vis, start) ==
  LET name == Ident(T, i)
      ty   == Type(T, Expect(T, name.at, ":"), Outer)
  IN  Built(Member(vis, name.v, <<ty.v>>, Lo(T, start), Hi(T, ty.at)), ty.at)

RECURSIVE Params(_, _), FieldDecls(_, _), Variants(_, _)
Params(T, i) ==
  LET head == Param(T, i, "", i)
      rest == Params(T, head.at + 1)
  IN  IF head.at = 0 \/ Tok(T, head.at) # "," THEN Got(<<head.v>>, head.at)
      ELSE Got(<<head.v>> \o rest.v, rest.at)

ParamList(T, i) ==
  LET open   == Expect(T, i, "(")
      params == IF Tok(T, open) = ")" THEN Got(<<>>, open) ELSE Params(T, open)
  IN  Built(params.v, Expect(T, params.at, ")"))

(* The declared result: <<>>, one type, or <<"many">> and the types of a tuple. *)
OptRet(T, i) ==
  LET many == TypeList(T, i + 2, Outer)
      one  == Type(T, i + 1, Outer)
  IN  IF i = 0 \/ Tok(T, i) # "->" THEN Got(<<>>, i)
      ELSE IF Tok(T, i + 1) = "("
      THEN Built(<<TypeNode("Multi", <<>>, many.v)>>, Expect(T, many.at, ")"))
      ELSE Built(<<one.v>>, one.at)

FnDecl(T, i, vis) ==
  LET recv  == IF Tok(T, i + 1) = "("
               THEN LET p == Param(T, i + 2, "", i + 2)
                    IN  Built(<<p.v>>, Expect(T, p.at, ")"))
               ELSE Got(<<>>, i + 1)
      name  == Ident(T, recv.at)
      gs    == GenericParams(T, name.at)
      ps    == ParamList(T, gs.at)
      ret   == OptRet(T, ps.at)
      body  == Block(T, ret.at)
  IN  Built(ItemNode("Func", vis, <<name.v>>, gs.v, recv.v, ps.v, ret.v, <<>>, <<body.v>>, 0, 0),
            body.at)

FieldVis(t) == IF t \in {"flex", "hush"} THEN t ELSE ""
FieldDecls(T, i0) ==
  LET i    == SkipSemis(T, i0)
      vis  == FieldVis(Tok(T, i))
      head == Param(T, IF vis = "" THEN i ELSE i + 1, vis, i)
      next == SkipSemis(T, head.at)
      rest == FieldDecls(T, IF Tok(T, next) = "," THEN next + 1 ELSE next)
  IN  IF i = 0 \/ Tok(T, i) \in {"}", "eof"} THEN Got(<<>>, Expect(T, i, "}"))
      ELSE IF head.at = 0 THEN Node0
      ELSE Got(<<head.v>> \o rest.v, rest.at)

Variants(T, i0) ==
  LET i       == SkipSemis(T, i0)
      name    == Ident(T, i)
      types   == TypeList(T, name.at + 1, Outer)
      payload == IF Tok(T, name.at) = "(" THEN Built(types.v, Expect(T, types.at, ")"))
                 ELSE Got(<<>>, name.at)
      next    == SkipSemis(T, payload.at)
      rest    == Variants(T, IF Tok(T, next) = "," THEN next + 1 ELSE next)
  IN  IF i = 0 \/ Tok(T, i) \in {"}", "eof"} THEN Got(<<>>, Expect(T, i, "}"))
      ELSE IF name.at = 0 \/ payload.at = 0 THEN Node0
      ELSE Got(<<Member("", name.v, payload.v, Lo(T, i), Hi(T, payload.at))>> \o rest.v, rest.at)

DripOrMoods(T, i, vis, k) ==
  LET name    == Ident(T, i + 1)
      gs      == GenericParams(T, name.at)
      open    == Expect(T, gs.at, "{")
      members == IF k = "Drip" THEN FieldDecls(T, open) ELSE Variants(T, open)
  IN  Built(ItemNode(k, vis, <<name.v>>, gs.v, <<>>, members.v, <<>>, <<>>, <<>>, 0, 0),
            members.at)

PullItem(T, i) ==
  LET alias == Ident(T, i + 3)
      path  == Strings[Tok(T, i + 1)]
  IN  IF Tok(T, i + 1) \notin DOMAIN Strings THEN Node0
      ELSE IF Tok(T, i + 2) = "as"
      THEN Built(ItemNode("Pull", "", <<path, alias.v>>, <<>>, <<>>, <<>>, <<>>, <<>>, <<>>, 0, 0),
                 alias.at)
      ELSE Got(ItemNode("Pull", "", <<path>>, <<>>, <<>>, <<>>, <<>>, <<>>, <<>>, 0, 0), i + 2)

ExternDecl(T, i) ==
  LET name == Ident(T, Expect(T, i + 2, "finna"))
      ps   == ParamList(T, name.at)
      ret  == IF ps.at # 0 /\ Tok(T, ps.at) = "->"
              THEN LET ty == Type(T, ps.at + 1, Outer) IN Built(<<ty.v>>, ty.at)
              ELSE Got(<<>>, ps.at)
  IN  IF Tok(T, i + 1) \notin DOMAIN Strings THEN Node0
      ELSE Built(ItemNode("Extern", "", <<Strings[Tok(T, i + 1)], name.v>>, <<>>, <<>>, ps.v,
                          ret.v, <<>>, <<>>, 0, 0), ret.at)

(* A top-level facts, lowkey or crib is the statement with its visibility. *)
DeclItem(s, vis) ==
  Built(ItemNode(s.v.k, vis, s.v.names, <<>>, <<>>, <<>>, s.v.ts, s.v.vs, <<>>, 0, 0), s.at)

TopItem(T, i0) ==
  LET vis  == IF Tok(T, i0) = "flex" THEN "flex" ELSE ""
      i    == IF vis = "flex" THEN i0 + 1 ELSE i0
      item == CASE Tok(T, i) = "pull" /\ vis = ""   -> PullItem(T, i)
                [] Tok(T, i) = "extern" /\ vis = "" -> ExternDecl(T, i)
                [] Tok(T, i) = "finna"  -> FnDecl(T, i, vis)
                [] Tok(T, i) = "drip"   -> DripOrMoods(T, i, vis, "Drip")
                [] Tok(T, i) = "moods"  -> DripOrMoods(T, i, vis, "Moods")
                [] Tok(T, i) = "crib"   -> DeclItem(CribDecl(T, i), vis)
                [] Tok(T, i) = "facts"  -> DeclItem(ConstDecl(T, i), vis)
                [] Tok(T, i) = "lowkey" -> DeclItem(VarDecl(T, i), vis)
                [] OTHER -> Node0
  IN  IF item.at = 0 THEN Node0
      ELSE Got([item.v EXCEPT !.lo = Lo(T, i), !.hi = Hi(T, item.at)], item.at)

RECURSIVE Items(_, _)
Items(T, i0) ==
  LET i    == SkipSemis(T, i0)
      head == TopItem(T, i)
      rest == Items(T, head.at)
  IN  IF i > Len(T) THEN Got(<<>>, i)
      ELSE IF head.at = 0 THEN Node0
      ELSE Got(<<head.v>> \o rest.v, rest.at)

(* The tree of a text, or <<>> with position 0 where it does not parse. *)
Parse(text) ==
  LET T == Tokenize(text) IN Items(T, 1)
=============================================================================
