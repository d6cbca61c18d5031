--------------------------- MODULE MCMirExchange ---------------------------
EXTENDS MirExchange

MCPrinted(mod) == LET t == print(mod) IN t
MCParsed(t) == LET r == parse(t) IN r
MCValid(mod) == LET v == validate(mod) IN v

I64 == IntTy("i64")
U64 == IntTy("u64")
Ptr == Ty("rawptr")
VecI == <<"vec", I64>>
VecF == <<"vec", Ty("f64")>>
A == <<"struct", 1>>
U == <<"sum", 1>>

(***************************************************************************)
(* Every module has a drip with two vecs, a moods, the vec functions for   *)
(* two element types under one name, two cribs, and a function f between   *)
(* two others.  Locals 0 to 17 of f have one type each.                    *)
(***************************************************************************)
Locals == <<I64, Ty("f64"), Ptr, VecI, VecF, A, U, <<"array", A, 2>>, <<"soa", <<"array", A, 2>>>>,
            <<"tuple", <<VecI, VecF>>>>, <<"ref", A>>, <<"tag", A>>, <<"crib", A>>, Ty("void"),
            <<"fnptr", <<I64>>, <<I64>>>>, U64, Ty("bool"), Ty("str"), <<"slice", A>>>>
At(l) == <<l, <<>>>>
Copy(l) == <<"copy", At(l)>>
K(k) == <<"const", k>>
One == K(<<"int", 1, I64>>)
Zero == K(<<"int", 0, U64>>)
Field(i) == <<"field", i>>

Extern(name, params, rets) == <<"extern", "C", name, params, rets>>
Externs(order) ==
  LET new(v) == Extern("new", <<U64>>, <<v>>)
      push(v) == Extern("push", <<v, Ptr>>, <<>>)
  IN  IF order THEN <<new(VecI), new(VecF), push(VecI), push(VecF)>>
      ELSE <<push(VecF), push(VecI), Extern("new", <<>>, <<VecF>>), new(VecF), new(VecI)>>

Return(ops) == <<"return", ops>>
Small(name) == <<"fn", name, <<I64>>, <<I64>>, <<I64>>,
                 <<<< <<<<"assign", At(1), <<"use", Copy(0)>>>>>>, Return(<<Copy(1)>>)>>>>>>
Module(order, names, body, rets) ==
  [structs |-> <<<<"struct", names[1], <<<<"flex", "x", I64>>, <<"hush", "v", VecI>>, <<"hush", "w", VecF>>>>>>>>,
   sums    |-> <<<<"sum", names[2], <<<<"None", <<>>>>, <<"Some", <<I64>>>>, <<"Two", <<VecF, Ty("str")>>>>>>>>>>,
   externs |-> Externs(order),
   globals |-> <<<<"const", "Z", I64, <<"int", 5, I64>>>>>>,
   cribs   |-> <<<<"crib", "pool", A, 4>>, <<"crib", "bump", Ty("void"), 0>>>>,
   funcs   |-> <<Small("g"), <<"fn", names[3], SubSeq(Locals, 1, 2), rets, SubSeq(Locals, 3, Len(Locals)), body>>,
                 Small("h")>>]
Names == <<"A", "U", "f">>
Body(stmts, term) == << <<stmts, term>>, << <<>>, Return(<<>>)>> >>
Stmt(s) == {Module(TRUE, Names, Body(<<s>>, t), <<>>) : t \in {Return(<<>>), <<"goto", 1>>}}
Assign(l, rv) == <<"assign", At(l), rv>>

(* Operands of every kind. *)
Places ==
  {At(5), <<5, <<Field(0)>>>>, <<6, <<<<"downcast", 1>>, Field(0)>>>>, <<10, <<<<"deref">>, Field(1)>>>>,
   <<7, <<<<"index", <<"move", <<7, <<<<"index", One>>, Field(0)>>>>>>>>, Field(2)>>>>}
Consts ==
  {<<"int", -1, I64>>, <<"int", 0, Ty("f64")>>, <<"float", <<"finite", 2>>, Ty("f32")>>,
   <<"float", <<"inf">>, Ty("f64")>>, <<"float", <<"NaN">>, Ty("f64")>>, <<"float", <<"-inf">>, Ty("f32")>>,
   <<"bool", TRUE>>, <<"bool", FALSE>>, <<"str", "s">>, <<"ghosted">>, <<"nullptr">>, <<"fnref", 3>>}
Operands == {<<"copy", p>> : p \in Places} \cup {<<"move", p>> : p \in Places} \cup {K(k) : k \in Consts}

(* Every rvalue. *)
Rvalues ==
  {<<"use", op>> : op \in Operands}
    \cup {<<"binop", b, "trap", One, Copy(0)>> : b \in BinOps} \cup {<<"binop", "add", x, Copy(0), One>> : x \in Modes}
    \cup {<<"unop", u, Copy(0)>> : u \in UnOps} \cup {<<"cast", k, Copy(0), I64>> : k \in Casts}
    \cup {<<"call", f, ops>> : f \in {1, 3}, ops \in {<<>>, <<One>>, <<One, Copy(5)>>}}
    \cup {<<"call_indirect", Copy(14), <<One>>>>, <<"call_indirect", K(<<"fnref", 1>>), <<>>>>}
    \cup {<<"make_struct", 1, <<One, K(<<"nullptr">>), Copy(4)>>>>, <<"make_sum", <<1, 1>>, <<>>>>,
          <<"make_sum", <<1, 3>>, <<Copy(4), Copy(17)>>>>, <<"tuple", <<Copy(3), Copy(4)>>>>,
          <<"array", A, <<Copy(5), Copy(5)>>>>, <<"make_simd", Ty("f32"), <<Copy(1), Copy(1)>>>>,
          <<"lane", 1, Ty("f32"), <<Copy(1)>>>>}
    \cup {<<"simd", s, <<"simd", I64, 2>>, <<Copy(1)>>>> : s \in SimdOps}
    \cup {<<k, Copy(17)>> : k \in {"discriminant", "str_ptr", "str_len", "slice_ptr", "slice_len"}}
    \cup {<<"addr_of", p>> : p \in Places} \cup {<<"make_slice", A, Copy(2), Zero>>, <<"make_str", Copy(2), Zero>>}
    \cup {<<"crib_new", A, 8>>, <<"crib_new", Ty("void"), 0>>, <<"crib_global", 1>>, <<"crib_global", 2>>,
          <<"size_of", VecI>>, <<"trust", Copy(12), Copy(11)>>}
    \cup {<<"cop", Copy(12), i>> : i \in {<<"lit", 1, <<>>>>, <<"lit", 1, <<<<0, One>>, <<2, Copy(4)>>>>>>,
                                          <<"variant", <<1, 1>>, <<>>>>, <<"variant", <<1, 2>>, <<One>>>>}}
(* Into a local of its kind, where there is one. *)
Base == Module(TRUE, Names, Body(<<>>, Return(<<>>)), <<>>)
Destination(rv) ==
  LET same == {l \in DOMAIN Locals : Locals[l] = rvalue_kind(Base, Locals, rv)}
  IN  IF same = {} THEN 0 ELSE Min(same) - 1
RvalueModules ==
  UNION {Stmt(Assign(Destination(rv), rv)) : rv \in Rvalues}
    \cup UNION {Stmt(s) : s \in {<<"nop">>, <<"evict", Copy(12)>>, <<"evictslot", Copy(12), Copy(11)>>}}

(* Every vec a call can name, with its element: through which place the types are seen. *)
Vecs ==
  {<<At(3), VecI>>, <<At(4), VecF>>, <<<<5, <<Field(1)>>>>, VecI>>, <<<<5, <<Field(2)>>>>, VecF>>,
   <<<<6, <<<<"downcast", 2>>, Field(0)>>>>, VecF>>, <<<<7, <<<<"index", One>>, Field(2)>>>>, VecF>>,
   <<<<8, <<<<"index", One>>, Field(1)>>>>, VecI>>, <<<<8, <<<<"index", One>>, Field(2)>>>>, VecF>>,
   <<<<9, <<Field(0)>>>>, VecI>>, <<<<9, <<Field(1)>>>>, VecF>>,
   <<<<10, <<<<"deref">>, Field(2)>>>>, VecF>>, <<<<10, <<<<"deref">>, Field(1)>>>>, VecI>>}
IdOfExtern(order, name, v) ==
  CHOOSE i \in DOMAIN Externs(order) : /\ Externs(order)[i][3] = name
                                       /\ v \in ToSet(Externs(order)[i][4]) \cup ToSet(Externs(order)[i][5])
                                       /\ name = "new" => Externs(order)[i][4] # <<>>
Calls(order) ==
  {<<"assign", v[1], <<"call_extern", IdOfExtern(order, "new", v[2]), <<n>>>>>> : v \in Vecs, n \in {Zero, Copy(15)}}
    \cup {Assign(13, <<"call_extern", IdOfExtern(order, "push", v[2]), <<<<how, v[1]>>, p>>>>) :
            v \in Vecs, how \in {"copy", "move"}, p \in {Copy(2), K(<<"nullptr">>)}}
    \cup {Assign(13, <<"call_extern", IdOfExtern(order, "push", v), <<K(<<k>>), Copy(2)>>>>) :
            v \in {VecI, VecF}, k \in {"nullptr", "ghosted"}}
(* In the arm of a vibe over local 6 that its variant n takes. *)
Arm(n, s) ==
  << << <<Assign(15, <<"discriminant", Copy(6)>>)>>, <<"switch", Copy(15), << <<n, 1>> >>, 2>> >>,
     << <<s>>, Return(<<>>)>>, << <<>>, Return(<<>>)>> >>
CallModules ==
  UNION {{Module(order, Names, body, <<>>) :
            body \in {Body(<<s>>, Return(<<>>)) : s \in Calls(order)} \cup {Arm(2, s) : s \in Calls(order)}} :
           order \in BOOLEAN}

(* Every terminator, before a second block. *)
Terms ==
  {<<"branch", op, 0, 1>> : op \in Operands}
    \cup {<<"switch", Copy(0), cs, 1>> : cs \in {<<>>, <<<<0, 1>>>>, <<<<0, 1>>, <<7, 0>>>>}}
    \cup {<<"holla_check", Copy(11), Copy(12), At(10), 0, 1>>, <<"panic", Copy(17)>>, <<"unreachable">>}
    \cup {Return(ops) : ops \in {<<>>} \cup {<<op>> : op \in Operands} \cup {<<One, op>> : op \in Operands}
                               \cup {<<op, One>> : op \in Operands}}
TermModules == {Module(TRUE, Names, Body(<<>>, t), <<>>) : t \in Terms}

(* Every type as a result, among two results, a local, a field and a function's signature. *)
Types ==
  {<<k>> : k \in PlainTypes} \cup {IntTy(n) : n \in IntNames} \cup {<<"simd", s.elem, s.lanes>> : s \in SimdNames}
    \cup {A, U} \cup {<<k, A>> : k \in {"slice", "tag", "crib", "ref", "soa", "vec"}}
    \cup {<<"array", <<"array", I64, 2>>, 3>>, <<"map", Ty("str"), VecI>>, <<"slice", <<"slice", U>>>>}
    \cup {<<"tuple", ts>> : ts \in {<<>>, <<I64>>, <<I64, A>>, <<I64, <<"tuple", <<A, U>>>>, VecF>>}}
    \cup {<<"fnptr", ps, rs>> : ps \in {<<>>, <<A>>, <<I64, VecF>>},
                                rs \in {<<>>, <<I64>>, <<I64, A>>, <<Ty("void")>>, <<<<"tuple", <<I64, A>>>>>>,
                                        <<<<"fnptr", <<>>, <<I64, I64>>>>>>}}
TypeModules ==
  LET base(rets) == Module(TRUE, Names, Body(<<>>, Return(<<>>)), rets)
  IN  UNION {{base(<<t>>), base(<<t, I64>>), [base(<<>>) EXCEPT !.funcs[2][5][1] = t],
              [base(<<>>) EXCEPT !.structs[1][3][1][3] = t], [base(<<>>) EXCEPT !.externs[1][4] = <<t, t>>],
              [base(<<>>) EXCEPT !.sums[1][3][1][2] = <<t>>],
              [base(<<>>) EXCEPT !.cribs[1][3] = t]} : t \in Types}

(* A drip, a moods and a function with names the text gives a meaning. *)
Meanings == {"map", "f32x4", "u8", "fn", "sum", "struct", "bool", "call", "goto"}
NameModules ==
  UNION {{Module(TRUE, <<n, "U", "f">>, b, <<>>), Module(TRUE, <<"A", n, "f">>, b, <<>>), Module(TRUE, <<"A", "U", n>>, b, <<>>)} :
           n \in Meanings,
           b \in {Body(<<Assign(14, <<"use", K(<<"fnref", 2>>)>>)>>, t) :
                    t \in {Return(<<>>), Return(<<K(<<"fnref", 2>>)>>), Return(<<K(<<"fnref", 3>>)>>)}}
                 \cup {Body(<<Assign(14, <<"use", K(<<"fnref", 3>>)>>)>>, Return(<<>>)),
                       Body(<<Assign(0, <<"call", 2, <<One>>>>)>>, Return(<<K(<<"fnref", 2>>)>>))}}
MCLowered == RvalueModules \cup CallModules \cup TermModules \cup TypeModules \cup NameModules
=============================================================================
