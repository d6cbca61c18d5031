------------------------------ MODULE MirKinds ------------------------------
(***************************************************************************)
(* The validator (midir/validate.rs) over modules as MirText has them: the *)
(* kinds of places, operands and rvalues, and what is refused.  The kinds  *)
(* are best effort: NoTy is a kind that is not known and fits everything,  *)
(* Bad that of an ill-formed place, which was reported.                    *)
(***************************************************************************)
EXTENDS MirText

V == INSTANCE MidIR

Bad == <<"bad">>
Known(kind) == kind \notin {NoTy, Bad}
FitsKind(kind, want) == ~Known(kind) \/ ~Known(want) \/ kind = want

Numeric == {"f32", "f64"}
Comparisons == {"eq", "ne", "lt", "le", "gt", "ge"}
Arithmetic == {"add", "sub", "mul", "div", "rem"}

-----------------------------------------------------------------------------
(* Every type a module writes: declared, and in its locals. *)
RECURSIVE TypesIn(_)
TypesIn(t) ==
  {t} \cup (CASE t[1] \in {"slice", "array", "tag", "crib", "ref", "soa", "vec", "simd"} -> TypesIn(t[2])
              [] t[1] = "map" -> TypesIn(t[2]) \cup TypesIn(t[3])
              [] t[1] = "tuple" -> UNION {TypesIn(e) : e \in ToSet(t[2])}
              [] t[1] = "fnptr" -> UNION {TypesIn(e) : e \in ToSet(t[2]) \cup ToSet(t[3])}
              [] OTHER -> {})

DeclaredTypes(mod) ==
  UNION {{f[3] : f \in ToSet(d[3])} : d \in ToSet(mod.structs)}
    \cup UNION {UNION {ToSet(v[2]) : v \in ToSet(d[3])} : d \in ToSet(mod.sums)}
    \cup UNION {ToSet(d[4]) \cup ToSet(d[5]) : d \in ToSet(mod.externs)}
    \cup {d[3] : d \in ToSet(mod.globals) \cup ToSet(mod.cribs)}
    \cup UNION {ToSet(d[3]) \cup ToSet(d[4]) \cup ToSet(d[5]) : d \in ToSet(mod.funcs)}
AllTypes(mod) == UNION {TypesIn(t) : t \in DeclaredTypes(mod)}

(* The operands and places among the parts of a node. *)
OperandsOf(form, node) ==
  LET part(i) == node[1 + Cardinality({j \in 1..i : IsPart(form[j])})]
      at(item) == {part(i) : i \in {j \in DOMAIN form : form[j] = item}}
      inits == {IF i[1] = "lit" THEN {e[2] : e \in ToSet(i[3])} ELSE ToSet(i[3]) : i \in at("INIT")}
  IN  at("OP") \cup UNION {ToSet(ops) : ops \in at("OPS")} \cup UNION inits
        \cup {<<"copy", p>> : p \in at("PLACE")}

-----------------------------------------------------------------------------
(* A projection of a kind; variant is what a downcast before it selected. *)
field_kind(m, ty, variant, i) ==
  LET at(seq) == IF i + 1 \in DOMAIN seq THEN seq[i + 1] ELSE Bad
      fieldTys(s) == [j \in DOMAIN m.structs[s][3] |-> m.structs[s][3][j][3]]
      bundled == IF ty[1] = "soa" /\ ty[2][1] \in {"slice", "vec"} /\ ty[2][2][1] = "struct"
                 THEN at(fieldTys(ty[2][2][2])) ELSE Bad
  IN  CASE variant # <<>> ->
             IF variant[1] + 1 \in DOMAIN m.sums[ty[2]][3] THEN at(m.sums[ty[2]][3][variant[1] + 1][2]) ELSE Bad
        [] variant = <<>> /\ ty[1] = "struct" -> at(fieldTys(ty[2]))
        [] variant = <<>> /\ ty[1] = "tuple"  -> at(ty[2])
        [] variant = <<>> /\ ty[1] = "soa"    -> IF bundled = Bad THEN Bad ELSE <<ty[2][1], bundled>>
        [] OTHER -> Bad

index_kind(ty) ==
  CASE ty[1] \in {"slice", "array"} -> ty[2]
    [] ty[1] = "soa" /\ ty[2][1] \in {"slice", "array", "vec"} -> ty[2][2]
    [] OTHER -> Bad

RECURSIVE place_kind(_, _, _)

const_kind(k) ==
  CASE k[1] \in {"int", "float"} -> k[3]
    [] k[1] \in {"bool", "str"}  -> Ty(k[1])
    [] OTHER -> NoTy

operand_kind(m, L, op) == IF op[1] = "const" THEN const_kind(op[2]) ELSE place_kind(m, L, op[2])

place_kind(m, L, place) ==
  LET Step(at, pr) ==
        CASE pr[1] = "field" -> [ty |-> field_kind(m, at.ty, at.variant, pr[2]), variant |-> <<>>]
          [] pr[1] = "index" -> [at EXCEPT !.ty = IF operand_kind(m, L, pr[2]) = Bad THEN Bad ELSE index_kind(at.ty)]
          [] pr[1] = "deref" -> [at EXCEPT !.ty = IF at.ty[1] = "ref" THEN at.ty[2] ELSE Bad]
          [] pr[1] = "downcast" -> IF at.ty[1] = "sum" THEN [at EXCEPT !.variant = <<pr[2]>>]
                                   ELSE [at EXCEPT !.ty = Bad]
  IN  IF place[1] + 1 \notin DOMAIN L THEN Bad
      ELSE FoldLeft(Step, [ty |-> L[place[1] + 1], variant |-> <<>>], place[2]).ty

-----------------------------------------------------------------------------
rets_to_kind(rets) ==
  CASE rets = <<>>   -> Ty("void")
    [] Len(rets) = 1 -> rets[1]
    [] OTHER         -> <<"tuple", rets>>

check_call_args_mutant(m, L, params, args) == Len(params) = Len(args)
check_call_args(m, L, params, args) ==
  /\ Len(params) = Len(args)
  /\ \A i \in DOMAIN args : FitsKind(operand_kind(m, L, args[i]), params[i])

(* The parameters and results a call has; <<>> of a pointer whose kind is not known. *)
Callee(m, L, rv) ==
  LET pointer == operand_kind(m, L, rv[2])
  IN  CASE rv[1] = "call" -> << <<m.funcs[rv[2]][3], m.funcs[rv[2]][4]>> >>
        [] rv[1] = "call_extern" -> << <<m.externs[rv[2]][4], m.externs[rv[2]][5]>> >>
        [] rv[1] = "call_indirect" -> IF pointer # NoTy /\ pointer[1] = "fnptr" THEN << <<pointer[2], pointer[3]>> >> ELSE <<>>

check_arith_mode(op, mode, kind) ==
  IF op \notin Arithmetic THEN mode = "na"
  ELSE ~Known(kind) \/ /\ kind[1] = "int" => mode # "na"
                       /\ kind[1] \in Numeric => mode = "na"

check_cast(kind, src, target) ==
  LET from == CASE kind \in {"zext", "sext", "trunc", "itof"} -> {"int"}
                [] kind \in {"ftoi", "fresize"} -> Numeric
                [] kind = "bitcast" -> {src[1], target[1]}
      to == CASE kind \in {"zext", "sext", "trunc", "ftoi"} -> {"int"}
              [] kind \in {"itof", "fresize"} -> Numeric
              [] kind = "bitcast" -> {src[1], target[1]}
  IN  src = NoTy \/ (src[1] \in from /\ target[1] \in to)

VariantTakes(m, variant, ops) == Len(m.sums[variant[1]][3][variant[2]][2]) = Len(ops)

check_cop_init(m, init) ==
  IF init[1] = "lit" THEN Len(m.structs[init[2]][3]) = Len(init[3]) ELSE VariantTakes(m, init[2], init[3])

check_rvalue(m, L, rv) ==
  LET kind(i) == operand_kind(m, L, rv[i])
      callee == Callee(m, L, rv)
  IN
  CASE rv[1] = "binop" -> /\ rv[2] \in Comparisons \/ FitsKind(kind(4), kind(5))
                          /\ check_arith_mode(rv[2], rv[3], kind(4))
    [] rv[1] = "cast" -> check_cast(rv[2], kind(3), rv[4])
    [] rv[1] \in {"call", "call_extern", "call_indirect"} ->
         callee # <<>> => check_call_args(m, L, callee[1][1], rv[3])
    [] rv[1] = "make_struct" -> Len(m.structs[rv[2]][3]) = Len(rv[3])
    [] rv[1] = "make_sum" -> VariantTakes(m, rv[2], rv[3])
    [] rv[1] = "simd" -> Len(rv[4]) = (IF rv[2] \in {"min", "max", "dot"} THEN 2 ELSE 1)
    [] rv[1] = "lane" -> Len(rv[4]) = 1
    [] rv[1] = "cop"  -> check_cop_init(m, rv[3])
    [] rv[1] \in {"str_ptr", "str_len"} -> kind(2) \in {NoTy, Ty("str")}
    [] rv[1] \in {"slice_ptr", "slice_len"} -> kind(2) = NoTy \/ kind(2)[1] = "slice"
    [] OTHER -> TRUE

(* A cop in a bump crib gives a reference, in a typed one a tag. *)
cop_kind(m, crib, init) ==
  LET made == IF init[1] = "lit" THEN <<"struct", init[2]>> ELSE <<"sum", init[2][1]>>
  IN  IF crib = NoTy \/ crib[1] # "crib" THEN NoTy
      ELSE IF crib[2] # Ty("void") THEN <<"tag", crib[2]>>
      ELSE IF made \in AllTypes(m) THEN <<"ref", made>> ELSE Ty("rawptr")

rvalue_kind(m, L, rv) ==
  LET kind(i) == operand_kind(m, L, rv[i])
      callee == Callee(m, L, rv)
  IN
  CASE rv[1] = "use" -> kind(2)
    [] rv[1] = "binop" -> IF rv[2] \in Comparisons THEN Ty("bool") ELSE kind(4)
    [] rv[1] = "unop" -> IF rv[2] = "not" THEN Ty("bool") ELSE kind(3)
    [] rv[1] = "cast" -> rv[4]
    [] rv[1] \in {"call", "call_extern", "call_indirect"} ->
         IF callee = <<>> THEN NoTy ELSE rets_to_kind(callee[1][2])
    [] rv[1] = "make_struct" -> <<"struct", rv[2]>>
    [] rv[1] = "make_sum" -> <<"sum", rv[2][1]>>
    [] rv[1] = "array" -> <<"array", rv[2], Len(rv[3])>>
    [] rv[1] = "make_simd" -> <<"simd", rv[2], Len(rv[3])>>
    [] rv[1] \in {"simd", "lane"} -> rv[3]
    [] rv[1] \in {"tuple", "discriminant"} -> NoTy
    [] rv[1] = "cop" -> cop_kind(m, kind(2), rv[3])
    [] rv[1] = "trust" -> IF kind(2) # NoTy /\ kind(2)[1] = "crib" THEN <<"ref", kind(2)[2]>> ELSE NoTy
    [] rv[1] \in {"str_ptr", "slice_ptr", "addr_of"} -> Ty("rawptr")
    [] rv[1] \in {"str_len", "slice_len", "size_of"} -> IntTy("u64")
    [] rv[1] = "make_slice" -> <<"slice", rv[2]>>
    [] rv[1] = "crib_new" -> <<"crib", rv[2]>>
    [] rv[1] = "crib_global" -> <<"crib", m.cribs[rv[2]][3]>>
    [] rv[1] = "make_str" -> Ty("str")

-----------------------------------------------------------------------------
(* The operands a statement or terminator visits, the assigned place too. *)
StmtOperands(s) ==
  OperandsOf(StmtForms[s[1]], s) \cup (IF s[1] = "assign" THEN OperandsOf(RvalueForms[s[3][1]], s[3]) ELSE {})
TermOperands(t) == OperandsOf(TermForms[t[1]], t)

check_stmt(m, L, s) ==
  /\ \A op \in StmtOperands(s) : operand_kind(m, L, op) # Bad
  /\ s[1] = "assign" => /\ check_rvalue(m, L, s[3])
                        /\ FitsKind(place_kind(m, L, s[2]), rvalue_kind(m, L, s[3]))

TermTargets(t) ==
  CASE t[1] = "goto" -> {t[2]}
    [] t[1] = "branch" -> {t[3], t[4]}
    [] t[1] = "switch" -> {arm[2] : arm \in ToSet(t[3])} \cup {t[4]}
    [] t[1] = "holla_check" -> {t[5], t[6]}
    [] OTHER -> {}

check_term(m, f, L, t) ==
  LET element(kind, k) == IF kind # NoTy /\ kind[1] = k THEN kind[2] ELSE NoTy
      crib == element(operand_kind(m, L, t[3]), "crib")
  IN  /\ \A op \in TermOperands(t) : operand_kind(m, L, op) # Bad
      /\ \A bb \in TermTargets(t) : bb + 1 \in DOMAIN f[6]
      /\ t[1] = "return" => /\ Len(t[2]) = Len(f[4])
                            /\ \A i \in DOMAIN t[2] : FitsKind(operand_kind(m, L, t[2][i]), f[4][i])
      /\ t[1] = "holla_check" => /\ FitsKind(crib, element(operand_kind(m, L, t[2]), "tag"))
                                 /\ FitsKind(crib, element(place_kind(m, L, t[4]), "ref"))

-----------------------------------------------------------------------------
(* The downcast guards, checked on the blocks as MidIR has them. *)
RECURSIVE PlacesOf(_)
PlacesOf(op) ==
  IF op[1] = "const" THEN {}
  ELSE {op[2]} \cup UNION {PlacesOf(pr[2]) : pr \in {p \in ToSet(op[2][2]) : p[1] = "index"}}

Place(p) == [l |-> p[1], proj |-> p[2]]
Reads(ops) == SetToSeq({V!Copy(Place(p)) : p \in UNION {PlacesOf(op) : op \in ops}})

AsStmt(s) ==
  LET known == s[1] = "assign" /\ s[3][1] = "discriminant" /\ s[3][2][1] # "const"
  IN  [p  |-> IF s[1] = "assign" THEN Place(s[2]) ELSE V!Local(-1),
       rv |-> V!Rvalue(IF known THEN "discriminant" ELSE s[1],
                       (IF known THEN <<V!Copy(Place(s[3][2][2]))>> ELSE <<>>) \o Reads(StmtOperands(s)))]

AsTerm(t) ==
  LET scrutinee == IF t[1] = "switch" /\ t[2][1] # "const" THEN Place(t[2][2]) ELSE V!Local(-1)
  IN  CASE t[1] = "switch" -> [k |-> "switch", cond |-> V!Copy(scrutinee), default |-> t[4] + 1,
                               cases |-> [i \in DOMAIN t[3] |-> [v |-> t[3][i][1], to |-> t[3][i][2] + 1]]]
        [] t[1] = "holla_check" -> [k |-> "holla", cond |-> V!Const(0), resolved |-> Place(t[4]), to |-> <<t[5] + 1, t[6] + 1>>]
        [] t[1] = "branch" -> [k |-> "branch", cond |-> V!Const(0), to |-> <<t[3] + 1, t[4] + 1>>]
        [] t[1] = "goto" -> [k |-> "goto", to |-> t[2] + 1]
        [] OTHER -> [k |-> "return", ops |-> <<>>]

check_downcast_guards(f) ==
  LET block(b) == [stmts |-> Append([i \in DOMAIN b[1] |-> AsStmt(b[1][i])],
                                    [p |-> V!Local(-1), rv |-> V!Rvalue("nop", Reads(TermOperands(b[2])))]),
                   term  |-> AsTerm(b[2])]
  IN  V!check_downcast_guards([i \in DOMAIN f[6] |-> block(f[6][i])])

check_func(m, f) ==
  LET L == f[3] \o f[5]
  IN  /\ f[6] # <<>>
      /\ \A b \in ToSet(f[6]) : (\A s \in ToSet(b[1]) : check_stmt(m, L, s)) /\ check_term(m, f, L, b[2])
      /\ check_downcast_guards(f)

validate(m) ==
  /\ \A f \in ToSet(m.funcs) : check_func(m, f)
  /\ \A g \in ToSet(m.globals) : FitsKind(const_kind(g[4]), g[3])
=============================================================================
