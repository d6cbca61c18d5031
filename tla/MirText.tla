------------------------------ MODULE MirText ------------------------------
(***************************************************************************)
(* The text form of MidIR (midir/text.rs): the printer, the lexer's tokens,*)
(* the scan for declared names and the parser.                             *)
(*                                                                         *)
(* A node is a tuple, its kind first and its parts after it in the order   *)
(* the text has them.  Most nodes are printed and read by a form: a word   *)
(* in capitals is a part, any other string is itself.  The printer and the *)
(* parser have forms of their own.  Types are structural (the interned ids *)
(* of equal types are equal); structs, sums, externs, functions and cribs  *)
(* are numbered from 1 in declaration order, locals, blocks and fields     *)
(* from 0 as in the text.  Names of locals are not part of a module.       *)
(***************************************************************************)
EXTENDS Integers, Sequences, FiniteSets, SequencesExt, FiniteSetsExt, TLC

Num(n, suffix) == <<"num", n, suffix>>
Str(s)   == <<"str", s>>
Word(s)  == <<"word", s>>     \* an identifier or a sign
Label(b) == <<"label", b>>    \* the identifier bb0, bb1, ...
Stray    == <<"stray">>       \* a minus sign before a letter

Signs == {"(", ")", "{", "}", "[", "]", ",", ":", "::", ";", "%", "@", "->", "=", "."}

Ty(k) == <<k>>
IntTy(name) == <<"int", name>>
IntNames == {"i8", "i16", "i32", "i64", "u8", "u16", "u32", "u64"}
SimdNames ==
  {[name |-> "f32x4", elem |-> Ty("f32"), lanes |-> 4],
   [name |-> "i64x2", elem |-> IntTy("i64"), lanes |-> 2]}

BinOps == {"add", "sub", "mul", "div", "rem", "bitand", "bitor", "bitxor", "shl", "shr",
           "eq", "ne", "lt", "le", "gt", "ge"}
Modes == {"wrap", "trap", "na"}
UnOps == {"neg", "not", "bitnot"}
Casts == {"zext", "sext", "trunc", "itof", "ftoi", "fresize", "bitcast"}
SimdOps == {"splat", "min", "max", "abs", "dot", "sum", "length", "norm"}

EmptyModule ==
  [structs |-> <<>>, sums |-> <<>>, externs |-> <<>>, globals |-> <<>>, cribs |-> <<>>, funcs |-> <<>>]

-----------------------------------------------------------------------------
(***************************************************************************)
(* The printer.                                                            *)
(***************************************************************************)
TypeForms ==
  [struct |-> <<"STRUCT">>, sum |-> <<"SUM">>, int |-> <<"WORD">>,
   slice  |-> <<"[", "]", "TY">>,
   array  |-> <<"[", "TY", ";", "N", "]">>,
   tag    |-> <<"tag", "TY">>,
   crib   |-> <<"crib", "TY">>,
   ref    |-> <<"ref", "TY">>,
   soa    |-> <<"soa", "TY">>,
   map    |-> <<"map", "[", "TY", ",", "TY", "]">>,
   vec    |-> <<"vec", "[", "TY", "]">>,
   fnptr  |-> <<"fn", "(", "TYS", ")", "->", "RETS">>,
   tuple  |-> <<"(", "TYS", ")">>]

RvalueForms ==
  [use           |-> <<"OP">>,
   binop         |-> <<"WORD", ".", "WORD", "(", "OP", ",", "OP", ")">>,
   unop          |-> <<"WORD", "(", "OP", ")">>,
   cast          |-> <<"cast", ".", "WORD", "(", "OP", "as", "TY", ")">>,
   call          |-> <<"call", "@", "FN", "(", "OPS", ")">>,
   call_indirect |-> <<"call_indirect", "OP", "(", "OPS", ")">>,
   call_extern   |-> <<"call_extern", "@", "EXTERN", "(", "OPS", ")">>,
   make_struct   |-> <<"make", "STRUCT", "(", "OPS", ")">>,
   make_sum      |-> <<"make", "VARIANT", "(", "OPS", ")">>,
   tuple         |-> <<"tuple", "(", "OPS", ")">>,
   array         |-> <<"array", "[", "TY", "]", "(", "OPS", ")">>,
   make_simd     |-> <<"simd", "[", "TY", "]", "(", "OPS", ")">>,
   simd          |-> <<"simd", ".", "WORD", "[", "TY", "]", "(", "OPS", ")">>,
   lane          |-> <<"simd", ".", "lane", ".", "N", "[", "TY", "]", "(", "OPS", ")">>,
   discriminant  |-> <<"discriminant", "(", "OP", ")">>,
   cop           |-> <<"cop", "(", "OP", ",", "INIT", ")">>,
   trust         |-> <<"trust", "(", "OP", ",", "OP", ")">>,
   str_ptr       |-> <<"str_ptr", "(", "OP", ")">>,
   str_len       |-> <<"str_len", "(", "OP", ")">>,
   slice_ptr     |-> <<"slice_ptr", "(", "OP", ")">>,
   slice_len     |-> <<"slice_len", "(", "OP", ")">>,
   addr_of       |-> <<"addr_of", "(", "PLACE", ")">>,
   make_slice    |-> <<"make_slice", "[", "TY", "]", "(", "OP", ",", "OP", ")">>,
   crib_new      |-> <<"crib_new", "[", "TY", ";", "N", "]">>,
   crib_global   |-> <<"crib_global", "(", "@", "CRIB", ")">>,
   size_of       |-> <<"size_of", "[", "TY", "]">>,
   make_str      |-> <<"make_str", "(", "OP", ",", "OP", ")">>]

OperandForms ==
  [const |-> <<"CONST">>, copy |-> <<"PLACE">>, move |-> <<"move", "PLACE">>]

ProjForms ==
  [field    |-> <<".", "field", "(", "N", ")">>,
   index    |-> <<".", "index", "(", "OP", ")">>,
   deref    |-> <<".", "deref">>,
   downcast |-> <<".", "downcast", "(", "N", ")">>]

ConstForms ==
  [str |-> <<"STR">>, fnref |-> <<"@", "FN">>, ghosted |-> <<"ghosted">>, nullptr |-> <<"nullptr">>]

StmtForms ==
  [nop       |-> <<"nop">>,
   evict     |-> <<"evict", "OP">>,
   evictslot |-> <<"evictslot", "OP", ",", "OP">>,
   assign    |-> <<"PLACE", "=", "RVALUE">>]

TermForms ==
  [goto        |-> <<"goto", "BB">>,
   branch      |-> <<"branch", "OP", "->", "BB", "else", "BB">>,
   switch      |-> <<"switch", "OP", "[", "ARMS", "]", "else", "BB">>,
   holla_check |-> <<"holla_check", "(", "OP", ",", "OP", ",", "PLACE", ")", "->", "BB", "else", "BB">>,
   return      |-> <<"return", "OPS">>,
   panic       |-> <<"panic", "OP">>,
   unreachable |-> <<"unreachable">>]

DeclForms ==
  [struct |-> <<"struct", "WORD", "{", "FIELDS", "}">>,
   sum    |-> <<"sum", "WORD", "{", "VARIANTS", "}">>,
   extern |-> <<"extern", "STR", "fn", "WORD", "(", "TYS", ")", "->", "RETS">>,
   const  |-> <<"const", "WORD", ":", "TY", "=", "CONST">>,
   crib   |-> <<"crib", "@", "WORD", ":", "TY", "[", "N", "]">>,
   fn     |-> <<"fn", "WORD", "(", "PARAMS", ")", "->", "RETS", "{">>]

IsPart(item) ==
  item \in {"WORD", "N", "STR", "BB", "TY", "TYS", "RETS", "STRUCT", "SUM", "VARIANT", "EXTERN", "FN",
            "CRIB", "CONST", "OP", "OPS", "PLACE", "INIT", "INITS", "RVALUE", "ARMS", "FIELDS",
            "VARIANTS", "PARAMS"}

SimdName(elem, lanes) == (CHOOSE s \in SimdNames : s.elem = elem /\ s.lanes = lanes).name

FloatToken(v, ty) ==
  CASE v[1] = "finite" -> Num(v[2], ty[1])
    [] v[1] = "-inf"   -> Stray
    [] OTHER           -> Word(v[1])

RECURSIVE Emit(_, _, _)

(* A node (k, a1, a2...) by its form; part i is the i-th capital word. *)
EmitForm(m, form, node) ==
  LET part(i) == node[1 + Cardinality({j \in 1..i : IsPart(form[j])})]
  IN  FlattenSeq([i \in DOMAIN form |->
        IF IsPart(form[i]) THEN Emit(m, form[i], part(i)) ELSE <<Word(form[i])>>])

Join(m, item, vs) ==
  FlattenSeq([i \in DOMAIN vs |-> (IF i = 1 THEN <<>> ELSE <<Word(",")>>) \o Emit(m, item, vs[i])])

(* One part of a node: its tokens. *)
Emit(m, item, v) ==
  CASE item = "WORD"    -> <<Word(v)>>
    [] item = "N"       -> <<Num(v, "")>>
    [] item = "STR"     -> <<Str(v)>>
    [] item = "BB"      -> <<Label(v)>>
    [] item = "STRUCT"  -> <<Word(m.structs[v][2])>>
    [] item = "SUM"     -> <<Word(m.sums[v][2])>>
    [] item = "VARIANT" -> <<Word(m.sums[v[1]][2]), Word("::"), Word(m.sums[v[1]][3][v[2]][1])>>
    [] item = "EXTERN"  -> <<Word(m.externs[v][3])>>
    [] item = "FN"      -> <<Word(m.funcs[v][2])>>
    [] item = "CRIB"    -> <<Word(m.cribs[v][2])>>
    [] item = "TY"      ->
         IF v[1] \in DOMAIN TypeForms THEN EmitForm(m, TypeForms[v[1]], v)
         ELSE IF v[1] = "simd" THEN <<Word(SimdName(v[2], v[3]))>>
         ELSE <<Word(v[1])>>
    [] item = "RETS"    ->
         IF v = <<>> THEN <<Word("void")>>
         ELSE IF Len(v) = 1 THEN Emit(m, "TY", v[1])
         ELSE <<Word("(")>> \o Join(m, "TY", v) \o <<Word(")")>>
    [] item = "CONST"   ->
         (CASE v[1] = "int"   -> <<Num(v[2], IF v[3][1] = "int" THEN v[3][2] ELSE "i64")>>
            [] v[1] = "float" -> <<FloatToken(v[2], v[3])>>
            [] v[1] = "bool"  -> <<Word(IF v[2] THEN "true" ELSE "false")>>
            [] OTHER          -> EmitForm(m, ConstForms[v[1]], v))
    [] item = "OP"      -> EmitForm(m, OperandForms[v[1]], v)
    [] item = "PLACE"   ->
         <<Word("%"), Num(v[1], "")>>
           \o FlattenSeq([i \in DOMAIN v[2] |-> EmitForm(m, ProjForms[v[2][i][1]], v[2][i])])
    [] item = "INIT"    ->
         IF v[1] = "lit" THEN EmitForm(m, <<"STRUCT", "{", "INITS", "}">>, v)
         ELSE EmitForm(m, IF v[3] = <<>> THEN <<"VARIANT">> ELSE <<"VARIANT", "(", "OPS", ")">>, v)
    [] item = "RVALUE"  -> EmitForm(m, RvalueForms[v[1]], v)
    [] item = "TYS"     -> Join(m, "TY", v)
    [] item = "OPS"     -> Join(m, "OP", v)
    [] item = "ARMS"   -> Join(m, "ARM", v)
    [] item = "INITS"   -> Join(m, "FIELDINIT", v)
    [] item = "FIELDS"  -> Join(m, "FIELD", v)
    [] item = "PARAMS"  -> Join(m, "TYPED", [i \in DOMAIN v |-> <<i - 1, v[i]>>])
    [] item = "VARIANTS" -> Join(m, "ALTERNATIVE", v)
    [] item = "ARM"      -> <<Num(v[1], ""), Word("->"), Label(v[2])>>
    [] item = "FIELDINIT" -> <<Num(v[1], ""), Word(":")>> \o Emit(m, "OP", v[2])
    [] item = "FIELD"     -> <<Word(v[1]), Word(v[2]), Word(":")>> \o Emit(m, "TY", v[3])
    [] item = "TYPED"     -> <<Word("%"), Num(v[1], ""), Word(":")>> \o Emit(m, "TY", v[2])
    [] item = "ALTERNATIVE" ->
         <<Word(v[1])>> \o (IF v[2] = <<>> THEN <<>>
                            ELSE <<Word("(")>> \o Join(m, "TY", v[2]) \o <<Word(")")>>)

(* A function: <<"fn", name, parameters, results, temporaries, blocks>>. *)
func(m, f) ==
  LET lets == [i \in DOMAIN f[5] |->
                 <<Word("let")>> \o Emit(m, "TYPED", <<Len(f[3]) + i - 1, f[5][i]>>)]
      node(forms, n) == EmitForm(m, forms[n[1]], n)
      block(b) == FlattenSeq([i \in DOMAIN b[1] |-> node(StmtForms, b[1][i])]) \o node(TermForms, b[2])
  IN  EmitForm(m, DeclForms.fn, f)
        \o FlattenSeq(lets)
        \o FlattenSeq([i \in DOMAIN f[6] |-> <<Label(i - 1), Word(":")>> \o block(f[6][i])])
        \o <<Word("}")>>

print(m) ==
  LET decl(d) == IF d[1] = "fn" THEN func(m, d) ELSE EmitForm(m, DeclForms[d[1]], d)
      all(ds) == FlattenSeq([i \in DOMAIN ds |-> decl(ds[i])])
  IN  all(m.structs) \o all(m.sums) \o all(m.externs) \o all(m.globals) \o all(m.cribs) \o all(m.funcs)

-----------------------------------------------------------------------------
(***************************************************************************)
(* The scan for declared names: each kind numbered in order of appearance. *)
(* It looks at pairs of words anywhere in the text, but for what an extern *)
(* and a crib declaration skip.                                            *)
(***************************************************************************)
Tok(T, p) == IF p \in DOMAIN T THEN T[p] ELSE <<"end", "">>
IsIdent(t) == t[1] = "label" \/ (t[1] = "word" /\ t[2] \notin Signs)
IdentText(t) == IF t[1] = "label" THEN "bb" ELSE t[2]

\* entry(name).or_insert(the next id): the first declaration of a name has it.
IdOf(names, name) ==
  IF \E i \in DOMAIN names : names[i] = name
  THEN CHOOSE i \in DOMAIN names : names[i] = name /\ \A j \in 1..(i - 1) : names[j] # name
  ELSE 0

prescan(T) ==
  LET t(i) == Tok(T, i)
      extern(i) == t(i) = Word("extern") /\ t(i + 1)[1] = "str" /\ t(i + 2) = Word("fn") /\ IsIdent(t(i + 3))
      crib(i) == t(i) = Word("crib") /\ t(i + 1) = Word("@") /\ IsIdent(t(i + 2))
      skipped(i) == \/ \E n \in 1..3 : extern(i - n)
                    \/ \E n \in 1..2 : crib(i - n)
      pair(i, kw) == t(i) = Word(kw) /\ IsIdent(t(i + 1)) /\ ~skipped(i)
      names(Declares(_), offset) ==
        LET at == SelectSeq([i \in DOMAIN T |-> i], Declares)
        IN  [n \in DOMAIN at |-> IdentText(t(at[n] + offset))]
  IN  [struct |-> names(LAMBDA i : pair(i, "struct"), 1),
       sum    |-> names(LAMBDA i : pair(i, "sum"), 1),
       fn     |-> names(LAMBDA i : pair(i, "fn"), 1),
       crib   |-> names(crib, 2)]

-----------------------------------------------------------------------------
(***************************************************************************)
(* The parser.  Its forms are named by the keyword they start with; a list *)
(* is read up to and including its closing sign.                           *)
(*                                                                         *)
(* Every operator takes the state c of the parser (the tokens, the scanned *)
(* names, the module so far, the types of the locals and of the place      *)
(* being assigned) and a position, and returns what it read and the        *)
(* position after it; position 0 is an error.                              *)
(***************************************************************************)
Got(v, p) == [v |-> v, at |-> p]
Error == Got(<<>>, 0)

TypeReads ==
  [tag |-> <<"tag", "TY">>, crib |-> <<"crib", "TY">>, ref |-> <<"ref", "TY">>, soa |-> <<"soa", "TY">>,
   map |-> <<"map", "[", "TY", ",", "TY", "]">>,
   vec |-> <<"vec", "[", "TY", "]">>,
   fn  |-> <<"fn", "(", "TYS)", "->", "RETS">>]

RvalueReads ==
  [cast          |-> <<"cast", ".", "CAST", "(", "OP", "as", "TY", ")">>,
   call          |-> <<"call", "@", "FN", "(", "OPS)">>,
   call_indirect |-> <<"call_indirect", "OP", "(", "OPS)">>,
   str_ptr       |-> <<"str_ptr", "(", "OP", ")">>,
   str_len       |-> <<"str_len", "(", "OP", ")">>,
   slice_ptr     |-> <<"slice_ptr", "(", "OP", ")">>,
   slice_len     |-> <<"slice_len", "(", "OP", ")">>,
   tuple         |-> <<"tuple", "(", "OPS)">>,
   array         |-> <<"array", "[", "TY", "]", "(", "OPS)">>,
   addr_of       |-> <<"addr_of", "(", "PLACE", ")">>,
   make_slice    |-> <<"make_slice", "[", "TY", "]", "(", "OP", ",", "OP", ")">>,
   crib_new      |-> <<"crib_new", "[", "TY", ";", "N", "]">>,
   crib_global   |-> <<"crib_global", "(", "@", "CRIB", ")">>,
   size_of       |-> <<"size_of", "[", "TY", "]">>,
   make_str      |-> <<"make_str", "(", "OP", ",", "OP", ")">>,
   discriminant  |-> <<"discriminant", "(", "OP", ")">>,
   cop           |-> <<"cop", "(", "OP", ",", "INIT", ")">>,
   trust         |-> <<"trust", "(", "OP", ",", "OP", ")">>]

ProjReads ==
  [field |-> <<".", "field", "(", "N", ")">>, index |-> <<".", "index", "(", "OP", ")">>,
   deref |-> <<".", "deref">>, downcast |-> <<".", "downcast", "(", "N", ")">>]

StmtReads ==
  [nop |-> <<"nop">>, evictslot |-> <<"evictslot", "OP", ",", "OP">>, evict |-> <<"evict", "OP">>]

TermReads ==
  [goto        |-> <<"goto", "BB">>,
   branch      |-> <<"branch", "OP", "->", "BB", "else", "BB">>,
   switch      |-> <<"switch", "OP", "[", "ARMS]", "else", "BB">>,
   holla_check |-> <<"holla_check", "(", "OP", ",", "OP", ",", "PLACE", ")", "->", "BB", "else", "BB">>,
   return      |-> <<"return", "VALUES">>,
   panic       |-> <<"panic", "OP">>,
   unreachable |-> <<"unreachable">>]

DeclReads ==
  [struct |-> <<"struct", "NAME", "{", "FIELDS}">>,
   sum    |-> <<"sum", "NAME", "{", "VARIANTS}">>,
   extern |-> <<"extern", "STR", "fn", "NAME", "(", "TYS)", "->", "RETS">>,
   const  |-> <<"const", "NAME", ":", "TY", "=", "CONST">>,
   crib   |-> <<"crib", "@", "NAME", ":", "TY", "[", "N", "]">>,
   fn     |-> <<"fn", "NAME", "(", "PARAMS)", "->", "RETS", "{">>]

(* The elements of the lists and their closing signs. *)
ListReads ==
  ("OPS)"      :> <<"OP", ")">>) @@ ("TYS)" :> <<"TY", ")">>) @@ ("ARMS]" :> <<"ARM", "]">>)
    @@ ("INITS}"    :> <<"FIELDINIT", "}">>) @@ ("FIELDS}" :> <<"FIELD", "}">>)
    @@ ("VARIANTS}" :> <<"ALTERNATIVE", "}">>) @@ ("PARAMS)" :> <<"TYPED", ")">>)

ElementReads ==
  [ARM |-> <<"N", "->", "BB">>, FIELDINIT |-> <<"N", ":", "OP">>,
   FIELD |-> <<"VIS", "NAME", ":", "TY">>, TYPED |-> <<"%", "N", ":", "TY">>]

(* The words a part is chosen from. *)
WordSets == [MODE |-> Modes, CAST |-> Casts, SIMDOP |-> SimdOps, VIS |-> {"flex", "hush"}]

PlainTypes == {"bool", "f32", "f64", "str", "void", "rawptr", "rng"}

IsRead(item) ==
  \/ item \in {"NAME", "N", "STR", "BB", "TY", "RETS", "CONST", "OP", "PLACE", "INIT", "FN", "STRUCT",
               "VARIANT", "CRIB", "RVALUE", "VALUES"}
  \/ item \in DOMAIN ListReads \cup DOMAIN WordSets

(***************************************************************************)
(* The type of a place as the parser sees it: not through a soa, nor of a  *)
(* tuple's field.  NoTy pins nothing down.                                 *)
(***************************************************************************)
NoTy == <<>>

RECURSIVE Walk(_, _, _, _)
Walk(m, ty, variant, projs) ==
  LET pr == Head(projs)
      at(seq, i) == IF i + 1 \in DOMAIN seq THEN seq[i + 1] ELSE NoTy
      next ==
        CASE pr[1] = "field" /\ variant # <<>> -> at(m.sums[ty[2]][3][variant[1] + 1][2], pr[2])
          [] pr[1] = "field" /\ variant = <<>> /\ ty[1] = "struct" ->
               (LET fields == m.structs[ty[2]][3] IN at([i \in DOMAIN fields |-> fields[i][3]], pr[2]))
          [] pr[1] = "index" /\ ty[1] \in {"slice", "array"} -> ty[2]
          [] pr[1] = "deref" /\ ty[1] = "ref" -> ty[2]
          [] pr[1] = "downcast" /\ ty[1] = "sum" -> ty
          [] OTHER -> NoTy
  IN  IF projs = <<>> \/ ty = NoTy THEN ty
      ELSE Walk(m, next, IF pr[1] = "downcast" THEN <<pr[2]>> ELSE <<>>, Tail(projs))

place_ty(m, locals, place) ==
  IF place[1] + 1 \in DOMAIN locals THEN Walk(m, locals[place[1] + 1], <<>>, place[2]) ELSE NoTy

operand_ty(m, locals, op) ==
  CASE op[1] # "const" -> place_ty(m, locals, op[2])
    [] op[1] = "const" /\ op[2][1] \in {"int", "float"} -> op[2][3]
    [] OTHER -> NoTy

(* A mutant: the name alone picks the extern. *)
resolve_extern_mutant(c, name, args) ==
  LET same == {i \in DOMAIN c.m.externs : c.m.externs[i][3] = name}
  IN  IF same = {} THEN 0 ELSE Min(same)

(* Externs of one name: the first that the arguments and the destination fit. *)
resolve_extern(c, name, args) ==
  LET same == {i \in DOMAIN c.m.externs : c.m.externs[i][3] = name}
      params_ok(ps) ==
        /\ Len(ps) = Len(args)
        /\ \A i \in DOMAIN args : operand_ty(c.m, c.locals, args[i]) \in {NoTy, ps[i]}
      rets_ok(rs) == Len(rs) = 1 => c.dest \in {NoTy, rs[1]}
      fits == {i \in same : params_ok(c.m.externs[i][4]) /\ rets_ok(c.m.externs[i][5])}
  IN  IF same = {} THEN 0 ELSE IF fits # {} THEN Min(fits) ELSE Min(same)

number_const(t) ==
  CASE t[3] \in {"f32", "f64"} -> <<"float", <<"finite", t[2]>>, Ty(t[3])>>
    [] t[3] \in IntNames -> <<"int", t[2], IntTy(t[3])>>
    [] OTHER -> <<>>

variant_index(m, sum, name) ==
  LET named == {i \in DOMAIN m.sums[sum][3] : m.sums[sum][3][i][1] = name}
  IN  IF named = {} THEN 0 ELSE Min(named)

starts_operand(t) ==
  \/ t[1] \in {"num", "str"}
  \/ t \in {Word(w) : w \in {"%", "@", "move", "true", "false", "ghosted"}}

RECURSIVE Read(_, _, _), ReadForm(_, _, _), ReadList(_, _, _, _, _), ReadProjs(_, _)

(* The parts of a form, in order. *)
ReadForm(c, form, p) ==
  IF p = 0 \/ form = <<>> THEN Got(<<>>, p)
  ELSE IF ~IsRead(Head(form))
       THEN IF Tok(c.T, p) = Word(Head(form)) THEN ReadForm(c, Tail(form), p + 1) ELSE Error
  ELSE LET part == Read(c, Head(form), p)
           rest == ReadForm(c, Tail(form), part.at)
       IN  IF rest.at = 0 THEN Error ELSE Got(<<part.v>> \o rest.v, rest.at)

ReadNode(c, kind, form, p) ==
  LET parts == ReadForm(c, form, p)
  IN  IF parts.at = 0 THEN Error ELSE Got(<<kind>> \o parts.v, parts.at)

(* Elements and commas up to the closing sign. *)
ReadList(c, item, close, p, got) ==
  LET start == IF got = <<>> THEN p ELSE IF Tok(c.T, p) = Word(",") THEN p + 1 ELSE 0
      element == IF item \in DOMAIN ElementReads THEN ReadForm(c, ElementReads[item], start)
                 ELSE Read(c, item, start)
  IN  IF Tok(c.T, p) = Word(close) THEN Got(got, p + 1)
      ELSE IF start = 0 \/ element.at = 0 THEN Error
      ELSE ReadList(c, item, close, element.at, Append(got, element.v))

ReadProjs(c, p) ==
  LET kind == IdentText(Tok(c.T, p + 1))
      head == IF IsIdent(Tok(c.T, p + 1)) /\ kind \in DOMAIN ProjReads
              THEN ReadNode(c, kind, ProjReads[kind], p) ELSE Error
      rest == ReadProjs(c, head.at)
  IN  IF p = 0 \/ Tok(c.T, p) # Word(".") THEN Got(<<>>, p)
      ELSE IF head.at = 0 \/ rest.at = 0 THEN Error ELSE Got(<<head.v>> \o rest.v, rest.at)

ReadType(c, p) ==
  LET t == Tok(c.T, p)
      name == IdentText(t)
      simd == {s \in SimdNames : s.name = name}
      first == Read(c, "TY", p + 1)
  IN  CASE t = Word("[") /\ Tok(c.T, p + 1) = Word("]") -> ReadNode(c, "slice", <<"[", "]", "TY">>, p)
        [] t = Word("[") /\ Tok(c.T, p + 1) # Word("]") ->
             ReadNode(c, "array", <<"[", "TY", ";", "N", "]">>, p)
        [] t = Word("(") ->
             IF first.at = 0 THEN Error
             ELSE IF Tok(c.T, first.at) = Word(")") THEN Got(first.v, first.at + 1)
             ELSE ReadNode(c, "tuple", <<"(", "TYS)">>, p)
        [] OTHER ->
             IF ~IsIdent(t) THEN Error
             ELSE IF name \in PlainTypes THEN Got(Ty(name), p + 1)
             ELSE IF name \in DOMAIN TypeReads
                  THEN ReadNode(c, IF name = "fn" THEN "fnptr" ELSE name, TypeReads[name], p)
             ELSE IF name \in IntNames THEN Got(IntTy(name), p + 1)
             ELSE IF simd # {} THEN LET s == CHOOSE s \in simd : TRUE
                                    IN  Got(<<"simd", s.elem, s.lanes>>, p + 1)
             ELSE IF IdOf(c.ids.struct, name) # 0 THEN Got(<<"struct", IdOf(c.ids.struct, name)>>, p + 1)
             ELSE IF IdOf(c.ids.sum, name) # 0 THEN Got(<<"sum", IdOf(c.ids.sum, name)>>, p + 1)
             ELSE Error

ReadConst(c, p) ==
  LET t == Tok(c.T, p) IN
  CASE t \in {Word("true"), Word("false")} -> Got(<<"bool", t[2] = "true">>, p + 1)
    [] t \in {Word("ghosted"), Word("nullptr")} -> Got(<<t[2]>>, p + 1)
    [] t = Word("@") -> ReadNode(c, "fnref", <<"@", "FN">>, p)
    [] t[1] = "str" -> Got(<<"str", t[2]>>, p + 1)
    [] t[1] = "num" -> IF number_const(t) = <<>> THEN Error ELSE Got(number_const(t), p + 1)
    [] OTHER -> Error

ReadOperand(c, p) ==
  CASE Tok(c.T, p) = Word("move") -> ReadNode(c, "move", <<"move", "PLACE">>, p)
    [] Tok(c.T, p) = Word("%")    -> ReadNode(c, "copy", <<"PLACE">>, p)
    [] OTHER                      -> ReadNode(c, "const", <<"CONST">>, p)

ReadInit(c, p) ==
  LET variant == ReadNode(c, "variant", <<"VARIANT">>, p) IN
  IF Tok(c.T, p + 1) # Word("::") THEN ReadNode(c, "lit", <<"STRUCT", "{", "INITS}">>, p)
  ELSE IF variant.at = 0 THEN Error
  ELSE IF Tok(c.T, variant.at) = Word("(") THEN ReadNode(c, "variant", <<"VARIANT", "(", "OPS)">>, p)
  ELSE Got(Append(variant.v, <<>>), variant.at)

ReadRvalue(c, p) ==
  LET w == IF IsIdent(Tok(c.T, p)) THEN IdentText(Tok(c.T, p)) ELSE ""
      call == ReadForm(c, <<"call_extern", "@", "NAME", "(", "OPS)">>, p)
      callee == resolve_extern(c, call.v[1], call.v[2])
  IN
  CASE w \in BinOps -> ReadNode(c, "binop", <<"NAME", ".", "MODE", "(", "OP", ",", "OP", ")">>, p)
    [] w \in UnOps -> ReadNode(c, "unop", <<"NAME", "(", "OP", ")">>, p)
    [] w = "call_extern" ->
         IF call.at = 0 \/ callee = 0 THEN Error
         ELSE Got(<<"call_extern", callee, call.v[2]>>, call.at)
    [] w = "make" ->
         IF Tok(c.T, p + 2) = Word("::") THEN ReadNode(c, "make_sum", <<"make", "VARIANT", "(", "OPS)">>, p)
         ELSE ReadNode(c, "make_struct", <<"make", "STRUCT", "(", "OPS)">>, p)
    [] w = "simd" ->
         IF Tok(c.T, p + 1) # Word(".") THEN ReadNode(c, "make_simd", <<"simd", "[", "TY", "]", "(", "OPS)">>, p)
         ELSE IF Tok(c.T, p + 2) = Word("lane")
              THEN ReadNode(c, "lane", <<"simd", ".", "lane", ".", "N", "[", "TY", "]", "(", "OPS)">>, p)
         ELSE ReadNode(c, "simd", <<"simd", ".", "SIMDOP", "[", "TY", "]", "(", "OPS)">>, p)
    [] w \in DOMAIN RvalueReads -> ReadNode(c, w, RvalueReads[w], p)
    [] OTHER -> ReadNode(c, "use", <<"OP">>, p)

(* The operands of a return: none when nothing that starts an operand follows. *)
RECURSIVE ReadValues(_, _)
ReadValues(c, p) ==
  LET head == Read(c, "OP", p)
      rest == ReadValues(c, head.at + 1)
  IN  IF head.at = 0 THEN Error
      ELSE IF Tok(c.T, head.at) # Word(",") THEN Got(<<head.v>>, head.at)
      ELSE IF rest.at = 0 THEN Error ELSE Got(<<head.v>> \o rest.v, rest.at)

Read(c, item, p) ==
  LET t == Tok(c.T, p)
      name == IF IsIdent(t) THEN IdentText(t) ELSE ""
      id(names) == IF IdOf(names, name) = 0 THEN Error ELSE Got(IdOf(names, name), p + 1)
      place == ReadForm(c, <<"%", "N">>, p)
      projs == ReadProjs(c, place.at)
      sum == IdOf(c.ids.sum, name)
      variant == IF Tok(c.T, p + 1) = Word("::") /\ sum \in DOMAIN c.m.sums
                 THEN variant_index(c.m, sum, IdentText(Tok(c.T, p + 2))) ELSE 0
      payload == ReadForm(c, <<"(", "TYS)">>, p + 1)
  IN
  CASE item = "NAME" -> IF IsIdent(t) THEN Got(name, p + 1) ELSE Error
    [] item = "N"   -> IF t[1] = "num" /\ t[3] = "" /\ t[2] >= 0 THEN Got(t[2], p + 1) ELSE Error
    [] item = "STR" -> IF t[1] = "str" THEN Got(t[2], p + 1) ELSE Error
    [] item = "BB"  -> IF t[1] = "label" THEN Got(t[2], p + 1) ELSE Error
    [] item \in DOMAIN WordSets -> IF name \in WordSets[item] THEN Got(name, p + 1) ELSE Error
    [] item \in DOMAIN ListReads -> ReadList(c, ListReads[item][1], ListReads[item][2], p, <<>>)
    [] item = "FN"      -> id(c.ids.fn)
    [] item = "STRUCT"  -> id(c.ids.struct)
    [] item = "CRIB"    -> id(c.ids.crib)
    [] item = "VARIANT" -> IF variant = 0 THEN Error ELSE Got(<<sum, variant>>, p + 3)
    [] item = "TY"      -> ReadType(c, p)
    [] item = "RETS"    ->
         IF t = Word("void") THEN Got(<<>>, p + 1)
         ELSE IF t = Word("(") THEN Read(c, "TYS)", p + 1)
         ELSE LET one == ReadType(c, p) IN IF one.at = 0 THEN Error ELSE Got(<<one.v>>, one.at)
    [] item = "CONST"   -> ReadConst(c, p)
    [] item = "OP"      -> ReadOperand(c, p)
    [] item = "INIT"    -> ReadInit(c, p)
    [] item = "RVALUE"  -> ReadRvalue(c, p)
    [] item = "PLACE"   ->
         IF place.at = 0 \/ projs.at = 0 THEN Error ELSE Got(<<place.v[1], projs.v>>, projs.at)
    [] item = "VALUES"  -> IF starts_operand(t) THEN ReadValues(c, p) ELSE Got(<<>>, p)
    [] item = "ALTERNATIVE" ->
         IF ~IsIdent(t) THEN Error
         ELSE IF Tok(c.T, p + 1) # Word("(") THEN Got(<<name, <<>>>>, p + 1)
         ELSE IF payload.at = 0 THEN Error ELSE Got(<<name, payload.v[1]>>, payload.at)

ReadStatement(c, p) ==
  LET t == Tok(c.T, p)
      dest == ReadForm(c, <<"PLACE", "=">>, p)
      value == Read([c EXCEPT !.dest = place_ty(c.m, c.locals, dest.v[1])], "RVALUE", dest.at)
  IN  IF IsIdent(t) /\ IdentText(t) \in DOMAIN StmtReads
      THEN ReadNode(c, IdentText(t), StmtReads[IdentText(t)], p)
      ELSE IF dest.at = 0 \/ value.at = 0 THEN Error
      ELSE Got(<<"assign", dest.v[1], value.v>>, value.at)

RECURSIVE ReadBlock(_, _, _), ReadBody(_, _, _, _), ReadItems(_, _)

(* Statements up to the first word that starts a terminator. *)
ReadBlock(c, p, stmts) ==
  LET t == Tok(c.T, p)
      kind == IF IsIdent(t) THEN IdentText(t) ELSE ""
      term == ReadNode(c, kind, TermReads[kind], p)
      stmt == ReadStatement(c, p)
  IN  IF kind \in DOMAIN TermReads
      THEN IF term.at = 0 THEN Error ELSE Got(<<stmts, term.v>>, term.at)
      ELSE IF stmt.at = 0 THEN Error ELSE ReadBlock(c, stmt.at, Append(stmts, stmt.v))

(* let declarations and blocks, each numbered in order, up to the brace. *)
ReadBody(c, p, temps, blocks) ==
  LET let == ReadForm(c, <<"let", "%", "N", ":", "TY">>, p)
      label == ReadForm(c, <<"BB", ":">>, p)
      block == ReadBlock(c, label.at, <<>>)
  IN  IF Tok(c.T, p) = Word("}")
      THEN IF blocks = <<>> THEN Error ELSE Got(<<temps, blocks>>, p + 1)
      ELSE IF Tok(c.T, p) = Word("let")
      THEN IF let.at = 0 \/ let.v[1] # Len(c.locals) THEN Error
           ELSE ReadBody([c EXCEPT !.locals = Append(@, let.v[2])], let.at, Append(temps, let.v[2]), blocks)
      ELSE IF label.at = 0 \/ label.v[1] # Len(blocks) \/ block.at = 0 THEN Error
      ELSE ReadBody(c, block.at, temps, Append(blocks, block.v))

(* A function after its header: <<name, parameters, results>>. *)
ReadFn(c, head) ==
  LET params == [i \in DOMAIN head.v[2] |-> head.v[2][i][2]]
      body == ReadBody([c EXCEPT !.locals = params], head.at, <<>>, <<>>)
  IN  IF body.at = 0 THEN Error
      ELSE Got(<<"fn", head.v[1], params, head.v[3], body.v[1], body.v[2]>>, body.at)

Table ==
  [struct |-> "structs", sum |-> "sums", extern |-> "externs", const |-> "globals", crib |-> "cribs",
   fn |-> "funcs"]

ReadItems(c, p) ==
  LET t == Tok(c.T, p)
      kind == IF IsIdent(t) THEN IdentText(t) ELSE ""
      head == ReadForm(c, DeclReads[kind], p)
      item == IF head.at = 0 THEN Error
              ELSE IF kind = "fn" THEN ReadFn(c, head) ELSE Got(<<kind>> \o head.v, head.at)
  IN  IF p > Len(c.T) THEN Got(c.m, p)
      ELSE IF kind \notin DOMAIN DeclReads \/ item.at = 0 THEN Error
      ELSE ReadItems([c EXCEPT !.m[Table[kind]] = Append(@, item.v)], item.at)

parse(T) ==
  IF Stray \in ToSet(T) THEN Error
  ELSE ReadItems([T |-> T, ids |-> prescan(T), m |-> EmptyModule, locals |-> <<>>, dest |-> NoTy], 1)
=============================================================================
