------------------------------- MODULE Meaning -------------------------------
(***************************************************************************)
(* What a reader of the source expects of the loader and the resolver, in  *)
(* terms of the files and of lexical scope alone: which files a build      *)
(* reads, and which declaration each name in them denotes.                 *)
(***************************************************************************)
EXTENDS Modules

(***************************************************************************)
(* Which files a build reads: those its entry pulls, directly or not.      *)
(***************************************************************************)
Reach(pulled, entry) ==
  LET grow[n \in Nat] == IF n = 0 THEN {entry}
                         ELSE grow[n - 1] \cup UNION {pulled[p] : p \in grow[n - 1] \cap DOMAIN pulled}
  IN  grow[Cardinality(DOMAIN pulled) + 1]

InCycle(pulled, p) == \E q \in pulled[p] : p \in Reach(pulled, q)

(***************************************************************************)
(* The uses of names in a program, in the order they are written.  S holds *)
(* the namespaces of the file, the local names and the type parameters.    *)
(***************************************************************************)
Use(S, at, name) == <<[at |-> at, name |-> name, local |-> name[1] \in
                       (IF at = "value" THEN S.locals ELSE IF at = "type" THEN S.params ELSE {})]>>

RECURSIVE TypeUses(_, _), ExprUses(_, _), StmtUses(_, _, _)
TypesUses(S, types) == FlattenSeq([i \in DOMAIN types |-> TypeUses(S, types[i])])
TypeUses(S, ty) ==
  (IF ty.k = "Named" /\ ty.name # <<"rawptr">> THEN Use(S, "type", ty.name) ELSE <<>>)
    \o TypesUses(S, ty.inner)

Qualified(S, e) ==
  e.k \in {"Method", "Field"} /\ e.es[1].k = "Name" /\ e.es[1].ts = <<>>
    /\ e.es[1].name[1] \in S.spaces \ S.locals

HeadUse(S, e) ==
  CASE Qualified(S, e)   -> Use([S EXCEPT !.locals = {}], "value", e.es[1].name \o <<e.words[1]>>)
    [] e.k = "Name"      -> Use(S, "value", e.name)
    [] e.k = "Struct"    -> Use(S, "type", e.name)
    [] e.k = "Variant"   -> Use(S, "variant", e.name)
    [] e.k = "Method" /\ ~ Qualified(S, e) -> Use(S, "method", <<e.words[1]>>)
    [] OTHER -> <<>>

ExprsUses(S, es) == FlattenSeq([i \in DOMAIN es |-> ExprUses(S, es[i])])
ExprUses(S, e) ==
  HeadUse(S, e) \o TypesUses(S, e.ts) \o ExprsUses(S, IF Qualified(S, e) THEN Tail(e.es) ELSE e.es)

With(S, names) == [S EXCEPT !.locals = @ \cup ToSet(names)]
BlockUses(S, s, i) ==
  (IF s.k = "Vibe" /\ s.bs[i].variant # <<"naw">> THEN Use(S, "variant", s.bs[i].variant) ELSE <<>>)
    \o StmtUses(With(S, BlockBinds(s, i)), s.bs[i].stmts, 1)

StmtUses(S, stmts, i) ==
  LET s == stmts[i] IN
  IF i > Len(stmts) THEN <<>>
  ELSE TypesUses(S, s.ts) \o ExprsUses(S, s.es) \o ExprsUses(S, s.vs)
         \o FlattenSeq([b \in DOMAIN s.bs |-> BlockUses(S, s, b)])
         \o StmtUses(With(S, Declares(s)), stmts, i + 1)

MembersUses(S, members) == FlattenSeq([i \in DOMAIN members |-> TypesUses(S, members[i].ts)])
ItemUses(spaces, it) ==
  LET S == [spaces |-> spaces, locals |-> {}, params |-> ToSet(it.gs)]
      inner == With(S, MemberNames(it.recv) \o MemberNames(it.members))
  IN  MembersUses(S, it.recv) \o MembersUses(S, it.members) \o TypesUses(S, it.ts)
        \o ExprsUses(S, it.es)
        \o FlattenSeq([i \in DOMAIN it.body |-> StmtUses(inner, it.body[i].stmts, 1)])

Uses(spaces, items) == FlattenSeq([i \in DOMAIN items |-> ItemUses(spaces, items[i])])

(***************************************************************************)
(* What a use denotes, to a reader of file i of the graph and to the       *)
(* compiler that reads the merged program: a local, an item of a file, a   *)
(* foreign function, or nothing that is declared.                          *)
(***************************************************************************)
TypeKinds == {"struct", "sum"}
Fits(at, kind) == at = "type" => kind \in TypeKinds
Local == <<"local">>
Nothing == <<"nothing">>

Externs(g) == {it.names[2] : it \in UNION {
                 {x \in ToSet(g.modules[i].program) : x.k = "Extern"} : i \in DOMAIN g.modules}}

MethodsNamed(g, name) ==
  {i \in DOMAIN g.modules : \E x \in ToSet(g.modules[i].program) : x.recv # <<>> /\ x.names = <<name>>}

Denotes(g, i, use) ==
  LET n == Last(use.name)
      named(j) == \E d \in ToSet(Decls(g.modules[j].program)) : d.name = n /\ Fits(use.at, d.kind)
  IN  CASE use.at = "method" -> <<"methods", MethodsNamed(g, n), n>>
        [] use.at # "method" /\ use.local -> Local
        [] use.at # "method" /\ ~ use.local /\ Len(use.name) = 2 ->
             <<"item", CHOOSE j \in {m.target : m \in ToSet(g.modules[i].imports)} :
                         \E m \in ToSet(g.modules[i].imports) :
                           m.name = use.name[1] /\ m.target = j, n>>
        [] OTHER -> IF named(i) THEN <<"item", i, n>>
                    ELSE IF use.at = "value" /\ n \in Externs(g) THEN <<"extern", n>> ELSE Nothing

(* The declarations of the merged program, each with the file and name it came from; *)
(* parts is its items file by file.                                                  *)
Origins(g, parts) ==
  UNION {LET was == Decls(g.modules[i].program)
             now == Decls(parts[i])
         IN  {[now |-> now[j].name, kind |-> now[j].kind, file |-> i, name |-> was[j].name] :
                j \in DOMAIN now} : i \in DOMAIN parts}

DenotesMerged(g, parts, use) ==
  LET n == use.name[1]
      hits == {o \in Origins(g, parts) : o.now = n /\ Fits(use.at, o.kind)}
      item == CHOOSE o \in hits : TRUE
  IN  CASE use.at = "method" ->
             <<"methods", {i \in DOMAIN parts : \E x \in ToSet(parts[i]) :
                             x.recv # <<>> /\ x.names = <<n>>}, n>>
        [] use.at # "method" /\ use.local -> Local
        [] OTHER -> IF hits # {} THEN <<"item", item.file, item.name>>
                    ELSE IF use.at = "value" /\ n \in Externs(g) THEN <<"extern", n>> ELSE Nothing
=============================================================================
