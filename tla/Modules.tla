------------------------------- MODULE Modules -------------------------------
(***************************************************************************)
(* From an entry file to one merged program: the loader, which walks the   *)
(* pull imports depth first (frontend/src/loader.rs), and the resolver,    *)
(* which renames every declaration of a pulled file to a name unique to    *)
(* its file and rewrites every reference to match (frontend/src/resolve.rs)*)
(*                                                                         *)
(* A path is the sequence of its directories and its file's stem.  Files   *)
(* maps a path to a text, and a path with no file is outside its domain.   *)
(***************************************************************************)
EXTENDS Parser

CONSTANTS
  Cwd,              \* the working directory, an absolute path
  BuiltinModules    \* the namespaces that are not files

(* The path a pull writes, as the path segments of its string. *)
Segments(module) ==
  CASE module = "lib/a" -> <<"lib", "a">>
    [] module = "lib/../a" -> <<"lib", "..", "a">>
    [] module = "../b"  -> <<"..", "b">>
    [] OTHER -> <<module>>

Clamp(path, segment) ==
  CASE segment # ".."  -> Append(path, segment)
    [] segment = ".." /\ path = <<>> -> <<>>
    [] OTHER -> Front(path)

(* . and .. worked out without the file system; a .. at the top is dropped. *)
Normalize(path) == FoldLeft(Clamp, <<>>, path)

(* The entry, and with it every path, is relative to the working directory or absolute. *)
Confined(base, path) == IsPrefix(Cwd, IF base = "absolute" THEN path ELSE Cwd \o path)
FileOf(base, path) == IF base = "absolute" THEN SubSeq(path, Len(Cwd) + 1, Len(path)) ELSE path

(***************************************************************************)
(* The loader.  g is the modules finished so far, the stack of files being *)
(* loaded and the error that ended it, "" while there is none.             *)
(***************************************************************************)
Pulls(program) == SelectSeq(program, LAMBDA it : it.k = "Pull" /\ it.names[1] \notin BuiltinModules)
BoundName(pull) == Last(IF Len(pull.names) = 2 THEN pull.names ELSE Segments(pull.names[1]))
Target(path, pull) == Normalize(Front(path) \o Segments(pull.names[1]))

Failed(g, error) == [g EXCEPT !.error = error]
IndexOf(g, path) == CHOOSE i \in DOMAIN g.modules : g.modules[i].path = path
(* mutant: a file pulled from two places is loaded twice *)
Loaded_mutant(g, path) == FALSE

Loaded(g, path) == \E i \in DOMAIN g.modules : g.modules[i].path = path

RECURSIVE LoadFile(_, _, _, _), LoadImports(_, _, _, _, _, _)
LoadFile(files, base, path, g) ==
  LET file == FileOf(base, path)
      tree == Parse(files[file])
      open == [g EXCEPT !.stack = Append(@, path)]
      done == LoadImports(files, base, path, Pulls(tree.v), <<>>, open)
  IN  CASE Loaded(g, path) -> g
        [] ~ Loaded(g, path) /\ path \in ToSet(g.stack) -> Failed(g, "cycle")
        [] OTHER ->
             IF file \notin DOMAIN files THEN Failed(g, "missing")
             ELSE IF tree.at = 0 THEN Failed(g, "parse")
             ELSE IF done.g.error # "" THEN done.g
             ELSE [done.g EXCEPT
                     !.stack   = Front(@),
                     !.modules = Append(@, [path |-> path, program |-> tree.v,
                                            imports |-> done.imports])]

LoadImports(files, base, path, pulls, imports, g) ==
  LET name   == BoundName(pulls[1])
      target == Target(path, pulls[1])
      after  == LoadFile(files, base, target, g)
      stop(error) == [imports |-> imports, g |-> Failed(g, error)]
  IN  CASE g.error # "" \/ pulls = <<>> -> [imports |-> imports, g |-> g]
        [] g.error = "" /\ pulls # <<>> ->
             IF name \in BuiltinModules THEN stop("builtin")
             ELSE IF \E i \in DOMAIN imports : imports[i].name = name THEN stop("twice")
             ELSE IF ~ Confined(base, target) THEN stop("escapes")
             ELSE IF after.error # "" THEN [imports |-> imports, g |-> after]
             ELSE LoadImports(files, base, path, Tail(pulls),
                              Append(imports, [name |-> name, target |-> IndexOf(after, target)]),
                              after)

(* The graph of an entry: its modules, each before the files that pull it. *)
LoadGraph(files, base, entry) ==
  LoadFile(files, base, Normalize(IF base = "absolute" THEN Cwd \o entry ELSE entry),
           [modules |-> <<>>, stack |-> <<>>, error |-> ""])

(***************************************************************************)
(* The resolver.  A module's table gives, for each name it declares, the   *)
(* kind and visibility of the last declaration and the mangled name.       *)
(***************************************************************************)
DeclsOf(it) ==
  LET one(k, name) == [name |-> name, kind |-> k, vis |-> it.vis] IN
  CASE it.k = "Func"  -> <<one("func", it.names[1])>>
    [] it.k = "Drip"  -> <<one("struct", it.names[1])>>
    [] it.k = "Moods" -> <<one("sum", it.names[1])>>
                           \o [i \in DOMAIN it.members |-> one("variant", it.members[i].name)]
    [] it.k \in {"Const", "Var", "Crib"} -> [i \in DOMAIN it.names |-> one("value", it.names[i])]
    [] OTHER -> <<>>

Decls(program) == FlattenSeq([i \in DOMAIN program |-> DeclsOf(program[i])])

Prefix(g, i) ==
  IF i = Len(g.modules) THEN "" ELSE Last(g.modules[i].path) \o "$" \o ToString(i - 1) \o "$"

Table(program) ==
  LET d == Decls(program)
  IN  [name \in {d[i].name : i \in DOMAIN d} |->
         d[CHOOSE i \in DOMAIN d : d[i].name = name /\ \A j \in (i + 1)..Len(d) : d[j].name # name]]

(* What the resolver of module i knows: r.locals is every local name in scope. *)
ResolverOf(g, i) ==
  [imports |-> g.modules[i].imports, own |-> i, locals |-> {}, params |-> {},
   prefixes |-> [j \in DOMAIN g.modules |-> Prefix(g, j)],
   tables   |-> [j \in DOMAIN g.modules |-> Table(g.modules[j].program)]]

Bind(r, names) == [r EXCEPT !.locals = @ \cup ToSet(names)]
Mangle(r, i, name) == r.prefixes[i] \o name
OwnMangle(r, name) == IF name \in DOMAIN r.tables[r.own] THEN Mangle(r, r.own, name) ELSE name

BadName == "?"           \* stands for the error a reference ends in
ImportOf(r, ns) == {r.imports[i].target : i \in {j \in DOMAIN r.imports : r.imports[j].name = ns}}

LookupFlex(r, target, member) ==
  IF member \in DOMAIN r.tables[target] /\ r.tables[target][member].vis = "flex"
  THEN Mangle(r, target, member) ELSE BadName

ResolveNamed(r, name, wantType) ==
  LET own == r.tables[r.own] IN
  CASE Len(name) = 2 -> IF ImportOf(r, name[1]) = {} THEN BadName
                        ELSE LookupFlex(r, CHOOSE t \in ImportOf(r, name[1]) : TRUE, name[2])
    [] OTHER -> IF /\ name[1] \notin r.params
                   /\ name[1] \in DOMAIN own
                   /\ wantType => own[name[1]].kind \in {"struct", "sum"}
                THEN Mangle(r, r.own, name[1]) ELSE name[1]

(* mutant: a local does not hide a namespace of its name *)
IsNamespace_mutant(r, e) == e.k = "Name" /\ e.ts = <<>> /\ ImportOf(r, e.name[1]) # {}

IsNamespace(r, e) ==
  e.k = "Name" /\ e.ts = <<>> /\ e.name[1] \notin r.locals /\ ImportOf(r, e.name[1]) # {}

RECURSIVE ResolveType(_, _), ResolveExpr(_, _), ResolveStmts(_, _, _)
ResolveTypes(r, types) == [i \in DOMAIN types |-> ResolveType(r, types[i])]
ResolveType(r, ty) ==
  [ty EXCEPT !.name  = IF ty.k = "Named" /\ @ # <<"rawptr">> THEN <<ResolveNamed(r, @, TRUE)>> ELSE @,
             !.inner = ResolveTypes(r, @)]

ResolveExprs(r, es) == [i \in DOMAIN es |-> ResolveExpr(r, es[i])]

(* ns.member: the mangled name of the export, in place of the namespace and member. *)
Export(r, e) ==
  Node("Name", <<LookupFlex(r, CHOOSE t \in ImportOf(r, e.es[1].name[1]) : TRUE, e.words[1])>>,
       <<>>, ResolveTypes(r, e.ts), <<>>)

ResolveExpr(r, e) ==
  CASE e.k = "Method" /\ IsNamespace(r, e.es[1]) ->
         Node("Call", <<>>, Tail(e.words), <<>>, <<Export(r, e)>> \o ResolveExprs(r, Tail(e.es)))
    [] e.k = "Field" /\ IsNamespace(r, e.es[1]) -> Export(r, e)
    [] OTHER ->
         [e EXCEPT
            !.name = CASE e.k = "Name" -> IF @[1] \in r.locals THEN @ ELSE <<ResolveNamed(r, @, FALSE)>>
                       [] e.k = "Struct"  -> <<ResolveNamed(r, @, TRUE)>>
                       [] e.k = "Variant" -> <<ResolveNamed(r, @, FALSE)>>
                       [] OTHER -> @,
            !.ts = ResolveTypes(r, @),
            !.es = ResolveExprs(r, @)]

ResolveBlock(r, b, binds) == [b EXCEPT !.stmts = ResolveStmts(Bind(r, binds), @, 1)]

(* The blocks of a statement, each with the names its construct binds in it. *)
BlockBinds(s, i) ==
  CASE s.k = "Squad" -> s.names
    [] s.k = "Holla" /\ i = 1 -> s.names
    [] s.k = "Sheesh" /\ i = 2 -> s.names
    [] s.k = "Vibe" -> s.bs[i].binds
    [] OTHER -> <<>>

ResolveArm(r, s, b) ==
  IF s.k = "Vibe" /\ b.variant # <<"naw">>
  THEN [b EXCEPT !.variant = <<ResolveNamed(r, @, FALSE)>>] ELSE b

ResolveStmt(r, s) ==
  [s EXCEPT !.ts = ResolveTypes(r, @), !.es = ResolveExprs(r, @), !.vs = ResolveExprs(r, @),
            !.bs = [i \in DOMAIN @ |-> ResolveArm(r, s, ResolveBlock(r, @[i], BlockBinds(s, i)))]]

Declares(s) == IF s.k \in {"Var", "Const", "Crib"} THEN s.names ELSE <<>>
ResolveStmts(r, stmts, i) ==
  IF i > Len(stmts) THEN <<>>
  ELSE <<ResolveStmt(r, stmts[i])>> \o ResolveStmts(Bind(r, Declares(stmts[i])), stmts, i + 1)

MemberNames(members) == [i \in DOMAIN members |-> members[i].name]
ResolveMembers(r, members) == [i \in DOMAIN members |-> [members[i] EXCEPT !.ts = ResolveTypes(r, @)]]
MangleAll(r, names) == [i \in DOMAIN names |-> OwnMangle(r, names[i])]

ResolveItem(r0, it) ==
  LET r    == [r0 EXCEPT !.params = ToSet(it.gs)]
      body == Bind(r, MemberNames(it.recv) \o MemberNames(it.members))
  IN  [it EXCEPT
         !.names   = IF it.k = "Extern" THEN @ ELSE MangleAll(r, @),
         !.recv    = ResolveMembers(r, @),
         !.members = LET m == ResolveMembers(r, @) IN
                     IF it.k # "Moods" THEN m
                     ELSE [i \in DOMAIN m |-> [m[i] EXCEPT !.name = OwnMangle(r, @)]],
         !.ts      = ResolveTypes(r, @),
         !.es      = ResolveExprs(r, @),
         !.body    = [i \in DOMAIN @ |-> ResolveBlock(body, @[i], <<>>)]]

NotPull(it) == it.k # "Pull"
ResolveModule(g, i) ==
  LET items == SelectSeq(g.modules[i].program, NotPull)
  IN  [j \in DOMAIN items |-> ResolveItem(ResolverOf(g, i), items[j])]

(* The items of the merged program file by file: dependencies first, the root last. *)
ResolveGraph(g) == [i \in DOMAIN g.modules |-> ResolveModule(g, i)]
=============================================================================
