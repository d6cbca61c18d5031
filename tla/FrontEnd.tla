------------------------------ MODULE FrontEnd ------------------------------
(***************************************************************************)
(* A developer and the front end: files are written, edited, replaced by   *)
(* what bet fmt prints of them and built with bet build, in any order.     *)
(*                                                                         *)
(* The parser, the formatter, the loader and the resolver are pure; they   *)
(* come in as constant operators, which the instances define as Parse,     *)
(* Format, LoadGraph and ResolveGraph of the modules extended here.        *)
(***************************************************************************)
EXTENDS Formatter, Meaning

CONSTANTS
  Parsed(_),       \* Parse
  Printed(_),      \* Format
  Resolved(_, _),  \* LoadGraph and ResolveGraph from the entry
  Sources,         \* what the developer may write: [files, edits]
  Inserts,         \* what the developer may add to a file
  Entry

VARIABLES
  files,           \* path -> text
  edits,           \* edits the developer still makes
  last             \* what the last command, if any since the last edit, said
vars == <<files, edits, last>>

Silent == [cmd |-> "none"]

Init == files = <<>> /\ edits = 0 /\ last = Silent

Write ==
  /\ files = <<>>
  /\ \E s \in Sources : files' = s.files /\ edits' = s.edits
  /\ UNCHANGED last

Insert(p, gap, lexemes) ==
  /\ edits > 0
  /\ gap > 0 => files[p][gap] \notin LineComments
  /\ files' = [files EXCEPT ![p] = SubSeq(@, 1, gap) \o lexemes \o SubSeq(@, gap + 1, Len(@))]
  /\ edits' = edits - 1
  /\ last' = Silent

(* bet fmt prints the canonical form, which the developer puts in the file's place. *)
Fmt(p) ==
  LET tree == Parsed(files[p]) IN
  /\ tree.at # 0
  /\ last' = [cmd |-> "fmt", src |-> files[p], items |-> tree.v, out |-> Printed(files[p])]
  /\ files' = [files EXCEPT ![p] = last'.out]
  /\ UNCHANGED edits

(* bet build, of the entry given as a relative or as an absolute path. *)
Build(base) ==
  /\ Entry \in DOMAIN files
  /\ last' = [cmd |-> "build", base |-> base] @@ Resolved(files, base)
  /\ UNCHANGED <<files, edits>>

Next ==
  \/ Write
  \/ \E p \in DOMAIN files :
       \/ \E gap \in 0..Len(files[p]), lexemes \in Inserts : Insert(p, gap, lexemes)
       \/ Fmt(p)
  \/ \E base \in {"relative", "absolute"} : Build(base)

Spec == Init /\ [][Next]_vars

(***************************************************************************)
(* What printing loses.  A cop and the crib of a trust are printed as if   *)
(* they were atoms, but what follows them is read as part of their crib; a *)
(* called field is read as a method, and a called element as a call with   *)
(* type arguments; a cop of a generic struct in a header loses its braces; *)
(* an infinite float is printed as a name.                                 *)
(***************************************************************************)
IsPostfix(e) == e.k \in {"Field", "Method", "Call", "Index", "Trust"}

RECURSIVE EndsInCop(_)
EndsInCop(e) == e.k = "Cop" \/ (e.k = "Trust" /\ EndsInCop(e.es[2]))

ReadAsGeneric(e) ==
  e.k = "Index" /\ e.es[1].k \in {"Name", "Field"} /\ e.es[1].ts = <<>>

LostHere(e, noStruct) ==
  \/ e.k = "Literal" /\ e.name = <<"Float", "inf">>
  \/ IsPostfix(e) /\ EndsInCop(e.es[1])
  \/ e.k = "Trust" /\ IsPostfix(e.es[2])
  \/ e.k = "Call" /\ (e.es[1].k = "Field" \/ ReadAsGeneric(e.es[1]))
  \/ e.k = "Cop" /\ noStruct /\ e.es[1].k = "Struct" /\ e.es[1].ts # <<>>

(* Whether operand i of e, an expression of a header, is printed without parentheses. *)
Unbracketed(e, i) ==
  CASE e.k = "Unary"  -> ExprPrec(e.es[1]) >= PREC_UNARY
    [] e.k = "Cast"   -> ExprPrec(e.es[1]) >= PREC_CAST
    [] e.k = "Binary" -> ExprPrec(e.es[i]) >= BinopPrec(e.words[1]) + i - 1
    [] IsPostfix(e)   -> (i = 1 \/ e.k = "Trust") /\ ExprPrec(e.es[i]) = PREC_POSTFIX
    [] e.k = "Cop"    -> i = 2 /\ ExprPrec(e.es[2]) = PREC_POSTFIX
    [] OTHER -> FALSE

RECURSIVE LostExpr(_, _), LostStmt(_)
LostExpr(e, noStruct) ==
  \/ LostHere(e, noStruct)
  \/ \E i \in DOMAIN e.es : LostExpr(e.es[i], noStruct /\ Unbracketed(e, i))

InHeader(s, i) == s.k \in {"Fr", "Vibin", "Squad", "Vibe"} \/ (s.k = "Holla" /\ i = 2)
LostStmt(s) ==
  \/ \E i \in DOMAIN s.es : LostExpr(s.es[i], InHeader(s, i))
  \/ \E i \in DOMAIN s.vs : LostExpr(s.vs[i], FALSE)
  \/ \E b \in ToSet(s.bs) : \E t \in ToSet(b.stmts) : LostStmt(t)

Lost(items) ==
  \E it \in ToSet(items) :
    \/ \E e \in ToSet(it.es) : LostExpr(e, FALSE)
    \/ \E b \in ToSet(it.body) : \E s \in ToSet(b.stmts) : LostStmt(s)

(* Texts in which the two readings of comments, the scan's and the formatter's, agree. *)
StarFree(text) == \A i \in DOMAIN text : text[i] \notin StarComments

CommentText(text) == LET at == CommentsAt(text) IN [i \in DOMAIN at |-> text[at[i]]]

(***************************************************************************)
(* Formatting.                                                             *)
(***************************************************************************)

(* The output of bet fmt parses to the tree of its input, wherever comments and   *)
(* line breaks stand, exactly when the tree has no lost shape: the parentheses    *)
(* expr_prec and operand insert are enough everywhere else, in headers too.       *)
PrintingKeepsTree ==
  last.cmd = "fmt" /\ StarFree(last.src) =>
    LET again == Parsed(last.out)
    IN  (again.at # 0 /\ Bare(again.v) = Bare(last.items)) <=> ~ Lost(last.items)

(* Formatting the output again changes nothing, comments included, so             *)
(* bet fmt --check accepts what bet fmt wrote.                                    *)
FixedPoint ==
  last.cmd = "fmt" /\ StarFree(last.src) /\ ~ Lost(last.items) =>
    Printed(last.out) = last.out

(* The comments of the output are those of the input, in the same order, even     *)
(* one that stands where the printer has no place for it.                         *)
NoCommentDropped ==
  last.cmd = "fmt" => CommentText(last.out) = CommentText(last.src)

(* What the formatter's module comment says of every program: the output          *)
(* re-parses to the same tree.  The lost shapes refute it.                        *)
OutputReparses ==
  last.cmd = "fmt" /\ StarFree(last.src) =>
    LET again == Parsed(last.out) IN again.at # 0 /\ Bare(again.v) = Bare(last.items)

(***************************************************************************)
(* Builds.                                                                 *)
(***************************************************************************)
Pathed(p) == IF last.base = "absolute" THEN Cwd \o p ELSE p

(* The pulls of every file that is there, by path. *)
PullsByPath ==
  LET trees == [p \in DOMAIN files |-> Parsed(files[p])]
  IN  [q \in {Pathed(p) : p \in DOMAIN files} |->
         [ok    |-> trees[FileOf(last.base, q)].at # 0,
          pulls |-> Pulls(trees[FileOf(last.base, q)].v)]]

(* A build succeeds exactly when every file the entry reaches is there, parses,   *)
(* stays inside the project, binds each namespace once and is on no cycle; it     *)
(* then holds each of them once, after the files it pulls and before the entry,   *)
(* and each namespace leads to the file its pull names, whatever the spelling.    *)
BuildReadsEachFileOnce ==
  last.cmd = "build" =>
    LET read   == PullsByPath
        pulled == [q \in DOMAIN read |-> {Target(q, x) : x \in ToSet(read[q].pulls)}]
        reach  == Reach(pulled, Pathed(Entry))
        names(q) == [i \in DOMAIN read[q].pulls |-> BoundName(read[q].pulls[i])]
        sound(q) == /\ Confined(last.base, q)
                    /\ q \in DOMAIN read
                    /\ read[q].ok
                    /\ ~ InCycle(pulled, q)
                    /\ IsInjective(names(q)) /\ ToSet(names(q)) \cap BuiltinModules = {}
        ms     == last.graph.modules
    IN  /\ last.graph.error = "" <=> \A q \in reach : sound(q)
        /\ last.graph.error = "" =>
             /\ {ms[i].path : i \in DOMAIN ms} = reach
             /\ Len(ms) = Cardinality(reach)
             /\ Last(ms).path = Pathed(Entry)
             /\ \A i \in DOMAIN ms : \A m \in ToSet(ms[i].imports) :
                  /\ m.target < i
                  /\ \E x \in ToSet(Pulls(ms[i].program)) :
                       BoundName(x) = m.name /\ Target(ms[i].path, x) = ms[m.target].path

Own(g, i) == SelectSeq(g.modules[i].program, NotPull)
Spaces(g, i) == {m.name : m \in ToSet(g.modules[i].imports)}

(* A use the merged program reads otherwise than the file: a method of a pulled   *)
(* file, whose declaration is renamed and whose calls are not; a type whose name  *)
(* a later variant or function of its pulled file also has; and a name a pulled   *)
(* file does not declare but the root does.                                       *)
Misread(g, i, use) ==
  LET n == Last(use.name)
      own == SelectSeq(Decls(g.modules[i].program), LAMBDA d : d.name = n)
      pulled(j) == j < Len(g.modules)
  IN  \/ use.at = "method" /\ \E j \in MethodsNamed(g, n) : pulled(j)
      \/ /\ use.at = "type" /\ Len(use.name) = 1 /\ ~ use.local /\ pulled(i)
         /\ own # <<>> /\ Last(own).kind \notin TypeKinds
         /\ \E d \in ToSet(own) : d.kind \in TypeKinds
      \/ /\ pulled(i) /\ Denotes(g, i, use) = Nothing
         /\ \E d \in ToSet(Decls(Last(g.modules).program)) : d.name = n /\ Fits(use.at, d.kind)

(* Every name of every file denotes in the merged program what it denotes in its  *)
(* file under lexical scope, through renaming, aliases, shadowing and generics,   *)
(* except the misread uses, all of which change their meaning.                    *)
NamesKeepMeaning ==
  last.cmd = "build" /\ last.graph.error = "" =>
    LET g == last.graph IN
    \A i \in DOMAIN g.modules :
      LET was == Uses(Spaces(g, i), Own(g, i))
          now == Uses({}, last.parts[i])
      IN  /\ Len(was) = Len(now)
          /\ \A k \in DOMAIN was :
               now[k].name # <<BadName>> =>
                 (Denotes(g, i, was[k]) = DenotesMerged(g, last.parts, now[k])
                    <=> ~ Misread(g, i, was[k]))
=============================================================================
