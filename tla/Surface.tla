------------------------------ MODULE Surface ------------------------------
(***************************************************************************)
(* Source text, tokens and syntax trees of bet, as the lexer, the parser   *)
(* and the formatter see them (frontend/src/lexer.rs, ast.rs).             *)
(*                                                                         *)
(* A text is a sequence of lexemes: keywords, punctuation, names,          *)
(* literals, comments and "\n".  Spaces and indentation are left out; the  *)
(* position of a lexeme stands for its byte offset.  Line breaks are kept  *)
(* because automatic statement termination and the placement of comments   *)
(* depend on them.                                                         *)
(***************************************************************************)
EXTENDS Naturals, Sequences, FiniteSets, SequencesExt, TLC

(***************************************************************************)
(* Lexemes.                                                                *)
(***************************************************************************)
Keywords ==
  {"finna", "bet", "lowkey", "facts", "drip", "moods", "pull", "extern",
   "fr", "naw", "vibin", "squad", "dip", "skip", "vibe", "slide", "yeet",
   "sheesh", "bounce", "flex", "hush", "crib", "soa", "cop", "evict", "tag",
   "holla", "trust", "in", "as"}

BinaryOps(level) ==
  CASE level = 1 -> {"||"}
    [] level = 2 -> {"&&"}
    [] level = 3 -> {"==", "!=", "<", "<=", ">", ">="}
    [] level = 4 -> {"|"}
    [] level = 5 -> {"^"}
    [] level = 6 -> {"&"}
    [] level = 7 -> {"<<", ">>"}
    [] level = 8 -> {"+", "-"}
    [] level = 9 -> {"*", "/", "%"}

UnaryOps == {"-", "!", "~"}
AssignOps == {"=", "+=", "-=", "*=", "/=", "%=", "&=", "|=", "^=", "<<=", ">>="}

Punctuation ==
  {"->", ".", ",", ":", ";", "[", "]", "(", ")", "{", "}", "\n"}
    \cup UnaryOps \cup AssignOps \cup UNION {BinaryOps(l) : l \in 1..9}

(***************************************************************************)
(* The literals of the instances, each with what the lexer decodes it to:  *)
(* digits in any base become a value, an escape becomes the character, and *)
(* an exponent past the range of f64 becomes infinity.                     *)
(***************************************************************************)
Strings ==
  [lexeme \in {"\"s\"", "\"\\x73\"", "\"a\"", "\"b\"", "\"lib/a\"", "\"spill\""} |->
     CASE lexeme \in {"\"s\"", "\"\\x73\""} -> "s"
       [] lexeme = "\"a\""     -> "a"
       [] lexeme = "\"b\""     -> "b"
       [] lexeme = "\"lib/a\"" -> "lib/a"
       [] lexeme = "\"spill\"" -> "spill"]

Literals ==
  [lexeme \in {"0", "1", "2", "0x2", "1.5", "1e999", "nocap", "cap", "ghosted"} |->
     CASE lexeme \in {"0", "1", "2"} -> <<"Int", lexeme>>
       [] lexeme = "0x2"             -> <<"Int", "2">>
       [] lexeme = "1.5"             -> <<"Float", "1.5">>
       [] lexeme = "1e999"           -> <<"Float", "inf">>
       [] OTHER                      -> <<"Word", lexeme>>]
  @@ [lexeme \in DOMAIN Strings |-> <<"Str", Strings[lexeme]>>]

LineComments  == {"//1", "//2"}
BlockComments == {"/*1*/", "/*2*/", "/*\n*/"}

(* The scan's pattern takes stars in pairs, so a comment that ends in an even   *)
(* run of them does not end there: it runs on to the end of a later comment.    *)
(* The formatter's own scan of the gaps ends it at the first star and slash.    *)
StarComments  == {"/*1**/"}

IsComment(lexeme) == lexeme \in LineComments \cup BlockComments \cup StarComments

IsIdent(lexeme) ==
  /\ lexeme \notin Keywords \cup Punctuation \cup StarComments \cup DOMAIN Literals
  /\ lexeme # "eof"

(***************************************************************************)
(* Tokens: what the scan skips leaves the stream, and a line break becomes *)
(* a statement terminator when the token before it can end a statement and *)
(* vanishes otherwise.  Positions in what the scan skips that do not start *)
(* a comment are passed over by the comment scan.                          *)
(***************************************************************************)
EndsStatement(lexeme) ==
  \/ IsIdent(lexeme)
  \/ lexeme \in DOMAIN Literals
  \/ lexeme \in {")", "]", "}", "bet", "dip", "skip", "bounce"}

(* The positions from a comment at i to its end, empty where it never ends. *)
CommentSpan(text, i) ==
  LET ends == {j \in i..Len(text) : text[j] \in BlockComments}
  IN  CASE text[i] \in LineComments \cup BlockComments -> {i}
        [] text[i] \in StarComments /\ ends # {} -> i..(CHOOSE j \in ends : \A k \in ends : j <= k)
        [] OTHER -> {}

RECURSIVE SkippedFrom(_, _)
SkippedFrom(text, i) ==
  IF i > Len(text) THEN {}
  ELSE IF CommentSpan(text, i) = {} THEN SkippedFrom(text, i + 1)
  ELSE CommentSpan(text, i)
         \cup SkippedFrom(text, 1 + CHOOSE j \in CommentSpan(text, i) : j + 1 \notin CommentSpan(text, i))
Skipped(text) == SkippedFrom(text, 1)

CommentsAt(text) ==
  LET skipped == Skipped(text)
  IN  SelectSeq([i \in 1..Len(text) |-> i], LAMBDA i : i \in skipped /\ IsComment(text[i]))

Tokenize(text) ==
  LET skipped == Skipped(text)
      raw == SelectSeq([i \in 1..Len(text) |-> i], LAMBDA i : i \notin skipped)
      token(j) ==
        [tok |-> IF text[raw[j]] = "\n"
                 THEN IF j > 1 /\ EndsStatement(text[raw[j - 1]]) THEN ";" ELSE ""
                 ELSE text[raw[j]],
         lo |-> raw[j], hi |-> raw[j] + 1]
  IN  SelectSeq([j \in 1..Len(raw) |-> token(j)], LAMBDA t : t.tok # "")

(***************************************************************************)
(* Syntax trees.  Every expression is one record shape: its kind, the name *)
(* or literal at its head, its other words (operator, member, labels of    *)
(* the arguments or fields), its types and its operands.                   *)
(***************************************************************************)
Node(k, name, words, types, exprs) ==
  [k |-> k, name |-> name, words |-> words, ts |-> types, es |-> exprs]

TypeNode(k, name, inner) == [k |-> k, name |-> name, inner |-> inner]

(***************************************************************************)
(* Every statement is one record shape too: the names it binds, its types, *)
(* its expressions, the values of an assignment or a binding, and its      *)
(* blocks.  A block is a sequence of statements with the span of its       *)
(* braces; an arm of a match is a block with a pattern.                    *)
(***************************************************************************)
StmtNode(k, names, types, exprs, values, blocks, lo, hi) ==
  [k |-> k, names |-> names, ts |-> types, es |-> exprs, vs |-> values,
   bs |-> blocks, lo |-> lo, hi |-> hi]

BlockNode(variant, binds, stmts, lo, hi) ==
  [variant |-> variant, binds |-> binds, stmts |-> stmts, lo |-> lo, hi |-> hi]

(***************************************************************************)
(* A parameter, a field or a variant, and a top-level item.  vis is "flex",*)
(* "hush" or "" where neither is written.                                  *)
(***************************************************************************)
Member(vis, name, types, lo, hi) ==
  [vis |-> vis, name |-> name, ts |-> types, lo |-> lo, hi |-> hi]

ItemNode(k, vis, names, generics, receiver, members, types, exprs, body, lo, hi) ==
  [k |-> k, vis |-> vis, names |-> names, gs |-> generics, recv |-> receiver,
   members |-> members, ts |-> types, es |-> exprs, body |-> body,
   lo |-> lo, hi |-> hi]

(***************************************************************************)
(* A tree without its spans: what "the same tree" means.                   *)
(***************************************************************************)
RECURSIVE BareBlock(_)
BareStmt(s) ==
  [s EXCEPT !.lo = 0, !.hi = 0,
            !.bs = [i \in 1..Len(s.bs) |-> BareBlock(s.bs[i])]]
BareBlock(b) ==
  [b EXCEPT !.lo = 0, !.hi = 0,
            !.stmts = [i \in 1..Len(b.stmts) |-> BareStmt(b.stmts[i])]]
BareMember(m) == [m EXCEPT !.lo = 0, !.hi = 0]
BareItem(it) ==
  [it EXCEPT !.lo = 0, !.hi = 0,
             !.recv    = [i \in 1..Len(it.recv) |-> BareMember(it.recv[i])],
             !.members = [i \in 1..Len(it.members) |-> BareMember(it.members[i])],
             !.body    = [i \in 1..Len(it.body) |-> BareBlock(it.body[i])]]
Bare(program) == [i \in 1..Len(program) |-> BareItem(program[i])]
=============================================================================
