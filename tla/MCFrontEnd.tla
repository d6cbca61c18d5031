----------------------------- MODULE MCFrontEnd -----------------------------
(***************************************************************************)
(* Instances of FrontEnd: every expression of nesting depth three, every   *)
(* kind of statement and item with a comment or a line break put in any    *)
(* gap, and projects of up to four files.                                  *)
(***************************************************************************)
EXTENDS FrontEnd

MCParsed(text)  == LET tree == Parse(text) IN tree
MCPrinted(text) == LET out == Format(text, Parse(text).v) IN out
MCResolved(fs, base) ==
  LET g == LoadGraph(fs, base, Entry)
      result == [graph |-> g, parts |-> IF g.error = "" THEN ResolveGraph(g) ELSE <<>>]
  IN  result

MCCwd == <<"home", "p">>
MCEntry == <<"main">>

(* A file the build never reads, and the edits made to it. *)
Scratch(text, n) == [files |-> <<"scratch">> :> text, edits |-> n]

Fn(body) == <<"finna", "main", "(", ")", "{">> \o body \o <<"}">>

(***************************************************************************)
(* Expressions.                                                            *)
(***************************************************************************)
Atoms ==
  {<<"x">>, <<"1">>, <<"1e999">>, <<"P", "{", "a", ":", "1", "}">>, <<"G", "[", "T", "]", "{", "}">>,
   <<"cop", "V", "in", "c">>, <<"g", "[", "int", "]", "(", "x", ")">>}

Around(before, e, after) == before \o <<"(">> \o e \o <<")">> \o after

(* Every form with e as one of its operands. *)
Contexts(e) ==
  {Around(<<"-">>, e, <<>>), Around(<<>>, e, <<"+", "y">>), Around(<<"y", "+">>, e, <<>>),
   Around(<<>>, e, <<"<", "y">>), Around(<<>>, e, <<"as", "int">>),
   Around(<<>>, e, <<".", "f">>), Around(<<>>, e, <<".", "m", "(", "y", ")">>),
   Around(<<"y", ".", "m", "(", "in", ":">>, e, <<")">>),
   Around(<<>>, e, <<"(", "y", ")">>), Around(<<"f", "(">>, e, <<")">>),
   Around(<<>>, e, <<"[", "1", "]">>), Around(<<"y", "[">>, e, <<"]">>),
   Around(<<>>, e, <<".", "trust", "(", ")", "in", "c">>),
   Around(<<"t", ".", "trust", "(", ")", "in">>, e, <<>>),
   Around(<<"P", "{", "a", ":">>, e, <<"}">>), Around(<<"[">>, e, <<",", "1", "]">>),
   Around(<<"cop", "V", "(">>, e, <<")", "in", "c">>), Around(<<"cop", "P", "{", "}", "in">>, e, <<>>),
   Around(<<"cop", "G", "[", "T", "]", "{", "a", ":">>, e, <<"}", "in", "c">>)}

Depth2 == UNION {Contexts(e) : e \in Atoms}
Depth3 == UNION {Contexts(e) : e \in Depth2}

(* An expression as a statement, and as the header of one. *)
Plain(e)  == Fn(e)
InHead(e) == Fn(<<"fr">> \o e \o <<"{", "}">>)
Twice(e)  == Fn(<<"holla", "v", "=">> \o e \o <<"in">> \o e \o <<"{", "}", "ghosted", "{", "}">>)
Result(e) == Fn(<<"evict">> \o e \o <<"in">> \o e)

ExprSources ==
  {Scratch(form, 0) : form \in UNION {{Plain(e), InHead(e), Twice(e), Result(e)} : e \in Atoms \cup Depth2}
                              \cup UNION {{Plain(e), InHead(e)} : e \in Depth3}}

(***************************************************************************)
(* Items and statements, one of each kind.                                 *)
(***************************************************************************)
ItemText1 ==
  <<"pull", "\"a\"", "\n", "pull", "\"spill\"", "as", "io", "\n",
    "facts", "K", "=", "0x2", "\n",
    "flex", "lowkey", "g", ":", "int", "[", "2", "]", "=", "[", "1", ",", "2", "]", "\n",
    "crib", "pile", ":", "crib", "P", "\n",
    "extern", "\"\\x73\"", "finna", "ext", "(", "p", ":", "rawptr", ")", "->", "int", "\n">>
ItemText2 ==
  <<"drip", "P", "[", "T", "]", "{", "flex", "x", ":", "T", ",", "hush", "y", ":", "[", "]", "int",
    "\n", "z", ":", "tag", "a", ".", "Q", "[", "T", ",", "int", "]", "}", "\n",
    "moods", "S", "{", "Dot", ",", "Box", "(", "int", ",", "P", "[", "int", "]", ")", "}", "\n">>
ItemText3 ==
  <<"flex", "finna", "(", "self", ":", "P", ")", "area", "[", "T", "]",
    "(", "k", ":", "finna", "(", "int", ")", "->", "int", ",", "m", ":", "soa", "P", ")",
    "->", "(", "int", ",", "int", ")", "{", "bet", "1", ",", "2", "}", "\n",
    "facts", "K", ":", "int", "=", "1.5", "facts", "L", "=", "nocap", "\n", "lowkey", "h", "=", "x">>

StmtText1 ==
  Fn(<<"lowkey", "a", ",", "b", "=", "f", "(", ")", "\n", "facts", "k", ":", "int", "=", "1", ";",
       "crib", "c", ":", "P", "\n", "a", ",", "b", "=", "b", ",", "a", "\n", "a", "+=", "1", "\n",
       "fr", "a", "{", "dip", "}", "naw", "fr", "b", "{", "skip", "}", "naw", "{", "f", "(", ")", "}"
     >>)
StmtText2 ==
  Fn(<<"vibin", "a", "<", "1", "{", "}", "\n", "squad", "i", "in", "[", "1", "]", "{", "slide", "f", "(", "i", ")", "}",
       "\n", "vibe", "s", "{", "Dot", "{", "bet", "}", "\n", "a", ".", "Box", "(", "v", ")", "{", "bet", "v", "}",
       "\n", "naw", "{", "yeet", "(", "\"s\"", ")", "}", "}">>)
StmtText3 ==
  Fn(<<"holla", "t", "=", "x", "in", "c", "{", "evict", "x", "in", "c", "}", "ghosted", "{", "evict", "c", "}", "\n",
       "sheesh", "{", "bounce", "t", "}", "naw", "e", "{", "}", "\n", "sheesh", "{", "}">>)

ItemSources == {Scratch(t, 1) : t \in {ItemText1, ItemText2, ItemText3, StmtText1, StmtText2, StmtText3}}

(* Two comments in one file. *)
TwoEdits == {Scratch(t, 2) : t \in {Fn(<<"x", "\n", "dip">>), <<"drip", "P", "{", "a", ":", "T", "}">>}}

MCInserts == {<<"\n">>, <<"/*1*/">>, <<"//1", "\n">>, <<"/*\n*/">>, <<"/*1**/">>}

(***************************************************************************)
(* Projects: an entry, a, b and lib/a.                                     *)
(***************************************************************************)
Mains ==
  {<<"pull", "\"a\"", "\n",
     "finna", "main", "(", ")", "{", "a", ".", "f", "(", "x", ")", "\n", "lowkey", "a", "=", "f", "\n",
     "a", ".", "f", "(", "P", "{", "}", ")", "}", "finna", "f", "(", ")", "{", "}", "drip", "P", "{", "}">>,
   <<"pull", "\"lib/a\"", "\n", "pull", "\"b\"", "as", "a", "\n">>,
   <<"pull", "\"lib/a\"", "\n", "pull", "\"b\"", "as", "c", "\n", "pull", "\"a\"", "as", "d", "\n",
     "lowkey", "z", ":", "a", ".", "P", "=", "c", ".", "K", "\n">>,
   <<"pull", "\"lib/../a\"", "\n", "pull", "\"b\"", "as", "c", "\n", "pull", "\"../b\"", "\n">>}
Libs ==
  {<<"flex", "finna", "f", "(", "x", ":", "P", ")", "{", "x", ".", "m", "(", ")", "\n", "f", "(", "a", ")", "}",
     "flex", "drip", "P", "{", "v", ":", "S", "}", "finna", "(", "p", ":", "P", ")", "m", "(", ")", "{", "}">>,
   <<"pull", "\"b\"", "\n", "flex", "moods", "P", "{", "C", "(", "C", ")", "D", "}", "drip", "C", "{", "}",
     "finna", "f", "(", ")", "{", "vibe", "x", "{", "b", ".", "C", "(", "f", ")", "{", "f", "(", ")", "}",
     "naw", "{", "main", "(", ")", "}", "}", "}">>,
   <<"finna">>}
Bs ==
  {<<"flex", "facts", "K", "=", "1", "\n">>, <<"pull", "\"a\"", "\n", "flex", "facts", "K", "=", "1", "\n">>,
   <<"pull", "\"lib/a\"", "as", "spill", "\n">>,
   <<"pull", "\"a\"", "as", "n", "\n", "flex", "drip", "C", "{", "}", "flex", "lowkey", "K", "=", "1",
     "flex", "finna", "g", "[", "T", "]", "(", "n", ":", "T", ")", "->", "T", "{",
     "holla", "t", "=", "t", "in", "n", ".", "K", "{", "t", "(", ")", "}", "ghosted", "{", "t", "(", ")", "}", "}">>}
Projects ==
  {(<<"main">> :> m) @@ (<<"a">> :> a) @@ (<<"b">> :> b) @@ (<<"lib", "a">> :> l) :
     m \in Mains, a \in Libs, b \in Bs, l \in Libs}
  \cup {(<<"main">> :> m) @@ (<<"a">> :> a) : m \in Mains, a \in Libs}

(* Small sets of sources: a cop used as an operand, and the projects alone. *)
CopSources == {Scratch(Plain(e), 0) : e \in Contexts(<<"cop", "V", "in", "c">>)}
ProjectSources == {[files |-> p, edits |-> 0] : p \in Projects}

MCSources == ExprSources \cup ItemSources \cup TwoEdits \cup ProjectSources
=============================================================================
