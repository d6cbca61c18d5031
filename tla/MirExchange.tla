---------------------------- MODULE MirExchange ----------------------------
(***************************************************************************)
(* Modules handed from one run of the compiler to another as text: one     *)
(* prints the module it lowered, the other reads it back and may print it  *)
(* again.  The printer and the parser are pure; they come in as constant   *)
(* operators, which the instance defines as print, parse and validate of   *)
(* MirText and MirKinds.                                                   *)
(***************************************************************************)
EXTENDS MirKinds

CONSTANTS
  Printed(_),  \* print
  Parsed(_),   \* parse
  Valid(_),    \* validate
  Lowered      \* the modules the first run may hold

VARIABLES
  m,           \* the module of the first run
  text,        \* the file between the runs
  back         \* what the second run read
vars == <<m, text, back>>

Unread == [v |-> EmptyModule, at |-> -1]

Init == m = EmptyModule /\ text = <<>> /\ back = Unread

Lower ==
  /\ m = EmptyModule
  /\ m' \in Lowered
  /\ UNCHANGED <<text, back>>

Hand ==
  /\ m # EmptyModule
  /\ text = <<>>
  /\ text' = Printed(m)
  /\ UNCHANGED <<m, back>>

Parse ==
  /\ text # <<>>
  /\ back = Unread
  /\ back' = Parsed(text)
  /\ UNCHANGED <<m, text>>

-----------------------------------------------------------------------------
(***************************************************************************)
(* What the text does not keep.                                            *)
(***************************************************************************)
ResultLists(mod) ==
  {d[5] : d \in ToSet(mod.externs)} \cup {d[4] : d \in ToSet(mod.funcs)}
    \cup {t[3] : t \in {u \in AllTypes(mod) : u[1] = "fnptr"}}

TypeName(mod, t) == IF t[1] = "struct" THEN mod.structs[t[2]][2] ELSE mod.sums[t[2]][2]
TypeWords == PlainTypes \cup DOMAIN TypeReads \cup IntNames \cup {s.name : s \in SimdNames}

(* A tuple of fewer than two, a user's type named as a built-in one. *)
LostType(mod, t) ==
  \/ t[1] = "tuple" /\ Len(t[2]) < 2
  \/ t[1] \in {"struct", "sum"} /\ TypeName(mod, t) \in TypeWords

(* Several results print like one tuple, no result like one void. *)
LostResults(rets) == Len(rets) = 1 /\ rets[1][1] \in {"tuple", "void"}

Statements(mod) ==
  UNION {UNION {{[f |-> f, s |-> s] : s \in ToSet(b[1])} : b \in ToSet(f[6])} : f \in ToSet(mod.funcs)}
Terminators(mod) == UNION {{b[2] : b \in ToSet(f[6])} : f \in ToSet(mod.funcs)}

Constants(mod) ==
  {d[4] : d \in ToSet(mod.globals)} \cup
  {o[2] : o \in {op \in UNION ({OperandsOf(RvalueForms[st.s[3][1]], st.s[3]) :
                                   st \in {x \in Statements(mod) : x.s[1] = "assign"}}
                                 \cup {OperandsOf(TermForms[t[1]], t) : t \in Terminators(mod)}) :
                   op[1] = "const"}}

(* Only finite floats are numbers, and an integer is read with an integer type. *)
LostConst(k) ==
  \/ k[1] = "float" /\ k[2][1] # "finite"
  \/ k[1] = "int" /\ k[3][1] # "int" /\ k[3] # IntTy("i64")

(* nullptr does not start an operand, so it ends a return too early. *)
LostReturn(t) == t[1] = "return" /\ t[2] # <<>> /\ t[2][1] = <<"const", <<"nullptr">>>>

(***************************************************************************)
(* The externs an extern call can be read as: same name and as many        *)
(* parameters, and no argument or destination the text shows the type of   *)
(* tells them from the one called.                                         *)
(***************************************************************************)
Confused(mod, st) ==
  LET locals == st.f[3] \o st.f[5]
      called == mod.externs[st.s[3][2]]
      Alike(e) ==
        /\ e[3] = called[3]
        /\ Len(e[4]) = Len(called[4])
        /\ \A i \in DOMAIN e[4] :
             e[4][i] = called[4][i] \/ operand_ty(mod, locals, st.s[3][3][i]) = NoTy
        /\ e[5] = called[5] \/ Len(e[5]) # 1 \/ place_ty(mod, locals, st.s[2]) = NoTy
  IN  \E e \in 1..(st.s[3][2] - 1) : Alike(mod.externs[e])

(* A reference to a function named fn before another word counts as a declaration. *)
Miscounted(mod) ==
  LET T == Printed(mod)
      Declared(j) == T[j] = Word("fn") /\ IsIdent(Tok(T, j + 1)) /\ Tok(T, j - 1)[1] # "str"
      Used(name) == \E k \in DOMAIN T : T[k] = Word("@") /\ Tok(T, k + 1) = name
  IN  \E i, j \in DOMAIN T :
        /\ i < j /\ Declared(i) /\ Tok(T, i - 1) = Word("@")
        /\ Declared(j) /\ Tok(T, j - 1) # Word("@") /\ Used(T[j + 1])

Lost(mod) ==
  \/ \E t \in AllTypes(mod) : LostType(mod, t)
  \/ \E rets \in ResultLists(mod) : LostResults(rets)
  \/ \E k \in Constants(mod) : LostConst(k)
  \/ \E t \in Terminators(mod) : LostReturn(t)
  \/ \E st \in Statements(mod) : /\ st.s[1] = "assign" /\ st.s[3][1] = "call_extern"
                                 /\ Confused(mod, st)
  \/ Miscounted(mod)

(* The second run hands on what it read; of a number out of range there is nothing to print. *)
Reprint ==
  /\ back.at > 0
  /\ ~Miscounted(m)
  /\ m' = back.v
  /\ text' = Printed(back.v)
  /\ back' = Unread

Next == Lower \/ Hand \/ Parse \/ Reprint

Spec == Init /\ [][Next]_vars

(***************************************************************************)
(* TextKeepsModule: a module read back from its text is the module that    *)
(* was printed, down to which of the externs of one name each call means,  *)
(* which text.rs:7-8 promises of the text alone; and it is not exactly     *)
(* when the module holds one of the shapes above (print, parse,            *)
(* resolve_extern, prescan).                                               *)
(***************************************************************************)
TextKeepsModule == back # Unread => ((back.at # 0 /\ back.v = m) <=> ~Lost(m))

(***************************************************************************)
(* MisreadIsRejected: when a valid module comes back with other function   *)
(* bodies although its declarations and constants were kept, which a call  *)
(* of another extern of that name is, the validator of the second run      *)
(* refuses it (validate, check_call_args, check_stmt), unless an argument  *)
(* has no kind of its own, as nullptr and ghosted.                         *)
(***************************************************************************)
Declarations(mod) == [mod EXCEPT !.funcs = [i \in DOMAIN mod.funcs |-> SubSeq(mod.funcs[i], 1, 5)]]
KindlessCall(mod) ==
  \E st \in Statements(mod) :
    /\ st.s[1] = "assign" /\ st.s[3][1] = "call_extern"
    /\ \E op \in ToSet(st.s[3][3]) : operand_kind(mod, st.f[3] \o st.f[5], op) = NoTy

MisreadIsRejected ==
  /\ back.at > 0
  /\ back.v # m
  /\ Declarations(back.v) = Declarations(m)
  /\ ~\E k \in Constants(m) : LostConst(k)
  /\ Valid(m)
  => ~Valid(back.v) \/ KindlessCall(m)
=============================================================================
