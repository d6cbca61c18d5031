------------------------------ MODULE SizedRun ------------------------------
(***************************************************************************)
(* One statement after another of a program over sized integers, run three *)
(* ways in lockstep: interpreted, compiled for debugging (-O0, overflow    *)
(* checks) and compiled for release.                                       *)
(*                                                                         *)
(* The program has one place x, a local, parameter, field or element of    *)
(* the type xty, and evaluates one expression at a time from the left: acc *)
(* is what has been evaluated so far, of the type the lowering gave it.    *)
(* A literal takes the type its context wants (int_hint_or_default), so an *)
(* expression that still hangs on its first literal (lit) may only be used *)
(* where that type is wanted.                                              *)
(***************************************************************************)
EXTENDS SizedInts

CONSTANTS Literals,   \* integer literals of the program
          Floats,     \* float literals
          Lengths     \* array lengths

(* A literal has no sign, a finite float literal is an f64 of whole halves  *)
(* that an f32 can reach, and a length counts the elements of an array in   *)
(* memory, at most isize::MAX bytes.                                        *)
ASSUME SizedAssumption ==
  /\ Literals \subseteq Nat
  /\ \A f \in Floats : f[1] = "fin" => f[2] \in Int /\ RoundFloat(f, Double) = f
  /\ Lengths \subseteq 0 .. 2^(Word - 1)

VARIABLES
  xty, x,     \* [i |-> interpreted number, c, r |-> bits, debug and release]
  acc,        \* the same with ty and lit, or a float; NoAcc between statements
  seen,       \* what the last step showed in each run, "run" otherwise
  parted      \* the runs may differ from here on

vars == <<xty, x, acc, seen, parted>>

NoAcc == [k |-> "none"]
Run == [k |-> "run"]
Seen(i, c, r) == [i |-> i, c |-> c, r |-> r]
Text(n) == [k |-> "text", n |-> n]
Running == Seen(Run, Run, Run)
IsInt == acc.k = "int"
IsFloat == acc.k = "float"
Formats == {Single, Double}

(* A field left out of a drip literal (zero_default, zero_value). *)
Init ==
  /\ xty \in IntTypes
  /\ x = [i |-> sized(0, WORD), c |-> 0, r |-> 0]
  /\ acc = NoAcc
  /\ seen = Running
  /\ parted = FALSE

Value(i, c, r, ty, lit) == [k |-> "int", i |-> i, c |-> c, r |-> r, ty |-> ty, lit |-> lit]
Number(n) == sized(n, WORD)     \* Value::int(n as i64)

-----------------------------------------------------------------------------
(***************************************************************************)
(* Where the interpreter may compute something else than compiled code.    *)
(* Its stamps are the types of the values, not of the places: a literal    *)
(* has the stamp WORD, and assignments, fields, elements and results keep  *)
(* the stamp of what was stored.                                           *)
(***************************************************************************)
Shown(i) == display(i)
Fits(i, ty) == InRange(Shown(i), ty)

(* At the compiled type: literals adapt to a partner, and of the unsigned  *)
(* types only the low bits count, except for == and != and a divisor.      *)
AtItsType(op, a, b, ty) ==
  /\ {a.ty, b.ty} \subseteq {ty, WORD} /\ ty \in {a.ty, b.ty}
  /\ \/ ~ty.signed /\ op \notin EqOps \cup {"/", "%"}
     \/ Fits(a, ty) /\ Fits(b, ty)

(* At another type, where no type involved makes a difference. *)
SmallEnough(op, a, b, ty) ==
  LET m == Shown(a)
      n == Shown(b)
      tys == {ty, a.ty, b.ty}
      In(k) == \A t \in tys : InRange(k, t)
  IN  /\ ByteValue \notin tys
      /\ Fits(a, ty) /\ Fits(b, ty)
      /\ CASE op \in EqOps -> TRUE
           [] op \in CompareOps \ EqOps -> In(m) /\ In(n)
           [] op \in {"&", "|", "^"} -> In(Resign(Bits(op, m % 2^Word, n % 2^Word), Word))
           [] op \in {"<<", ">>"} ->
                /\ \A t \in tys : n < t.bits /\ n >= 0
                /\ In(m) /\ In(n) /\ In(IF op = ">>" THEN m \div 2^n ELSE m * 2^n)
           [] op \in {"+", "-", "*"} -> In(m) /\ In(n) /\ In(Exact(op, m, n))
           [] op \in {"/", "%"} -> In(m) /\ In(n) /\ n # 0 /\ In(Quot(m, n))

(* Modulo the compiled width: sums, differences, products and bits of wide *)
(* enough numbers, where nothing overflows that is checked.                *)
RingOp(op, a, b, l, r, ty) ==
  LET Checked(t, m, n) == t.signed => op \in {"&", "|", "^"} \/ InRange(Exact(op, m, n), t)
  IN  /\ op \in {"+", "-", "*", "&", "|", "^"}
      /\ ByteValue \notin {a.ty, b.ty}
      /\ \A t \in {a.ty, b.ty} : t.bits >= ty.bits /\ Checked(t, a.v, b.v)
      /\ Checked(ty, View(l, ty), View(r, ty))

Alike(op, a, b, l, r, ty) ==
  AtItsType(op, a, b, ty) \/ SmallEnough(op, a, b, ty) \/ RingOp(op, a, b, l, r, ty)

(* The negation of the least number traps interpreted only. *)
AlikeUnary(op, a, ty) ==
  LET exact == IF op = "-" THEN -a.v ELSE -a.v - 1
  IN  /\ a.ty # ByteValue
      /\ a.ty.bits >= ty.bits
      /\ op = "-" /\ a.ty.signed => InRange(exact, a.ty)

AlikeCast(a, src, ty) == ty.bits > src.bits => Fits(a, src)

AlikeIndex(a, c, ty) ==
  a.ty # ByteValue /\ Fits(a, ty) /\ (ty.bits < Word => c < 2^(ty.bits - 1))

(* An interpreted float is an f64 whatever its type: an f32 is alike while  *)
(* it loses nothing.  To f64 both round.                                    *)
AlikeToFloat(a, ty, p) == InRange(a.v, ty) /\ (p = Double \/ Rounded(a.v, p) = a.v)

AlikeFloat(f, p) == RoundFloat(f, p) = f

(* Compiled code clamps to the type where the interpreter wraps.            *)
AlikeToInt(f, ty) ==
  \/ f[1] = "nan"
  \/ f[1] = "fin" /\ InRange(Trunc(f), ty)

-----------------------------------------------------------------------------
(* An expression starts. *)
Literal(n, ty) ==
  /\ acc = NoAcc
  /\ acc' = Value(Number(n), lower_const(n, ty), lower_const(n, ty), ty, TRUE)
  /\ seen' = Running
  /\ UNCHANGED <<xty, x, parted>>

ByteLiteral(n) ==
  /\ acc = NoAcc
  /\ acc' = Value([k |-> "int", v |-> n, ty |-> ByteValue], n, n, U8, FALSE)
  /\ seen' = Running
  /\ UNCHANGED <<xty, x, parted>>

(* Compiled, a float of the format its context wants, f64 if it wants none  *)
(* (float_hint_or_default).                                                 *)
FloatLiteral(f, p) ==
  /\ acc = NoAcc
  /\ acc' = [k |-> "float", i |-> f, c |-> lower_float(f, p), r |-> lower_float(f, p)]
  /\ seen' = Running
  /\ parted' = ~AlikeFloat(f, p)
  /\ UNCHANGED <<xty, x>>

ReadPlace ==
  /\ acc = NoAcc
  /\ acc' = Value(x.i, x.c, x.r, xty, FALSE)
  /\ seen' = Running
  /\ UNCHANGED <<xty, x, parted>>

(* What came out of the three runs, at the type ty. *)
Becomes(i, c, r, ty) ==
  IF i.k = "int" /\ c.k = "bits" /\ r.k = "bits"
  THEN acc' = Value(i, c.c, r.c, ty, acc.lit) /\ seen' = Running
  ELSE acc' = NoAcc /\ seen' = Seen(i, c, r)

Unary(op) ==
  /\ IsInt
  /\ Becomes(unary_op(op, acc.i), lower_unop(op, acc.c, acc.ty), lower_unop(op, acc.r, acc.ty), acc.ty)
  /\ parted' = ~AlikeUnary(op, acc.i, acc.ty)
  /\ UNCHANGED <<xty, x>>

(* acc op right; the right operand is wanted at the left one's type. *)
Binary(op, i, c, r) ==
  /\ IsInt
  /\ Becomes(binary_op(op, acc.i, i), lower_int_binop(op, acc.c, c, acc.ty, TRUE),
             lower_int_binop(op, acc.r, r, acc.ty, FALSE), acc.ty)
  /\ parted' = ~Alike(op, acc.i, i, acc.c, c, acc.ty)
  /\ UNCHANGED <<xty, x>>

(* A comparison wants nothing of its left operand. *)
Unwanted == acc.lit => acc.ty = WORD

BinaryLiteral(op, n) ==
  LET c == lower_const(n, acc.ty)
  IN  /\ IsInt
      /\ op \in CompareOps => Unwanted
      /\ Binary(op, Number(n), c, c)
BinaryByte(op, n) ==
  /\ IsInt /\ acc.ty = U8
  /\ op \in CompareOps => Unwanted
  /\ Binary(op, [k |-> "int", v |-> n, ty |-> ByteValue], n, n)
BinaryPlace(op) ==
  /\ IsInt /\ acc.ty = xty
  /\ op \in CompareOps => Unwanted
  /\ Binary(op, x.i, x.c, x.r)

Cast(ty) ==
  /\ IsInt /\ Unwanted
  /\ acc' = Value(cast_int(acc.i, ty), lower_cast(acc.c, acc.ty, ty), lower_cast(acc.r, acc.ty, ty), ty, FALSE)
  /\ seen' = Running
  /\ parted' = ~AlikeCast(acc.i, acc.ty, ty)
  /\ UNCHANGED <<xty, x>>

CastToFloat(p) ==
  /\ IsInt /\ Unwanted
  /\ acc' = [k |-> "float", i |-> cast_float(acc.i).f, c |-> lower_int_to_float(acc.c, acc.ty, p).f,
             r |-> lower_int_to_float(acc.r, acc.ty, p).f]
  /\ seen' = Running
  /\ parted' = ~AlikeToFloat(acc.i, acc.ty, p)
  /\ UNCHANGED <<xty, x>>

(* acc as f32, acc as f64: the interpreter keeps the float it has. *)
Resize(p) ==
  /\ IsFloat
  /\ acc' = [k |-> "float", i |-> acc.i, c |-> lower_float(acc.c, p), r |-> lower_float(acc.r, p)]
  /\ seen' = Running
  /\ parted' = ~AlikeFloat(acc.i, p)
  /\ UNCHANGED <<xty, x>>

CastFromFloat(ty) ==
  /\ IsFloat
  /\ acc' = Value(cast_from_float(acc.i, ty), lower_float_to_int(acc.c, ty), lower_float_to_int(acc.r, ty), ty, FALSE)
  /\ seen' = Running
  /\ parted' = ~AlikeToInt(acc.i, ty)
  /\ UNCHANGED <<xty, x>>

Index(len) ==
  /\ IsInt /\ Unwanted
  /\ acc' = NoAcc
  /\ seen' = Seen(index(acc.i, len), lower_index(acc.c, acc.ty, len), lower_index(acc.r, acc.ty, len))
  /\ parted' = ~AlikeIndex(acc.i, acc.c, acc.ty)
  /\ UNCHANGED <<xty, x>>

(* spill.it(acc), lower_print_value: extended to 64 bits by its type. *)
Spill ==
  /\ IsInt /\ Unwanted
  /\ acc' = NoAcc
  /\ seen' = Seen(Text(display(acc.i)), Text(View(acc.c, acc.ty)), Text(View(acc.r, acc.ty)))
  /\ parted' = ~Fits(acc.i, acc.ty)
  /\ UNCHANGED <<xty, x>>

-----------------------------------------------------------------------------
(* Statements that end with storing acc in the place. *)
Store(i, c, r) ==
  /\ x' = [i |-> i, c |-> c, r |-> r]
  /\ acc' = NoAcc
  /\ seen' = Running

(* lowkey x: T = acc, facts x: T = acc, and acc for a parameter of type T. *)
Declare ==
  /\ IsInt /\ acc.ty = xty
  /\ Store(coerce(acc.i, xty), acc.c, acc.r)
  /\ UNCHANGED <<xty, parted>>

(* lowkey x = acc. *)
Infer ==
  /\ IsInt /\ Unwanted
  /\ Store(acc.i, acc.c, acc.r)
  /\ xty' = acc.ty
  /\ UNCHANGED parted

(* A field of a drip literal, an element of an array, a result of a        *)
(* function: of type T, and what a compound assignment stores.             *)
Keep ==
  /\ IsInt /\ acc.ty = xty
  /\ Store(acc.i, acc.c, acc.r)
  /\ UNCHANGED <<xty, parted>>

(* x = acc: compiled code converts between integer types (coerce_int). *)
Assign ==
  /\ IsInt
  /\ acc.lit => acc.ty = xty
  /\ Store(acc.i, lower_cast(acc.c, acc.ty, xty), lower_cast(acc.r, acc.ty, xty))
  /\ parted' = ~AlikeCast(acc.i, acc.ty, xty)
  /\ UNCHANGED xty

(* Nothing more is compared once the runs may differ or one has stopped. *)
Next ==
  /\ ~parted
  /\ seen.i # Stop /\ seen.c # Trap
  /\ \/ \E n \in Literals, ty \in IntTypes : Literal(n, ty)
     \/ \E n \in Literals : n < 2^Byte /\ ByteLiteral(n)
     \/ \E f \in Floats, p \in Formats : FloatLiteral(f, p)
     \/ ReadPlace
     \/ \E op \in {"-", "~"} : Unary(op)
     \/ \E op \in ArithOps \cup CompareOps :
          \/ \E n \in Literals : BinaryLiteral(op, n)
          \/ \E n \in Literals : n < 2^Byte /\ BinaryByte(op, n)
          \/ BinaryPlace(op)
     \/ \E ty \in IntTypes : Cast(ty) \/ CastFromFloat(ty)
     \/ \E p \in Formats : CastToFloat(p) \/ Resize(p)
     \/ \E len \in Lengths : Index(len)
     \/ Spill
     \/ Declare \/ Infer \/ Keep \/ Assign

Spec == Init /\ [][Next]_vars

-----------------------------------------------------------------------------
(* A number interpreted is the compiled one modulo the compiled width, and *)
(* in the range of its own stamp.                                          *)
Congruent(i, c, ty) ==
  /\ (i.v - c) % 2^ty.bits = 0
  /\ i.ty # ByteValue => i.v = wrap_to(i.v, i.ty)

(***************************************************************************)
(* InterpreterIsOracle: the interpreter stops where a debug build does and *)
(* shows, compares, converts and indexes alike, except in the cases above  *)
(* (int_binary, neg_int, cast, coerce, lower_int_binop, lower_cast and     *)
(* lower_int_to_float).                                                    *)
(***************************************************************************)
InterpreterIsOracle ==
  ~parted =>
    /\ seen.i = seen.c
    /\ Congruent(x.i, x.c, xty)
    /\ IsInt => Congruent(acc.i, acc.c, acc.ty)
    /\ IsFloat => acc.i = acc.c

(***************************************************************************)
(* ReleaseDropsOnlyOverflow: a release build does as the debug build until *)
(* that one stops, and no build divides or shifts outside what the         *)
(* instruction is defined for (guard_div and mask_shift_amount of          *)
(* lower_int_binop are there in every build).                              *)
(***************************************************************************)
ReleaseDropsOnlyOverflow ==
  /\ seen.c # Trap => /\ seen.r = seen.c
                      /\ x.r = x.c
                      /\ acc = NoAcc \/ acc.r = acc.c
  /\ Poison \notin {seen.c, seen.r}
=============================================================================
