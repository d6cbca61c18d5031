----------------------------- MODULE SizedInts ------------------------------
(***************************************************************************)
(* Sized integers, twice: as the interpreter computes them (interp.rs and  *)
(* value.rs), each number carrying the type it was last stamped with, and  *)
(* as compiled code does (codegen.rs), a number being the bits of the type *)
(* the lowering gave it.                                                   *)
(*                                                                         *)
(* Word stands for 64 bits, Narrow for the smaller widths and Byte for 8.  *)
(* An interpreted number is [v, ty] with v as the i64 it is stored in.     *)
(* Single and Double are the significand bits of f32 and f64, 24 and 53.   *)
(***************************************************************************)
EXTENDS Integers

CONSTANTS Word, Narrow, Byte, Single, Double

Widths == Narrow \cup {Word}
IntTypes == [bits : Widths, signed : BOOLEAN]

(* The widths are 8, 16, 32 and 64; of them only this is used: a width     *)
(* divides the number of its values, as powers of two do, so that a shift  *)
(* amount may be taken modulo the one or the other.                        *)
ASSUME WidthAssumption ==
  /\ Word \in Nat \ {0}
  /\ Narrow \subseteq 1 .. Word - 1
  /\ Byte \in Narrow
  /\ \A w \in Widths : 2^w % w = 0

ASSUME FloatAssumption == Single \in Nat \ {0} /\ Double \in Nat /\ Single <= Double

WORD == [bits |-> Word, signed |-> TRUE]
U8   == [bits |-> Byte, signed |-> FALSE]

(* The stamp of a Value::Byte, which is not a Value::Int. *)
ByteValue == [bits |-> 0, signed |-> FALSE]

ArithOps == {"+", "-", "*", "/", "%", "&", "|", "^", "<<", ">>"}
EqOps == {"==", "!="}
CompareOps == EqOps \cup {"<", "<=", ">", ">="}

InRange(n, ty) ==
  IF ty.signed THEN -(2^(ty.bits - 1)) <= n /\ n < 2^(ty.bits - 1) ELSE 0 <= n /\ n < 2^ty.bits

Resign(m, bits) == IF m >= 2^(bits - 1) THEN m - 2^bits ELSE m

(* Division as Rust and LLVM have it, towards zero. *)
Quot(x, y) ==
  LET Abs(n) == IF n < 0 THEN -n ELSE n
      q == Abs(x) \div Abs(y)
  IN  IF (x < 0) = (y < 0) THEN q ELSE -q

(* &, | and ^ of two words, one bit after the other from the lowest. *)
BitAt(n, j) == (n \div 2^j) % 2
BitOp(op, p, q) ==
  CASE op = "&" -> p * q [] op = "|" -> p + q - p * q [] op = "^" -> (p + q) % 2
Bits(op, m, n) ==
  LET low[j \in Nat] ==
        IF j = 0 THEN 0 ELSE low[j - 1] + 2^(j - 1) * BitOp(op, BitAt(m, j - 1), BitAt(n, j - 1))
  IN  low[Word]

Exact(op, x, y) ==
  CASE op = "+" -> x + y [] op = "-" -> x - y [] op = "*" -> x * y
    [] op = "/" -> Quot(x, y) [] op = "%" -> x - y * Quot(x, y)

Compare(op, x, y) ==
  CASE op = "==" -> x = y [] op = "!=" -> x # y
    [] op = "<" -> x < y [] op = "<=" -> x <= y [] op = ">" -> x > y [] op = ">=" -> x >= y

(* A float is <<"fin", n>>, n halves, <<"inf", sign>> or <<"nan">>.  Both  *)
(* runs round to the nearest number of p significant bits, and of two as   *)
(* near to the even one; no integer of the word is too large for an f32.   *)
Magnitude(n) == IF n < 0 THEN -n ELSE n

(* How many of the low bits of m do not fit. *)
Dropped(m, p) == CHOOSE k \in 0 .. m : m < 2^(p + k) /\ \A j \in 0 .. k - 1 : m >= 2^(p + j)

Rounded(n, p) ==
  LET m == Magnitude(n)
      unit == 2^Dropped(m, p)
      q == m \div unit
      rest == 2 * (m % unit)
      up == rest > unit \/ (rest = unit /\ q % 2 = 1)
      near == (IF up THEN q + 1 ELSE q) * unit
  IN  IF n < 0 THEN -near ELSE near

RoundFloat(f, p) == IF f[1] = "fin" THEN <<"fin", Rounded(f[2], p)>> ELSE f

-----------------------------------------------------------------------------
(***************************************************************************)
(* The interpreter.  A result is [k |-> "int", v, ty], [k |-> "bool", b],  *)
(* [k |-> "float", f] or an error, [k |-> "stop"].                         *)
(***************************************************************************)
Stop == [k |-> "stop"]
Truth(b) == [k |-> "bool", b |-> b]

wrap_to(v, ty) ==
  IF ty.signed \/ ty.bits = Word THEN Resign(v % 2^ty.bits, ty.bits) ELSE v % 2^ty.bits

sized(v, ty) == [k |-> "int", v |-> wrap_to(v, ty), ty |-> ty]

operand_u64(a, ty) == a % 2^ty.bits

combine_int_ty_mutant(a, b) == IF a.bits >= b.bits THEN a ELSE b
combine_int_ty(a, b) ==
  CASE a = b -> a
    [] a # b /\ b = WORD -> a
    [] a # b /\ a = WORD -> b
    [] a # b /\ WORD \notin {a, b} -> IF a.bits >= b.bits THEN a ELSE b

neg_int(x) ==
  IF x.ty.signed /\ ~InRange(-x.v, x.ty) THEN Stop
  ELSE sized(-(IF x.ty.signed THEN x.v ELSE operand_u64(x.v, x.ty)), x.ty)

unary_op(op, x) ==
  CASE x.ty = ByteValue -> Stop
    [] x.ty # ByteValue /\ op = "-" -> neg_int(x)
    [] x.ty # ByteValue /\ op = "~" -> sized(-x.v - 1, x.ty)

int_binary(op, a, ta, b, tb) ==
  LET ty == combine_int_ty(ta, tb)
      seen(n) == IF ty.signed THEN n ELSE operand_u64(n, ty)
      k == b % ty.bits
      exact == Exact(op, seen(a), seen(b))
  IN
  CASE op \in {"+", "-", "*"} ->
         IF ty.signed /\ ~InRange(exact, ty) THEN Stop ELSE sized(exact, ty)
    [] op \in {"/", "%"} ->
         IF b = 0 \/ seen(b) = 0 \/ (ty.signed /\ a = -(2^(ty.bits - 1)) /\ b = -1) THEN Stop
         ELSE sized(exact, ty)
    [] op \in {"&", "|", "^"} -> sized(Resign(Bits(op, a % 2^Word, b % 2^Word), Word), ty)
    [] op = "<<" -> sized(wrap_to(a * 2^k, WORD), ty)
    [] op = ">>" -> sized(seen(a) \div 2^k, ty)
    [] op \in CompareOps -> Truth(Compare(op, seen(a), seen(b)))

(* == and != look at the stored number only, and a byte is no int. *)
values_equal(x, y) == (x.ty = ByteValue) = (y.ty = ByteValue) /\ x.v = y.v

binary_op(op, x, y) ==
  CASE op \in EqOps -> Truth(values_equal(x, y) = (op = "=="))
    [] op \notin EqOps /\ ByteValue \in {x.ty, y.ty} -> Stop
    [] op \notin EqOps /\ ByteValue \notin {x.ty, y.ty} -> int_binary(op, x.v, x.ty, y.v, y.ty)

(* What binding to a declared type does. *)
coerce(x, ty) == IF x.ty = ByteValue THEN x ELSE sized(x.v, ty)

Trunc(f) == Quot(f[2], 2)
cast_int(x, ty) == sized(x.v, ty)
(* i as f64, whichever float type is named. *)
cast_float(x) == [k |-> "float", f |-> <<"fin", 2 * Rounded(x.v, Double)>>]
cast_from_float(f, ty) ==
  sized(CASE f[1] = "fin" -> Trunc(f)
          [] f[1] = "inf" -> IF f[2] > 0 THEN -1 ELSE 0   \* the low bits of i128's bounds
          [] f[1] = "nan" -> 0, ty)

(* array[x], of len elements. *)
index(x, len) ==
  IF x.ty # ByteValue /\ x.v >= 0 /\ x.v < len THEN [k |-> "element", n |-> x.v] ELSE Stop

display(x) == IF ~x.ty.signed /\ x.ty.bits = Word THEN x.v % 2^Word ELSE x.v

-----------------------------------------------------------------------------
(***************************************************************************)
(* Compiled code: bits c of a type ty.  checks is overflow_checks, on in a *)
(* debug build.  Poison is what an instruction gives outside its domain.   *)
(***************************************************************************)
Iv(c) == [k |-> "bits", c |-> c]
Trap == Stop
Poison == [k |-> "poison"]

View(c, ty) == IF ty.signed THEN Resign(c, ty.bits) ELSE c

lower_const(n, ty) == n % 2^ty.bits

lower_unop(op, c, ty) == Iv((IF op = "-" THEN -c ELSE -c - 1) % 2^ty.bits)

mask_shift_amount(ty, amt) == amt % ty.bits

guard_div_mutant(l, r, ty, checks) ==
  checks /\ (r = 0 \/ (ty.signed /\ View(l, ty) = -(2^(ty.bits - 1)) /\ View(r, ty) = -1))
guard_div(l, r, ty, checks) ==
  r = 0 \/ (ty.signed /\ View(l, ty) = -(2^(ty.bits - 1)) /\ View(r, ty) = -1)

lower_int_binop(op, l, r, ty, checks) ==
  LET x == View(l, ty)
      y == View(r, ty)
      k == mask_shift_amount(ty, r)
      defined == y # 0 /\ ~(ty.signed /\ x = -(2^(ty.bits - 1)) /\ y = -1)
  IN
  CASE op \in {"+", "-", "*"} ->
         IF ty.signed /\ checks /\ ~InRange(Exact(op, x, y), ty) THEN Trap
         ELSE Iv(Exact(op, x, y) % 2^ty.bits)
    [] op \in {"/", "%"} ->
         IF guard_div(l, r, ty, checks) THEN Trap
         ELSE IF defined THEN Iv(Exact(op, x, y) % 2^ty.bits) ELSE Poison
    [] op \in {"&", "|", "^"} -> Iv(Bits(op, l, r))
    [] op = "<<" -> IF k < ty.bits THEN Iv((l * 2^k) % 2^ty.bits) ELSE Poison
    [] op = ">>" -> IF k < ty.bits THEN Iv((x \div 2^k) % 2^ty.bits) ELSE Poison
    [] op \in CompareOps -> Truth(Compare(op, x, y))

(* zext, sext, trunc or nothing (cast_kind), by the two types. *)
lower_cast(c, src, ty) == View(c, src) % 2^ty.bits

(* sitofp or uitofp to a float of p significant bits. *)
lower_int_to_float(c, ty, p) == [k |-> "float", f |-> <<"fin", 2 * Rounded(View(c, ty), p)>>]

(* A float constant, and fptrunc, fpext or nothing between float types. *)
lower_float(f, p) == RoundFloat(f, p)

(* llvm.fpto*.sat: clamped to the type; of a NaN, zero. *)
lower_float_to_int(f, ty) ==
  LET least == IF ty.signed THEN -(2^(ty.bits - 1)) ELSE 0
      most == IF ty.signed THEN 2^(ty.bits - 1) - 1 ELSE 2^ty.bits - 1
      n == CASE f[1] = "nan" -> 0
             [] f[1] = "inf" -> IF f[2] > 0 THEN most ELSE least
             [] f[1] = "fin" -> IF Trunc(f) < least THEN least
                                ELSE IF Trunc(f) > most THEN most ELSE Trunc(f)
  IN  n % 2^ty.bits

(* The check compares the index zero-extended; the address computation     *)
(* (getelementptr) sign-extends it.                                        *)
bounds_check(c, len) == c >= len
gep_index_elem(c, ty) == Resign(c, ty.bits)
lower_index(c, ty, len) ==
  IF bounds_check(c, len) THEN Trap ELSE [k |-> "element", n |-> gep_index_elem(c, ty)]
=============================================================================
