--------------------------- MODULE MCLoweredCode ----------------------------
(* A bounded family of programs: an outer construct around an inner one,     *)
(* whose arms are drawn from a list of small blocks.                         *)
EXTENDS LoweredCode, Lowering

Interp == INSTANCE InterpExec

CONSTANT Exhaustive   \* FALSE: a vibe may leave out a variant

Name(n) == [k |-> "name", n |-> n]
Lit(v) == [k |-> "int", v |-> v]
Ask == [k |-> "ask"]
Bin(k, l, r) == [k |-> k, l |-> l, r |-> r]
X == Name("x")

Say(e) == [k |-> "spill", e |-> e]
Inc == [k |-> "add", n |-> "x", e |-> Lit(1)]
Bet == [k |-> "bet", es |-> <<X, [k |-> "ghosted"]>>]

\* What an arm may do: nothing, assign, shadow, leave in every way, use a
\* constant of its own.
Arms == <<
  <<>>,
  <<Inc>>,
  <<[k |-> "assign", n |-> "x", e |-> Bin("add", X, Lit(2))], Say(X)>>,
  <<[k |-> "var", n |-> "x", e |-> Bin("add", X, Lit(4))], Inc, Say(X)>>,
  <<[k |-> "dip"], Say(X)>>,
  <<[k |-> "skip"], Say(X)>>,
  <<Bet, Inc>>,
  <<[k |-> "yeet"]>>,
  <<[k |-> "bounce", e |-> Name("y")], Say(X)>>,
  <<[k |-> "facts", n |-> "k", v |-> 7], Say(Name("k"))>> >>

Cond == Bin("and", Bin("lt", X, Lit(3)), Ask)
EitherAsk == Bin("or", Ask, Bin("and", Ask, Bin("lt", X, Lit(2))))

Arm(v, binds, body) == [v |-> v, binds |-> binds, body |-> body]
Fr(arms, els) == [k |-> "fr", arms |-> arms, els |-> els]
If(c, body) == [c |-> c, body |-> body]
Vibin(body) == [k |-> "vibin", c |-> Cond, body |-> body]
Squad(body) ==
  [k |-> "squad", n |-> "x", iter |-> Name("xs"), len |-> 2, body |-> body]
Vibe(arms, els) == [k |-> "vibe", e |-> Name("m"), arms |-> arms, els |-> els]
Holla(live, ghosted) ==
  [k |-> "holla", e |-> Name("t"), n |-> "h",
   live |-> <<Say([k |-> "hp", n |-> "h"])>> \o live, ghosted |-> ghosted]

Inner(kind, a, b) ==
  CASE kind = "fr" -> Fr(<<If(EitherAsk, a)>>, <<>>)
    [] kind = "naw" -> Fr(<<If(Ask, a)>>, <<b>>)
    [] kind = "elif" -> Fr(<<If(Cond, a), If(EitherAsk, b)>>, <<a>>)
    [] kind = "vibin" -> Vibin(a)
    [] kind = "squad" -> Squad(a)
    [] kind = "vibe" -> Vibe(<<Arm(0, <<>>, a), Arm(1, <<"x">>, b), Arm(2, <<"p">>, a)>>, <<>>)
    [] kind = "default" -> Vibe(<<Arm(1, <<"x">>, a)>>, <<b>>)
    [] kind = "holla" -> Holla(a, b)
    [] kind = "missing" -> Vibe(<<Arm(0, <<>>, a), Arm(1, <<"x">>, b)>>, <<>>)

Outer(kind, s) ==
  CASE kind = "plain" -> <<s>>
    [] kind = "vibin" -> <<Vibin(<<s, Inc>>)>>
    [] kind = "squad" -> <<Squad(<<s, Say(X)>>)>>
    [] kind = "holla" -> <<Holla(<<s, Inc>>, <<Vibin(<<s>>)>>)>>

Inners == {"fr", "naw", "elif", "vibin", "squad", "vibe", "default", "holla"}

\* The second arm is the first, or one that assigns.
MCPrograms ==
  [p \in {"plain", "vibin", "squad", "holla"}
           \X (IF Exhaustive THEN Inners ELSE {"missing"}) \X (DOMAIN Arms) \X BOOLEAN |->
     <<[k |-> "var", n |-> "x", e |-> Lit(0)]>>
       \o Outer(p[1], Inner(p[2], Arms[p[3]], IF p[4] THEN Arms[p[3]] ELSE Arms[2]))
       \o <<Say(X), Bet>>]

World(present, sum, ref) ==
  [y |-> << <<present>> >>, m |-> sum, xs |-> << <<5>>, <<6>> >>, t |-> ref]

MCWorlds ==
  { World(0, << <<0>>, <<0>> >>, Undef),
    World(0, << <<1>>, <<8>> >>, << << <<9>> >> >>),
    World(1, << <<2>>, <<8>> >>, << << <<9>> >> >>) }

MCTapes == {<<1, 0, 1>>, <<0, 1, 1>>, <<1, 1, 1>>, <<0, 0, 0>>}

MCLowered ==
  LET programs == DOMAIN MCPrograms
  IN  [p \in programs |-> lower_fn_core(MCPrograms[p])]

MCExpected ==
  LET calls == (DOMAIN MCPrograms) \X MCWorlds \X MCTapes
  IN  [call \in calls |-> Interp!call_fn(call[2], MCPrograms[call[1]], call[3])]
=============================================================================
