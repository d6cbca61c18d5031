----------------------------- MODULE KeyProofs -----------------------------
(***************************************************************************)
(* Proofs about input events, for any keys, queue and length of run.       *)
(***************************************************************************)
EXTENDS KeyInput, BasicLemmas, SequenceTheorems, FiniteSetTheorems, TLAPS

-----------------------------------------------------------------------------
(* What the flag says of the past: it is set with the first QUIT and never *)
(* cleared, so it counts the QUITs ever queued.                            *)
QuitCounted == /\ quit_sent \in BOOLEAN
               /\ quits = IF quit_sent THEN 1 ELSE 0

LEMMA InitQuits == Init => QuitCounted
BY DEF Init, QuitCounted

LEMMA PumpQuits ==
    ASSUME QuitCounted, NEW raw, NEW array, pump_input(raw, array)
    PROVE  QuitCounted'
<1>1. quit_sent' = (quit_sent \/ window = "closed") /\ quits' = quits + Len(QuitEvent)
  BY DEF pump_input
<1>2. CASE quit_sent \/ window # "closed"
  <2>1. Len(QuitEvent) = 0
    BY <1>2 DEF QuitEvent
  <2> QED BY <1>1, <1>2, <2>1 DEF QuitCounted
<1>3. CASE ~quit_sent /\ window = "closed"
  <2>1. Len(QuitEvent) = 1
    BY <1>3 DEF QuitEvent
  <2>2. quit_sent' = TRUE
    BY Zenon, <1>1, <1>3
  <2>3. quits = 0
    BY <1>3 DEF QuitCounted
  <2>4. quits' = 1
    BY <1>1, <2>1, <2>3
  <2> QED BY <2>2, <2>4 DEF QuitCounted
<1> QED BY <1>2, <1>3

LEMMA StepQuits == QuitCounted /\ [Next]_vars => QuitCounted'
<1> SUFFICES ASSUME QuitCounted, [Next]_vars PROVE QuitCounted'
  OBVIOUS
<1>1. CASE present
  <2>1. PICK raw, array : pump_input(raw, array)
    BY <1>1 DEF present
  <2> QED BY <2>1, PumpQuits
<1>2. CASE PumpOnly
  BY <1>2, PumpQuits DEF PumpOnly
<1>3. ASSUME \/ KeyMove \/ Blur \/ ButtonMove \/ Close \/ FirstPresent \/ poll \/ UNCHANGED vars
      PROVE  UNCHANGED <<quit_sent, quits>>
  <2>1. CASE KeyMove \/ Blur \/ ButtonMove
    BY <2>1 DEF KeyMove, Blur, ButtonMove, gameVars
  <2>2. CASE Close \/ FirstPresent \/ poll
    BY <2>2 DEF Close, FirstPresent, poll, gameVars, ghostVars
  <2>3. CASE UNCHANGED vars
    BY <2>3 DEF vars, gameVars, ghostVars
  <2> QED BY <1>3, <2>1, <2>2, <2>3
<1> QED BY <1>1, <1>2, <1>3 DEF Next, QuitCounted

(* pump_input queues one QUIT for a closed window, in every order of       *)
(* frames, polls and key events, and none before it closes.                *)
THEOREM QuitsOnce == Spec => []OneQuit
<1>1. QuitCounted => OneQuit
  BY DEF QuitCounted, OneQuit
<1>2. Spec => []QuitCounted
  BY InitQuits, StepQuits, PTL DEF Spec
<1> QED BY <1>1, <1>2, PTL

-----------------------------------------------------------------------------
(* Key transitions, and the edges they make. *)
Levels == [Keys -> BOOLEAN]
Moves == [what : {"key"}, key : Keys, state : BOOLEAN]
KeyEdges == [kind : {"down", "up"}, code : Keys]
Pulses == [down : Levels, out : Seq(KeyEdges)]

LEMMA Codings ==
    /\ Keys \subseteq Nat /\ Left \notin Keys /\ Right \notin Keys /\ Left # Right
    /\ -1 \notin Codes
BY KeyAssumption DEF Keys, Left, Right, Codes, Buttons

LEMMA EdgeStep ==
    ASSUME NEW s \in Pulses, NEW k \in Keys, NEW b \in BOOLEAN
    PROVE  /\ edge(s, k, b) \in Pulses
           /\ edge(s, k, b).down = [s.down EXCEPT ![k] = b]
           /\ s.down[k] = b => edge(s, k, b) = s
           /\ s.down[k] # b => edge(s, k, b).out = Append(s.out, Edge(k, b))
<1>0. s.down \in Levels /\ s.out \in Seq(KeyEdges)
  BY DEF Pulses
<1>1. CASE s.down[k] = b
  <2>1. edge(s, k, b) = s
    BY <1>1 DEF edge
  <2>2. s.down = [s.down EXCEPT ![k] = b]
    BY <1>0, <1>1 DEF Levels
  <2> QED BY <1>1, <2>1, <2>2
<1>2. CASE s.down[k] # b
  <2>1. edge(s, k, b) = [down |-> [s.down EXCEPT ![k] = b], out |-> Append(s.out, Edge(k, b))]
    BY <1>2 DEF edge
  <2>2. Edge(k, b) \in KeyEdges
    BY DEF Edge, Event, KeyEdges
  <2> DEFINE e == Edge(k, b)
             d == [s.down EXCEPT ![k] = b]
             o == Append(s.out, e)
  <2>3. d \in Levels
    BY <1>0 DEF Levels
  <2> HIDE DEF e
  <2>4. o \in Seq(KeyEdges)
    BY <1>0, <2>2 DEF e
  <2>5. edge(s, k, b) = [down |-> d, out |-> o]
    BY <2>1 DEF e
  <2> HIDE DEF d, o
  <2>6. edge(s, k, b) \in Pulses /\ edge(s, k, b).down = d /\ edge(s, k, b).out = o
    BY <2>3, <2>4, <2>5 DEF Pulses
  <2> QED BY <1>2, <2>6 DEF d, o, e
<1> QED BY <1>1, <1>2

(* f are the states that replaying the transitions ts goes through. *)
Replays(s, ts, f) == /\ f[0] = s
                     /\ \A n \in 1 .. Len(ts) : f[n] = edge(f[n - 1], ts[n].key, ts[n].state)

LEMMA ReplaysTypes ==
    ASSUME NEW s \in Pulses, NEW ts \in Seq(Moves), NEW f, Replays(s, ts, f)
    PROVE  \A n \in 0 .. Len(ts) : f[n] \in Pulses
<1> DEFINE Good == {n \in Nat : n <= Len(ts) => f[n] \in Pulses}
<1>0. Len(ts) \in Nat
  OBVIOUS
<1>1. 0 \in Good
  BY DEF Replays
<1>2. ASSUME NEW n \in Good PROVE n + 1 \in Good
  <2>1. CASE n + 1 <= Len(ts)
    <3>1. n + 1 \in 1 .. Len(ts) /\ (n + 1) - 1 = n /\ f[n] \in Pulses
      BY <1>0, <2>1
    <3>2. f[n + 1] = edge(f[(n + 1) - 1], ts[n + 1].key, ts[n + 1].state)
      BY <3>1 DEF Replays
    <3>3. ts[n + 1] \in Moves
      BY <3>1
    <3>4. ts[n + 1].key \in Keys /\ ts[n + 1].state \in BOOLEAN
      BY <3>3 DEF Moves
    <3>5. edge(f[n], ts[n + 1].key, ts[n + 1].state) \in Pulses
      BY <3>1, <3>4, EdgeStep
    <3> QED BY <3>1, <3>2, <3>5
  <2>2. CASE ~(n + 1 <= Len(ts))
    BY <2>2
  <2> QED BY <2>1, <2>2
<1> HIDE DEF Good
<1>3. Good = Nat
  BY <1>1, <1>2, StepByStep DEF Good
<1> QED BY <1>0, <1>3 DEF Good

LEMMA ReplaysUnique ==
    ASSUME NEW s, NEW ts, Len(ts) \in Nat, NEW f, NEW g, Replays(s, ts, f), Replays(s, ts, g)
    PROVE  \A n \in 0 .. Len(ts) : f[n] = g[n]
<1> DEFINE Equal == {n \in Nat : n <= Len(ts) => f[n] = g[n]}
<1>1. 0 \in Equal
  BY DEF Replays
<1>2. ASSUME NEW n \in Equal PROVE n + 1 \in Equal
  <2>1. CASE n + 1 <= Len(ts)
    <3>1. n + 1 \in 1 .. Len(ts) /\ (n + 1) - 1 = n /\ f[n] = g[n]
      BY <2>1
    <3>2. /\ f[n + 1] = edge(f[(n + 1) - 1], ts[n + 1].key, ts[n + 1].state)
          /\ g[n + 1] = edge(g[(n + 1) - 1], ts[n + 1].key, ts[n + 1].state)
      BY <3>1 DEF Replays
    <3> QED BY <3>1, <3>2
  <2>2. CASE ~(n + 1 <= Len(ts))
    BY <2>2
  <2> QED BY <2>1, <2>2
<1> HIDE DEF Equal
<1>3. Equal = Nat
  BY <1>1, <1>2, StepByStep DEF Equal
<1> QED BY <1>3 DEF Equal

LEMMA ReplaysExist ==
    ASSUME NEW s \in Pulses, NEW ts \in Seq(Moves)
    PROVE  \E f : Replays(s, ts, f)
<1> DEFINE step == [a \in Nat \X Pulses |->
                      IF a[1] < Len(ts)
                      THEN edge(a[2], ts[a[1] + 1].key, ts[a[1] + 1].state) ELSE a[2]]
<1>1. Len(ts) \in Nat
  OBVIOUS
<1>2. step \in [Nat \X Pulses -> Pulses]
  <2>1. ASSUME NEW a \in Nat \X Pulses, a[1] < Len(ts)
        PROVE  edge(a[2], ts[a[1] + 1].key, ts[a[1] + 1].state) \in Pulses
    <3>1. a[1] + 1 \in 1 .. Len(ts) /\ a[2] \in Pulses
      BY <1>1, <2>1
    <3>2. ts[a[1] + 1] \in Moves
      BY <3>1
    <3>3. ts[a[1] + 1].key \in Keys /\ ts[a[1] + 1].state \in BOOLEAN
      BY <3>2 DEF Moves
    <3> QED BY <3>1, <3>3, EdgeStep
  <2>2. \A a \in Nat \X Pulses : a[2] \in Pulses
    OBVIOUS
  <2> QED BY <2>1, <2>2
<1>3. \A n \in Nat, p \in Pulses :
        n < Len(ts) => step[<<n, p>>] = edge(p, ts[n + 1].key, ts[n + 1].state)
  OBVIOUS
<1> HIDE DEF step
<1>4. PICK g : Steps(Pulses, s, step, g)
  BY <1>2, Recursion DEF Steppable
<1>5. g \in [Nat -> Pulses] /\ g[0] = s /\ \A n \in Nat : g[n + 1] = step[<<n, g[n]>>]
  BY <1>4 DEF Steps
<1>6. ASSUME NEW n \in 1 .. Len(ts) PROVE g[n] = edge(g[n - 1], ts[n].key, ts[n].state)
  <2>1. n - 1 \in Nat /\ (n - 1) + 1 = n /\ n - 1 < Len(ts)
    BY <1>1
  <2>2. g[(n - 1) + 1] = step[<<n - 1, g[n - 1]>>] /\ g[n - 1] \in Pulses
    BY <1>5, <2>1
  <2>3. step[<<n - 1, g[n - 1]>>]
          = edge(g[n - 1], ts[(n - 1) + 1].key, ts[(n - 1) + 1].state)
    BY <1>3, <2>1, <2>2
  <2> QED BY <2>1, <2>2, <2>3
<1> QED BY <1>5, <1>6 DEF Replays

(* What edges computes. *)
LEMMA EdgesReplay ==
    ASSUME NEW s \in Pulses, NEW ts \in Seq(Moves)
    PROVE  \E f : Replays(s, ts, f) /\ f[Len(ts)] = edges(s, ts)
<1> DEFINE IsIt(f) == f = [n \in 0 .. Len(ts) |->
                             IF n = 0 THEN s ELSE edge(f[n - 1], ts[n].key, ts[n].state)]
<1>1. Len(ts) \in Nat
  OBVIOUS
<1>2. PICK g : Replays(s, ts, g)
  BY ReplaysExist
<1> DEFINE f == [n \in 0 .. Len(ts) |-> g[n]]
<1>3. ASSUME NEW n \in 0 .. Len(ts)
      PROVE  g[n] = IF n = 0 THEN s ELSE edge(f[n - 1], ts[n].key, ts[n].state)
  <2>1. CASE n = 0
    BY <1>2, <2>1 DEF Replays
  <2>2. CASE n # 0
    <3>1. n \in 1 .. Len(ts) /\ n - 1 \in 0 .. Len(ts)
      BY <1>1, <2>2
    <3>2. g[n] = edge(g[n - 1], ts[n].key, ts[n].state) /\ f[n - 1] = g[n - 1]
      BY <1>2, <3>1 DEF Replays
    <3> QED BY <2>2, <3>2
  <2> QED BY <2>1, <2>2
<1>4. IsIt(f)
  BY <1>3
<1> HIDE DEF f
<1> DEFINE d == CHOOSE h : IsIt(h)
<1>5. edges(s, ts) = d[Len(ts)]
  BY DEF edges
<1> HIDE DEF IsIt
<1>6. IsIt(d)
  BY <1>4
<1> HIDE DEF d
<1>7. \A n \in 0 .. Len(ts) :
        d[n] = IF n = 0 THEN s ELSE edge(d[n - 1], ts[n].key, ts[n].state)
  BY <1>6 DEF IsIt
<1>8. d[0] = s /\ \A n \in 1 .. Len(ts) : d[n] = edge(d[n - 1], ts[n].key, ts[n].state)
  BY <1>1, <1>7
<1>9. Replays(s, ts, d)
  BY <1>8 DEF Replays
<1> QED BY <1>5, <1>9

LEMMA EdgesTypes ==
    ASSUME NEW s \in Pulses, NEW ts \in Seq(Moves)
    PROVE  edges(s, ts) \in Pulses
<1>1. PICK f : Replays(s, ts, f) /\ f[Len(ts)] = edges(s, ts)
  BY EdgesReplay
<1>2. Len(ts) \in 0 .. Len(ts)
  OBVIOUS
<1> QED BY <1>1, <1>2, ReplaysTypes

LEMMA EdgesEmpty ==
    ASSUME NEW s \in Pulses
    PROVE  edges(s, <<>>) = s
<1>1. <<>> \in Seq(Moves) /\ Len(<<>>) = 0
  OBVIOUS
<1>2. PICK f : Replays(s, <<>>, f) /\ f[Len(<<>>)] = edges(s, <<>>)
  BY <1>1, EdgesReplay
<1> QED BY <1>1, <1>2 DEF Replays

LEMMA EdgesAppended ==
    ASSUME NEW s \in Pulses, NEW ts \in Seq(Moves), NEW t \in Moves
    PROVE  edges(s, Append(ts, t)) = edge(edges(s, ts), t.key, t.state)
<1> DEFINE r == Append(ts, t)
           n == Len(ts)
<1>1. r \in Seq(Moves) /\ Len(r) = n + 1 /\ r[n + 1] = t /\ \A i \in 1 .. n : r[i] = ts[i]
  OBVIOUS
<1>2. n \in Nat /\ n \in 0 .. n /\ n + 1 \in 1 .. n + 1 /\ (n + 1) - 1 = n
  OBVIOUS
<1> HIDE DEF r
<1>3. PICK f : Replays(s, ts, f) /\ f[Len(ts)] = edges(s, ts)
  BY EdgesReplay
<1>4. PICK g : Replays(s, r, g) /\ g[Len(r)] = edges(s, r)
  BY <1>1, EdgesReplay
<1>5. \A i \in 1 .. n : g[i] = edge(g[i - 1], ts[i].key, ts[i].state)
  <2>1. \A i \in 1 .. n : i \in 1 .. Len(r)
    BY <1>1, <1>2
  <2> QED BY <1>1, <1>4, <2>1 DEF Replays
<1>6. Replays(s, ts, g)
  BY <1>4, <1>5 DEF Replays
<1>7. g[n] = edges(s, ts)
  BY <1>2, <1>3, <1>6, ReplaysUnique
<1>8. g[n + 1] = edge(g[(n + 1) - 1], r[n + 1].key, r[n + 1].state)
  BY <1>1, <1>2, <1>4 DEF Replays
<1>9. edges(s, r) = edge(edges(s, ts), t.key, t.state)
  BY <1>1, <1>2, <1>4, <1>7, <1>8
<1> QED BY <1>9 DEF r

-----------------------------------------------------------------------------
(* A queue of events between two states of knowledge: polling q takes a    *)
(* game that knows L to M, and every key or button event is news to it.    *)
Known == [Codes -> BOOLEAN]
KeyOrButton == [kind : {"down", "up"}, code : Codes]
Events == KeyOrButton \cup {QUIT}

News(known, e) == e # QUIT => known[e.code] # (e.kind = "down")

Hears(L, q, f) == /\ f[0] = L
                  /\ \A i \in 1 .. Len(q) : f[i] = Heard(f[i - 1], q[i]) /\ News(f[i - 1], q[i])

Alternates(L, q, M) == /\ L \in Known /\ q \in Seq(Events)
                       /\ \E f : Hears(L, q, f) /\ f[Len(q)] = M

LEMMA NothingAlternates == ASSUME NEW L \in Known PROVE Alternates(L, <<>>, L)
<1> DEFINE f == [n \in {0} |-> L]
<1>1. <<>> \in Seq(Events) /\ Len(<<>>) = 0 /\ f[0] = L
  OBVIOUS
<1> HIDE DEF f
<1>2. Hears(L, <<>>, f) /\ f[Len(<<>>)] = L
  BY <1>1 DEF Hears
<1> QED BY <1>1, <1>2 DEF Alternates

LEMMA AlternatesAppended ==
    ASSUME NEW L, NEW q, NEW M, Alternates(L, q, M), NEW e \in Events, News(M, e)
    PROVE  Alternates(L, Append(q, e), Heard(M, e))
<1>1. PICK f : Hears(L, q, f) /\ f[Len(q)] = M
  BY DEF Alternates
<1> DEFINE r == Append(q, e)
           n == Len(q)
           g == [i \in 0 .. n + 1 |-> IF i = n + 1 THEN Heard(M, e) ELSE f[i]]
<1>2. /\ L \in Known /\ q \in Seq(Events) /\ n \in Nat
      /\ r \in Seq(Events) /\ Len(r) = n + 1 /\ r[n + 1] = e /\ \A i \in 1 .. n : r[i] = q[i]
  BY DEF Alternates
<1>3. g[n + 1] = Heard(M, e) /\ \A i \in 0 .. n : g[i] = f[i]
  BY <1>2
<1> HIDE DEF r, g
<1>4. g[0] = L
  BY <1>1, <1>2, <1>3 DEF Hears
<1>5. ASSUME NEW i \in 1 .. n + 1 PROVE g[i] = Heard(g[i - 1], r[i]) /\ News(g[i - 1], r[i])
  <2>1. CASE i = n + 1
    <3>1. i - 1 = n /\ n \in 0 .. n
      BY <1>2, <2>1
    <3> QED BY <1>1, <1>2, <1>3, <2>1, <3>1
  <2>2. CASE i # n + 1
    <3>1. i \in 1 .. n /\ i \in 0 .. n /\ i - 1 \in 0 .. n
      BY <1>2, <2>2
    <3>2. f[i] = Heard(f[i - 1], q[i]) /\ News(f[i - 1], q[i])
      BY <1>1, <3>1 DEF Hears
    <3> QED BY <1>2, <1>3, <3>1, <3>2
  <2> QED BY <2>1, <2>2
<1>6. Hears(L, r, g)
  BY <1>2, <1>4, <1>5 DEF Hears
<1>7. Alternates(L, r, Heard(M, e))
  BY <1>2, <1>3, <1>6 DEF Alternates
<1> QED BY <1>7 DEF r

LEMMA AlternatesJoined ==
    ASSUME NEW L, NEW q, NEW M, NEW r, NEW N, Alternates(L, q, M), Alternates(M, r, N)
    PROVE  Alternates(L, q \o r, N)
<1>1. PICK f : Hears(L, q, f) /\ f[Len(q)] = M
  BY DEF Alternates
<1>2. PICK h : Hears(M, r, h) /\ h[Len(r)] = N
  BY DEF Alternates
<1> DEFINE a == Len(q)
           b == Len(r)
           c == q \o r
           g == [i \in 0 .. a + b |-> IF i <= a THEN f[i] ELSE h[i - a]]
<1>3. /\ L \in Known /\ q \in Seq(Events) /\ r \in Seq(Events) /\ a \in Nat /\ b \in Nat
      /\ c \in Seq(Events) /\ Len(c) = a + b
      /\ \A i \in 1 .. a : c[i] = q[i]
      /\ \A i \in 1 .. a + b : i > a => c[i] = r[i - a]
  BY DEF Alternates
<1>4. (\A i \in 0 .. a : g[i] = f[i]) /\ (\A i \in 0 .. a + b : i > a => g[i] = h[i - a])
  BY <1>3
<1>5. f[0] = L /\ h[0] = M
  BY <1>1, <1>2 DEF Hears
<1>6. \A i \in 1 .. a : f[i] = Heard(f[i - 1], q[i]) /\ News(f[i - 1], q[i])
  BY <1>1 DEF Hears
<1>7. \A i \in 1 .. b : h[i] = Heard(h[i - 1], r[i]) /\ News(h[i - 1], r[i])
  BY <1>2 DEF Hears
<1> HIDE DEF c, g
<1>8. ASSUME NEW i \in 1 .. a + b PROVE g[i] = Heard(g[i - 1], c[i]) /\ News(g[i - 1], c[i])
  <2>1. CASE i <= a
    <3>1. i \in 1 .. a /\ i \in 0 .. a /\ i - 1 \in 0 .. a
      BY <1>3, <2>1
    <3> QED BY <1>3, <1>4, <1>6, <3>1
  <2>2. CASE i > a
    <3>1. i - a \in 1 .. b /\ g[i] = h[i - a] /\ c[i] = r[i - a]
      BY <1>3, <1>4, <2>2
    <3>2. h[i - a] = Heard(h[(i - a) - 1], r[i - a]) /\ News(h[(i - a) - 1], r[i - a])
      BY <1>7, <3>1
    <3>3. g[i - 1] = h[(i - a) - 1]
      <4>1. CASE i - 1 = a
        <5>1. (i - a) - 1 = 0 /\ i - 1 \in 0 .. a
          BY <1>3, <4>1
        <5>2. g[i - 1] = f[a]
          BY <1>4, <4>1, <5>1
        <5> QED BY <1>1, <1>5, <5>1, <5>2
      <4>2. CASE i - 1 # a
        <5>1. i - 1 \in 0 .. a + b /\ i - 1 > a /\ (i - 1) - a = (i - a) - 1
          BY <1>3, <2>2, <4>2
        <5>2. g[i - 1] = h[(i - 1) - a]
          BY <1>4, <5>1
        <5> QED BY <5>1, <5>2
      <4> QED BY <4>1, <4>2
    <3> QED BY <3>1, <3>2, <3>3
  <2> QED BY <1>3, <2>1, <2>2
<1>9. g[0] = L
  BY <1>3, <1>4, <1>5
<1>10. g[a + b] = N
  <2>1. CASE b = 0
    <3>1. g[a] = f[a] /\ a + b = a
      BY <1>3, <1>4, <2>1
    <3> QED BY <1>1, <1>2, <1>5, <2>1, <3>1
  <2>2. CASE b # 0
    <3>1. a + b \in 0 .. a + b /\ a + b > a /\ (a + b) - a = b
      BY <1>3, <2>2
    <3>2. g[a + b] = h[(a + b) - a]
      BY <1>4, <3>1
    <3> QED BY <1>2, <3>1, <3>2
  <2> QED BY <2>1, <2>2
<1>11. Hears(L, c, g)
  BY <1>3, <1>8, <1>9 DEF Hears
<1>12. Alternates(L, c, N)
  BY <1>3, <1>10, <1>11 DEF Alternates
<1> QED BY <1>12 DEF c

LEMMA HeardKnown ==
    ASSUME NEW L \in Known, NEW e \in Events
    PROVE  Heard(L, e) \in Known
BY DEF Heard, Known, Events, KeyOrButton

LEMMA AlternatesTail ==
    ASSUME NEW L, NEW q, NEW M, Alternates(L, q, M), q # <<>>
    PROVE  Alternates(Heard(L, Head(q)), Tail(q), M)
<1>1. PICK f : Hears(L, q, f) /\ f[Len(q)] = M
  BY DEF Alternates
<1> DEFINE r == Tail(q)
           e == Head(q)
           n == Len(q)
           g == [i \in Nat |-> f[i + 1]]
<1>2. /\ L \in Known /\ q \in Seq(Events) /\ n \in Nat /\ n >= 1
      /\ r \in Seq(Events) /\ Len(r) = n - 1 /\ e \in Events /\ e = q[1]
      /\ \A i \in 1 .. n - 1 : r[i] = q[i + 1]
  BY DEF Alternates
<1> HIDE DEF r, e
<1>3. \A i \in Nat : g[i] = f[i + 1]
  OBVIOUS
<1> HIDE DEF g
<1>4. f[0] = L /\ \A i \in 1 .. n : f[i] = Heard(f[i - 1], q[i]) /\ News(f[i - 1], q[i])
  BY <1>1 DEF Hears
<1>5. g[0] = Heard(L, e)
  <2>1. 1 \in 1 .. n /\ 1 - 1 = 0 /\ 0 + 1 = 1
    BY <1>2
  <2>2. f[1] = Heard(f[1 - 1], q[1])
    BY <1>4, <2>1
  <2>3. g[0] = f[0 + 1]
    BY <1>3
  <2> QED BY <1>2, <1>4, <2>1, <2>2, <2>3
<1>6. ASSUME NEW i \in 1 .. n - 1 PROVE g[i] = Heard(g[i - 1], r[i]) /\ News(g[i - 1], r[i])
  <2>1. i + 1 \in 1 .. n /\ (i + 1) - 1 = i /\ i \in Nat /\ i - 1 \in Nat /\ (i - 1) + 1 = i
    BY <1>2
  <2>2. f[i + 1] = Heard(f[(i + 1) - 1], q[i + 1]) /\ News(f[(i + 1) - 1], q[i + 1])
    BY <1>4, <2>1
  <2>3. g[i] = f[i + 1] /\ g[i - 1] = f[(i - 1) + 1]
    BY <1>3, <2>1
  <2> QED BY <1>2, <2>1, <2>2, <2>3
<1>7. g[Len(r)] = M
  <2>1. n - 1 \in Nat /\ (n - 1) + 1 = n
    BY <1>2
  <2>2. g[n - 1] = f[(n - 1) + 1]
    BY <1>3, <2>1
  <2> QED BY <1>1, <1>2, <2>1, <2>2
<1>8. Hears(Heard(L, e), r, g)
  BY <1>2, <1>5, <1>6 DEF Hears
<1>9. Alternates(Heard(L, e), r, M)
  BY <1>2, <1>7, <1>8, HeardKnown DEF Alternates
<1> QED BY <1>9 DEF r, e

(* The definition that EdgesAlternate reads computes the same.             *)
LEMMA AlternatesPolled ==
    ASSUME NEW M, Alternates(polled, events, M)
    PROVE  /\ PolledAfter[Len(events)] = M
           /\ \A i \in 1 .. Len(events) : News(PolledAfter[i - 1], events[i])
<1> DEFINE IsIt(f) == f = [n \in 0 .. Len(events) |->
                             IF n = 0 THEN polled ELSE Heard(f[n - 1], events[n])]
<1>1. Len(events) \in Nat
  BY DEF Alternates
<1>2. PICK g : Hears(polled, events, g) /\ g[Len(events)] = M
  BY DEF Alternates
<1> DEFINE f == [n \in 0 .. Len(events) |-> g[n]]
<1>3. ASSUME NEW n \in 0 .. Len(events)
      PROVE  g[n] = IF n = 0 THEN polled ELSE Heard(f[n - 1], events[n])
  <2>1. CASE n = 0
    BY <1>2, <2>1 DEF Hears
  <2>2. CASE n # 0
    <3>1. n \in 1 .. Len(events) /\ n - 1 \in 0 .. Len(events)
      BY <1>1, <2>2
    <3>2. g[n] = Heard(g[n - 1], events[n]) /\ f[n - 1] = g[n - 1]
      BY <1>2, <3>1 DEF Hears
    <3> QED BY <2>2, <3>2
  <2> QED BY <2>1, <2>2
<1>4. IsIt(f)
  BY <1>3
<1> HIDE DEF f
<1> DEFINE d == PolledAfter
<1>5. d = CHOOSE h : IsIt(h)
  BY DEF PolledAfter
<1> HIDE DEF IsIt, d
<1>6. IsIt(d)
  BY <1>4, <1>5
<1>7. \A n \in 0 .. Len(events) : d[n] = IF n = 0 THEN polled ELSE Heard(d[n - 1], events[n])
  BY <1>6 DEF IsIt
<1> DEFINE Equal == {n \in Nat : n <= Len(events) => d[n] = g[n]}
<1>8. 0 \in Equal
  BY <1>1, <1>2, <1>7 DEF Hears
<1>9. ASSUME NEW n \in Equal PROVE n + 1 \in Equal
  <2>1. CASE n + 1 <= Len(events)
    <3>1. /\ n + 1 \in 1 .. Len(events) /\ n + 1 \in 0 .. Len(events) /\ n + 1 # 0
          /\ (n + 1) - 1 = n /\ d[n] = g[n]
      BY <1>1, <2>1
    <3>2. d[n + 1] = Heard(d[(n + 1) - 1], events[n + 1])
      BY <1>7, <3>1
    <3>3. g[n + 1] = Heard(g[(n + 1) - 1], events[n + 1])
      BY <1>2, <3>1 DEF Hears
    <3> QED BY <3>1, <3>2, <3>3
  <2>2. CASE ~(n + 1 <= Len(events))
    BY <2>2
  <2> QED BY <2>1, <2>2
<1> HIDE DEF Equal
<1>10. Equal = Nat
  BY <1>8, <1>9, StepByStep DEF Equal
<1>11. \A n \in 0 .. Len(events) : d[n] = g[n]
  BY <1>1, <1>10 DEF Equal
<1>12. d[Len(events)] = M
  BY <1>1, <1>2, <1>11
<1>13. ASSUME NEW i \in 1 .. Len(events) PROVE News(d[i - 1], events[i])
  <2>1. i - 1 \in 0 .. Len(events)
    BY <1>1
  <2> QED BY <1>2, <1>11, <2>1 DEF Hears
<1> QED BY <1>12, <1>13 DEF d

-----------------------------------------------------------------------------
(* What a pump adds to the queue takes a game from the debounced state     *)
(* before it to the one after it.                                          *)
Debounced == [Buttons -> BOOLEAN]
LevelsOf(d, m) == [c \in Codes |-> IF c \in Keys THEN d[c] ELSE m[c]]

LEMMA LevelsKnown ==
    ASSUME NEW d \in Levels, NEW m \in Debounced
    PROVE  LevelsOf(d, m) \in Known
<1>1. ASSUME NEW c \in Codes PROVE (IF c \in Keys THEN d[c] ELSE m[c]) \in BOOLEAN
  BY DEF Codes, Levels, Debounced
<1> QED BY <1>1 DEF LevelsOf, Known

LEMMA KeyHeard ==
    ASSUME NEW d \in Levels, NEW m \in Debounced, NEW k \in Keys, NEW b \in BOOLEAN
    PROVE  /\ Edge(k, b) \in Events
           /\ d[k] # b => News(LevelsOf(d, m), Edge(k, b))
           /\ Heard(LevelsOf(d, m), Edge(k, b)) = LevelsOf([d EXCEPT ![k] = b], m)
<1> DEFINE e == Edge(k, b)
           L == LevelsOf(d, m)
           D == [d EXCEPT ![k] = b]
<1>1. e.code = k /\ (e.kind = "down") = b /\ e # QUIT /\ e \in Events /\ k \in Codes
  <2>1. k \in Codes /\ k # -1
    BY Codings DEF Codes
  <2>2. e = [kind |-> IF b THEN "down" ELSE "up", code |-> k]
    BY DEF Edge, Event
  <2>3. e.code = k /\ e.kind = (IF b THEN "down" ELSE "up") /\ e.kind \in {"down", "up"}
    BY <2>2
  <2>4. QUIT.code = -1
    BY DEF QUIT, Event
  <2>5. e \in KeyOrButton
    BY <2>1, <2>2 DEF KeyOrButton
  <2>6. (e.kind = "down") = b
    BY <2>3
  <2> QED BY <2>1, <2>3, <2>4, <2>5, <2>6 DEF Events
<1> HIDE DEF e
<1>2. L[k] = d[k]
  BY <1>1 DEF LevelsOf
<1>3. [L EXCEPT ![k] = b] = LevelsOf(D, m)
  <2>1. DOMAIN d = Keys
    BY DEF Levels
  <2>2. \A c \in Keys : D[c] = IF c = k THEN b ELSE d[c]
    BY <2>1
  <2> HIDE DEF D
  <2>3. \A c \in Codes : (IF c = k THEN b ELSE IF c \in Keys THEN d[c] ELSE m[c])
                           = (IF c \in Keys THEN D[c] ELSE m[c])
    BY <2>2
  <2>4. [L EXCEPT ![k] = b]
          = [c \in Codes |-> IF c = k THEN b ELSE IF c \in Keys THEN d[c] ELSE m[c]]
    BY DEF LevelsOf
  <2> QED BY <2>3, <2>4 DEF LevelsOf
<1>4. Heard(L, e) = [L EXCEPT ![k] = b]
  BY <1>1 DEF Heard
<1>5. d[k] # b => News(L, e)
  BY <1>1, <1>2 DEF News
<1> QED BY <1>1, <1>3, <1>4, <1>5 DEF e

(* The edges of any transitions alternate, if the edges before them do.    *)
LEMMA EdgesAlternating ==
    ASSUME NEW L, NEW m \in Debounced, NEW s \in Pulses, NEW ts \in Seq(Moves),
           Alternates(L, s.out, LevelsOf(s.down, m))
    PROVE  Alternates(L, edges(s, ts).out, LevelsOf(edges(s, ts).down, m))
<1>1. PICK f : Replays(s, ts, f) /\ f[Len(ts)] = edges(s, ts)
  BY EdgesReplay
<1>2. \A n \in 0 .. Len(ts) : f[n] \in Pulses
  BY <1>1, ReplaysTypes
<1> DEFINE Good == {n \in Nat : n <= Len(ts) => Alternates(L, f[n].out, LevelsOf(f[n].down, m))}
<1>3. Len(ts) \in Nat
  OBVIOUS
<1>4. 0 \in Good
  BY <1>1 DEF Replays
<1>5. ASSUME NEW n \in Good PROVE n + 1 \in Good
  <2>1. CASE n + 1 <= Len(ts)
    <3>1. n + 1 \in 1 .. Len(ts) /\ (n + 1) - 1 = n /\ n \in 0 .. Len(ts)
      BY <1>3, <2>1
    <3>2. f[n + 1] = edge(f[(n + 1) - 1], ts[n + 1].key, ts[n + 1].state)
      BY <1>1, <3>1 DEF Replays
    <3>3. ts[n + 1] \in Moves
      BY <3>1
    <3>4. PICK p \in Pulses : p = f[n]
      BY <1>2, <3>1
    <3>5. PICK k \in Keys, b \in BOOLEAN : k = ts[n + 1].key /\ b = ts[n + 1].state
      BY <3>3 DEF Moves
    <3>6. f[n + 1] = edge(p, k, b)
      BY <3>1, <3>2, <3>4, <3>5
    <3>7. Alternates(L, p.out, LevelsOf(p.down, m))
      BY <2>1, <3>1, <3>4
    <3>8. Alternates(L, edge(p, k, b).out, LevelsOf(edge(p, k, b).down, m))
      <4>1. CASE p.down[k] = b
        <5>1. edge(p, k, b) = p
          BY <4>1, EdgeStep
        <5> QED BY <3>7, <5>1
      <4>2. CASE p.down[k] # b
        <5>1. /\ edge(p, k, b).down = [p.down EXCEPT ![k] = b]
              /\ edge(p, k, b).out = Append(p.out, Edge(k, b))
          BY <4>2, EdgeStep
        <5>2. p.down \in Levels
          BY DEF Pulses
        <5>3. /\ Edge(k, b) \in Events
              /\ News(LevelsOf(p.down, m), Edge(k, b))
              /\ Heard(LevelsOf(p.down, m), Edge(k, b)) = LevelsOf([p.down EXCEPT ![k] = b], m)
          BY <4>2, <5>2, KeyHeard
        <5>4. Alternates(L, Append(p.out, Edge(k, b)), Heard(LevelsOf(p.down, m), Edge(k, b)))
          BY <3>7, <5>3, AlternatesAppended
        <5> QED BY <5>1, <5>3, <5>4
      <4> QED BY <4>1, <4>2
    <3> QED BY <3>6, <3>8
  <2>2. CASE ~(n + 1 <= Len(ts))
    BY <2>2
  <2> QED BY <2>1, <2>2
<1> HIDE DEF Good
<1>6. Good = Nat
  BY <1>4, <1>5, StepByStep DEF Good
<1>7. Alternates(L, f[Len(ts)].out, LevelsOf(f[Len(ts)].down, m))
  BY <1>3, <1>6 DEF Good
<1> QED BY <1>1, <1>7

(* The reconciling pass leaves every key as the library has it, and says   *)
(* nothing when that is how it already was.                                *)
LEMMA ReadMoves ==
    ASSUME NEW array \in Levels
    PROVE  /\ Read(array) \in Seq(Moves) /\ Len(Read(array)) = KeyCount
           /\ \A i \in 1 .. KeyCount : /\ i - 1 \in Keys
                                       /\ Read(array)[i].key = i - 1
                                       /\ Read(array)[i].state = array[i - 1]
<1>1. KeyCount \in Nat
  BY KeyAssumption
<1>2. ASSUME NEW i \in 1 .. KeyCount
      PROVE  i - 1 \in Keys /\ KeyMoves(i - 1, array[i - 1]) \in Moves
  <2>1. i - 1 \in Keys
    BY <1>1 DEF Keys
  <2>2. array[i - 1] \in BOOLEAN
    BY <2>1 DEF Levels
  <2> QED BY <2>1, <2>2 DEF KeyMoves, Moves
<1>3. Read(array) \in [1 .. KeyCount -> Moves]
  BY <1>2 DEF Read
<1>4. Read(array) \in Seq(Moves) /\ Len(Read(array)) = KeyCount
  BY <1>1, <1>3
<1>5. \A i \in 1 .. KeyCount : Read(array)[i] = KeyMoves(i - 1, array[i - 1])
  BY DEF Read
<1> QED BY <1>2, <1>4, <1>5 DEF KeyMoves

LEMMA Reconciled ==
    ASSUME NEW s \in Pulses, NEW array \in Levels
    PROVE  edges(s, Read(array)).down = array
<1> DEFINE ts == Read(array)
<1>1. /\ ts \in Seq(Moves) /\ Len(ts) = KeyCount
      /\ \A i \in 1 .. KeyCount : i - 1 \in Keys /\ ts[i].key = i - 1 /\ ts[i].state = array[i - 1]
  BY ReadMoves
<1> HIDE DEF ts
<1>2. PICK f : Replays(s, ts, f) /\ f[Len(ts)] = edges(s, ts)
  BY <1>1, EdgesReplay
<1>3. \A n \in 0 .. KeyCount : f[n] \in Pulses
  BY <1>1, <1>2, ReplaysTypes
<1>4. KeyCount \in Nat
  BY KeyAssumption
<1> DEFINE Good == {n \in Nat : n <= KeyCount => \A k \in Keys : k < n => f[n].down[k] = array[k]}
<1>5. 0 \in Good
  BY <1>4 DEF Keys
<1>6. ASSUME NEW n \in Good PROVE n + 1 \in Good
  <2>1. CASE n + 1 <= KeyCount
    <3>1. n + 1 \in 1 .. KeyCount /\ (n + 1) - 1 = n /\ n \in 0 .. KeyCount
      BY <1>4, <2>1
    <3>2. f[n + 1] = edge(f[(n + 1) - 1], ts[n + 1].key, ts[n + 1].state)
      BY <1>1, <1>2, <3>1 DEF Replays
    <3>3. n \in Keys /\ ts[n + 1].key = n /\ ts[n + 1].state = array[n]
      BY <1>1, <3>1
    <3>4. PICK p \in Pulses : p = f[n]
      BY <1>3, <3>1
    <3>5. PICK b \in BOOLEAN : b = array[n]
      BY <3>3 DEF Levels
    <3>6. f[n + 1] = edge(p, n, b)
      BY <3>1, <3>2, <3>3, <3>4, <3>5
    <3>7. f[n + 1].down = [p.down EXCEPT ![n] = b]
      BY <3>3, <3>6, EdgeStep
    <3>8. p.down \in [Keys -> BOOLEAN]
      BY DEF Pulses, Levels
    <3>9. \A k \in Keys : f[n + 1].down[k] = IF k = n THEN b ELSE p.down[k]
      BY <3>7, <3>8
    <3>10. \A k \in Keys : k < n => p.down[k] = array[k]
      BY <3>1, <3>4
    <3>11. \A k \in Keys : k < n + 1 => k < n \/ k = n
      BY Codings
    <3> QED BY <3>5, <3>9, <3>10, <3>11
  <2>2. CASE ~(n + 1 <= KeyCount)
    BY <2>2
  <2> QED BY <2>1, <2>2
<1> HIDE DEF Good
<1>7. Good = Nat
  BY <1>5, <1>6, StepByStep DEF Good
<1>8. \A k \in Keys : f[KeyCount].down[k] = array[k]
  <2>1. \A k \in Keys : k < KeyCount
    BY <1>4 DEF Keys
  <2> QED BY <1>4, <1>7, <2>1 DEF Good
<1>9. f[KeyCount].down \in [Keys -> BOOLEAN] /\ array \in [Keys -> BOOLEAN]
  BY <1>3, <1>4 DEF Pulses, Levels
<1>10. f[KeyCount].down = array
  BY <1>8, <1>9
<1> QED BY <1>1, <1>2, <1>10 DEF ts

LEMMA AlreadyReconciled ==
    ASSUME NEW s \in Pulses
    PROVE  edges(s, Read(s.down)) = s
<1> DEFINE ts == Read(s.down)
<1>1. s.down \in Levels
  BY DEF Pulses
<1>2. /\ ts \in Seq(Moves) /\ Len(ts) = KeyCount
      /\ \A i \in 1 .. KeyCount : i - 1 \in Keys /\ ts[i].key = i - 1 /\ ts[i].state = s.down[i - 1]
  BY <1>1, ReadMoves
<1> HIDE DEF ts
<1>3. PICK f : Replays(s, ts, f) /\ f[Len(ts)] = edges(s, ts)
  BY <1>2, EdgesReplay
<1>4. KeyCount \in Nat
  BY KeyAssumption
<1> DEFINE Same == {n \in Nat : n <= KeyCount => f[n] = s}
<1>5. 0 \in Same
  BY <1>3 DEF Replays
<1>6. ASSUME NEW n \in Same PROVE n + 1 \in Same
  <2>1. CASE n + 1 <= KeyCount
    <3>1. n + 1 \in 1 .. KeyCount /\ (n + 1) - 1 = n /\ f[n] = s
      BY <1>4, <2>1
    <3>2. f[n + 1] = edge(f[(n + 1) - 1], ts[n + 1].key, ts[n + 1].state)
      BY <1>2, <1>3, <3>1 DEF Replays
    <3>3. n \in Keys /\ ts[n + 1].key = n /\ ts[n + 1].state = s.down[n]
      BY <1>2, <3>1
    <3>4. f[n + 1] = edge(s, n, s.down[n])
      BY <3>1, <3>2, <3>3
    <3>5. edge(s, n, s.down[n]) = s
      BY DEF edge
    <3> QED BY <3>4, <3>5
  <2>2. CASE ~(n + 1 <= KeyCount)
    BY <2>2
  <2> QED BY <2>1, <2>2
<1> HIDE DEF Same
<1>7. Same = Nat
  BY <1>5, <1>6, StepByStep DEF Same
<1>8. f[KeyCount] = s
  BY <1>4, <1>7 DEF Same
<1> QED BY <1>2, <1>3, <1>8 DEF ts

LEMMA PumpSays ==
    ASSUME down \in Levels, NEW m \in Debounced, NEW raw \in Seq(Moves), NEW array \in Levels
    PROVE  /\ pump(raw, array) \in Pulses /\ pump(raw, array).down = array
           /\ Alternates(LevelsOf(down, m), pump(raw, array).out, LevelsOf(array, m))
<1> DEFINE s == edges(Quiet, raw)
           kb == edges(s, Read(array))
<1>1. Quiet \in Pulses /\ Quiet.down = down /\ Quiet.out = <<>>
  BY DEF Quiet, Pulses
<1>2. Read(array) \in Seq(Moves)
  BY ReadMoves
<1>3. s \in Pulses
  BY <1>1, EdgesTypes
<1>4. Alternates(LevelsOf(down, m), Quiet.out, LevelsOf(Quiet.down, m))
  BY <1>1, LevelsKnown, NothingAlternates
<1>5. Alternates(LevelsOf(down, m), s.out, LevelsOf(s.down, m))
  BY <1>1, <1>4, EdgesAlternating
<1> HIDE DEF s
<1>6. kb \in Pulses
  BY <1>2, <1>3, EdgesTypes
<1>7. kb.down = array
  BY <1>3, Reconciled
<1>8. Alternates(LevelsOf(down, m), kb.out, LevelsOf(kb.down, m))
  BY <1>2, <1>3, <1>5, EdgesAlternating
<1> HIDE DEF kb
<1>9. pump(raw, array) = kb
  BY DEF pump, s, kb
<1> QED BY <1>6, <1>7, <1>8, <1>9

LEMMA QuitSays ==
    ASSUME NEW L \in Known
    PROVE  Alternates(L, QuitEvent, L)
<1>1. Alternates(L, <<>>, L)
  BY NothingAlternates
<1>2. QUIT \in Events /\ News(L, QUIT) /\ Heard(L, QUIT) = L
  BY DEF Events, News, Heard
<1>3. Alternates(L, Append(<<>>, QUIT), L)
  BY <1>1, <1>2, AlternatesAppended
<1>4. <<QUIT>> = Append(<<>>, QUIT)
  OBVIOUS
<1>5. Alternates(L, <<QUIT>>, L)
  BY <1>3, <1>4
<1> QED BY <1>1, <1>5 DEF QuitEvent

LEMMA ButtonHeard ==
    ASSUME NEW d \in Levels, NEW m \in Debounced, NEW b \in Buttons, NEW v \in BOOLEAN
    PROVE  /\ Edge(b, v) \in Events
           /\ m[b] # v => News(LevelsOf(d, m), Edge(b, v))
           /\ Heard(LevelsOf(d, m), Edge(b, v)) = LevelsOf(d, [m EXCEPT ![b] = v])
<1> DEFINE e == Edge(b, v)
           L == LevelsOf(d, m)
           M == [m EXCEPT ![b] = v]
<1>1. b \in Codes /\ b \notin Keys /\ b # -1
  BY Codings DEF Codes, Buttons
<1>2. e.code = b /\ (e.kind = "down") = v /\ e # QUIT /\ e \in Events
  <2>1. e = [kind |-> IF v THEN "down" ELSE "up", code |-> b]
    BY DEF Edge, Event
  <2>2. e.code = b /\ e.kind = (IF v THEN "down" ELSE "up") /\ e.kind \in {"down", "up"}
    BY <2>1
  <2>3. QUIT.code = -1
    BY DEF QUIT, Event
  <2>4. e \in KeyOrButton
    BY <1>1, <2>1 DEF KeyOrButton
  <2>5. (e.kind = "down") = v
    BY <2>2
  <2> QED BY <1>1, <2>2, <2>3, <2>4, <2>5 DEF Events
<1> HIDE DEF e
<1>3. L[b] = m[b]
  BY <1>1 DEF LevelsOf
<1>4. [L EXCEPT ![b] = v] = LevelsOf(d, M)
  <2>1. DOMAIN m = Buttons
    BY DEF Debounced
  <2>2. \A c \in Buttons : M[c] = IF c = b THEN v ELSE m[c]
    BY <2>1
  <2> HIDE DEF M
  <2>3. \A c \in Codes : (IF c = b THEN v ELSE IF c \in Keys THEN d[c] ELSE m[c])
                           = (IF c \in Keys THEN d[c] ELSE M[c])
    BY <1>1, <2>2 DEF Codes
  <2>4. [L EXCEPT ![b] = v]
          = [c \in Codes |-> IF c = b THEN v ELSE IF c \in Keys THEN d[c] ELSE m[c]]
    BY DEF LevelsOf
  <2> QED BY <2>3, <2>4 DEF LevelsOf
<1>5. Heard(L, e) = [L EXCEPT ![b] = v]
  BY <1>2 DEF Heard
<1>6. m[b] # v => News(L, e)
  BY <1>2, <1>3 DEF News
<1> QED BY <1>2, <1>4, <1>5, <1>6 DEF e

LEMMA ButtonSays ==
    ASSUME NEW d \in Levels, NEW m \in Debounced, NEW b \in Buttons, NEW v \in BOOLEAN
    PROVE  Alternates(LevelsOf(d, m), IF v # m[b] THEN <<Edge(b, v)>> ELSE <<>>,
                      LevelsOf(d, [m EXCEPT ![b] = v]))
<1>1. Alternates(LevelsOf(d, m), <<>>, LevelsOf(d, m))
  BY LevelsKnown, NothingAlternates
<1>2. CASE v = m[b]
  <2>1. [m EXCEPT ![b] = v] = m
    BY <1>2 DEF Debounced
  <2> QED BY <1>1, <1>2, <2>1
<1>3. CASE v # m[b]
  <2> DEFINE M == LevelsOf(d, m)
             e == Edge(b, v)
  <2>1. e \in Events /\ News(M, e) /\ Heard(M, e) = LevelsOf(d, [m EXCEPT ![b] = v])
    BY <1>3, ButtonHeard
  <2> HIDE DEF M, e
  <2>2. Alternates(M, Append(<<>>, e), Heard(M, e))
    BY <1>1, <2>1, AlternatesAppended DEF M
  <2>3. Alternates(M, Append(<<>>, e), LevelsOf(d, [m EXCEPT ![b] = v]))
    BY <2>1, <2>2
  <2>4. <<e>> = Append(<<>>, e)
    OBVIOUS
  <2> QED BY <1>3, <2>3, <2>4 DEF M, e
<1> QED BY <1>2, <1>3

LEMMA ButtonsSay ==
    ASSUME NEW d \in Levels, mouse \in Debounced, buttons \in Debounced
    PROVE  Alternates(LevelsOf(d, mouse), ButtonEvents, LevelsOf(d, buttons))
<1> DEFINE changed(b) == IF buttons[b] # mouse[b] THEN <<Edge(b, buttons[b])>> ELSE <<>>
           m == [mouse EXCEPT ![Left] = buttons[Left]]
<1>1. /\ Left \in Buttons /\ Right \in Buttons
      /\ buttons[Left] \in BOOLEAN /\ buttons[Right] \in BOOLEAN /\ m \in Debounced
  BY DEF Buttons, Debounced
<1>2. m[Right] = mouse[Right]
  BY Codings DEF Debounced, Buttons
<1>3. [m EXCEPT ![Right] = buttons[Right]] = buttons
  <2>1. \A b \in Buttons : b = Left \/ b = Right
    BY DEF Buttons
  <2> QED BY <2>1, Codings DEF Debounced
<1>4. Alternates(LevelsOf(d, mouse), changed(Left), LevelsOf(d, m))
  BY <1>1, ButtonSays
<1> HIDE DEF m
<1>5. Alternates(LevelsOf(d, m), changed(Right), LevelsOf(d, buttons))
  BY <1>1, <1>2, <1>3, ButtonSays
<1>6. Alternates(LevelsOf(d, mouse), changed(Left) \o changed(Right), LevelsOf(d, buttons))
  BY <1>4, <1>5, AlternatesJoined
<1> QED BY <1>6 DEF ButtonEvents

-----------------------------------------------------------------------------
(* What an update delivers. *)
Happenings == Moves \cup {FocusLost}
Deliveries == [array : Levels, raw : Seq(Moves), dropped : BOOLEAN]

LEMMA DeliveredTypes ==
    ASSUME NEW d \in Deliveries, NEW h \in Happenings
    PROVE  Delivered(d, h) \in Deliveries
<1>1. d.array \in Levels /\ d.raw \in Seq(Moves) /\ d.dropped \in BOOLEAN
  BY DEF Deliveries
<1>2. CASE h.what = "blur"
  <2>1. [k \in Keys |-> FALSE] \in Levels
    BY DEF Levels
  <2> QED BY <1>2, <2>1 DEF Delivered, Deliveries
<1>3. CASE h.what # "blur"
  <2>1. h \in Moves
    BY <1>3 DEF Happenings, FocusLost
  <2> DEFINE a == [d.array EXCEPT ![h.key] = h.state]
             r == KeyTap(d.raw, h)
             o == d.dropped \/ Len(d.raw) >= RAW_KEY_CAP
  <2>2. a \in Levels
    BY <1>1, <2>1 DEF Levels, Moves
  <2>3. r \in Seq(Moves)
    BY <1>1, <2>1 DEF KeyTap
  <2>4. o \in BOOLEAN
    OBVIOUS
  <2>5. Delivered(d, h) = [array |-> a, raw |-> r, dropped |-> o]
    BY <1>3 DEF Delivered
  <2> HIDE DEF a, r, o
  <2> QED BY <2>2, <2>3, <2>4, <2>5 DEF Deliveries
<1> QED BY <1>2, <1>3

Untouched == [array |-> keys, raw |-> <<>>, dropped |-> FALSE]

LEMMA DeliverySteps ==
    ASSUME keys \in Levels, backlog \in Seq(Happenings)
    PROVE  /\ \A n \in 0 .. Len(backlog) : Delivery[n] \in Deliveries
           /\ Delivery[0] = Untouched
           /\ \A n \in 1 .. Len(backlog) : Delivery[n] = Delivered(Delivery[n - 1], backlog[n])
<1> DEFINE step == [a \in Nat \X Deliveries |->
                      IF a[1] < Len(backlog) THEN Delivered(a[2], backlog[a[1] + 1]) ELSE a[2]]
<1>1. Len(backlog) \in Nat
  OBVIOUS
<1>2. Untouched \in Deliveries
  BY DEF Untouched, Deliveries
<1>3. step \in [Nat \X Deliveries -> Deliveries]
  <2>1. ASSUME NEW a \in Nat \X Deliveries, a[1] < Len(backlog)
        PROVE  Delivered(a[2], backlog[a[1] + 1]) \in Deliveries
    <3>1. a[1] + 1 \in 1 .. Len(backlog) /\ a[2] \in Deliveries
      BY <1>1, <2>1
    <3>2. backlog[a[1] + 1] \in Happenings
      BY <3>1
    <3> QED BY <3>1, <3>2, DeliveredTypes
  <2>2. \A a \in Nat \X Deliveries : a[2] \in Deliveries
    OBVIOUS
  <2> QED BY <2>1, <2>2
<1>4. \A n \in Nat, p \in Deliveries :
        n < Len(backlog) => step[<<n, p>>] = Delivered(p, backlog[n + 1])
  OBVIOUS
<1> HIDE DEF step
<1>5. PICK g : Steps(Deliveries, Untouched, step, g)
  BY <1>2, <1>3, Recursion DEF Steppable
<1>6. /\ g \in [Nat -> Deliveries] /\ g[0] = Untouched
      /\ \A n \in Nat : g[n + 1] = step[<<n, g[n]>>]
  BY <1>5 DEF Steps
<1>7. ASSUME NEW n \in 1 .. Len(backlog) PROVE g[n] = Delivered(g[n - 1], backlog[n])
  <2>1. n - 1 \in Nat /\ (n - 1) + 1 = n /\ n - 1 < Len(backlog)
    BY <1>1
  <2>2. g[(n - 1) + 1] = step[<<n - 1, g[n - 1]>>] /\ g[n - 1] \in Deliveries
    BY <1>6, <2>1
  <2>3. step[<<n - 1, g[n - 1]>>] = Delivered(g[n - 1], backlog[(n - 1) + 1])
    BY <1>4, <2>1, <2>2
  <2> QED BY <2>1, <2>2, <2>3
<1> DEFINE IsIt(f) == f = [n \in 0 .. Len(backlog) |->
                             IF n = 0 THEN [array |-> keys, raw |-> <<>>, dropped |-> FALSE]
                             ELSE Delivered(f[n - 1], backlog[n])]
           f == [n \in 0 .. Len(backlog) |-> g[n]]
<1>8. ASSUME NEW n \in 0 .. Len(backlog)
      PROVE  g[n] = IF n = 0 THEN [array |-> keys, raw |-> <<>>, dropped |-> FALSE]
                    ELSE Delivered(f[n - 1], backlog[n])
  <2>1. CASE n = 0
    BY <1>6, <2>1 DEF Untouched
  <2>2. CASE n # 0
    <3>1. n \in 1 .. Len(backlog) /\ n - 1 \in 0 .. Len(backlog)
      BY <1>1, <2>2
    <3>2. g[n] = Delivered(g[n - 1], backlog[n]) /\ f[n - 1] = g[n - 1]
      BY <1>7, <3>1
    <3> QED BY <2>2, <3>2
  <2> QED BY <2>1, <2>2
<1>9. IsIt(f)
  BY <1>8
<1> HIDE DEF f
<1> DEFINE d == Delivery
<1>10. d = CHOOSE h : IsIt(h)
  BY DEF Delivery
<1> HIDE DEF IsIt, d
<1>11. IsIt(d)
  BY <1>9, <1>10
<1>12. \A n \in 0 .. Len(backlog) :
         d[n] = IF n = 0 THEN Untouched ELSE Delivered(d[n - 1], backlog[n])
  BY <1>11 DEF IsIt, Untouched
<1>13. d[0] = Untouched
  BY <1>1, <1>12
<1>14. \A n \in 1 .. Len(backlog) : d[n] = Delivered(d[n - 1], backlog[n])
  BY <1>12
<1> DEFINE Good == {n \in Nat : n <= Len(backlog) => d[n] \in Deliveries}
<1>15. 0 \in Good
  BY <1>2, <1>13
<1>16. ASSUME NEW n \in Good PROVE n + 1 \in Good
  <2>1. CASE n + 1 <= Len(backlog)
    <3>1. n + 1 \in 1 .. Len(backlog) /\ (n + 1) - 1 = n /\ d[n] \in Deliveries
      BY <1>1, <2>1
    <3>2. d[n + 1] = Delivered(d[(n + 1) - 1], backlog[n + 1])
      BY <1>14, <3>1
    <3>3. backlog[n + 1] \in Happenings
      BY <3>1
    <3> QED BY <3>1, <3>2, <3>3, DeliveredTypes
  <2>2. CASE ~(n + 1 <= Len(backlog))
    BY <2>2
  <2> QED BY <2>1, <2>2
<1> HIDE DEF Good
<1>17. Good = Nat
  BY <1>15, <1>16, StepByStep DEF Good
<1>18. \A n \in 0 .. Len(backlog) : d[n] \in Deliveries
  BY <1>1, <1>17 DEF Good
<1> QED BY <1>13, <1>14, <1>18 DEF d

-----------------------------------------------------------------------------
(* After every frame the debounced keys are the library's, and the queue   *)
(* takes a game from what it polled last to the debounced state.           *)
Settled == /\ keys \in Levels /\ down = keys
           /\ buttons \in Debounced /\ mouse \in Debounced
           /\ backlog \in Seq(Happenings)
           /\ Alternates(polled, events, LevelsOf(down, mouse))

LEMMA InitSettled == Init => Settled
<1> SUFFICES ASSUME Init PROVE Settled
  OBVIOUS
<1>1. keys \in Levels /\ down = keys /\ backlog \in Seq(Happenings) /\ events = <<>>
  BY DEF Init, Levels
<1>2. buttons \in Debounced /\ mouse \in Debounced
  BY DEF Init, Debounced
<1>3. polled = LevelsOf(down, mouse)
  <2>1. \A c \in Codes : (IF c \in Keys THEN down[c] ELSE mouse[c]) = FALSE
    BY DEF Init, Codes
  <2> QED BY <2>1 DEF Init, LevelsOf
<1>4. LevelsOf(down, mouse) \in Known
  BY <1>1, <1>2, LevelsKnown
<1>5. Alternates(polled, events, LevelsOf(down, mouse))
  BY <1>1, <1>3, <1>4, NothingAlternates
<1> QED BY <1>1, <1>2, <1>5 DEF Settled

LEMMA PumpSettles ==
    ASSUME Settled, NEW raw \in Seq(Moves), NEW array \in Levels, pump_input(raw, array)
    PROVE  /\ down' = array /\ mouse' = buttons
           /\ Alternates(polled, events', LevelsOf(array, buttons))
<1> USE DEF Settled
<1>1. /\ down' = pump(raw, array).down /\ mouse' = buttons
      /\ events' = events \o QuitEvent \o pump(raw, array).out \o ButtonEvents
  BY DEF pump_input
<1>2. /\ pump(raw, array).down = array
      /\ Alternates(LevelsOf(down, mouse), pump(raw, array).out, LevelsOf(array, mouse))
  BY PumpSays
<1>3. LevelsOf(down, mouse) \in Known
  BY LevelsKnown
<1>4. Alternates(LevelsOf(down, mouse), QuitEvent, LevelsOf(down, mouse))
  BY <1>3, QuitSays
<1>5. Alternates(LevelsOf(array, mouse), ButtonEvents, LevelsOf(array, buttons))
  BY ButtonsSay
<1>6. Alternates(polled, events \o QuitEvent, LevelsOf(down, mouse))
  BY <1>4, AlternatesJoined
<1>7. Alternates(polled, events \o QuitEvent \o pump(raw, array).out, LevelsOf(array, mouse))
  BY <1>2, <1>6, AlternatesJoined
<1>8. Alternates(polled, events \o QuitEvent \o pump(raw, array).out \o ButtonEvents,
                 LevelsOf(array, buttons))
  BY <1>5, <1>7, AlternatesJoined
<1> QED BY <1>1, <1>2, <1>8

LEMMA StepSettled == Settled /\ [Next]_vars => Settled'
<1> SUFFICES ASSUME Settled, [Next]_vars PROVE Settled'
  OBVIOUS
<1>1. CASE present
  <2>1. keys \in Levels /\ backlog \in Seq(Happenings) /\ Len(backlog) \in 0 .. Len(backlog)
    BY DEF Settled
  <2>2. PICK d \in Deliveries : d = Delivery[Len(backlog)]
    BY <2>1, DeliverySteps
  <2>3. d.raw \in Seq(Moves) /\ d.array \in Levels
    BY DEF Deliveries
  <2>4. keys' = d.array /\ pump_input(d.raw, d.array)
    BY <1>1, <2>2 DEF present
  <2>5. down' = d.array /\ mouse' = buttons /\ Alternates(polled, events', LevelsOf(d.array, buttons))
    BY <2>3, <2>4, PumpSettles
  <2>6. backlog' = <<>> /\ buttons' = buttons /\ polled' = polled
    BY <1>1 DEF present
  <2>7. <<>> \in Seq(Happenings)
    OBVIOUS
  <2>8. Alternates(polled', events', LevelsOf(down', mouse'))
    BY <2>5, <2>6
  <2> QED BY <2>3, <2>4, <2>5, <2>6, <2>7, <2>8 DEF Settled
<1>2. CASE PumpOnly
  <2>1. <<>> \in Seq(Moves) /\ keys \in Levels /\ pump_input(<<>>, keys)
    BY <1>2 DEF PumpOnly, Settled
  <2>2. down' = keys /\ mouse' = buttons /\ Alternates(polled, events', LevelsOf(keys, buttons))
    BY <2>1, PumpSettles
  <2>3. keys' = keys /\ backlog' = backlog /\ buttons' = buttons /\ polled' = polled
    BY <1>2 DEF PumpOnly, platformVars
  <2>4. Alternates(polled', events', LevelsOf(down', mouse'))
    BY <2>2, <2>3
  <2> QED BY <2>2, <2>3, <2>4 DEF Settled
<1>3. CASE poll
  <2>1. events # <<>> /\ events' = Tail(events) /\ polled' = Heard(polled, Head(events))
    BY <1>3 DEF poll
  <2>2. UNCHANGED <<keys, down, buttons, mouse, backlog>>
    BY <1>3 DEF poll, platformVars
  <2>3. Alternates(polled, events, LevelsOf(down, mouse))
    BY DEF Settled
  <2>4. Alternates(Heard(polled, Head(events)), Tail(events), LevelsOf(down, mouse))
    BY <2>1, <2>3, AlternatesTail
  <2>5. Alternates(polled', events', LevelsOf(down', mouse'))
    BY <2>1, <2>2, <2>4
  <2> QED BY <2>2, <2>5 DEF Settled
<1>4. ASSUME UNCHANGED <<keys, down, mouse, polled, events>>,
             backlog' \in Seq(Happenings), buttons' \in Debounced
      PROVE  Settled'
  BY <1>4 DEF Settled
<1>5. CASE KeyMove
  <2>1. PICK k \in Keys, state \in BOOLEAN : backlog' = Append(backlog, KeyMoves(k, state))
    BY <1>5 DEF KeyMove
  <2>2. KeyMoves(k, state) \in Happenings
    BY DEF KeyMoves, Happenings, Moves
  <2>3. backlog' \in Seq(Happenings)
    BY <2>1, <2>2 DEF Settled
  <2>4. UNCHANGED <<keys, down, mouse, polled, events, buttons>>
    BY <1>5 DEF KeyMove, gameVars
  <2> QED BY <1>4, <2>3, <2>4 DEF Settled
<1>6. CASE Blur
  <2>1. FocusLost \in Happenings
    BY DEF Happenings
  <2>2. backlog' \in Seq(Happenings)
    BY <1>6, <2>1 DEF Blur, Settled
  <2>3. UNCHANGED <<keys, down, mouse, polled, events, buttons>>
    BY <1>6 DEF Blur, gameVars
  <2> QED BY <1>4, <2>2, <2>3 DEF Settled
<1>7. CASE ButtonMove
  <2>1. buttons' \in Debounced
    BY <1>7 DEF ButtonMove, Settled, Debounced
  <2>2. UNCHANGED <<keys, down, mouse, polled, events, backlog>>
    BY <1>7 DEF ButtonMove, gameVars
  <2> QED BY <1>4, <2>1, <2>2 DEF Settled
<1>8. ASSUME Close \/ FirstPresent \/ UNCHANGED vars
      PROVE  UNCHANGED <<keys, down, mouse, polled, events, backlog, buttons>>
  <2>1. CASE Close \/ FirstPresent
    BY <2>1 DEF Close, FirstPresent, gameVars, ghostVars
  <2>2. CASE UNCHANGED vars
    BY <2>2 DEF vars, platformVars, gameVars, ghostVars
  <2> QED BY <1>8, <2>1, <2>2
<1>9. CASE Close \/ FirstPresent \/ UNCHANGED vars
  BY <1>4, <1>8, <1>9 DEF Settled
<1> QED BY <1>1, <1>2, <1>3, <1>5, <1>6, <1>7, <1>9 DEF Next

(* Pumping raw transitions in order and then reconciling with the          *)
(* library's array queues, for every key and button, events that alternate *)
(* between down and up and end where the platform is: for any queue        *)
(* capacity, however many transitions were dropped, repeated or lost with  *)
(* the focus, and in any order of frames and polls.                        *)
THEOREM EventsAlternate == Spec => []EdgesAlternate
<1>1. ASSUME Settled PROVE EdgesAlternate
  <2>1. Alternates(polled, events, LevelsOf(down, mouse)) /\ down = keys
    BY <1>1 DEF Settled
  <2>2. /\ PolledAfter[Len(events)] = LevelsOf(down, mouse)
        /\ \A i \in 1 .. Len(events) : News(PolledAfter[i - 1], events[i])
    BY <2>1, AlternatesPolled
  <2>3. PolledAfter[Len(events)] = [c \in Codes |-> IF c \in Keys THEN keys[c] ELSE mouse[c]]
    BY <2>1, <2>2 DEF LevelsOf
  <2> QED BY <2>2, <2>3 DEF EdgesAlternate, News
<1>2. Spec => []Settled
  BY InitSettled, StepSettled, PTL DEF Spec
<1> QED BY <1>1, <1>2, PTL

-----------------------------------------------------------------------------
(* Counting the KEY_DOWNs of a key.                                        *)
Press(k) == Edge(k, TRUE)
DownsIn(out, k) == {i \in DOMAIN out : out[i] = Press(k)}

LEMMA CountsDowns ==
    ASSUME NEW out, NEW k
    PROVE  CountDowns(out, k) = Cardinality(DownsIn(out, k))
BY DEF CountDowns, DownsIn, Press

LEMMA CountNone == ASSUME NEW k PROVE CountDowns(<<>>, k) = 0
<1>1. {i \in DOMAIN <<>> : <<>>[i] = Edge(k, TRUE)} = {}
  OBVIOUS
<1> QED BY <1>1, FS_EmptySet DEF CountDowns

LEMMA DownsFinite ==
    ASSUME NEW out \in Seq(KeyEdges), NEW k
    PROVE  /\ IsFiniteSet(DownsIn(out, k))
           /\ CountDowns(out, k) \in Nat
<1> DEFINE T == DownsIn(out, k)
<1>1. DOMAIN out = 1 .. Len(out) /\ Len(out) \in Nat
  OBVIOUS
<1>2. IsFiniteSet(1 .. Len(out))
  BY <1>1, FS_Interval
<1>3. T \in SUBSET (1 .. Len(out))
  BY <1>1 DEF DownsIn
<1> HIDE DEF T
<1>4. IsFiniteSet(T)
  BY <1>2, <1>3, FS_Subset
<1>5. Cardinality(T) \in Nat
  BY <1>4, FS_CardinalityType
<1> QED BY <1>4, <1>5, CountsDowns DEF T

LEMMA CountAppended ==
    ASSUME NEW out \in Seq(KeyEdges), NEW e, NEW k
    PROVE  CountDowns(Append(out, e), k)
             = IF e = Press(k) THEN CountDowns(out, k) + 1 ELSE CountDowns(out, k)
<1> DEFINE n == Len(out)
           r == Append(out, e)
           T == DownsIn(out, k)
           U == DownsIn(r, k)
<1>1. /\ n \in Nat /\ DOMAIN out = 1 .. n /\ DOMAIN r = 1 .. n + 1
      /\ r[n + 1] = e /\ \A i \in 1 .. n : r[i] = out[i]
  OBVIOUS
<1>2. IsFiniteSet(T)
  BY DownsFinite
<1>3. n + 1 \notin T
  <2> HIDE DEF n
  <2> QED BY <1>1 DEF DownsIn
<1> HIDE DEF r
<1>4. \A i : i \in 1 .. n + 1 <=> (i \in 1 .. n \/ i = n + 1)
  BY <1>1
<1>5. U = IF e = Press(k) THEN T \cup {n + 1} ELSE T
  BY <1>1, <1>4 DEF DownsIn
<1> HIDE DEF T, U, n
<1>6. Cardinality(U) = IF e = Press(k) THEN Cardinality(T) + 1 ELSE Cardinality(T)
  BY <1>2, <1>3, <1>5, FS_AddElement
<1> QED BY <1>6, CountsDowns DEF T, U, r

-----------------------------------------------------------------------------
(* As long as nothing is dropped, KeyTap's queue holds the backlog itself; *)
(* and the library's array is where its transitions lead.                  *)
LEMMA DeliveryClean ==
    ASSUME keys \in Levels, down = keys, backlog \in Seq(Moves), ~Delivery[Len(backlog)].dropped
    PROVE  /\ Delivery[Len(backlog)].raw = backlog
           /\ Delivery[Len(backlog)].array = edges(Quiet, backlog).down
<1>1. backlog \in Seq(Happenings) /\ Len(backlog) \in Nat
  BY DEF Happenings
<1>2. Quiet \in Pulses /\ Quiet.down = keys
  BY DEF Quiet, Pulses
<1>3. PICK f : Replays(Quiet, backlog, f) /\ f[Len(backlog)] = edges(Quiet, backlog)
  BY <1>2, EdgesReplay
<1>4. \A n \in 0 .. Len(backlog) : f[n] \in Pulses
  BY <1>2, <1>3, ReplaysTypes
<1> DEFINE d == Delivery
<1>5. /\ \A n \in 0 .. Len(backlog) : d[n] \in Deliveries
      /\ d[0] = Untouched
      /\ \A n \in 1 .. Len(backlog) : d[n] = Delivered(d[n - 1], backlog[n])
  BY <1>1, DeliverySteps
<1> HIDE DEF d
<1> DEFINE Whole(q, n) == Len(q) = n /\ \A i \in 1 .. n : q[i] = backlog[i]
           Good == {n \in Nat : n <= Len(backlog) =>
                      /\ d[n].array = f[n].down
                      /\ d[n].dropped \/ Whole(d[n].raw, n)}
<1>6. 0 \in Good
  BY <1>2, <1>3, <1>5 DEF Untouched, Replays
<1>7. ASSUME NEW n \in Good PROVE n + 1 \in Good
  <2>1. CASE n + 1 <= Len(backlog)
    <3>1. n + 1 \in 1 .. Len(backlog) /\ (n + 1) - 1 = n /\ n \in 0 .. Len(backlog)
      BY <1>1, <2>1
    <3>2. PICK p \in Deliveries : p = d[n]
      BY <1>5, <3>1
    <3>3. PICK s \in Pulses : s = f[n]
      BY <1>4, <3>1
    <3>4. PICK h \in Moves : h = backlog[n + 1]
      BY <3>1
    <3>5. h.key \in Keys /\ h.state \in BOOLEAN /\ h.what # "blur"
      BY DEF Moves
    <3>6. d[n + 1] = Delivered(p, h)
      <4>1. d[n + 1] = Delivered(d[(n + 1) - 1], backlog[n + 1])
        BY <1>5, <3>1
      <4> QED BY <3>1, <3>2, <3>4, <4>1
    <3>7. /\ d[n + 1].array = [p.array EXCEPT ![h.key] = h.state]
          /\ d[n + 1].raw = KeyTap(p.raw, h)
          /\ d[n + 1].dropped = (p.dropped \/ Len(p.raw) >= RAW_KEY_CAP)
      BY <3>5, <3>6 DEF Delivered
    <3>8. f[n + 1].down = [s.down EXCEPT ![h.key] = h.state]
      <4>1. f[n + 1] = edge(f[(n + 1) - 1], backlog[n + 1].key, backlog[n + 1].state)
        BY <1>3, <3>1 DEF Replays
      <4>2. f[n + 1] = edge(s, h.key, h.state)
        BY <3>1, <3>3, <3>4, <4>1
      <4> QED BY <3>5, <4>2, EdgeStep
    <3>9. p.array = s.down /\ (p.dropped \/ Whole(p.raw, n))
      BY <3>1, <3>2, <3>3
    <3>10. d[n + 1].array = f[n + 1].down
      BY <3>7, <3>8, <3>9
    <3>11. d[n + 1].dropped \/ Whole(d[n + 1].raw, n + 1)
      <4>1. CASE p.dropped \/ Len(p.raw) >= RAW_KEY_CAP
        BY <3>7, <4>1
      <4>2. CASE ~p.dropped /\ ~(Len(p.raw) >= RAW_KEY_CAP)
        <5>1. p.raw \in Seq(Moves) /\ Whole(p.raw, n) /\ RAW_KEY_CAP \in Nat
          BY <3>9, <4>2, KeyAssumption DEF Deliveries
        <5>2. Len(p.raw) < RAW_KEY_CAP
          BY <4>2, <5>1
        <5>3. d[n + 1].raw = Append(p.raw, h)
          BY <3>7, <5>2 DEF KeyTap
        <5>4. \A i \in 1 .. n + 1 : i \in 1 .. n \/ i = n + 1
          BY <1>1
        <5> QED BY <3>4, <5>1, <5>3, <5>4
      <4> QED BY <4>1, <4>2
    <3> QED BY <3>10, <3>11
  <2>2. CASE ~(n + 1 <= Len(backlog))
    BY <2>2
  <2> QED BY <2>1, <2>2
<1> HIDE DEF Good
<1>8. Good = Nat
  BY <1>6, <1>7, StepByStep DEF Good
<1>9. PICK e \in Deliveries : e = d[Len(backlog)]
  BY <1>1, <1>5
<1>10. e.array = edges(Quiet, backlog).down /\ Whole(e.raw, Len(backlog))
  BY <1>1, <1>3, <1>8, <1>9 DEF Good, d
<1>11. e.raw = backlog
  <2>1. e.raw \in Seq(Moves)
    BY DEF Deliveries
  <2> QED BY <1>10, <2>1, SeqEqual
<1> QED BY <1>9, <1>10, <1>11 DEF d

(* Where nothing was dropped or lost with the focus: replaying the backlog *)
(* b from the debounced keys d leads to the keys the player holds, and its *)
(* KEY_DOWNs are the presses that were not yet queued as events.           *)
Start(d) == [down |-> d, out |-> <<>>]
Pending(d, b, held, pressed, queued) ==
    /\ b \in Seq(Moves) /\ held = edges(Start(d), b).down
    /\ \A k \in Keys : pressed[k] = queued[k] + CountDowns(edges(Start(d), b).out, k)

TapsInv == /\ physical \in Levels
           /\ rises \in [Keys -> Nat] /\ downs \in [Keys -> Nat]
           /\ clean \in BOOLEAN
           /\ clean => Pending(down, backlog, physical, rises, downs)

LEMMA StartPulses ==
    ASSUME NEW d \in Levels
    PROVE  Start(d) \in Pulses /\ Start(d).down = d /\ edges(Start(d), <<>>) = Start(d)
<1>1. Start(d) \in Pulses /\ Start(d).down = d
  BY DEF Start, Pulses
<1> QED BY <1>1, EdgesEmpty

LEMMA NothingPending ==
    ASSUME NEW d \in Levels, NEW n \in [Keys -> Nat]
    PROVE  Pending(d, <<>>, d, n, n)
<1>1. <<>> \in Seq(Moves) /\ edges(Start(d), <<>>) = Start(d) /\ Start(d).down = d
  BY StartPulses
<1>2. Start(d).out = <<>>
  BY DEF Start
<1>3. \A k \in Keys : n[k] = n[k] + CountDowns(<<>>, k)
  BY CountNone
<1> QED BY <1>1, <1>2, <1>3 DEF Pending

LEMMA InitTaps == Init => TapsInv
<1> SUFFICES ASSUME Init PROVE TapsInv
  OBVIOUS
<1>1. /\ physical \in Levels /\ down = physical /\ backlog = <<>>
      /\ rises \in [Keys -> Nat] /\ downs = rises /\ clean \in BOOLEAN
  BY DEF Init, Levels
<1>2. Pending(down, backlog, physical, rises, downs)
  BY <1>1, NothingPending
<1> QED BY <1>1, <1>2 DEF TapsInv

Presses(s, k, b) ==
    \A j \in Keys :
      /\ CountDowns(s.out, j) \in Nat
      /\ CountDowns(edge(s, k, b).out, j)
           = IF s.down[k] # b /\ b = TRUE /\ k = j THEN CountDowns(s.out, j) + 1
             ELSE CountDowns(s.out, j)

LEMMA EdgeCounts ==
    ASSUME NEW s \in Pulses, NEW k \in Keys, NEW b \in BOOLEAN
    PROVE  Presses(s, k, b)
<1>1. s.out \in Seq(KeyEdges)
  BY DEF Pulses
<1>2. \A j \in Keys : CountDowns(s.out, j) \in Nat
  BY <1>1, DownsFinite
<1>3. CASE s.down[k] = b
  <2>1. edge(s, k, b) = s
    BY <1>3, EdgeStep
  <2> QED BY <1>2, <1>3, <2>1 DEF Presses
<1>4. CASE s.down[k] # b
  <2>1. edge(s, k, b).out = Append(s.out, Edge(k, b))
    BY <1>4, EdgeStep
  <2>2. ASSUME NEW j \in Keys PROVE Edge(k, b) = Press(j) <=> (k = j /\ b = TRUE)
    <3>1. Edge(k, b).code = k /\ Press(j).code = j /\ Press(j).kind = "down"
      BY DEF Edge, Event, Press
    <3>2. b # TRUE => Edge(k, b).kind = "up"
      BY DEF Edge, Event
    <3>3. b = TRUE => Edge(k, b) = Press(k)
      BY DEF Edge, Event, Press
    <3> QED BY <3>1, <3>2, <3>3
  <2>3. ASSUME NEW j \in Keys
        PROVE  CountDowns(Append(s.out, Edge(k, b)), j)
                 = IF Edge(k, b) = Press(j) THEN CountDowns(s.out, j) + 1
                   ELSE CountDowns(s.out, j)
    BY <1>1, CountAppended
  <2> QED BY <1>2, <1>4, <2>1, <2>2, <2>3 DEF Presses
<1> QED BY <1>3, <1>4

LEMMA MovePending ==
    ASSUME NEW d \in Levels, NEW b, NEW held \in Levels,
           NEW pressed \in [Keys -> Nat], NEW queued \in [Keys -> Nat],
           Pending(d, b, held, pressed, queued),
           NEW k \in Keys, NEW state \in BOOLEAN, held[k] \/ state
    PROVE  Pending(d, Append(b, KeyMoves(k, state)), [held EXCEPT ![k] = state],
                   IF state /\ ~held[k] THEN [pressed EXCEPT ![k] = @ + 1] ELSE pressed, queued)
<1> DEFINE s == edges(Start(d), b)
           t == KeyMoves(k, state)
           c == Append(b, t)
           u == edges(Start(d), c)
           more == IF state /\ ~held[k] THEN [pressed EXCEPT ![k] = @ + 1] ELSE pressed
<1>1. /\ b \in Seq(Moves) /\ held = s.down
      /\ \A j \in Keys : pressed[j] = queued[j] + CountDowns(s.out, j)
  BY DEF Pending
<1>2. t \in Moves /\ t.key = k /\ t.state = state
  BY DEF KeyMoves, Moves
<1>3. s \in Pulses
  BY <1>1, StartPulses, EdgesTypes
<1>4. u = edge(s, k, state)
  BY <1>1, <1>2, StartPulses, EdgesAppended
<1>5. c \in Seq(Moves)
  BY <1>1, <1>2
<1> HIDE DEF s, t, c, u
<1>6. u.down = [held EXCEPT ![k] = state]
  BY <1>1, <1>3, <1>4, EdgeStep
<1>7. Presses(s, k, state)
  BY <1>3, EdgeCounts
<1>8. ASSUME NEW j \in Keys PROVE more[j] = queued[j] + CountDowns(u.out, j)
  <2>1. PICK m \in Nat : m = CountDowns(s.out, j)
    BY <1>7 DEF Presses
  <2>2. pressed[j] = queued[j] + m /\ queued[j] \in Nat
    BY <1>1, <2>1
  <2>3. CountDowns(u.out, j) = IF held[k] # state /\ state = TRUE /\ k = j THEN m + 1 ELSE m
    BY <1>1, <1>4, <1>7, <2>1 DEF Presses
  <2>4. more[j] = IF held[k] # state /\ state = TRUE /\ k = j THEN pressed[j] + 1 ELSE pressed[j]
    <3>1. held[k] \in BOOLEAN
      BY DEF Levels
    <3>2. CASE state /\ ~held[k]
      <4>1. more = [pressed EXCEPT ![k] = @ + 1] /\ pressed \in [Keys -> Nat]
        BY <3>2
      <4> HIDE DEF more
      <4>2. more[j] = IF k = j THEN pressed[j] + 1 ELSE pressed[j]
        BY <4>1
      <4> QED BY <3>1, <3>2, <4>2
    <3>3. CASE ~(state /\ ~held[k])
      BY <3>1, <3>3
    <3> QED BY <3>2, <3>3
  <2> QED BY <2>1, <2>2, <2>3, <2>4
<1> HIDE DEF more
<1>9. Pending(d, c, [held EXCEPT ![k] = state], more, queued)
  BY <1>5, <1>6, <1>8 DEF Pending, u
<1> QED BY <1>9 DEF c, t, more

LEMMA PumpTaps ==
    ASSUME Settled, TapsInv, NEW raw \in Seq(Moves), NEW array \in Levels, pump_input(raw, array)
    PROVE  /\ down' = array /\ downs' \in [Keys -> Nat]
           /\ \A k \in Keys : downs'[k] = downs[k] + CountDowns(pump(raw, array).out, k)
<1>1. down \in Levels /\ mouse \in Debounced
  BY DEF Settled
<1>2. pump(raw, array) \in Pulses /\ pump(raw, array).down = array
  BY <1>1, PumpSays
<1>3. pump(raw, array).out \in Seq(KeyEdges)
  BY <1>2 DEF Pulses
<1>4. \A k \in Keys : CountDowns(pump(raw, array).out, k) \in Nat
  BY <1>3, DownsFinite
<1>5. down' = array /\ downs' = [k \in Keys |-> downs[k] + CountDowns(pump(raw, array).out, k)]
  BY <1>2 DEF pump_input
<1>6. downs \in [Keys -> Nat]
  BY DEF TapsInv
<1>7. \A k \in Keys : downs[k] + CountDowns(pump(raw, array).out, k) \in Nat
  BY <1>4, <1>6
<1> QED BY <1>5, <1>7

LEMMA PresentTaps ==
    ASSUME Settled, TapsInv, present
    PROVE  TapsInv'
<1>1. keys \in Levels /\ down = keys /\ backlog \in Seq(Happenings) /\ Len(backlog) \in 0 .. Len(backlog)
  BY DEF Settled
<1>2. PICK d \in Deliveries : d = Delivery[Len(backlog)]
  BY <1>1, DeliverySteps
<1>3. d.raw \in Seq(Moves) /\ d.array \in Levels /\ d.dropped \in BOOLEAN
  BY DEF Deliveries
<1>4. /\ pump_input(d.raw, d.array) /\ clean' = (clean /\ ~d.dropped)
      /\ backlog' = <<>> /\ physical' = physical /\ rises' = rises
  BY <1>2 DEF present
<1>5. /\ down' = d.array /\ downs' \in [Keys -> Nat]
      /\ \A k \in Keys : downs'[k] = downs[k] + CountDowns(pump(d.raw, d.array).out, k)
  BY <1>3, <1>4, PumpTaps
<1>6. physical \in Levels /\ rises \in [Keys -> Nat] /\ downs \in [Keys -> Nat] /\ clean \in BOOLEAN
  BY DEF TapsInv
<1>7. clean' \in BOOLEAN
  BY <1>3, <1>4, <1>6
<1>8. ASSUME clean' PROVE down' = physical /\ downs' = rises
  <2>1. clean /\ ~d.dropped
    BY Zenon, <1>4, <1>8
  <2>2. Pending(down, backlog, physical, rises, downs)
    BY <2>1 DEF TapsInv
  <2>3. PICK s \in Pulses : s = edges(Quiet, backlog)
    <3>1. backlog \in Seq(Moves)
      BY <2>2 DEF Pending
    <3>2. Quiet \in Pulses
      BY <1>1 DEF Quiet, Pulses
    <3> QED BY <3>1, <3>2, EdgesTypes
  <2>4. /\ backlog \in Seq(Moves) /\ physical = s.down
        /\ \A k \in Keys : rises[k] = downs[k] + CountDowns(s.out, k)
    BY <2>2, <2>3 DEF Pending, Start, Quiet
  <2>5. d.raw = backlog /\ d.array = s.down
    BY <1>1, <1>2, <2>1, <2>3, <2>4, DeliveryClean
  <2>6. pump(d.raw, d.array) = s
    <3>1. pump(d.raw, d.array) = edges(s, Read(s.down))
      BY <2>3, <2>5 DEF pump
    <3> QED BY <3>1, AlreadyReconciled
  <2>7. \A k \in Keys : downs'[k] = rises[k]
    BY <1>5, <2>4, <2>6
  <2> QED BY <1>5, <1>6, <2>4, <2>5, <2>7
<1>9. clean' => Pending(down', backlog', physical', rises', downs')
  BY <1>4, <1>6, <1>8, NothingPending
<1>10. physical' \in Levels /\ rises' \in [Keys -> Nat]
  BY <1>4, <1>6
<1> QED BY <1>5, <1>7, <1>9, <1>10 DEF TapsInv

LEMMA PumpOnlyTaps ==
    ASSUME Settled, TapsInv, PumpOnly
    PROVE  TapsInv'
<1>1. keys \in Levels /\ down = keys
  BY DEF Settled
<1>2. <<>> \in Seq(Moves) /\ pump_input(<<>>, keys)
  BY DEF PumpOnly
<1>3. /\ down' = down /\ downs' \in [Keys -> Nat]
      /\ \A k \in Keys : downs'[k] = downs[k] + CountDowns(pump(<<>>, keys).out, k)
  BY <1>1, <1>2, PumpTaps
<1>4. pump(<<>>, keys).out = <<>>
  <2>1. Quiet \in Pulses /\ Quiet.down = keys /\ Quiet.out = <<>>
    BY <1>1 DEF Quiet, Pulses
  <2>2. edges(Quiet, <<>>) = Quiet
    BY <2>1, EdgesEmpty
  <2>3. pump(<<>>, keys) = edges(Quiet, Read(Quiet.down))
    BY <2>1, <2>2 DEF pump
  <2> QED BY <2>1, <2>3, AlreadyReconciled
<1>5. downs \in [Keys -> Nat]
  BY DEF TapsInv
<1>6. \A k \in Keys : downs'[k] = downs[k]
  BY <1>3, <1>4, <1>5, CountNone
<1>7. downs' = downs
  BY <1>3, <1>5, <1>6
<1>8. UNCHANGED <<backlog, physical, rises, clean>>
  BY DEF PumpOnly, platformVars
<1> QED BY <1>3, <1>7, <1>8 DEF TapsInv

LEMMA StepTaps == Settled /\ TapsInv /\ [Next]_vars => TapsInv'
<1> SUFFICES ASSUME Settled, TapsInv, [Next]_vars PROVE TapsInv'
  OBVIOUS
<1>1. CASE present
  BY <1>1, PresentTaps
<1>2. CASE PumpOnly
  BY <1>2, PumpOnlyTaps
<1>3. CASE KeyMove
  <2>1. PICK k \in Keys, state \in BOOLEAN :
          /\ physical[k] \/ state
          /\ backlog' = Append(backlog, KeyMoves(k, state))
          /\ physical' = [physical EXCEPT ![k] = state]
          /\ rises' = IF state /\ ~physical[k] THEN [rises EXCEPT ![k] = @ + 1] ELSE rises
    BY <1>3 DEF KeyMove
  <2>2. UNCHANGED <<down, downs, clean>>
    BY <1>3 DEF KeyMove, gameVars
  <2>3. /\ physical \in Levels /\ down \in Levels
        /\ rises \in [Keys -> Nat] /\ downs \in [Keys -> Nat]
    BY DEF Settled, TapsInv
  <2>4. physical' \in Levels
    BY <2>1, <2>3 DEF Levels
  <2>5. rises' \in [Keys -> Nat]
    <3>1. [rises EXCEPT ![k] = @ + 1] \in [Keys -> Nat]
      BY <2>3
    <3> QED BY <2>1, <2>3, <3>1
  <2>6. clean => Pending(down, backlog', physical', rises', downs)
    <3> SUFFICES ASSUME clean PROVE Pending(down, backlog', physical', rises', downs)
      OBVIOUS
    <3>1. Pending(down, backlog, physical, rises, downs)
      BY DEF TapsInv
    <3>2. Pending(down, Append(backlog, KeyMoves(k, state)), [physical EXCEPT ![k] = state],
                  IF state /\ ~physical[k] THEN [rises EXCEPT ![k] = @ + 1] ELSE rises, downs)
      BY <2>1, <2>3, <3>1, MovePending
    <3> QED BY <2>1, <3>2
  <2> QED BY <2>2, <2>4, <2>5, <2>6 DEF TapsInv
<1>4. CASE Blur
  <2>1. UNCHANGED <<physical, rises, downs>> /\ clean' = FALSE
    BY <1>4 DEF Blur
  <2> QED BY <2>1 DEF TapsInv
<1>5. ASSUME ButtonMove \/ Close \/ FirstPresent \/ poll \/ UNCHANGED vars
      PROVE  UNCHANGED <<down, backlog, physical, rises, downs, clean>>
  <2>1. CASE ButtonMove \/ poll
    BY <2>1 DEF ButtonMove, poll, gameVars, platformVars
  <2>2. CASE Close \/ FirstPresent
    BY <2>2 DEF Close, FirstPresent, gameVars, ghostVars
  <2>3. CASE UNCHANGED vars
    BY <2>3 DEF vars, platformVars, gameVars, ghostVars
  <2> QED BY <1>5, <2>1, <2>2, <2>3
<1>6. CASE ButtonMove \/ Close \/ FirstPresent \/ poll \/ UNCHANGED vars
  BY <1>5, <1>6 DEF TapsInv
<1> QED BY <1>1, <1>2, <1>3, <1>4, <1>6 DEF Next

(* A fast tap never vanishes: unless KeyTap's queue filled up or the focus *)
(* was lost, each press is one KEY_DOWN after the update that delivers it, *)
(* however many transitions arrive between two frames.                     *)
THEOREM TapsCount == Spec => []TapsSurvive
<1>1. ASSUME Settled, TapsInv PROVE TapsSurvive
  <2> SUFFICES ASSUME clean, backlog = <<>> PROVE downs = rises
    BY DEF TapsSurvive
  <2>1. Pending(down, <<>>, physical, rises, downs) /\ down \in Levels
    BY <1>1 DEF TapsInv, Settled
  <2>2. edges(Start(down), <<>>).out = <<>>
    BY <2>1, StartPulses DEF Start
  <2>3. rises \in [Keys -> Nat] /\ downs \in [Keys -> Nat]
    BY <1>1 DEF TapsInv
  <2>4. \A k \in Keys : rises[k] = downs[k]
    BY <2>1, <2>2, <2>3, CountNone DEF Pending
  <2> QED BY <2>3, <2>4
<1>2. Spec => [](Settled /\ TapsInv)
  BY InitSettled, InitTaps, StepSettled, StepTaps, PTL DEF Spec
<1> QED BY <1>1, <1>2, PTL
=============================================================================
