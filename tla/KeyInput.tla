------------------------------- MODULE KeyInput -------------------------------
(***************************************************************************)
(* Input events of the desktop backend (crates/gg-backend/src/lib.rs, mod  *)
(* input, KeyTap and pump_input).  The windowing library (external)        *)
(* delivers everything the platform saw since the last update from inside  *)
(* update_with_buffer: it calls KeyTap for each key transition and keeps   *)
(* its own array of keys that are down.  The same call of the game then    *)
(* pumps: it replays the raw transitions, reconciles with that array, and  *)
(* adds button edges and the one QUIT to the queue that gg.poll drains.    *)
(***************************************************************************)
EXTENDS Integers, Sequences, FiniteSets

CONSTANTS KeyCount,     \* keys are 0 .. KeyCount - 1
          RAW_KEY_CAP,  \* capacity of KeyTap's queue
          MaxHappenings \* bound on what the player does in one run

ASSUME KeyAssumption == /\ KeyCount \in Nat
                        /\ RAW_KEY_CAP \in Nat
                        /\ MaxHappenings \in Nat

VARIABLES window,      \* none, open or closed, as the platform has it
          backlog,     \* what the platform will deliver at the next update
          keys,        \* the windowing library's array of keys that are down
          buttons,     \* and the buttons it reports down
          down,        \* Keyboard.down
          mouse,       \* GgState.mouse_left and mouse_right
          events,      \* GgState.events
          quit_sent,   \* GgState.quit_sent
          physical,    \* ghost: keys the player holds
          rises,       \* ghost: times the player pressed each key
          clean,       \* ghost: no focus was lost and no transition dropped
          polled,      \* ghost: per key or button, the last event polled
          downs, quits,\* ghost: KEY_DOWNs of each key and QUITs ever queued
          happenings   \* ghost: how much the player did

platformVars == <<window, backlog, keys, buttons>>
gameVars == <<down, mouse, events, quit_sent>>
ghostVars == <<physical, rises, clean, polled, downs, quits, happenings>>
vars == <<platformVars, gameVars, ghostVars>>

Keys == 0 .. KeyCount - 1
Left == KeyCount      \* the buttons, numbered after the keys
Right == KeyCount + 1
Buttons == {Left, Right}
Codes == Keys \cup Buttons

Event(kind, code) == [kind |-> kind, code |-> code]
QUIT == Event("quit", -1)
Edge(code, state) == Event(IF state THEN "down" ELSE "up", code)

(* What the player or the desktop does to the window, in arrival order. *)
KeyMoves(k, state) == [what |-> "key", key |-> k, state |-> state]
FocusLost == [what |-> "blur"]

Init == /\ window = "none" /\ backlog = <<>>
        /\ keys = [k \in Keys |-> FALSE]
        /\ buttons = [b \in Buttons |-> FALSE]
        /\ down = [k \in Keys |-> FALSE]
        /\ mouse = [b \in Buttons |-> FALSE]
        /\ events = <<>> /\ quit_sent = FALSE
        /\ physical = [k \in Keys |-> FALSE]
        /\ rises = [k \in Keys |-> 0]
        /\ clean = TRUE
        /\ polled = [c \in Codes |-> FALSE]
        /\ downs = [k \in Keys |-> 0] /\ quits = 0 /\ happenings = 0

-------------------------------------------------------------------------------
(* The player. *)

Acts == /\ window # "none" /\ happenings < MaxHappenings
        /\ happenings' = happenings + 1

(* A key goes down, is repeated by the system while it is down, or goes up. *)
KeyMove == /\ Acts
           /\ \E k \in Keys, state \in BOOLEAN :
                /\ physical[k] \/ state
                /\ backlog' = Append(backlog, KeyMoves(k, state))
                /\ physical' = [physical EXCEPT ![k] = state]
                /\ rises' = IF state /\ ~physical[k]
                            THEN [rises EXCEPT ![k] = @ + 1] ELSE rises
           /\ UNCHANGED <<window, keys, buttons, gameVars, clean, polled, downs, quits>>

(* The window loses the focus: the library forgets every key that is down  *)
(* and says nothing to KeyTap.                                             *)
Blur == /\ Acts
        /\ backlog' = Append(backlog, FocusLost)
        /\ clean' = FALSE
        /\ UNCHANGED <<window, keys, buttons, gameVars, physical, rises, polled, downs, quits>>

ButtonMove == /\ Acts
              /\ \E b \in Buttons : buttons' = [buttons EXCEPT ![b] = ~@]
              /\ UNCHANGED <<window, backlog, keys, gameVars, physical, rises, clean,
                             polled, downs, quits>>

Close == /\ window = "open"
         /\ window' = "closed"
         /\ UNCHANGED <<backlog, keys, buttons, gameVars, ghostVars>>

-------------------------------------------------------------------------------
(* One transition: an edge only on a change.  s is [down, out]. *)
edge(s, k, state) ==
    IF s.down[k] = state THEN s
    ELSE [down |-> [s.down EXCEPT ![k] = state],
          out  |-> Append(s.out, Edge(k, state))]

(* The edges of the transitions ts, one after the other. *)
edges(start, ts) ==
    LET s[n \in 0 .. Len(ts)] ==
          IF n = 0 THEN start ELSE edge(s[n - 1], ts[n].key, ts[n].state)
    IN s[Len(ts)]

Quiet == [down |-> down, out |-> <<>>]

(* The library's array read key by key. *)
Read(array) == [i \in 1 .. KeyCount |-> KeyMoves(i - 1, array[i - 1])]

(* pump without the pass over the raw transitions: polling. *)
pump_polling_mutant(raw, array) == edges(Quiet, Read(array))

(* pump without the reconciling pass. *)
pump_raw_mutant(raw, array) == edges(Quiet, raw)

(* Keyboard::pump: pass 1 replays the raw transitions in order, pass 2     *)
(* reconciles every key with the library's array.                          *)
pump(raw, array) == edges(edges(Quiet, raw), Read(array))

(* KeyTap::set_key_state: a full queue turns the transition away. *)
KeyTap(raw, t) == IF Len(raw) < RAW_KEY_CAP THEN Append(raw, t) ELSE raw

(* One happening delivered: the library's key array and KeyTap's queue.    *)
Delivered(d, h) ==
    IF h.what = "blur" THEN [d EXCEPT !.array = [k \in Keys |-> FALSE]]
    ELSE [array   |-> [d.array EXCEPT ![h.key] = h.state],
          raw     |-> KeyTap(d.raw, h),
          dropped |-> d.dropped \/ Len(d.raw) >= RAW_KEY_CAP]

(* update_with_buffer, up to the n-th happening of the backlog. *)
Delivery[n \in 0 .. Len(backlog)] ==
    IF n = 0 THEN [array |-> keys, raw |-> <<>>, dropped |-> FALSE]
    ELSE Delivered(Delivery[n - 1], backlog[n])

(* QuitEvent that repeats while the window stays closed. *)
QuitEvent_mutant == IF window = "closed" THEN <<QUIT>> ELSE <<>>

(* QuitEvent that asks for a window still open. *)
QuitEvent_never_mutant == IF ~quit_sent /\ window = "none" THEN <<QUIT>> ELSE <<>>

(* pump_input's first event: the single QUIT of a closed window. *)
QuitEvent == IF ~quit_sent /\ window = "closed" THEN <<QUIT>> ELSE <<>>

(* Button edges, left before right, against the debounced state. *)
ButtonEvents ==
    LET changed(b) == IF buttons[b] # mouse[b] THEN <<Edge(b, buttons[b])>> ELSE <<>>
    IN changed(Left) \o changed(Right)

CountDowns(out, k) == Cardinality({i \in DOMAIN out : out[i] = Edge(k, TRUE)})

(* pump_input given the raw queue and the library's array. *)
pump_input(raw, array) ==
    \E kb \in {pump(raw, array)} :
      /\ down' = kb.down
      /\ events' = events \o QuitEvent \o kb.out \o ButtonEvents
      /\ quit_sent' = (quit_sent \/ window = "closed")
      /\ mouse' = buttons
      /\ downs' = [k \in Keys |-> downs[k] + CountDowns(kb.out, k)]
      /\ quits' = quits + Len(QuitEvent)

(* The first present opens the window. *)
FirstPresent == /\ window = "none"
                /\ window' = "open"
                /\ UNCHANGED <<backlog, keys, buttons, gameVars, ghostVars>>

(* present, flush or show: update_with_buffer delivers the backlog, then   *)
(* pump_input runs.  The raw queue is empty again when the call returns.   *)
present == /\ window # "none"
           /\ \E d \in {Delivery[Len(backlog)]} :
                /\ keys' = d.array
                /\ pump_input(d.raw, d.array)
                /\ clean' = (clean /\ ~d.dropped)
           /\ backlog' = <<>>
           /\ UNCHANGED <<window, buttons, physical, rises, polled, happenings>>

(* flush with no canvas, and show of an empty frame: input is pumped       *)
(* without an update.                                                      *)
PumpOnly == /\ window # "none"
            /\ pump_input(<<>>, keys)
            /\ UNCHANGED <<platformVars, physical, rises, clean, polled, happenings>>

(* What a game knows of keys and buttons once it polled e. *)
Heard(known, e) == IF e = QUIT THEN known ELSE [known EXCEPT ![e.code] = (e.kind = "down")]

poll == /\ events # <<>>
        /\ events' = Tail(events)
        /\ polled' = Heard(polled, Head(events))
        /\ UNCHANGED <<platformVars, down, mouse, quit_sent, physical, rises, clean,
                       downs, quits, happenings>>

Next == \/ KeyMove \/ Blur \/ ButtonMove \/ Close
        \/ FirstPresent \/ present \/ PumpOnly \/ poll

(* A game's loop presents frames and polls events for as long as it runs;  *)
(* nothing is assumed of the player.                                       *)
Spec == Init /\ [][Next]_vars /\ WF_vars(present) /\ WF_vars(poll)

-------------------------------------------------------------------------------
(* What a game knows after it polled n more events. *)
PolledAfter[n \in 0 .. Len(events)] ==
    IF n = 0 THEN polled ELSE Heard(PolledAfter[n - 1], events[n])

(* For each key and button, the events a game polls alternate between down *)
(* and up, starting with a down (system key repeat never shows), and the   *)
(* last of them agrees with the platform: whatever was dropped, repeated   *)
(* or lost with the focus, no key is stuck after a frame.                  *)
EdgesAlternate ==
    /\ \A i \in 1 .. Len(events) : events[i] # QUIT =>
         PolledAfter[i - 1][events[i].code] # (events[i].kind = "down")
    /\ PolledAfter[Len(events)] = [c \in Codes |-> IF c \in Keys THEN keys[c] ELSE mouse[c]]

(* "This is what stops a fast tap from vanishing": as long as KeyTap's     *)
(* queue never filled up and the focus was kept, every press the player    *)
(* made has become exactly one KEY_DOWN once it was delivered.             *)
TapsSurvive == clean /\ backlog = <<>> => downs = rises

(* Closing the window queues one QUIT, however many frames follow. *)
OneQuit == quits <= 1 /\ (quit_sent => quits = 1)

(* A game that keeps presenting and polling gets the QUIT of a closed      *)
(* window out of its queue.                                                *)
QuitIsSeen == (window = "closed")
                ~> (quits > 0 /\ \A i \in 1 .. Len(events) : events[i] # QUIT)
==============================================================================
