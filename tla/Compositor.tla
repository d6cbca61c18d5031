------------------------------ MODULE Compositor ------------------------------
(***************************************************************************)
(* Drawing and presenting in the desktop backend (crates/gg-backend/src/   *)
(* lib.rs, mod compose and the canvas functions of GgState): a canvas that *)
(* frame sizes and rect and sprite draw into, the reused window buffer     *)
(* into which compose scales a frame with letterbox bars that are painted  *)
(* once per layout, the reused staging buffer a caller's frame is packed   *)
(* into, the gauge of their growths, and the mapping of the mouse back to  *)
(* logical pixels.                                                         *)
(* A pixel is a number, 0 is black; the window itself is external.         *)
(***************************************************************************)
EXTENDS Integers, Sequences

CONSTANTS LogicalSizes,  \* <<w, h>> of the frames a program makes
          WindowSizes,   \* <<w, h>> the player gives the window
          Colors,        \* colors a program clears and draws with
          Boxes,         \* <<x, y, w, h>> it fills
          Texture,       \* <<w, h>> of its opaque texture
          Blits,         \* <<sx, sy, sw, sh, dx, dy>> it blits
          FrameFirst     \* after show the program calls frame before it draws

ASSUME CompositorAssumption == /\ \A s \in LogicalSizes \cup WindowSizes : s \in Nat \X Nat
                               /\ Colors \subseteq Nat \ {0}
                               /\ \A b \in Boxes : b \in Int \X Int \X Int \X Int
                               /\ Texture \in Nat \X Nat
                               /\ \A b \in Blits : b \in Int \X Int \X Int \X Int \X Int \X Int
                               /\ FrameFirst \in BOOLEAN

VARIABLES canvas,              \* GgState.canvas: pixel index from 0 -> color
          canvas_w, canvas_h,
          buf, capacity,       \* Present.buf: pixel index from 0 -> color
          laid_out,            \* Present.laid_out
          scale, off_x, off_y, \* Present's window -> logical mapping
          growths,             \* Present.growths, the allocations gauge of GG_STATS
          staging,             \* capacity of GgState.staging
          mouse,               \* <<mouse_x, mouse_y>>
          win,                 \* the window's size, or NoWindow
          cursor,              \* where the player points in the window
          panicked,            \* an index was out of range: the process is gone
          largest,             \* ghost: pixels of the largest window composed so far
          staged,              \* ghost: pixels of the largest frame packed so far
          shown                \* ghost: the frame the window shows, if it is current

canvasVars  == <<canvas, canvas_w, canvas_h>>
presentVars == <<buf, capacity, laid_out, scale, off_x, off_y>>
gaugeVars   == <<growths, staging, staged>>
vars == <<canvasVars, presentVars, gaugeVars, mouse, win, cursor, panicked, largest, shown>>

NoWindow == <<-1, -1>>
NoLayout == <<>>
Stale == [current |-> FALSE]

Pixels(n) == 0 .. n - 1
Plain(n, c) == [i \in Pixels(n) |-> c]

(* A frame whose pixels can all be told apart. *)
Pattern(c, n) == [i \in Pixels(n) |-> c * 100 + i]

Least(a, b) == IF a < b THEN a ELSE b
Greatest(a, b) == IF a < b THEN b ELSE a
Size(f) == IF DOMAIN f = {} THEN 0 ELSE 1 + (CHOOSE i \in DOMAIN f : i + 1 \notin DOMAIN f)

(* Rust's integer division rounds towards zero. *)
Trunc(a, b) == IF a >= 0 THEN a \div b ELSE -((-a) \div b)

Init == /\ canvas = Plain(0, 0) /\ canvas_w = 0 /\ canvas_h = 0
        /\ buf = Plain(0, 0) /\ capacity = 0 /\ laid_out = NoLayout
        /\ scale = 1 /\ off_x = 0 /\ off_y = 0
        /\ growths = 0 /\ staging = 0 /\ staged = 0
        /\ mouse = <<0, 0>> /\ win = NoWindow /\ cursor = <<0, 0>>
        /\ panicked = FALSE /\ largest = 0 /\ shown = Stale

-------------------------------------------------------------------------------
(* The scale and offsets compose picks, and the logical pixel each window  *)
(* pixel of the picture is a copy of.                                      *)
Layout(cw, ch, ww, wh) ==
    LET s == Greatest(Least(ww \div cw, wh \div ch), 1) IN
    [scale |-> s, off_x |-> Trunc(ww - cw * s, 2), off_y |-> Trunc(wh - ch * s, 2)]

InPicture(l, cw, ch, x, y) == /\ x - l.off_x \in 0 .. cw * l.scale - 1
                              /\ y - l.off_y \in 0 .. ch * l.scale - 1

Source(l, cw, x, y) == ((y - l.off_y) \div l.scale) * cw + (x - l.off_x) \div l.scale

(* The key compose remembers the painted bars under, without the offsets.  *)
LayoutKey_mutant(l, ww, wh) == <<l.scale>>

(* The key compose remembers the painted bars under. *)
LayoutKey(l, ww, wh) == <<ww, wh, l.scale, l.off_x, l.off_y>>

(* A buffer that gives its spare capacity back. *)
grown_mutant(held, need) == need

(* The capacity a Vec has after a resize: past the one it has, it at least *)
(* doubles it, and it keeps what it does not need.                         *)
grown(held, need) == IF need > held THEN Greatest(need, 2 * held) ELSE held

(* What a resize of a buffer to need elements adds to the gauge. *)
Growth(held, need) == IF need > held THEN 1 ELSE 0

(* fit: Vec::resize keeps what it has and zeroes what is new. *)
fit(need) == [buf |-> [i \in Pixels(need) |-> IF i \in DOMAIN buf THEN buf[i] ELSE 0],
              capacity |-> grown(capacity, need),
              growths |-> Growth(capacity, need)]

(* compose returns early for an empty frame or window, or a short source. *)
Composes(src, cw, ch, w) == cw * ch > 0 /\ w[1] * w[2] > 0 /\ Size(src) >= cw * ch

(* compose, with the gauge where packing the frame left it. *)
compose(src, cw, ch, w, gauge) ==
    IF ~Composes(src, cw, ch, w)
    THEN UNCHANGED presentVars /\ growths' = gauge
    ELSE LET ww     == w[1]
             wh     == w[2]
             l      == Layout(cw, ch, ww, wh)
             fitted == fit(ww * wh)
             under  == IF laid_out = LayoutKey(l, ww, wh)
                       THEN fitted.buf ELSE Plain(ww * wh, 0)
         IN /\ buf' = [i \in Pixels(ww * wh) |->
                         LET x == i % ww
                             y == i \div ww
                         IN IF InPicture(l, cw, ch, x, y) THEN src[Source(l, cw, x, y)]
                                                          ELSE under[i]]
            /\ capacity' = fitted.capacity /\ growths' = gauge + fitted.growths
            /\ laid_out' = LayoutKey(l, ww, wh)
            /\ scale' = l.scale /\ off_x' = l.off_x /\ off_y' = l.off_y

(* The logical coordinate without its offset. *)
Logical_mutant(at, off, s, extent) == Least(Greatest(Trunc(at, s), 0), Greatest(extent - 1, 0))

(* One coordinate of the mouse in the logical frame. *)
Logical(at, off, s, extent) ==
    Least(Greatest(Trunc(at - off, Greatest(s, 1)), 0), Greatest(extent - 1, 0))

(* pump_input's cursor part, with the mapping and canvas size it finds. *)
pump_mouse(s, ox, oy, cw, ch) ==
    mouse' = <<Logical(cursor[1], ox, s, cw), Logical(cursor[2], oy, s, ch)>>

(* pack_frame_into: the staging buffer is cleared and resized to the n     *)
(* pixels of the caller's frame; Packed is the gauge after it.             *)
pack_frame_into(n) == /\ staging' = grown(staging, n)
                      /\ staged' = Greatest(staged, n)
Packed(n) == growths + Growth(staging, n)

(* present_scaled: open the window at twice the frame if there is none,    *)
(* compose, hand over the buffer, pump input.                              *)
present_scaled(src, cw, ch, gauge) ==
    LET w == IF win = NoWindow THEN <<cw * 2, ch * 2>> ELSE win IN
    /\ win' = w
    /\ compose(src, cw, ch, w, gauge)
    /\ pump_mouse(scale', off_x', off_y', cw, ch)
    /\ largest' = IF Size(buf') > largest THEN Size(buf') ELSE largest
    /\ shown' = IF Composes(src, cw, ch, w)
                THEN [current |-> TRUE, src |-> src, cw |-> cw, ch |-> ch] ELSE Stale
    /\ UNCHANGED <<cursor, panicked>>

(* pump_input alone.  The window goes on showing its frame, but the mouse  *)
(* is now told in the canvas' coordinates.                                 *)
PumpOnly == /\ IF win = NoWindow THEN UNCHANGED mouse
               ELSE pump_mouse(scale, off_x, off_y, canvas_w, canvas_h)
            /\ shown' = IF shown.current /\ <<shown.cw, shown.ch>> = <<canvas_w, canvas_h>>
                        THEN shown ELSE Stale
            /\ UNCHANGED <<canvasVars, presentVars, gaugeVars, win, cursor, panicked, largest>>

-------------------------------------------------------------------------------
frame == /\ ~panicked
         /\ \E s \in LogicalSizes, c \in Colors :
              /\ canvas' = Plain(s[1] * s[2], c)
              /\ canvas_w' = s[1] /\ canvas_h' = s[2]
         /\ UNCHANGED <<presentVars, gaugeVars, mouse, win, cursor, panicked, largest, shown>>

(* Clipped to the top left corner only. *)
Covered_mutant(b) == {y * canvas_w + x : x \in Greatest(b[1], 0) .. b[1] + b[3] - 1,
                                         y \in Greatest(b[2], 0) .. b[2] + b[4] - 1}

(* The canvas indices a box covers once it is clipped to the canvas. *)
Covered(b) == {y * canvas_w + x :
                 x \in Greatest(b[1], 0) .. Least(b[1] + b[3], canvas_w) - 1,
                 y \in Greatest(b[2], 0) .. Least(b[2] + b[4], canvas_h) - 1}

(* Writing c at those indices; one past the canvas panics. *)
Draws(indices, c) ==
    /\ ~panicked
    /\ FrameFirst => Size(canvas) = canvas_w * canvas_h
    /\ canvas' = [i \in DOMAIN canvas |-> IF i \in indices THEN c ELSE canvas[i]]
    /\ panicked' = ~(indices \subseteq DOMAIN canvas)
    /\ UNCHANGED <<canvas_w, canvas_h, presentVars, gaugeVars, mouse, win, cursor, largest, shown>>

rect == \E b \in Boxes, c \in Colors : Draws(Covered(b), c)

(* sprite and sprite_sub: the source window is clipped to the texture, its *)
(* image at (dx, dy) to the canvas.                                        *)
Blitted(b) ==
    LET x0 == Greatest(b[1], 0)
        y0 == Greatest(b[2], 0)
        x1 == Least(b[1] + b[3], Texture[1])
        y1 == Least(b[2] + b[4], Texture[2])
    IN Covered(<<b[5] + x0 - b[1], b[6] + y0 - b[2], x1 - x0, y1 - y0>>)

blit_sub == \E b \in Blits, c \in Colors : Draws(Blitted(b), c)

flush == /\ ~panicked
         /\ IF canvas_w * canvas_h = 0 \/ Size(canvas) # canvas_w * canvas_h
            THEN PumpOnly
            ELSE /\ present_scaled(canvas, canvas_w, canvas_h, growths)
                 /\ UNCHANGED <<canvasVars, staging, staged>>

(* show returns at once for an empty frame, as present does.  It packs the *)
(* caller's frame and adopts its size as the logical one.                  *)
show == /\ ~panicked
        /\ \E s \in LogicalSizes, c \in Colors :
             LET n == s[1] * s[2] IN
             /\ n > 0
             /\ pack_frame_into(n)
             /\ canvas_w' = s[1] /\ canvas_h' = s[2]
             /\ present_scaled(Pattern(c, n), s[1], s[2], Packed(n))
             /\ UNCHANGED canvas

(* present packs the caller's frame too but hands it over as it is, with   *)
(* no scaling and no logical size of its own; a window it opens has the    *)
(* frame's size.                                                           *)
present == /\ ~panicked
           /\ \E s \in LogicalSizes :
                LET n == s[1] * s[2] IN
                /\ n > 0
                /\ pack_frame_into(n)
                /\ growths' = Packed(n)
                /\ win' = IF win = NoWindow THEN s ELSE win
           /\ pump_mouse(scale, off_x, off_y, canvas_w, canvas_h)
           /\ shown' = Stale
           /\ UNCHANGED <<canvasVars, presentVars, cursor, panicked, largest>>

(* The player resizes the window or moves the cursor; the window keeps     *)
(* showing the old buffer.                                                 *)
resize == /\ win # NoWindow
          /\ \E w \in WindowSizes :
               /\ win' = w
               /\ cursor' = <<Least(cursor[1], Greatest(w[1] - 1, 0)),
                              Least(cursor[2], Greatest(w[2] - 1, 0))>>
          /\ shown' = Stale
          /\ UNCHANGED <<canvasVars, presentVars, gaugeVars, mouse, largest, panicked>>

point == /\ win # NoWindow /\ win[1] * win[2] > 0
         /\ \E x \in Pixels(win[1]), y \in Pixels(win[2]) : cursor' = <<x, y>>
         /\ shown' = Stale
         /\ UNCHANGED <<canvasVars, presentVars, gaugeVars, mouse, win, largest, panicked>>

Next == \/ frame \/ rect \/ blit_sub \/ flush \/ show \/ present
        \/ resize \/ point

Spec == Init /\ [][Next]_vars

-------------------------------------------------------------------------------
(* "Once black they stay black": outside the picture of the frame it       *)
(* shows, the window is black, although the bars are painted only when the *)
(* layout changes and the buffer is reused from frame to frame.            *)
LetterboxIsBlack ==
    shown.current =>
      LET l == Layout(shown.cw, shown.ch, win[1], win[2]) IN
      /\ Size(buf) = win[1] * win[2]
      /\ \A i \in DOMAIN buf :
           ~InPicture(l, shown.cw, shown.ch, i % win[1], i \div win[1]) => buf[i] = 0

(* gg.mouse names the logical pixel that the player sees under the cursor, *)
(* whatever the scale and the bars, and an edge pixel from inside a bar.   *)
MouseNamesPixel ==
    shown.current =>
      LET seen   == buf[cursor[2] * win[1] + cursor[1]]
          l      == Layout(shown.cw, shown.ch, win[1], win[2])
          inside == InPicture(l, shown.cw, shown.ch, cursor[1], cursor[2])
      IN /\ mouse[1] < shown.cw /\ mouse[2] < shown.ch
         /\ inside => seen = shown.src[mouse[2] * shown.cw + mouse[1]]

(* Whether something larger than anything before it was met. *)
Record(old, new) == IF new > old THEN 1 ELSE 0

(* The allocations gauge of GG_STATS "must stay flat" in steady state: a   *)
(* step adds to it at most once for a window larger than any composed      *)
(* before, when compose fits its buffer, and at most once for a frame      *)
(* larger than any packed before, when pack_frame_into resizes staging.    *)
(* While the windows and the frames repeat, in any order, it stands still. *)
GrowthsStayFlat ==
    [][growths' - growths \in 0 .. Record(largest, Size(buf')) + Record(staged, staged')]_vars

(* The comment on sprite_sub and rect, "clipped to the canvas": of a        *)
(* program that calls frame before it draws, no rect or blit indexes past  *)
(* the canvas, whatever was shown or presented in between.                 *)
DrawingIsClipped == ~panicked
==============================================================================
