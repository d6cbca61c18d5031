-------------------------- MODULE CompositorProofs --------------------------
(***************************************************************************)
(* Proofs about drawing and presenting, for every size of frame and window *)
(* and everything a program draws.                                         *)
(***************************************************************************)
EXTENDS Compositor, BasicLemmas

-----------------------------------------------------------------------------
(* Pixels and their indices. *)

(* How many pixels a buffer has. *)
LEMMA SizeOfPixels ==
    ASSUME NEW f, NEW n \in Nat, DOMAIN f = Pixels(n)
    PROVE  Size(f) = n
<1>1. CASE n = 0
  <2>1. DOMAIN f = {}
    BY <1>1 DEF Pixels
  <2> QED BY <1>1, <2>1 DEF Size
<1>2. CASE n # 0
  <2> DEFINE last == CHOOSE i \in DOMAIN f : i + 1 \notin DOMAIN f
  <2>1. n - 1 \in DOMAIN f /\ (n - 1) + 1 \notin DOMAIN f
    BY <1>2 DEF Pixels
  <2>2. last \in DOMAIN f /\ last + 1 \notin DOMAIN f
    BY <2>1
  <2> HIDE DEF last
  <2>3. last = n - 1
    BY <1>2, <2>2 DEF Pixels
  <2>4. Size(f) = 1 + last
    BY <2>1 DEF Size, last
  <2> QED BY <2>3, <2>4
<1> QED BY <1>1, <1>2

(* The index of pixel (x, y) of a picture of w by h pixels, and back.      *)
LEMMA IndexOfPixel ==
    ASSUME NEW w, NEW h, NEW x, NEW y, IsCell(x, y, w, h)
    PROVE  /\ y * w + x \in Pixels(w * h)
           /\ (y * w + x) % w = x
           /\ (y * w + x) \div w = y
BY RowMajor DEF Pixels

(* What a run of n * s pixels is scaled down to has n pixels.              *)
LEMMA ScaledDown ==
    ASSUME NEW n \in Nat, NEW s \in Nat \ {0}, NEW a \in 0 .. n * s - 1
    PROVE  a \div s \in 0 .. n - 1
<1>1. a \in Nat /\ a < n * s /\ n * s \in Nat
  BY Z3
<1> DEFINE d == a \div s
           m == a % s
<1>2. d \in Nat /\ m \in 0 .. s - 1 /\ a = d * s + m
  BY <1>1, Division
<1> HIDE DEF d, m
<1>3. d < n
  <2> SUFFICES ASSUME ~(d < n) PROVE FALSE
    OBVIOUS
  <2>1. CASE d = n
    BY <1>1, <1>2, <2>1
  <2>2. CASE d # n
    <3>1. n < d
      BY <1>2, <2>2
    <3>2. n * s + s <= d * s /\ d * s \in Nat
      BY <1>2, <3>1, Products
    <3> QED BY <1>1, <1>2, <3>2
  <2> QED BY <2>1, <2>2
<1> QED BY <1>2, <1>3 DEF d

(* A layout has a scale of at least one, and whole offsets.                *)
LEMMA LayoutTypes ==
    ASSUME NEW cw \in Nat \ {0}, NEW ch \in Nat \ {0}, NEW ww \in Nat, NEW wh \in Nat
    PROVE  /\ Layout(cw, ch, ww, wh).scale \in Nat \ {0}
           /\ Layout(cw, ch, ww, wh).off_x \in Int
           /\ Layout(cw, ch, ww, wh).off_y \in Int
<1> DEFINE s == Greatest(Least(ww \div cw, wh \div ch), 1)
<1>1. ww \div cw \in Nat /\ wh \div ch \in Nat
  BY Division
<1>2. s \in Nat \ {0}
  BY <1>1 DEF Greatest, Least
<1> HIDE DEF s
<1>3. ASSUME NEW a \in Int PROVE Trunc(a, 2) \in Int
  BY Z3 DEF Trunc
<1>4. ww - cw * s \in Int /\ wh - ch * s \in Int
  BY <1>2, Z3
<1>5. Layout(cw, ch, ww, wh) = [scale |-> s, off_x |-> Trunc(ww - cw * s, 2),
                                off_y |-> Trunc(wh - ch * s, 2)]
  BY DEF Layout, s
<1> QED BY <1>2, <1>3, <1>4, <1>5

-----------------------------------------------------------------------------
(* The inductive invariant of the buffers: the window buffer never has     *)
(* more pixels than the capacity fit keeps, which is at least what the     *)
(* largest window so far needed; the staging buffer has room for the       *)
(* largest frame packed so far; and the cursor is inside the window.       *)
Inside(c, extent) == c \in Nat /\ c <= Greatest(extent - 1, 0)

Canvas == /\ canvas_w \in Nat /\ canvas_h \in Nat
          /\ \E n \in Nat : DOMAIN canvas = Pixels(n)

Buffer == /\ capacity \in Nat /\ largest \in Nat /\ largest <= capacity
          /\ \E n \in Nat : n <= capacity /\ DOMAIN buf = Pixels(n)

Gauge == growths \in Nat /\ staging \in Nat /\ staged \in Nat /\ staged <= staging

Pointer == /\ cursor \in Nat \X Nat
           /\ win = NoWindow => cursor = <<0, 0>>
           /\ win # NoWindow => /\ win \in Nat \X Nat
                                /\ Inside(cursor[1], win[1]) /\ Inside(cursor[2], win[2])

Screen == Canvas /\ Buffer /\ Gauge /\ Pointer

(* What the window shows a frame of cw by ch pixels in, once it is open.   *)
Opened(cw, ch) == IF win = NoWindow THEN <<cw * 2, ch * 2>> ELSE win

LEMMA OpenedWindow ==
    ASSUME Pointer, NEW cw \in Nat, NEW ch \in Nat
    PROVE  /\ Opened(cw, ch) \in Nat \X Nat /\ Opened(cw, ch) # NoWindow
           /\ Inside(cursor[1], Opened(cw, ch)[1]) /\ Inside(cursor[2], Opened(cw, ch)[2])
<1>1. cursor \in Nat \X Nat
  BY DEF Pointer
<1>2. CASE win = NoWindow
  <2>1. cursor[1] = 0 /\ cursor[2] = 0
    BY <1>2 DEF Pointer
  <2>2. Opened(cw, ch) = <<cw * 2, ch * 2>> /\ cw * 2 \in Nat /\ ch * 2 \in Nat
    BY <1>2 DEF Opened
  <2> QED BY <2>1, <2>2 DEF Inside, Greatest, NoWindow
<1>3. CASE win # NoWindow
  BY <1>3 DEF Pointer, Opened
<1> QED BY <1>2, <1>3

LEMMA PresentScaled ==
    ASSUME NEW src, NEW cw, NEW ch, NEW gauge, present_scaled(src, cw, ch, gauge)
    PROVE  /\ win' = Opened(cw, ch)
           /\ compose(src, cw, ch, Opened(cw, ch), gauge)
           /\ mouse' = <<Logical(cursor[1], off_x', scale', cw), Logical(cursor[2], off_y', scale', ch)>>
           /\ largest' = IF Size(buf') > largest THEN Size(buf') ELSE largest
           /\ shown' = IF Composes(src, cw, ch, Opened(cw, ch))
                       THEN [current |-> TRUE, src |-> src, cw |-> cw, ch |-> ch] ELSE Stale
           /\ UNCHANGED <<cursor, panicked>>
BY DEF present_scaled, pump_mouse, Opened

(* Everything compose does for a frame and a window that are not empty.    *)
Paints(src, cw, ch, ww, wh, gauge) == /\ {cw, ch, ww, wh} \subseteq Nat
                                      /\ Composes(src, cw, ch, <<ww, wh>>)
                                      /\ compose(src, cw, ch, <<ww, wh>>, gauge)

LEMMA Composed ==
    ASSUME NEW src, NEW cw, NEW ch, NEW ww, NEW wh, NEW gauge,
           Paints(src, cw, ch, ww, wh, gauge)
    PROVE  LET l == Layout(cw, ch, ww, wh)
               need == ww * wh
           IN  /\ cw \in Nat \ {0} /\ ch \in Nat \ {0} /\ ww # 0 /\ wh # 0
               /\ need \in Nat /\ DOMAIN buf' = Pixels(need)
               /\ capacity' = grown(capacity, need)
               /\ growths' = gauge + Growth(capacity, need)
               /\ laid_out' = LayoutKey(l, ww, wh)
               /\ scale' = l.scale /\ off_x' = l.off_x /\ off_y' = l.off_y
               /\ \A i \in Pixels(need) : InPicture(l, cw, ch, i % ww, i \div ww) =>
                     buf'[i] = src[Source(l, cw, i % ww, i \div ww)]
               /\ \A i \in Pixels(need) : ~InPicture(l, cw, ch, i % ww, i \div ww) =>
                     buf'[i] = IF laid_out = LayoutKey(l, ww, wh) /\ i \in DOMAIN buf
                               THEN buf[i] ELSE 0
<1> USE DEF Paints
<1>1. cw # 0 /\ ch # 0 /\ ww # 0 /\ wh # 0 /\ ww * wh \in Nat
  BY Z3 DEF Composes
<1> DEFINE l == Layout(cw, ch, ww, wh)
           need == ww * wh
           old == [i \in Pixels(need) |-> IF i \in DOMAIN buf THEN buf[i] ELSE 0]
           under == IF laid_out = LayoutKey(l, ww, wh) THEN old ELSE Plain(need, 0)
           new == [i \in Pixels(need) |->
                     IF InPicture(l, cw, ch, i % ww, i \div ww)
                     THEN src[Source(l, cw, i % ww, i \div ww)] ELSE under[i]]
<1>2. /\ buf' = new
      /\ capacity' = grown(capacity, need)
      /\ growths' = gauge + Growth(capacity, need)
      /\ laid_out' = LayoutKey(l, ww, wh)
      /\ scale' = l.scale /\ off_x' = l.off_x /\ off_y' = l.off_y
  BY DEF compose, fit
<1>3. ASSUME NEW i \in Pixels(need)
      PROVE  under[i] = IF laid_out = LayoutKey(l, ww, wh) /\ i \in DOMAIN buf
                        THEN buf[i] ELSE 0
  <2> HIDE DEF need
  <2> QED BY DEF Plain
<1> HIDE DEF l, need, under
<1>4. /\ \A i \in Pixels(need) : InPicture(l, cw, ch, i % ww, i \div ww) =>
            new[i] = src[Source(l, cw, i % ww, i \div ww)]
      /\ \A i \in Pixels(need) : ~InPicture(l, cw, ch, i % ww, i \div ww) =>
            new[i] = under[i]
      /\ DOMAIN new = Pixels(need)
  OBVIOUS
<1> HIDE DEF new
<1>5. \A i \in Pixels(need) : ~InPicture(l, cw, ch, i % ww, i \div ww) =>
        buf'[i] = IF laid_out = LayoutKey(l, ww, wh) /\ i \in DOMAIN buf THEN buf[i] ELSE 0
  BY <1>2, <1>3, <1>4
<1>6. need \in Nat
  BY <1>1 DEF need
<1> QED BY <1>1, <1>2, <1>4, <1>5, <1>6 DEF l, need

-----------------------------------------------------------------------------
(* Packing a frame keeps the staging buffer's invariant, and adds to the   *)
(* gauge only for a frame larger than any before it.                       *)
LEMMA PackedFrame ==
    ASSUME Screen, NEW n \in Nat, pack_frame_into(n)
    PROVE  /\ staging' \in Nat /\ staged' \in Nat /\ staged' <= staging'
           /\ Packed(n) \in Nat
           /\ Packed(n) - growths \in 0 .. Record(staged, staged')
BY DEF Screen, Gauge, pack_frame_into, Packed, grown, Growth, Greatest, Record

(* Presenting keeps the buffers' invariant, and adds to the gauge it is    *)
(* given only for a window larger than any before it.                      *)
LEMMA PresentBuffer ==
    ASSUME Screen, NEW src, NEW cw \in Nat, NEW ch \in Nat, NEW gauge \in Nat,
           present_scaled(src, cw, ch, gauge)
    PROVE  /\ Buffer' /\ Pointer' /\ growths' \in Nat
           /\ growths' - gauge \in 0 .. Record(largest, Size(buf'))
<1>1. /\ win' = Opened(cw, ch) /\ compose(src, cw, ch, Opened(cw, ch), gauge)
      /\ largest' = IF Size(buf') > largest THEN Size(buf') ELSE largest
      /\ cursor' = cursor
  BY PresentScaled
<1>2. PICK ww \in Nat, wh \in Nat : Opened(cw, ch) = <<ww, wh>>
  BY OpenedWindow DEF Screen
<1>3. compose(src, cw, ch, <<ww, wh>>, gauge)
  BY <1>1, <1>2
<1>4. Pointer'
  <2>1. /\ Opened(cw, ch) \in Nat \X Nat /\ Opened(cw, ch) # NoWindow
        /\ Inside(cursor[1], Opened(cw, ch)[1]) /\ Inside(cursor[2], Opened(cw, ch)[2])
        /\ cursor \in Nat \X Nat
    BY OpenedWindow DEF Screen, Pointer
  <2> QED BY <1>1, <2>1 DEF Pointer
<1>5. CASE Composes(src, cw, ch, <<ww, wh>>)
  <2> DEFINE need == ww * wh
  <2>1. /\ need \in Nat /\ DOMAIN buf' = Pixels(need)
        /\ capacity' = grown(capacity, need)
        /\ growths' = gauge + Growth(capacity, need)
    <3>1. Paints(src, cw, ch, ww, wh, gauge)
      BY <1>5, <1>3 DEF Paints
    <3> QED BY <3>1, Composed
  <2> HIDE DEF need
  <2>2. capacity \in Nat /\ largest \in Nat /\ largest <= capacity
    BY DEF Screen, Buffer
  <2>3. Size(buf') = need
    BY <2>1, SizeOfPixels
  <2>4. capacity' \in Nat /\ capacity' >= need /\ capacity' >= capacity
    BY <2>1, <2>2 DEF grown, Greatest
  <2>5. largest' \in Nat /\ largest' <= capacity'
    BY <1>1, <2>1, <2>2, <2>3, <2>4
  <2>6. growths' \in Nat /\ growths' - gauge \in 0 .. Record(largest, need)
    BY <2>1, <2>2 DEF Growth, Record
  <2> QED BY <1>4, <2>1, <2>3, <2>4, <2>5, <2>6 DEF Buffer
<1>6. CASE ~Composes(src, cw, ch, <<ww, wh>>)
  <2>1. UNCHANGED presentVars /\ growths' = gauge
    BY <1>1, <1>2, <1>6 DEF compose
  <2>2. capacity' = capacity /\ buf' = buf
    BY <2>1 DEF presentVars
  <2>3. capacity \in Nat /\ largest \in Nat /\ largest <= capacity
    BY DEF Screen, Buffer
  <2>4. PICK n \in Nat : n <= capacity /\ DOMAIN buf = Pixels(n)
    BY DEF Screen, Buffer
  <2>5. Size(buf) = n
    BY <2>4, SizeOfPixels
  <2>6. largest' \in Nat /\ largest' <= capacity'
    BY <1>1, <2>2, <2>3, <2>4, <2>5
  <2>7. growths' - gauge = 0
    BY <2>1
  <2>8. 0 \in 0 .. Record(largest, Size(buf'))
    BY DEF Record
  <2> QED BY <1>4, <2>1, <2>2, <2>3, <2>4, <2>6, <2>7, <2>8 DEF Buffer
<1> QED BY <1>5, <1>6

(* What rect and the blits index lies on the canvas they were clipped to.  *)
LEMMA CoveredOnCanvas ==
    ASSUME Canvas, NEW x \in Int, NEW y \in Int, NEW w \in Int, NEW h \in Int
    PROVE  Covered(<<x, y, w, h>>) \subseteq Pixels(canvas_w * canvas_h)
<1> SUFFICES ASSUME NEW px \in Greatest(x, 0) .. Least(x + w, canvas_w) - 1,
                    NEW py \in Greatest(y, 0) .. Least(y + h, canvas_h) - 1
             PROVE  py * canvas_w + px \in Pixels(canvas_w * canvas_h)
  BY DEF Covered
<1>1. canvas_w \in Nat /\ canvas_h \in Nat
  BY DEF Canvas
<1>2. px \in 0 .. canvas_w - 1 /\ py \in 0 .. canvas_h - 1
  BY <1>1 DEF Greatest, Least
<1>3. IsCell(px, py, canvas_w, canvas_h)
  BY <1>1, <1>2 DEF IsCell
<1> QED BY <1>3, IndexOfPixel

LEMMA BlittedOnCanvas ==
    ASSUME Canvas, NEW b \in Blits
    PROVE  Blitted(b) \subseteq Pixels(canvas_w * canvas_h)
<1> DEFINE x0 == Greatest(b[1], 0)
           y0 == Greatest(b[2], 0)
           x1 == Least(b[1] + b[3], Texture[1])
           y1 == Least(b[2] + b[4], Texture[2])
<1>1. /\ b[1] \in Int /\ b[2] \in Int /\ b[3] \in Int /\ b[4] \in Int /\ b[5] \in Int
      /\ b[6] \in Int /\ Texture[1] \in Int /\ Texture[2] \in Int
  BY CompositorAssumption
<1>2. x0 \in Int /\ y0 \in Int /\ x1 \in Int /\ y1 \in Int
  BY <1>1 DEF Greatest, Least
<1>3. Blitted(b) = Covered(<<b[5] + x0 - b[1], b[6] + y0 - b[2], x1 - x0, y1 - y0>>)
  BY DEF Blitted
<1> HIDE DEF x0, y0, x1, y1
<1>4. /\ b[5] + x0 - b[1] \in Int /\ b[6] + y0 - b[2] \in Int
      /\ x1 - x0 \in Int /\ y1 - y0 \in Int
  BY <1>1, <1>2
<1> QED BY <1>3, <1>4, CoveredOnCanvas

LEMMA DrawsCanvas ==
    ASSUME Screen, NEW indices, NEW c, Draws(indices, c)
    PROVE  /\ Screen'
           /\ UNCHANGED <<growths, staged>>
           /\ FrameFirst /\ indices \subseteq Pixels(canvas_w * canvas_h) => ~panicked'
<1>1. /\ FrameFirst => Size(canvas) = canvas_w * canvas_h
      /\ canvas' = [i \in DOMAIN canvas |-> IF i \in indices THEN c ELSE canvas[i]]
      /\ panicked' = ~(indices \subseteq DOMAIN canvas)
      /\ UNCHANGED <<canvas_w, canvas_h, capacity, buf, gaugeVars, win, cursor, largest>>
  BY DEF Draws, presentVars
<1>2. PICK n \in Nat : DOMAIN canvas = Pixels(n)
  BY DEF Screen, Canvas
<1>3. DOMAIN canvas' = Pixels(n)
  BY <1>1, <1>2
<1>4. Canvas' /\ Buffer' /\ Gauge' /\ Pointer'
  BY <1>1, <1>3 DEF Screen, Canvas, Buffer, Gauge, Pointer, gaugeVars
<1>5. Size(canvas) = n
  BY <1>2, SizeOfPixels
<1> QED BY <1>1, <1>2, <1>4, <1>5 DEF Screen, gaugeVars

LEMMA InitScreen == Init => Screen /\ ~panicked
<1> SUFFICES ASSUME Init PROVE Screen /\ ~panicked
  OBVIOUS
<1>1. DOMAIN canvas = Pixels(0) /\ DOMAIN buf = Pixels(0)
  BY DEF Init, Plain
<1>2. Canvas /\ Buffer /\ Gauge
  BY <1>1 DEF Init, Canvas, Buffer, Gauge
<1>3. Pointer
  BY DEF Init, Pointer
<1> QED BY <1>2, <1>3 DEF Init, Screen

(* The variables the buffers' invariant speaks of. *)
screenVars == <<canvasVars, buf, capacity, gaugeVars, win, cursor, largest>>

(* What a step may add to the gauge. *)
Added == growths' - growths \in 0 .. Record(largest, Size(buf')) + Record(staged, staged')

LEMMA SameScreen ==
    ASSUME Screen, UNCHANGED screenVars
    PROVE  Screen' /\ UNCHANGED <<growths, staged>>
BY DEF screenVars, canvasVars, gaugeVars, Screen, Canvas, Buffer, Gauge, Pointer

LEMMA NothingAdded == ASSUME Screen, UNCHANGED <<growths, staged>> PROVE Added
BY DEF Screen, Gauge, Added, Record

(* The gauge after packing a frame and composing a window. *)
LEMMA AddedUp ==
    ASSUME NEW gauge \in Nat, growths \in Nat, growths' \in Nat,
           gauge - growths \in 0 .. Record(staged, staged'),
           growths' - gauge \in 0 .. Record(largest, Size(buf'))
    PROVE  Added
<1>1. PICK a \in {0, 1} : Record(staged, staged') = a
  BY DEF Record
<1>2. PICK b \in {0, 1} : Record(largest, Size(buf')) = b
  BY DEF Record
<1>3. PICK g \in Nat, h \in Nat : g = growths /\ h = growths'
  OBVIOUS
<1>4. gauge - g \in 0 .. a /\ h - gauge \in 0 .. b
  BY <1>1, <1>2, <1>3
<1>5. h - g \in 0 .. b + a
  BY <1>4
<1> QED BY <1>1, <1>2, <1>3, <1>5 DEF Added

LEMMA StepScreen ==
    ASSUME Screen, [Next]_vars
    PROVE  /\ Screen'
           /\ Added
           /\ FrameFirst /\ ~panicked => ~panicked'
<1> DEFINE Good == /\ Screen'
                   /\ Added
                   /\ FrameFirst /\ ~panicked => ~panicked'
<1> SUFFICES Good
  OBVIOUS
<1> USE CompositorAssumption
<1>1. CASE frame
  <2>1. PICK s \in LogicalSizes, c \in Colors :
          /\ canvas' = Plain(s[1] * s[2], c) /\ canvas_w' = s[1] /\ canvas_h' = s[2]
    BY <1>1 DEF frame
  <2>2. UNCHANGED <<buf, capacity, gaugeVars, win, cursor, largest, panicked>>
    BY <1>1 DEF frame, presentVars
  <2>3. s[1] \in Nat /\ s[2] \in Nat
    OBVIOUS
  <2>4. s[1] * s[2] \in Nat /\ DOMAIN canvas' = Pixels(s[1] * s[2])
    BY <2>1, <2>3, Z3 DEF Plain
  <2>5. Canvas' /\ Buffer' /\ Gauge' /\ Pointer'
    BY <2>1, <2>2, <2>3, <2>4 DEF Screen, Canvas, Buffer, Gauge, Pointer, gaugeVars
  <2> QED BY <2>2, <2>5, NothingAdded DEF Screen, gaugeVars
<1>2. CASE rect
  <2>1. PICK b \in Boxes, c \in Colors : Draws(Covered(b), c)
    BY <1>2 DEF rect
  <2>2. PICK x \in Int, y \in Int, w \in Int, h \in Int : b = <<x, y, w, h>>
    OBVIOUS
  <2>3. Covered(b) \subseteq Pixels(canvas_w * canvas_h)
    BY <2>2, CoveredOnCanvas DEF Screen
  <2> QED BY <2>1, <2>3, DrawsCanvas, NothingAdded
<1>3. CASE blit_sub
  <2>1. PICK b \in Blits, c \in Colors : Draws(Blitted(b), c)
    BY <1>3 DEF blit_sub
  <2>2. Blitted(b) \subseteq Pixels(canvas_w * canvas_h)
    BY BlittedOnCanvas DEF Screen
  <2> QED BY <2>1, <2>2, DrawsCanvas, NothingAdded
<1>4. CASE flush
  <2>1. CASE PumpOnly
    <3>1. UNCHANGED screenVars /\ panicked' = panicked
      BY <2>1 DEF PumpOnly, screenVars, presentVars
    <3> QED BY <3>1, SameScreen, NothingAdded
  <2>2. CASE ~PumpOnly
    <3>1. /\ present_scaled(canvas, canvas_w, canvas_h, growths)
          /\ UNCHANGED <<canvasVars, staging, staged>>
      BY <1>4, <2>2 DEF flush
    <3>2. canvas_w \in Nat /\ canvas_h \in Nat /\ growths \in Nat
      BY DEF Screen, Canvas, Gauge
    <3>3. /\ Buffer' /\ Pointer' /\ growths' \in Nat
          /\ growths' - growths \in 0 .. Record(largest, Size(buf'))
      BY <3>1, <3>2, PresentBuffer
    <3>4. Canvas' /\ Gauge'
      BY <3>1, <3>3 DEF Screen, Canvas, Gauge, canvasVars
    <3>5. panicked' = panicked
      BY <3>1, PresentScaled
    <3>6. Added
      <4>1. growths - growths \in 0 .. Record(staged, staged')
        BY <3>2 DEF Record
      <4> QED BY <3>2, <3>3, <4>1, AddedUp
    <3> QED BY <3>3, <3>4, <3>5, <3>6 DEF Screen
  <2> QED BY <2>1, <2>2
<1>5. CASE show
  <2>1. PICK s \in LogicalSizes, c \in Colors :
          LET n == s[1] * s[2] IN
          /\ n > 0 /\ pack_frame_into(n)
          /\ canvas_w' = s[1] /\ canvas_h' = s[2] /\ canvas' = canvas
          /\ present_scaled(Pattern(c, n), s[1], s[2], Packed(n))
    BY <1>5 DEF show
  <2>2. s[1] \in Nat /\ s[2] \in Nat
    OBVIOUS
  <2>3. PICK n \in Nat : n = s[1] * s[2]
    BY <2>2, Z3
  <2>4. /\ staging' \in Nat /\ staged' \in Nat /\ staged' <= staging'
        /\ Packed(n) \in Nat
        /\ Packed(n) - growths \in 0 .. Record(staged, staged')
    BY <2>1, <2>3, PackedFrame
  <2>5. /\ Buffer' /\ Pointer' /\ growths' \in Nat
        /\ growths' - Packed(n) \in 0 .. Record(largest, Size(buf'))
    BY <2>1, <2>2, <2>3, <2>4, PresentBuffer
  <2>6. Canvas' /\ Gauge'
    BY <2>1, <2>2, <2>4, <2>5 DEF Screen, Canvas, Gauge
  <2>7. panicked' = panicked
    BY <2>1, PresentScaled
  <2>8. Added
    <3> DEFINE g == Packed(n)
    <3>1. g \in Nat /\ growths' \in Nat /\ growths \in Nat
      BY <2>4, <2>5 DEF Screen, Gauge
    <3>2. g - growths \in 0 .. Record(staged, staged') /\ growths' - g \in 0 .. Record(largest, Size(buf'))
      BY <2>4, <2>5
    <3> HIDE DEF g
    <3> QED BY <3>1, <3>2, AddedUp
  <2> QED BY <2>5, <2>6, <2>7, <2>8 DEF Screen
<1>6. CASE present
  <2>1. PICK s \in LogicalSizes :
          LET n == s[1] * s[2] IN
          /\ pack_frame_into(n) /\ growths' = Packed(n)
          /\ win' = IF win = NoWindow THEN s ELSE win
    BY <1>6 DEF present
  <2>2. UNCHANGED <<canvasVars, buf, capacity, cursor, largest, panicked>>
    BY <1>6 DEF present, presentVars
  <2>3. Canvas' /\ Buffer' /\ Gauge' /\ Added
    <3>1. s[1] \in Nat /\ s[2] \in Nat
      OBVIOUS
    <3>2. PICK n \in Nat : n = s[1] * s[2]
      BY <3>1, Z3
    <3>3. /\ staging' \in Nat /\ staged' \in Nat /\ staged' <= staging'
          /\ growths' \in Nat
          /\ growths' - growths \in 0 .. Record(staged, staged')
      BY <2>1, <3>2, PackedFrame
    <3>4. growths \in Nat
      BY DEF Screen, Gauge
    <3>5. Added
      <4>1. growths' - growths' = 0
        <5>1. PICK h \in Nat : h = growths'
          BY <3>3, Zenon
        <5>2. h - h = 0
          OBVIOUS
        <5> QED BY <5>1, <5>2, Zenon
      <4>2. 0 \in 0 .. Record(largest, Size(buf'))
        BY DEF Record
      <4> QED BY <3>3, <3>4, <4>1, <4>2, AddedUp
    <3>6. Canvas' /\ Buffer'
      BY <2>2 DEF canvasVars, Screen, Canvas, Buffer
    <3> QED BY <3>3, <3>5, <3>6 DEF Gauge
  <2>4. Pointer'
    <3>1. CASE win = NoWindow
      <4>1. s \in Nat \X Nat /\ s # NoWindow
        BY DEF NoWindow
      <4>2. cursor = <<0, 0>> /\ Inside(0, s[1]) /\ Inside(0, s[2])
        BY <3>1, <4>1 DEF Screen, Pointer, Inside, Greatest
      <4> QED BY <2>1, <2>2, <3>1, <4>1, <4>2 DEF Pointer
    <3>2. CASE win # NoWindow
      BY <2>1, <2>2, <3>2 DEF Screen, Pointer
    <3> QED BY <3>1, <3>2
  <2> QED BY <2>2, <2>3, <2>4 DEF Screen
<1>7. CASE resize
  <2>1. PICK w \in WindowSizes :
          /\ win' = w
          /\ cursor' = <<Least(cursor[1], Greatest(w[1] - 1, 0)),
                         Least(cursor[2], Greatest(w[2] - 1, 0))>>
    BY <1>7 DEF resize
  <2>2. UNCHANGED <<canvasVars, buf, capacity, gaugeVars, largest, panicked>>
    BY <1>7 DEF resize, presentVars
  <2>3. Canvas' /\ Buffer' /\ Gauge' /\ Added
    BY <2>2, NothingAdded DEF canvasVars, gaugeVars, Screen, Canvas, Buffer, Gauge
  <2>4. w \in Nat \X Nat /\ w[1] \in Nat /\ w[2] \in Nat /\ w # NoWindow
    BY DEF NoWindow
  <2>5. cursor[1] \in Nat /\ cursor[2] \in Nat
    BY DEF Screen, Pointer
  <2>6. ASSUME NEW a \in Nat, NEW n \in Nat
        PROVE  Least(a, Greatest(n - 1, 0)) \in Nat /\ Inside(Least(a, Greatest(n - 1, 0)), n)
    BY DEF Least, Greatest, Inside
  <2>7. cursor' \in Nat \X Nat /\ Inside(cursor'[1], w[1]) /\ Inside(cursor'[2], w[2])
    BY <2>1, <2>4, <2>5, <2>6
  <2> QED BY <2>1, <2>2, <2>3, <2>4, <2>7 DEF Screen, Pointer
<1>8. CASE point
  <2>1. PICK x \in Pixels(win[1]), y \in Pixels(win[2]) : cursor' = <<x, y>>
    BY <1>8 DEF point
  <2>2. win # NoWindow /\ UNCHANGED <<canvasVars, buf, capacity, gaugeVars, largest, panicked, win>>
    BY <1>8 DEF point, presentVars
  <2>3. Canvas' /\ Buffer' /\ Gauge' /\ Added
    BY <2>2, NothingAdded DEF canvasVars, gaugeVars, Screen, Canvas, Buffer, Gauge
  <2>4. win \in Nat \X Nat
    BY <2>2 DEF Screen, Pointer
  <2>5. Inside(x, win[1]) /\ Inside(y, win[2]) /\ x \in Nat /\ y \in Nat
    BY <2>4 DEF Pixels, Inside, Greatest
  <2> QED BY <2>1, <2>2, <2>3, <2>4, <2>5 DEF Screen, Pointer
<1>9. CASE UNCHANGED vars
  <2>1. UNCHANGED screenVars /\ panicked' = panicked
    BY <1>9 DEF vars, screenVars, presentVars
  <2> QED BY <2>1, SameScreen, NothingAdded
<1> QED BY <1>1, <1>2, <1>3, <1>4, <1>5, <1>6, <1>7, <1>8, <1>9 DEF Next

LEMMA ScreenInvariant == Spec => []Screen
<1>1. Init => Screen
  BY InitScreen
<1>2. Screen /\ [Next]_vars => Screen'
  BY StepScreen
<1> QED BY <1>1, <1>2, PTL DEF Spec

(* A program that calls frame before it draws never indexes past the       *)
(* canvas, whatever it draws and whatever was shown in between.            *)
THEOREM DrawsAreClipped == ASSUME FrameFirst PROVE Spec => []DrawingIsClipped
<1>1. Init => DrawingIsClipped
  BY InitScreen DEF DrawingIsClipped
<1>2. Screen /\ DrawingIsClipped /\ [Next]_vars => DrawingIsClipped'
  BY StepScreen DEF DrawingIsClipped
<1> QED BY <1>1, <1>2, ScreenInvariant, PTL DEF Spec

(* The allocations gauge stands still while frames and windows repeat:     *)
(* compose adds to it only for a window larger than any before, and        *)
(* pack_frame_into only for a frame larger than any before.                *)
THEOREM GaugeIsFlat == Spec => GrowthsStayFlat
<1>1. Screen /\ [Next]_vars => [Added]_vars
  BY StepScreen
<1>2. Screen /\ [Next]_vars =>
        [growths' - growths \in 0 .. Record(largest, Size(buf')) + Record(staged, staged')]_vars
  BY <1>1 DEF Added
<1> QED BY <1>2, ScreenInvariant, PTL DEF Spec, GrowthsStayFlat

-----------------------------------------------------------------------------
(* The mouse.  One coordinate of it is in the frame, and is the source of  *)
(* the window pixel under the cursor when that pixel shows the picture.    *)
LEMMA LogicalCoordinate ==
    ASSUME NEW at \in Int, NEW off \in Int, NEW s \in Nat \ {0}, NEW n \in Nat \ {0}
    PROVE  /\ Logical(at, off, s, n) < n
           /\ at - off \in 0 .. n * s - 1 =>
                /\ Logical(at, off, s, n) = (at - off) \div s
                /\ (at - off) \div s \in 0 .. n - 1
<1> DEFINE a == at - off
           q == Trunc(a, s)
<1>1. a \in Int
  OBVIOUS
<1> HIDE DEF a
<1>2. q \in Int
  <2>1. CASE a >= 0
    <3>1. a \in Nat
      BY <1>1, <2>1
    <3>2. a \div s \in Nat
      BY <3>1, Division
    <3> QED BY <2>1, <3>2 DEF Trunc
  <2>2. CASE ~(a >= 0)
    <3>1. -a \in Nat
      BY <1>1, <2>2
    <3>2. (-a) \div s \in Nat
      BY <3>1, Division
    <3> QED BY <2>2, <3>2 DEF Trunc
  <2> QED BY <2>1, <2>2
<1>3. Greatest(s, 1) = s
  BY DEF Greatest
<1>4. Logical(at, off, s, n) = Least(Greatest(q, 0), Greatest(n - 1, 0))
  BY <1>3 DEF Logical, a
<1>5. ASSUME a \in 0 .. n * s - 1 PROVE q = a \div s /\ a \div s \in 0 .. n - 1
  <2>1. a \div s \in 0 .. n - 1
    BY <1>5, ScaledDown
  <2>2. a >= 0
    BY <1>5
  <2> QED BY <2>1, <2>2 DEF Trunc
<1> HIDE DEF q
<1>6. Least(Greatest(q, 0), Greatest(n - 1, 0)) < n
  BY <1>2 DEF Least, Greatest
<1>7. ASSUME q \in 0 .. n - 1 PROVE Least(Greatest(q, 0), Greatest(n - 1, 0)) = q
  BY <1>7 DEF Least, Greatest
<1>8. ASSUME a \in 0 .. n * s - 1
      PROVE  Logical(at, off, s, n) = a \div s /\ a \div s \in 0 .. n - 1
  <2>1. q = a \div s /\ a \div s \in 0 .. n - 1
    BY <1>5, <1>8
  <2>2. q \in 0 .. n - 1
    BY <2>1
  <2> QED BY <1>4, <1>7, <2>1, <2>2
<1> QED BY <1>4, <1>6, <1>8 DEF a

(* A window of ww by wh shows the frame src, and the mouse was told with   *)
(* the mapping it is shown by.                                             *)
Pictures(ww, wh, cw, ch, src) ==
    LET l == Layout(cw, ch, ww, wh)
    IN  /\ scale = l.scale /\ off_x = l.off_x /\ off_y = l.off_y
        /\ \A i \in Pixels(ww * wh) : InPicture(l, cw, ch, i % ww, i \div ww) =>
              buf[i] = src[Source(l, cw, i % ww, i \div ww)]
        /\ mouse = <<Logical(cursor[1], off_x, scale, cw), Logical(cursor[2], off_y, scale, ch)>>

Told == shown.current =>
           \E ww, wh, cw, ch \in Nat \ {0} : \E src :
              /\ win = <<ww, wh>>
              /\ shown.cw = cw /\ shown.ch = ch /\ shown.src = src
              /\ Pictures(ww, wh, cw, ch, src)

LEMMA ToldNamesPixel == ASSUME Screen, Told PROVE MouseNamesPixel
<1> SUFFICES ASSUME shown.current PROVE MouseNamesPixel
  BY DEF MouseNamesPixel
<1> DEFINE src == shown.src
<1>1. PICK ww \in Nat \ {0}, wh \in Nat \ {0}, cw \in Nat \ {0}, ch \in Nat \ {0} :
        /\ win = <<ww, wh>>
        /\ shown.cw = cw /\ shown.ch = ch
        /\ Pictures(ww, wh, cw, ch, src)
  BY DEF Told
<1> DEFINE l == Layout(cw, ch, ww, wh)
<1>2. PICK s \in Nat \ {0}, ox \in Int, oy \in Int : l.scale = s /\ l.off_x = ox /\ l.off_y = oy
  BY LayoutTypes
<1>3. PICK x \in 0 .. ww - 1, y \in 0 .. wh - 1 : cursor[1] = x /\ cursor[2] = y
  <2>1. win # NoWindow /\ win[1] = ww /\ win[2] = wh
    BY <1>1 DEF NoWindow
  <2>2. Inside(cursor[1], ww) /\ Inside(cursor[2], wh)
    BY <2>1 DEF Screen, Pointer
  <2> QED BY <2>2 DEF Inside, Greatest
<1>4. mouse[1] = Logical(x, ox, s, cw) /\ mouse[2] = Logical(y, oy, s, ch)
  BY <1>1, <1>2, <1>3 DEF Pictures
<1>5. mouse[1] < cw /\ mouse[2] < ch
  BY <1>4, LogicalCoordinate
<1>6. ASSUME InPicture(l, cw, ch, x, y)
      PROVE  buf[y * ww + x] = src[mouse[2] * cw + mouse[1]]
  <2>1. x - ox \in 0 .. cw * s - 1 /\ y - oy \in 0 .. ch * s - 1
    BY <1>2, <1>6 DEF InPicture
  <2>2. mouse[1] = (x - ox) \div s /\ mouse[2] = (y - oy) \div s
    BY <1>4, <2>1, LogicalCoordinate
  <2>3. Source(l, cw, x, y) = mouse[2] * cw + mouse[1]
    BY <1>2, <2>2 DEF Source
  <2>4. PICK i \in Pixels(ww * wh) : i = y * ww + x /\ i % ww = x /\ i \div ww = y
    <3>1. IsCell(x, y, ww, wh)
      BY DEF IsCell
    <3>2. /\ y * ww + x \in Pixels(ww * wh)
          /\ (y * ww + x) % ww = x /\ (y * ww + x) \div ww = y
      BY <3>1, IndexOfPixel
    <3> QED BY <3>2
  <2> HIDE DEF l
  <2>5. InPicture(l, cw, ch, i % ww, i \div ww) => buf[i] = src[Source(l, cw, i % ww, i \div ww)]
    BY <1>1 DEF Pictures, l
  <2> QED BY <1>6, <2>3, <2>4, <2>5
<1> HIDE DEF l
<1>7. win[1] = ww /\ win[2] = wh
  BY <1>1
<1> QED BY <1>1, <1>3, <1>5, <1>6, <1>7 DEF MouseNamesPixel, l

(* What present_scaled leaves on the window, and nothing if it is empty.   *)
LEMMA PresentTells ==
    ASSUME Screen, NEW src, NEW cw \in Nat, NEW ch \in Nat, NEW gauge,
           present_scaled(src, cw, ch, gauge)
    PROVE  Told'
<1>1. /\ win' = Opened(cw, ch) /\ compose(src, cw, ch, Opened(cw, ch), gauge)
      /\ mouse' = <<Logical(cursor[1], off_x', scale', cw), Logical(cursor[2], off_y', scale', ch)>>
      /\ shown' = IF Composes(src, cw, ch, Opened(cw, ch))
                  THEN [current |-> TRUE, src |-> src, cw |-> cw, ch |-> ch] ELSE Stale
      /\ cursor' = cursor
  BY PresentScaled
<1>2. PICK ww \in Nat, wh \in Nat : Opened(cw, ch) = <<ww, wh>>
  BY OpenedWindow DEF Screen
<1>3. compose(src, cw, ch, <<ww, wh>>, gauge)
  BY <1>1, <1>2
<1>4. CASE Composes(src, cw, ch, <<ww, wh>>)
  <2>1. Paints(src, cw, ch, ww, wh, gauge)
    BY <1>3, <1>4 DEF Paints
  <2>2. ww \in Nat \ {0} /\ wh \in Nat \ {0} /\ cw \in Nat \ {0} /\ ch \in Nat \ {0}
    BY <2>1, Composed
  <2> DEFINE l == Layout(cw, ch, ww, wh)
  <2>3. /\ scale' = l.scale /\ off_x' = l.off_x /\ off_y' = l.off_y
        /\ \A i \in Pixels(ww * wh) : InPicture(l, cw, ch, i % ww, i \div ww) =>
              buf'[i] = src[Source(l, cw, i % ww, i \div ww)]
    BY <2>1, Composed
  <2>4. Pictures(ww, wh, cw, ch, src)'
    BY <1>1, <2>3 DEF Pictures
  <2>5. shown'.cw = cw /\ shown'.ch = ch /\ shown'.src = src
    BY <1>1, <1>2, <1>4
  <2> QED BY <1>1, <1>2, <2>2, <2>4, <2>5 DEF Told
<1>5. CASE ~Composes(src, cw, ch, <<ww, wh>>)
  BY <1>1, <1>2, <1>5 DEF Stale, Told
<1> QED BY <1>4, <1>5

(* pump_input alone tells the mouse by the mapping of the frame that the   *)
(* window goes on showing.                                                 *)
LEMMA PumpTells == ASSUME Told, PumpOnly PROVE Told'
<1> SUFFICES ASSUME shown'.current PROVE Told'
  BY DEF Told
<1>1. shown' = shown /\ shown.current /\ shown.cw = canvas_w /\ shown.ch = canvas_h
  BY DEF PumpOnly, Stale
<1>2. PICK ww \in Nat \ {0}, wh \in Nat \ {0}, cw \in Nat \ {0}, ch \in Nat \ {0} :
        \E src : /\ win = <<ww, wh>>
                 /\ shown.cw = cw /\ shown.ch = ch /\ shown.src = src
                 /\ Pictures(ww, wh, cw, ch, src)
  BY <1>1 DEF Told
<1>3. PICK src : /\ win = <<ww, wh>>
                 /\ shown.cw = cw /\ shown.ch = ch /\ shown.src = src
                 /\ Pictures(ww, wh, cw, ch, src)
  BY <1>2
<1>4. win # NoWindow
  BY <1>3 DEF NoWindow
<1>5. mouse' = <<Logical(cursor[1], off_x, scale, cw), Logical(cursor[2], off_y, scale, ch)>>
  BY <1>1, <1>3, <1>4 DEF PumpOnly, pump_mouse
<1>6. UNCHANGED <<buf, scale, off_x, off_y, win, cursor>>
  BY DEF PumpOnly, presentVars
<1>7. Pictures(ww, wh, cw, ch, src)'
  BY <1>3, <1>5, <1>6 DEF Pictures
<1> QED BY <1>1, <1>3, <1>6, <1>7 DEF Told

LEMMA StepTold == Screen /\ Told /\ [Next]_vars => Told'
<1> SUFFICES ASSUME Screen, Told, [Next]_vars PROVE Told'
  OBVIOUS
<1> DEFINE toldVars == <<buf, scale, off_x, off_y, mouse, cursor, win, shown>>
<1>1. ASSUME UNCHANGED toldVars PROVE Told'
  BY <1>1 DEF Told, Pictures
<1>2. ASSUME shown' = Stale PROVE Told'
  BY <1>2 DEF Told, Stale
<1>3. CASE frame
  BY <1>1, <1>3 DEF frame, presentVars
<1>4. CASE rect
  BY <1>1, <1>4 DEF rect, Draws, presentVars
<1>5. CASE blit_sub
  BY <1>1, <1>5 DEF blit_sub, Draws, presentVars
<1>6. CASE flush
  <2>1. CASE PumpOnly
    BY <2>1, PumpTells
  <2>2. CASE ~PumpOnly
    <3>1. present_scaled(canvas, canvas_w, canvas_h, growths)
      BY <1>6, <2>2 DEF flush
    <3>2. canvas_w \in Nat /\ canvas_h \in Nat
      BY DEF Screen, Canvas
    <3> QED BY <3>1, <3>2, PresentTells
  <2> QED BY <2>1, <2>2
<1>7. CASE show
  <2>1. PICK s \in LogicalSizes, c \in Colors :
          LET n == s[1] * s[2] IN present_scaled(Pattern(c, n), s[1], s[2], Packed(n))
    BY <1>7 DEF show
  <2>2. s[1] \in Nat /\ s[2] \in Nat
    BY CompositorAssumption
  <2> QED BY <2>1, <2>2, PresentTells
<1>8. CASE present
  BY <1>2, <1>8 DEF present
<1>9. CASE resize
  BY <1>2, <1>9 DEF resize
<1>10. CASE point
  BY <1>2, <1>10 DEF point
<1>11. CASE UNCHANGED vars
  BY <1>1, <1>11 DEF vars, presentVars
<1> QED BY <1>3, <1>4, <1>5, <1>6, <1>7, <1>8, <1>9, <1>10, <1>11 DEF Next

(* gg.mouse names the pixel of the frame that the player sees under the    *)
(* cursor, for every frame and window, scaled up, letterboxed or cropped.  *)
THEOREM MouseIsRight == Spec => []MouseNamesPixel
<1>1. Init => Told
  BY DEF Init, Told, Stale
<1>2. Spec => []Told
  BY <1>1, ScreenInvariant, StepTold, PTL DEF Spec
<1> QED BY <1>2, ScreenInvariant, ToldNamesPixel, PTL

-----------------------------------------------------------------------------
(* The bars.  The key compose remembers them under has no frame size, and  *)
(* two sizes may share it in some window, unless they differ by more than  *)
(* the rounding of the offsets can hide.                                   *)
Apart(a, b) == a + 3 <= b \/ b + 3 <= a

SizesFarApart == \A s, t \in LogicalSizes :
                    s[1] * s[2] > 0 /\ t[1] * t[2] > 0 /\ s # t
                      => Apart(s[1], t[1]) \/ Apart(s[2], t[2])

LEMMA OffsetsTellApart ==
    ASSUME NEW n \in Nat, NEW m \in Nat, NEW w \in Nat, NEW s \in Nat \ {0}, Apart(n, m)
    PROVE  Trunc(w - n * s, 2) # Trunc(w - m * s, 2)
<1>1. ASSUME NEW a \in Int, NEW b \in Int, a + 3 <= b
      PROVE  Trunc(a, 2) # Trunc(b, 2)
  BY <1>1, Z3 DEF Trunc
<1>2. ASSUME NEW i \in Nat, NEW j \in Nat, i + 3 <= j
      PROVE  i * s \in Nat /\ j * s \in Nat /\ i * s + 3 <= j * s
  BY <1>2, Z3
<1>3. ASSUME NEW i \in Nat, NEW j \in Nat, i + 3 <= j
      PROVE  Trunc(w - i * s, 2) # Trunc(w - j * s, 2)
  <2> DEFINE a == w - j * s
             b == w - i * s
  <2>1. i * s \in Nat /\ j * s \in Nat /\ i * s + 3 <= j * s
    BY <1>2, <1>3
  <2>2. a \in Int /\ b \in Int /\ a + 3 <= b
    BY <2>1
  <2> HIDE DEF a, b
  <2>3. Trunc(a, 2) # Trunc(b, 2)
    BY <1>1, <2>2
  <2> QED BY <2>3 DEF a, b
<1>4. CASE n + 3 <= m
  BY <1>3, <1>4
<1>5. CASE m + 3 <= n
  BY <1>3, <1>5
<1> QED BY <1>4, <1>5 DEF Apart

(* Sizes far apart never share a key, whatever the windows.                *)
LEMMA KeysTellApart ==
    ASSUME SizesFarApart,
           NEW cw \in Nat \ {0}, NEW ch \in Nat \ {0}, NEW ww \in Nat \ {0}, NEW wh \in Nat \ {0},
           NEW dw \in Nat \ {0}, NEW dh \in Nat \ {0}, NEW vw \in Nat \ {0}, NEW vh \in Nat \ {0},
           <<cw, ch>> \in LogicalSizes, <<dw, dh>> \in LogicalSizes,
           LayoutKey(Layout(cw, ch, ww, wh), ww, wh) = LayoutKey(Layout(dw, dh, vw, vh), vw, vh)
    PROVE  ww = vw /\ wh = vh /\ cw = dw /\ ch = dh
<1> DEFINE l == Layout(cw, ch, ww, wh)
           k == Layout(dw, dh, vw, vh)
<1>1. ww = vw /\ wh = vh /\ l.scale = k.scale /\ l.off_x = k.off_x /\ l.off_y = k.off_y
  <2>1. LayoutKey(l, ww, wh) = LayoutKey(k, vw, vh)
    OBVIOUS
  <2> HIDE DEF l, k
  <2> QED BY <2>1 DEF LayoutKey
<1>2. PICK s \in Nat \ {0} : l.scale = s
  BY LayoutTypes
<1>3. l.off_x = Trunc(ww - cw * s, 2) /\ l.off_y = Trunc(wh - ch * s, 2)
  BY <1>2 DEF Layout
<1>4. k.off_x = Trunc(vw - dw * s, 2) /\ k.off_y = Trunc(vh - dh * s, 2)
  BY <1>1, <1>2 DEF Layout
<1> HIDE DEF l, k
<1>5. ~Apart(cw, dw) /\ ~Apart(ch, dh)
  <2>1. Apart(cw, dw) => Trunc(ww - cw * s, 2) # Trunc(ww - dw * s, 2)
    BY OffsetsTellApart
  <2>2. Apart(ch, dh) => Trunc(wh - ch * s, 2) # Trunc(wh - dh * s, 2)
    BY OffsetsTellApart
  <2>3. Trunc(ww - dw * s, 2) = Trunc(vw - dw * s, 2) /\ Trunc(wh - dh * s, 2) = Trunc(vh - dh * s, 2)
    BY <1>1
  <2> QED BY <1>1, <1>3, <1>4, <2>1, <2>2, <2>3
<1>6. <<cw, ch>> = <<dw, dh>>
  <2> DEFINE a == <<cw, ch>>
             b == <<dw, dh>>
  <2>1. cw * ch > 0 /\ dw * dh > 0
    BY Z3
  <2>2. a[1] = cw /\ a[2] = ch /\ b[1] = dw /\ b[2] = dh /\ a \in LogicalSizes /\ b \in LogicalSizes
    OBVIOUS
  <2> HIDE DEF a, b
  <2>3. a[1] * a[2] > 0 /\ b[1] * b[2] > 0
    BY <2>1, <2>2
  <2>4. a = b
    BY <1>5, <2>2, <2>3 DEF SizesFarApart
  <2> QED BY <2>4 DEF a, b
<1> QED BY <1>1, <1>6

(* The buffer is laid out for a frame of cw by ch pixels in a window of ww *)
(* by wh, and black beside the picture.                                    *)
Bars(ww, wh, cw, ch) ==
    LET l == Layout(cw, ch, ww, wh)
    IN  /\ laid_out = LayoutKey(l, ww, wh)
        /\ DOMAIN buf = Pixels(ww * wh)
        /\ \A i \in Pixels(ww * wh) : ~InPicture(l, cw, ch, i % ww, i \div ww) => buf[i] = 0

BarsPainted == laid_out # NoLayout =>
                  \E ww, wh, cw, ch \in Nat \ {0} :
                     <<cw, ch>> \in LogicalSizes /\ Bars(ww, wh, cw, ch)

BarsShown == shown.current =>
                \E ww, wh, cw, ch \in Nat \ {0} :
                   /\ win = <<ww, wh>> /\ shown.cw = cw /\ shown.ch = ch
                   /\ Bars(ww, wh, cw, ch)

CanvasSized == canvas_w * canvas_h = 0 \/ <<canvas_w, canvas_h>> \in LogicalSizes

BarsInv == BarsPainted /\ BarsShown /\ CanvasSized

LEMMA BarsAreBlack == ASSUME BarsInv PROVE LetterboxIsBlack
<1> SUFFICES ASSUME shown.current PROVE LetterboxIsBlack
  BY DEF LetterboxIsBlack
<1>1. PICK ww \in Nat \ {0}, wh \in Nat \ {0}, cw \in Nat \ {0}, ch \in Nat \ {0} :
        /\ win = <<ww, wh>> /\ shown.cw = cw /\ shown.ch = ch
        /\ Bars(ww, wh, cw, ch)
  BY DEF BarsInv, BarsShown
<1>2. ww * wh \in Nat
  BY Z3
<1>3. Size(buf) = ww * wh
  BY <1>1, <1>2, SizeOfPixels DEF Bars
<1>4. win[1] = ww /\ win[2] = wh
  BY <1>1
<1> QED BY <1>1, <1>3, <1>4 DEF Bars, LetterboxIsBlack

(* compose repaints the bars, or finds them painted for the same frame.    *)
LEMMA ComposedBars ==
    ASSUME SizesFarApart, BarsPainted, NEW src, NEW cw, NEW ch, NEW ww, NEW wh, NEW gauge,
           Paints(src, cw, ch, ww, wh, gauge), <<cw, ch>> \in LogicalSizes
    PROVE  {cw, ch, ww, wh} \subseteq Nat \ {0} /\ Bars(ww, wh, cw, ch)'
<1> DEFINE l == Layout(cw, ch, ww, wh)
<1>1. cw \in Nat \ {0} /\ ch \in Nat \ {0} /\ ww \in Nat \ {0} /\ wh \in Nat \ {0}
  BY Composed DEF Paints
<1>2. /\ laid_out' = LayoutKey(l, ww, wh) /\ DOMAIN buf' = Pixels(ww * wh)
      /\ \A i \in Pixels(ww * wh) : ~InPicture(l, cw, ch, i % ww, i \div ww) =>
            buf'[i] = IF laid_out = LayoutKey(l, ww, wh) /\ i \in DOMAIN buf
                      THEN buf[i] ELSE 0
  BY Composed
<1>3. ASSUME laid_out = LayoutKey(l, ww, wh)
      PROVE  \A i \in Pixels(ww * wh) : ~InPicture(l, cw, ch, i % ww, i \div ww) => buf[i] = 0
  <2>1. laid_out # NoLayout
    BY <1>3 DEF LayoutKey, NoLayout
  <2>2. PICK vw \in Nat \ {0}, vh \in Nat \ {0}, dw \in Nat \ {0}, dh \in Nat \ {0} :
          <<dw, dh>> \in LogicalSizes /\ Bars(vw, vh, dw, dh)
    BY <2>1 DEF BarsPainted
  <2>3. LayoutKey(Layout(cw, ch, ww, wh), ww, wh) = LayoutKey(Layout(dw, dh, vw, vh), vw, vh)
    BY <1>3, <2>2 DEF Bars
  <2>4. ww = vw /\ wh = vh /\ cw = dw /\ ch = dh
    BY <1>1, <2>2, <2>3, KeysTellApart
  <2> QED BY <2>2, <2>4 DEF Bars
<1> HIDE DEF l
<1>4. \A i \in Pixels(ww * wh) : ~InPicture(l, cw, ch, i % ww, i \div ww) => buf'[i] = 0
  BY <1>2, <1>3
<1>5. Bars(ww, wh, cw, ch)'
  BY <1>2, <1>4 DEF Bars, l
<1> QED BY <1>1, <1>5

LEMMA SameBars ==
    ASSUME BarsPainted, UNCHANGED <<buf, laid_out>>
    PROVE  /\ BarsPainted'
           /\ BarsShown /\ UNCHANGED <<win, shown>> => BarsShown'
<1>1. ASSUME NEW ww, NEW wh, NEW cw, NEW ch, Bars(ww, wh, cw, ch)
      PROVE  Bars(ww, wh, cw, ch)'
  BY <1>1 DEF Bars
<1>2. BarsPainted'
  <2> SUFFICES ASSUME laid_out # NoLayout PROVE BarsPainted'
    BY DEF BarsPainted
  <2>1. PICK ww \in Nat \ {0}, wh \in Nat \ {0}, cw \in Nat \ {0}, ch \in Nat \ {0} :
          <<cw, ch>> \in LogicalSizes /\ Bars(ww, wh, cw, ch)
    BY DEF BarsPainted
  <2> QED BY <1>1, <2>1 DEF BarsPainted
<1>3. ASSUME BarsShown, UNCHANGED <<win, shown>> PROVE BarsShown'
  <2> SUFFICES ASSUME shown.current PROVE BarsShown'
    BY <1>3 DEF BarsShown
  <2>1. PICK ww \in Nat \ {0}, wh \in Nat \ {0}, cw \in Nat \ {0}, ch \in Nat \ {0} :
          /\ win = <<ww, wh>> /\ shown.cw = cw /\ shown.ch = ch
          /\ Bars(ww, wh, cw, ch)
    BY <1>3 DEF BarsShown
  <2> QED BY <1>1, <1>3, <2>1 DEF BarsShown
<1> QED BY <1>2, <1>3

LEMMA PresentBars ==
    ASSUME SizesFarApart, Screen, BarsPainted, NEW src, NEW cw \in Nat, NEW ch \in Nat,
           NEW gauge, <<cw, ch>> \in LogicalSizes, present_scaled(src, cw, ch, gauge)
    PROVE  BarsPainted' /\ BarsShown'
<1>1. /\ win' = Opened(cw, ch) /\ compose(src, cw, ch, Opened(cw, ch), gauge)
      /\ shown' = IF Composes(src, cw, ch, Opened(cw, ch))
                  THEN [current |-> TRUE, src |-> src, cw |-> cw, ch |-> ch] ELSE Stale
  BY PresentScaled
<1>2. PICK ww \in Nat, wh \in Nat : Opened(cw, ch) = <<ww, wh>>
  BY OpenedWindow DEF Screen
<1>3. compose(src, cw, ch, <<ww, wh>>, gauge)
  BY <1>1, <1>2
<1>4. CASE Composes(src, cw, ch, <<ww, wh>>)
  <2>1. Paints(src, cw, ch, ww, wh, gauge)
    BY <1>3, <1>4 DEF Paints
  <2>2. {cw, ch, ww, wh} \subseteq Nat \ {0} /\ Bars(ww, wh, cw, ch)'
    BY <2>1, ComposedBars
  <2>3. shown'.cw = cw /\ shown'.ch = ch /\ win' = <<ww, wh>>
    BY <1>1, <1>2, <1>4
  <2> QED BY <2>2, <2>3 DEF BarsPainted, BarsShown
<1>5. CASE ~Composes(src, cw, ch, <<ww, wh>>)
  <2>1. UNCHANGED presentVars
    BY <1>3, <1>5 DEF compose
  <2>2. shown' = Stale /\ laid_out' = laid_out /\ buf' = buf
    BY <1>1, <1>2, <1>5, <2>1 DEF presentVars
  <2> QED BY <2>2, SameBars DEF Stale, BarsShown
<1> QED BY <1>4, <1>5

LEMMA StepBars == ASSUME SizesFarApart, Screen, BarsInv, [Next]_vars PROVE BarsInv'
<1>1. ASSUME UNCHANGED <<buf, laid_out, win, shown>> PROVE BarsPainted' /\ BarsShown'
  BY <1>1, SameBars DEF BarsInv
<1>2. ASSUME UNCHANGED <<buf, laid_out>>, shown' = Stale PROVE BarsPainted' /\ BarsShown'
  BY <1>2, SameBars DEF BarsInv, BarsShown, Stale
<1>3. ASSUME UNCHANGED <<canvas_w, canvas_h>> PROVE CanvasSized'
  BY <1>3 DEF BarsInv, CanvasSized
<1>4. ASSUME NEW s \in LogicalSizes, canvas_w' = s[1], canvas_h' = s[2] PROVE CanvasSized'
  <2>1. s = <<s[1], s[2]>>
    BY CompositorAssumption
  <2> QED BY <1>4, <2>1 DEF CanvasSized
<1>5. ASSUME PumpOnly PROVE BarsInv'
  <2>1. UNCHANGED <<buf, laid_out, win, canvas_w, canvas_h>> /\ (shown' = shown \/ shown' = Stale)
    BY <1>5 DEF PumpOnly, presentVars, canvasVars
  <2> QED BY <1>1, <1>2, <1>3, <2>1 DEF BarsInv
<1>6. CASE frame
  <2>1. PICK s \in LogicalSizes : canvas_w' = s[1] /\ canvas_h' = s[2]
    BY <1>6 DEF frame
  <2>2. UNCHANGED <<buf, laid_out, win, shown>>
    BY <1>6 DEF frame, presentVars
  <2> QED BY <1>1, <1>4, <2>1, <2>2 DEF BarsInv
<1>7. CASE rect
  BY <1>1, <1>3, <1>7 DEF rect, Draws, presentVars, BarsInv
<1>8. CASE blit_sub
  BY <1>1, <1>3, <1>8 DEF blit_sub, Draws, presentVars, BarsInv
<1>9. CASE flush
  <2>1. CASE ~PumpOnly
    <3>1. /\ present_scaled(canvas, canvas_w, canvas_h, growths) /\ canvas_w * canvas_h # 0
          /\ UNCHANGED <<canvas_w, canvas_h>>
      BY <1>9, <2>1 DEF flush, canvasVars
    <3>2. canvas_w \in Nat /\ canvas_h \in Nat
      BY DEF Screen, Canvas
    <3>3. <<canvas_w, canvas_h>> \in LogicalSizes
      BY <3>1 DEF BarsInv, CanvasSized
    <3>4. BarsPainted' /\ BarsShown'
      BY <3>1, <3>2, <3>3, PresentBars DEF BarsInv
    <3> QED BY <1>3, <3>1, <3>4 DEF BarsInv
  <2> QED BY <1>5, <2>1
<1>10. CASE show
  <2>1. PICK s \in LogicalSizes, c \in Colors :
          LET n == s[1] * s[2] IN
          /\ canvas_w' = s[1] /\ canvas_h' = s[2]
          /\ present_scaled(Pattern(c, n), s[1], s[2], Packed(n))
    BY <1>10 DEF show
  <2>2. s[1] \in Nat /\ s[2] \in Nat /\ <<s[1], s[2]>> \in LogicalSizes
    <3>1. s = <<s[1], s[2]>> /\ s[1] \in Nat /\ s[2] \in Nat
      BY CompositorAssumption
    <3> QED BY <3>1
  <2>3. BarsPainted' /\ BarsShown'
    BY <2>1, <2>2, PresentBars DEF BarsInv
  <2> QED BY <1>4, <2>1, <2>3 DEF BarsInv
<1>11. CASE present
  BY <1>2, <1>3, <1>11 DEF present, presentVars, canvasVars, BarsInv
<1>12. CASE resize
  BY <1>2, <1>3, <1>12 DEF resize, presentVars, canvasVars, BarsInv
<1>13. CASE point
  BY <1>2, <1>3, <1>13 DEF point, presentVars, canvasVars, BarsInv
<1>14. CASE UNCHANGED vars
  BY <1>1, <1>3, <1>14 DEF vars, presentVars, canvasVars, BarsInv
<1> QED BY <1>6, <1>7, <1>8, <1>9, <1>10, <1>11, <1>12, <1>13, <1>14 DEF Next

(* The comment of compose, "once black they stay black": of a program      *)
(* whose frames have one size, or sizes that differ by three pixels or     *)
(* more, the window is black beside the picture, although the bars are     *)
(* painted only when the key changes.                                      *)
THEOREM BarsStayBlack == ASSUME SizesFarApart PROVE Spec => []LetterboxIsBlack
<1>1. Init => BarsInv
  BY DEF Init, BarsInv, BarsPainted, BarsShown, CanvasSized, Stale
<1>2. Screen /\ BarsInv /\ [Next]_vars => BarsInv'
  BY StepBars
<1>3. BarsInv => LetterboxIsBlack
  BY BarsAreBlack
<1> QED BY <1>1, <1>2, <1>3, ScreenInvariant, PTL DEF Spec
=============================================================================
