--------------------------- MODULE PanelGeometry ---------------------------
(***************************************************************************)
(* Where a drawn pixel ends up (components/led_panel/led_panel.c): through *)
(* clipping, the mapping of the virtual display onto the chain of panels,  *)
(* the gamma table and the bit planes into the back buffer, and through    *)
(* the scan of the front buffer back to the light of an LED.               *)
(*                                                                         *)
(* Calls and scans are whole here; PanelRefresh models how drawing_task    *)
(* and refresh_task interleave. The shape of a character is abstracted to  *)
(* the set of its dots.                                                    *)
(***************************************************************************)
EXTENDS Integers, Sequences, FiniteSets

CONSTANTS
  PanelWidth, PanelHeight,  \* PANEL_WIDTH, PANEL_HEIGHT: one panel (64, 32)
  NHor, NVer,               \* N_HOR, N_VER: panels across and down (1, 2)
  Depth,                    \* COLOR_DEPTH (3)
  FontWidth,                \* FONT_WIDTH (6)
  Font,                     \* font6x9: the dots <<row, col>> of each character
  Texts,                    \* the calls of draw_text that are made,
  Bitmaps,                  \* ... those of draw_bitmap_rgb
  Scrolls,                  \* ... and those of scroll_text
  MaxCalls                  \* bound: calls made at most; a scroll_text counts as two

VirtWidth == PanelWidth * NHor
VirtHeight == PanelHeight * NVer
PhysPanels == NHor * NVer
PhyWidth == PanelWidth * PhysPanels
PhyHeight == PanelHeight

Channels == {"R", "G", "B"}
Colours == [Channels -> 0 .. 255]
Planes == 0 .. Depth - 1

\* Characters, or the pixels of a bitmap, one after the other.
InARow(s) == Len(s) \in Nat /\ DOMAIN s = 1 .. Len(s)

ASSUME GeometryAssumption ==
  /\ PanelWidth \in Nat \ {0}
  /\ PanelHeight \in Nat \ {0} /\ PanelHeight % 4 = 0
  /\ NHor \in Nat \ {0}
  /\ NVer \in Nat \ {0}
  /\ Depth \in Nat \ {0}
  /\ FontWidth \in Nat
  /\ "?" \in DOMAIN Font
  /\ \A c \in DOMAIN Font : Font[c] \subseteq Nat \X (0 .. FontWidth - 1)
  /\ \A call \in Texts :
       call.x \in Int /\ call.y \in Int /\ InARow(call.text) /\ call.colour \in Colours
  /\ \A call \in Bitmaps :
       /\ call.x \in Int /\ call.y \in Int /\ call.w \in Nat /\ call.h \in Nat
       /\ InARow(call.bmp) /\ Len(call.bmp) = call.w * call.h
       /\ \A k \in DOMAIN call.bmp : call.bmp[k] \in Colours
  /\ \A call \in Scrolls : call.y \in Int /\ InARow(call.text) /\ call.colour \in Colours
  /\ MaxCalls \in Nat

\* A cell of a plane buffer: <<phys_y, phys_x>>.
Cells == (0 .. PhyHeight - 1) \X (0 .. PhyWidth - 1)

VARIABLES
  front_planes,  \* the bits of each cell of each plane, as the channels that are on
  back_planes,
  light,         \* the on-time of each LED in the last complete scan, in BASE_US
  calls,         \* drawing calls made
  scroller,      \* place of the drawing task in scroll_text
  scroll_x,      \* scroll_text: the frame it draws
  scroll_call    \* scroll_text: its arguments

scrollVars == <<scroller, scroll_x, scroll_call>>
vars == <<front_planes, back_planes, light, calls, scrollVars>>

NoCall == [y |-> 0, text |-> <<>>, colour |-> [ch \in Channels |-> 0]]

PlaneBuffers == [Planes -> [Cells -> SUBSET Channels]]

\* The type invariant of the plane buffers. A cell that a call writes outside of
\* them would show in the domain of a plane: set_pixel writes none, wherever text
\* or a bitmap is placed, off the left and the upper edge too.
TypeOK ==
  /\ front_planes \in PlaneBuffers
  /\ back_planes \in PlaneBuffers
  /\ light \in [Cells -> [Channels -> Nat]]
  /\ calls \in 0 .. MaxCalls
  /\ scroller \in {"idle", "clear", "draw", "swap", "swapped"}
  /\ scroll_x \in Nat
  /\ scroll_call \in Scrolls \cup {NoCall}

AllOff == [p \in Planes |-> [cell \in Cells |-> {}]]

Init ==
  /\ front_planes = AllOff
  /\ back_planes = AllOff
  /\ light = [cell \in Cells |-> [ch \in Channels |-> 0]]
  /\ calls = 0
  /\ scroller = "idle"
  /\ scroll_x = 0
  /\ scroll_call = NoCall

-----------------------------------------------------------------------------
(* Drawing.                                                                *)

\* gamma_table, as the least 8-bit value of each of the levels 1 to 7.
GammaStart == <<48, 80, 104, 120, 132, 140, 148>>
GammaTable == [v \in 0 .. 255 |-> Cardinality({k \in 1 .. 7 : v >= GammaStart[k]})]

\* A level shifted right, bit by bit.
Shifted(level) ==
  LET by[p \in 0 .. Depth] == IF p = 0 THEN level ELSE by[p - 1] \div 2 IN by

\* The channels whose level has bit p set.
BitsOf(colour, p) == {ch \in Channels : Shifted(GammaTable[colour[ch]])[p] % 2 = 1}

\* Mutant of OnDisplay: x is not compared with the width.
OnDisplayAnyX(x, y) == x >= 0 /\ y \in 0 .. VirtHeight - 1

OnDisplay(x, y) == x \in 0 .. VirtWidth - 1 /\ y \in 0 .. VirtHeight - 1

\* The panels of the virtual display, chained row by row.
CellOf(x, y) ==
  LET panel == (y \div PanelHeight) * NHor + x \div PanelWidth
  IN <<y % PanelHeight, panel * PanelWidth + (x % PanelWidth)>>

\* Mutant of Written: the comparisons are signed, and negative coordinates pass.
WrittenSigned(painting) ==
  {q \in DOMAIN painting :
     /\ q[1] < VirtWidth /\ q[2] < VirtHeight
     /\ LET cell == CellOf(q[1], q[2]) IN cell[1] < PhyHeight /\ cell[2] < PhyWidth}

\* The pixels of a painting that pass both checks of set_pixel: they are on the
\* display, and their cells are in the buffers.
Written(painting) ==
  {q \in DOMAIN painting : OnDisplay(q[1], q[2]) /\ CellOf(q[1], q[2]) \in Cells}

\* set_pixel for every pixel of a painting, a function from pixels to colours.
\* The cells written need not be cells of the buffers.
SetPixels(painting) ==
  LET pixels == Written(painting)
      cells == {CellOf(q[1], q[2]) : q \in pixels}
      colour == [cell \in cells |-> painting[CHOOSE q \in pixels : CellOf(q[1], q[2]) = cell]]
  IN back_planes' = [p \in Planes |-> [cell \in Cells \cup cells |->
       IF cell \in cells THEN BitsOf(colour[cell], p) ELSE back_planes[p][cell]]]

\* font6x9[c - 32]: the dots of a character that the font has. Which dots they
\* are is a constant: no glyph of the table is translated.
Dots(c) == Font[c]

\* draw_char: a character the font does not have is drawn as '?'.
Glyph(c) == IF c \in DOMAIN Font THEN Dots(c) ELSE Dots("?")

CharPixels(x, y, c) == {<<x + dot[2], y + dot[1]>> : dot \in Glyph(c)}

\* draw_text: one column of spacing between two characters.
TextPixels(x, y, text) ==
  UNION {CharPixels(x + (k - 1) * (FontWidth + 1), y, text[k]) : k \in DOMAIN text}

TextPainting(x, y, text, colour) == [q \in TextPixels(x, y, text) |-> colour]

\* The painting of draw_text(x, y, text, colour).
OfText(call) == TextPainting(call.x, call.y, call.text, call.colour)

\* The painting of draw_bitmap_rgb(x, y, bmp, w, h): bmp row by row.
OfBitmap(call) ==
  [q \in (call.x .. call.x + call.w - 1) \X (call.y .. call.y + call.h - 1) |->
     call.bmp[(q[2] - call.y) * call.w + (q[1] - call.x) + 1]]

Draw(painting) ==
  /\ scroller = "idle"
  /\ calls < MaxCalls
  /\ SetPixels(painting)
  /\ calls' = calls + 1
  /\ UNCHANGED <<front_planes, light, scrollVars>>

DrawText == \E call \in Texts : Draw(OfText(call))
DrawBitmap == \E call \in Bitmaps : Draw(OfBitmap(call))

ClearPlanes ==
  /\ back_planes' = AllOff
  /\ UNCHANGED <<front_planes, light, calls>>

SwapPlanes ==
  /\ front_planes' = back_planes
  /\ back_planes' = front_planes
  /\ UNCHANGED <<light, calls>>

ClearBackBuffer == scroller = "idle" /\ ClearPlanes /\ UNCHANGED scrollVars

SwapBuffers == scroller = "idle" /\ SwapPlanes /\ UNCHANGED scrollVars

-----------------------------------------------------------------------------
(* scroll_text.                                                            *)

\* Mutant of TotalScroll: the spacing is left out.
TotalScrollNoSpacing(text) == Len(text) * FontWidth + VirtWidth

TotalScroll(text) == Len(text) * (FontWidth + 1) + VirtWidth

\* The painting of frame n: the text comes in from the right.
ScrollFrame(call, n) == TextPainting(VirtWidth - n, call.y, call.text, call.colour)

ScrollBegins ==
  /\ scroller = "idle"
  /\ calls + 2 <= MaxCalls
  /\ calls' = calls + 2
  /\ scroll_call' \in Scrolls
  /\ scroller' = "clear"
  /\ UNCHANGED <<front_planes, back_planes, light, scroll_x>>

ScrollTo(from, to) == scroller = from /\ scroller' = to /\ UNCHANGED <<scroll_x, scroll_call>>

ScrollClears == ScrollTo("clear", "draw") /\ ClearPlanes

ScrollDraws ==
  /\ ScrollTo("draw", "swap")
  /\ SetPixels(ScrollFrame(scroll_call, scroll_x))
  /\ UNCHANGED <<front_planes, light, calls>>

ScrollSwaps == ScrollTo("swap", "swapped") /\ SwapPlanes

\* stop_flag ends the call; so does the last frame.
ScrollNext ==
  /\ scroller = "swapped"
  /\ \/ /\ scroll_x + 1 < TotalScroll(scroll_call.text)
        /\ scroller' = "clear"
        /\ scroll_x' = scroll_x + 1
        /\ UNCHANGED scroll_call
     \/ /\ scroller' = "idle"
        /\ scroll_x' = 0
        /\ scroll_call' = NoCall
  /\ UNCHANGED <<front_planes, back_planes, light, calls>>

ScrollStep == ScrollBegins \/ ScrollClears \/ ScrollDraws \/ ScrollSwaps \/ ScrollNext

-----------------------------------------------------------------------------
(* The scan.                                                               *)

ScanRows == PanelHeight \div 4
TotalCols == PanelWidth * PhysPanels * 2

\* A clock of the shift register: the row addressed, the column, and which of
\* the two data lines (1 for R1 G1 B1, 2 for R2 G2 B2).
Clocks == [row : 0 .. ScanRows - 1, col : 0 .. TotalCols - 1, line : {1, 2}]

\* The cell that refresh_task reads for a clock.
ScanCell(clock) ==
  LET panel_index == clock.col \div PanelWidth
      fb_x == (panel_index \div 2) * PanelWidth + (clock.col % PanelWidth)
      y1 == IF panel_index % 2 = 1 THEN clock.row ELSE clock.row + ScanRows
  IN <<IF clock.line = 1 THEN y1 ELSE y1 + 2 * ScanRows, fb_x>>

\* How often a pass over one plane reads a cell.
Visits == [cell \in Cells |-> Cardinality({clock \in Clocks : ScanCell(clock) = cell})]

\* 1 << p, the time that plane p is lit for, in BASE_US.
PlaneTime[p \in 0 .. Depth] == IF p = 0 THEN 1 ELSE 2 * PlaneTime[p - 1]

\* The time that a set of planes is lit for, plane after plane.
LitUntil(planes) ==
  LET sum[p \in 0 .. Depth] ==
        IF p = 0 THEN 0 ELSE sum[p - 1] + IF p - 1 \in planes THEN PlaneTime[p - 1] ELSE 0
  IN sum

Weight == [planes \in SUBSET Planes |-> LitUntil(planes)[Depth]]

\* One pass over all planes.
RefreshPass ==
  /\ light' = [cell \in Cells |-> [ch \in Channels |->
       Visits[cell] * Weight[{p \in Planes : ch \in front_planes[p][cell]}]]]
  /\ UNCHANGED <<front_planes, back_planes, calls, scrollVars>>

-----------------------------------------------------------------------------
Next ==
  \/ DrawText \/ DrawBitmap
  \/ ClearBackBuffer \/ SwapBuffers
  \/ ScrollStep
  \/ RefreshPass

Spec == Init /\ [][Next]_vars

-----------------------------------------------------------------------------
(* PanelCanvas, the promise, and how this module keeps it.                 *)

Level(colour) == [ch \in Channels |-> GammaTable[colour[ch]]]

\* The level that the planes hold for a cell.
LevelIn(planes, cell) == [ch \in Channels |-> Weight[{p \in Planes : ch \in planes[p][cell]}]]

VirtPixels == (0 .. VirtWidth - 1) \X (0 .. VirtHeight - 1)
PictureIn(planes) == [p \in VirtPixels |-> LevelIn(planes, CellOf(p[1], p[2]))]

Stroke(painting) == [q \in DOMAIN painting |-> Level(painting[q])]

CallStrokes ==
  {Stroke(OfText(call)) : call \in Texts}
    \cup {Stroke(OfBitmap(call)) : call \in Bitmaps}
    \cup UNION {{Stroke(ScrollFrame(call, n)) : n \in 0 .. TotalScroll(call.text) - 1} : call \in Scrolls}

Canvas == INSTANCE PanelCanvas WITH
  Width <- VirtWidth,
  Height <- VirtHeight,
  Black <- [ch \in Channels |-> 0],
  Levels <- [Channels -> Nat],
  Strokes <- CallStrokes,
  picture <- PictureIn(back_planes),
  shown <- PictureIn(front_planes),
  seen <- [p \in VirtPixels |-> light[CellOf(p[1], p[2])]]

\* Every drawing call, wherever it is placed, paints the pixels of the display
\* it names and no other, and every LED shines with the gamma level of the
\* pixel drawn for it: no two pixels share a cell, no cell is scanned twice or
\* left out, and no level loses a bit.
PaintsWhatItNames == Canvas!Spec

\* scroll_text lets the text in from the right edge, moves it one pixel to the
\* left per frame, off the left edge too, and leaves a blank display behind: no
\* column of the text is missed and none is left over at the end.
ScrollsThrough ==
  scroller = "swapped" =>
    LET now == PictureIn(front_planes)
        before == PictureIn(back_planes)
        blank == [p \in VirtPixels |-> [ch \in Channels |-> 0]]
    IN /\ scroll_x \in {0, TotalScroll(scroll_call.text) - 1} => now = blank
       /\ scroll_x > 0 =>
            \A p \in VirtPixels : p[1] > 0 => now[<<p[1] - 1, p[2]>>] = before[p]
=============================================================================
