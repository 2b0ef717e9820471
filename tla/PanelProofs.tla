---------------------------- MODULE PanelProofs ----------------------------
(***************************************************************************)
(* Theorems about PanelRefresh, for every number of planes and rows, every *)
(* set of temperatures and every delay that outlasts one row.              *)
(***************************************************************************)
EXTENDS PanelRefresh, TLAPS

(***************************************************************************)
(* Type correctness.                                                       *)
(***************************************************************************)

\* Frames, and what stands for the absence of one, are images of a plane.
LEMMA FrameTypes ==
  /\ Dark \in Images /\ Cleared \in Images /\ HalfDrawn \in Images
  /\ \A t \in Temps : Colour(t) \in {"red", "blue"}
  /\ Frames \subseteq Images
BY DEF Images, Unfinished, Colour, Frames

\* The loops over planes and rows stay inside them.
LEMMA PlaneTypes ==
  /\ 0 \in Planes
  /\ \A p \in Planes : p + 1 < Depth => p + 1 \in Planes
  /\ 0 \in RowNumbers
  /\ \A r \in RowNumbers : r + 1 < Rows => r + 1 \in RowNumbers
BY PanelAssumption DEF Planes, RowNumbers

\* Every variable keeps its type, whatever the two tasks and uart_rx_task do.
THEOREM TypeCorrect == Spec => []TypeOK
<1>1. Init => TypeOK
  BY PanelAssumption, FrameTypes, PlaneTypes DEF Init, TypeOK, Buffers
<1>2. TypeOK /\ [Next]_vars => TypeOK'
  <2> SUFFICES ASSUME TypeOK, [Next]_vars PROVE TypeOK'
    OBVIOUS
  <2> USE PanelAssumption, FrameTypes, PlaneTypes DEF TypeOK
  <2>1. CASE StoreTemperature
    BY <2>1 DEF StoreTemperature, drawVars, scanVars
  <2>2. CASE ClearPlane
    BY <2>2 DEF ClearPlane, NextPlane, scanVars
  <2>3. CASE ChooseColour
    BY <2>3 DEF ChooseColour, scanVars
  <2>4. CASE FormatText
    BY <2>4 DEF FormatText, scanVars
  <2>5. CASE BeginDrawing
    BY <2>5 DEF BeginDrawing, DrawPlanes, scanVars
  <2>6. CASE EndDrawing
    <3>1. [temp |-> text, colour |-> colour] \in Images
      BY DEF Frames
    <3> QED BY <2>6, <3>1 DEF EndDrawing, DrawPlanes, scanVars
  <2>7. CASE SwapFront
    BY <2>7 DEF SwapFront, scanVars
  <2>8. CASE SwapBack
    BY <2>8 DEF SwapBack, NextPlane, scanVars
  <2>9. CASE DelayEnds
    BY <2>9 DEF DelayEnds, scanVars
  <2>10. CASE TurnOff
    BY <2>10 DEF TurnOff, drawVars
  <2>11. CASE SetAddress
    BY <2>11 DEF SetAddress, drawVars
  <2>12. CASE ShiftFirst
    BY <2>12 DEF ShiftFirst, drawVars
  <2>13. CASE ShiftRest
    BY <2>13 DEF ShiftRest, drawVars
  <2>14. CASE Latch
    BY <2>14 DEF Latch, drawVars
  <2>15. CASE TurnOn
    BY <2>15 DEF TurnOn, drawVars
  <2>16. CASE NextRow
    BY <2>16 DEF NextRow, drawVars
  <2>17. CASE UNCHANGED vars
    BY <2>17 DEF vars, drawVars, scanVars
  <2> QED
    BY <2>1, <2>2, <2>3, <2>4, <2>5, <2>6, <2>7, <2>8, <2>9, <2>10, <2>11, <2>12,
       <2>13, <2>14, <2>15, <2>16, <2>17 DEF Next, DrawStep, RefreshStep
<1> QED BY <1>1, <1>2, PTL DEF Spec

(***************************************************************************)
(* The swap. In the middle of the swap of dplane, front and back of that   *)
(* plane are the same buffer, and tmp is the other one; at every other     *)
(* time and for every other plane front and back differ.                   *)
(***************************************************************************)

SwapInv ==
  \A p \in Planes :
    IF drawer = "swapped" /\ p = dplane
    THEN front[p] = back[p] /\ tmp # front[p]
    ELSE front[p] # back[p]

\* Between two planes of swap_buffers, and outside it, each plane has one buffer
\* in front and the other at the back; within one plane the old front is in tmp.
LEMMA SwapIsClean == Spec => []SwapInv
<1>1. Init => SwapInv
  BY DEF Init, SwapInv, Planes
<1>2. TypeOK /\ SwapInv /\ [Next]_vars => SwapInv'
  <2> SUFFICES ASSUME TypeOK, SwapInv, [Next]_vars PROVE SwapInv'
    OBVIOUS
  <2> USE DEF TypeOK, SwapInv
  <2>1. CASE StoreTemperature \/ RefreshStep \/ UNCHANGED vars
    <3>1. UNCHANGED <<front, back, drawer, dplane, tmp>>
      BY <2>1 DEF StoreTemperature, RefreshStep, TurnOff, SetAddress, ShiftFirst, ShiftRest,
                  Latch, TurnOn, NextRow, vars, drawVars
    <3> QED BY <3>1
  <2>2. CASE ClearPlane
    BY <2>2 DEF ClearPlane, NextPlane
  <2>3. CASE ChooseColour \/ FormatText \/ BeginDrawing \/ EndDrawing \/ DelayEnds
    BY <2>3 DEF ChooseColour, FormatText, BeginDrawing, EndDrawing, DelayEnds
  <2>4. CASE SwapFront
    BY <2>4 DEF SwapFront
  <2>5. CASE SwapBack
    BY <2>5 DEF SwapBack, NextPlane
  <2> QED BY <2>1, <2>2, <2>3, <2>4, <2>5 DEF Next, DrawStep
<1> QED BY <1>1, <1>2, TypeCorrect, PTL DEF Spec

\* While drawing_task clears or draws, it writes no plane that is on display.
THEOREM DrawingIsOffScreen == Spec => []DrawsOffScreen
<1>1. SwapInv => DrawsOffScreen
  BY DEF SwapInv, DrawsOffScreen
<1> QED BY <1>1, SwapIsClean, PTL

(***************************************************************************)
(* No flicker. Outside of the swap and the delay that follows it, what     *)
(* refresh_task reads is a front plane; during them it may read on from a  *)
(* buffer that has been swapped away, but then no buffer is unfinished.    *)
(* The delay ends at least one row after the last swap, and a row begun    *)
(* after the swap is read from a front plane.                              *)
(***************************************************************************)

Swapping == drawer \in {"swap", "swapped", "delay"}
RowAfterSwap == drawer = "delay" /\ elapsed > 0

FlickerInv ==
  /\ Swapping => \A u \in Buffers, p \in Planes : fb[u][p] \notin Unfinished
  /\ \A p \in Planes : fb[front[p]][p] \notin Unfinished
  /\ (~Swapping \/ RowAfterSwap) /\ refresher = "shifting" => source = front[plane]
  /\ refresher # "shift" => shifted \cap Unfinished = {}
  /\ NoFlicker

\* What EndDrawing leaves in a plane is neither cleared nor half drawn.
LEMMA FramesAreFinished ==
  /\ \A t \in Temps, c \in {"red", "blue"} : [temp |-> t, colour |-> c] \notin Unfinished
  /\ Dark \notin Unfinished
<1>1. "red" # "cleared" /\ "red" # "half drawn" /\ "blue" # "cleared" /\ "blue" # "half drawn"
  OBVIOUS
<1>2. \A t \in Temps, c \in {"red", "blue"} : [temp |-> t, colour |-> c].colour = c
  OBVIOUS
<1>3. Cleared.colour = "cleared" /\ HalfDrawn.colour = "half drawn" /\ Dark.colour = "dark"
  BY DEF Cleared, HalfDrawn, Dark
<1> QED BY <1>1, <1>2, <1>3 DEF Unfinished

\* A plane drawing_task writes to is not on display, so the planes on display
\* stay as they are while it clears and draws.
LEMMA WritesOffScreen ==
  ASSUME TypeOK, SwapInv, ~Swapping,
         NEW p \in Planes, NEW q \in Planes, NEW image,
         fb' = [fb EXCEPT ![back[q]][q] = image] \/ DrawPlanes(image)
  PROVE  fb'[front[p]][p] = fb[front[p]][p]
<1>1. front[p] # back[p] /\ front[p] \in Buffers /\ back[q] \in Buffers
  BY DEF TypeOK, SwapInv, Swapping
<1>2. CASE fb' = [fb EXCEPT ![back[q]][q] = image]
  BY <1>1, <1>2 DEF TypeOK
<1>3. CASE DrawPlanes(image)
  BY <1>1, <1>3 DEF DrawPlanes
<1> QED BY <1>2, <1>3

\* The panel never shows a plane that is cleared or half drawn.
THEOREM PanelDoesNotFlicker == Spec => []NoFlicker
<1>1. Init => FlickerInv
  BY FramesAreFinished DEF Init, FlickerInv, NoFlicker, Swapping, RowAfterSwap, Planes, Buffers
<1>2. TypeOK /\ SwapInv /\ FlickerInv /\ [Next]_vars => FlickerInv'
  <2> SUFFICES ASSUME TypeOK, SwapInv, FlickerInv, [Next]_vars PROVE FlickerInv'
    OBVIOUS
  <2>1. CASE StoreTemperature \/ ChooseColour \/ FormatText \/ UNCHANGED vars
    <3>1. /\ UNCHANGED <<front, fb, elapsed, scanVars>>
          /\ Swapping' = Swapping
          /\ RowAfterSwap' = RowAfterSwap
      BY <2>1 DEF StoreTemperature, ChooseColour, FormatText, vars, drawVars, Swapping, RowAfterSwap
    <3> QED BY <3>1 DEF FlickerInv, NoFlicker, scanVars
  <2>2. CASE ClearPlane \/ BeginDrawing
    <3>1. /\ UNCHANGED <<front, scanVars>>
          /\ ~Swapping /\ ~Swapping' /\ ~RowAfterSwap'
      BY <2>2 DEF ClearPlane, BeginDrawing, NextPlane, Swapping, RowAfterSwap
    <3>2. PICK image : fb' = [fb EXCEPT ![back[dplane]][dplane] = image] \/ DrawPlanes(image)
      BY <2>2 DEF ClearPlane, BeginDrawing
    <3>3. dplane \in Planes
      BY DEF TypeOK
    <3>4. \A p \in Planes : fb'[front[p]][p] = fb[front[p]][p]
      BY <3>1, <3>2, <3>3, WritesOffScreen
    <3> QED BY <3>1, <3>4 DEF FlickerInv, NoFlicker, scanVars
  <2>3. CASE EndDrawing
    <3> DEFINE image == [temp |-> text, colour |-> colour]
    <3>1. /\ UNCHANGED <<front, scanVars>>
          /\ ~Swapping /\ Swapping' /\ ~RowAfterSwap'
          /\ DrawPlanes(image)
      BY <2>3 DEF EndDrawing, Swapping, RowAfterSwap
    <3>2. image \notin Unfinished
      BY FramesAreFinished DEF TypeOK
    <3>3. ASSUME NEW u \in Buffers, NEW p \in Planes PROVE fb'[u][p] \notin Unfinished
      <4>1. front[p] # back[p] /\ front[p] \in Buffers /\ back[p] \in Buffers
        BY <3>1 DEF TypeOK, SwapInv, Swapping
      <4>2. CASE u = back[p]
        BY <4>2, <3>1, <3>2 DEF DrawPlanes
      <4>3. CASE u = front[p]
        BY <4>1, <4>3, <3>1 DEF DrawPlanes, FlickerInv
      <4> QED BY <4>1, <4>2, <4>3 DEF Buffers
    <3>4. \A p \in Planes : fb'[front'[p]][p] \notin Unfinished
      BY <3>1, <3>3 DEF TypeOK
    <3> QED BY <3>1, <3>3, <3>4 DEF FlickerInv, NoFlicker, scanVars
  <2>4. CASE SwapFront \/ SwapBack
    <3>1. /\ UNCHANGED <<fb, scanVars>>
          /\ Swapping /\ Swapping' /\ ~RowAfterSwap'
      <4>1. CASE SwapFront
        BY <4>1 DEF SwapFront, Swapping, RowAfterSwap
      <4>2. CASE SwapBack
        BY <4>2 DEF SwapBack, NextPlane, Swapping, RowAfterSwap
      <4> QED BY <2>4, <4>1, <4>2
    <3>2. \A p \in Planes : front'[p] \in Buffers
      BY <2>4 DEF SwapFront, SwapBack, TypeOK
    <3> QED BY <3>1, <3>2 DEF FlickerInv, NoFlicker, scanVars
  <2>5. CASE DelayEnds
    <3>1. /\ UNCHANGED <<front, fb, scanVars>>
          /\ RowAfterSwap /\ ~Swapping'
      BY <2>5, PanelAssumption DEF DelayEnds, Swapping, RowAfterSwap
    <3> QED BY <3>1 DEF FlickerInv, NoFlicker, scanVars
  <2>6. CASE TurnOff \/ SetAddress \/ TurnOn
    <3>1. /\ UNCHANGED <<front, fb, source, plane, shifted, shown>>
          /\ Swapping' = Swapping /\ RowAfterSwap' = RowAfterSwap
          /\ refresher # "shift" /\ refresher' # "shifting"
      BY <2>6 DEF TurnOff, SetAddress, TurnOn, drawVars, Swapping, RowAfterSwap
    <3> QED BY <3>1 DEF FlickerInv, NoFlicker
  <2>7. CASE ShiftFirst
    <3>1. /\ UNCHANGED <<front, fb, plane, shown>>
          /\ Swapping' = Swapping
          /\ source' = front[plane]
          /\ shifted' = {fb[front[plane]][plane]}
      BY <2>7 DEF ShiftFirst, drawVars, Swapping
    <3>2. plane \in Planes
      BY DEF TypeOK
    <3> QED BY <3>1, <3>2 DEF FlickerInv, NoFlicker
  <2>8. CASE ShiftRest
    <3>1. /\ UNCHANGED <<front, fb, plane, shown>>
          /\ Swapping' = Swapping
          /\ refresher = "shifting" /\ refresher' = "latch"
          /\ source' \in {source, front[plane]}
          /\ shifted' = shifted \cup {fb[source'][plane]}
      BY <2>8 DEF ShiftRest, drawVars, Swapping
    <3>2. plane \in Planes /\ source' \in Buffers
      BY <3>1 DEF TypeOK
    <3>3. fb[source'][plane] \notin Unfinished
      BY <3>1, <3>2 DEF FlickerInv
    <3> QED BY <3>1, <3>3 DEF FlickerInv, NoFlicker
  <2>9. CASE Latch
    <3>1. /\ UNCHANGED <<front, fb, plane, shifted>>
          /\ Swapping' = Swapping
          /\ refresher = "latch" /\ refresher' = "on"
          /\ shown' = [shown EXCEPT ![plane][row] = shifted]
      BY <2>9 DEF Latch, drawVars, Swapping
    <3>2. NoFlicker'
      BY <3>1 DEF FlickerInv, NoFlicker, TypeOK
    <3> QED BY <3>1, <3>2 DEF FlickerInv
  <2>10. CASE NextRow
    <3>1. /\ UNCHANGED <<front, fb, shifted, shown>>
          /\ Swapping' = Swapping
          /\ refresher = "lit" /\ refresher' = "off"
      BY <2>10 DEF NextRow, drawVars, Swapping
    <3> QED BY <3>1 DEF FlickerInv, NoFlicker
  <2> QED
    BY <2>1, <2>2, <2>3, <2>4, <2>5, <2>6, <2>7, <2>8, <2>9, <2>10
       DEF Next, DrawStep, RefreshStep
<1>3. FlickerInv => NoFlicker
  BY DEF FlickerInv
<1>4. Spec => []SwapInv
  BY SwapIsClean
<1> QED BY <1>1, <1>2, <1>3, <1>4, TypeCorrect, PTL DEF Spec

(***************************************************************************)
(* No ghosting. The address follows the row as soon as a row is begun, the *)
(* latch follows the address, and the LEDs are on only between TurnOn and  *)
(* the next TurnOff, where neither changes.                                *)
(***************************************************************************)

GhostInv ==
  /\ duty = 1 => refresher \in {"lit", "off"} /\ latched.row = address
  /\ refresher \in {"shift", "shifting", "latch", "on", "lit"} => address = row
  /\ refresher \in {"on", "lit"} => latched.row = row

\* While the LEDs are on, the row they show is the row that is addressed.
THEOREM AddressedRowIsLatched == Spec => []NoGhosting
<1>1. Init => GhostInv
  BY DEF Init, GhostInv
<1>2. GhostInv /\ [Next]_vars => GhostInv'
  <2> SUFFICES ASSUME GhostInv, [Next]_vars PROVE GhostInv'
    OBVIOUS
  <2> USE DEF GhostInv
  <2>1. CASE StoreTemperature \/ DrawStep \/ UNCHANGED vars
    <3>1. UNCHANGED scanVars
      BY <2>1 DEF StoreTemperature, DrawStep, ClearPlane, ChooseColour, FormatText, BeginDrawing,
           EndDrawing, SwapFront, SwapBack, DelayEnds, vars
    <3> QED BY <3>1 DEF scanVars
  <2>2. CASE TurnOff
    BY <2>2 DEF TurnOff
  <2>3. CASE SetAddress
    BY <2>3 DEF SetAddress
  <2>4. CASE ShiftFirst \/ ShiftRest
    BY <2>4 DEF ShiftFirst, ShiftRest
  <2>5. CASE Latch
    BY <2>5 DEF Latch
  <2>6. CASE TurnOn
    BY <2>6 DEF TurnOn
  <2>7. CASE NextRow
    BY <2>7 DEF NextRow
  <2> QED BY <2>1, <2>2, <2>3, <2>4, <2>5, <2>6, <2>7 DEF Next, RefreshStep
<1>3. GhostInv => NoGhosting
  BY DEF GhostInv, NoGhosting
<1> QED BY <1>1, <1>2, <1>3, PTL DEF Spec

(***************************************************************************)
(* Every frame is shown. The cells of the scan, a row of a plane each, are *)
(* numbered in the order refresh_task comes by them; the age of a cell is  *)
(* the number of rows since. After the swap the front planes hold the one  *)
(* frame last drawn, and so do all cells younger than the swap; a delay of *)
(* more rows than there are cells leaves no other.                         *)
(***************************************************************************)

Cells == Depth * Rows
Pos(p, r) == p * Rows + r

Age(p, r) == IF Pos(p, r) < Pos(plane, row) THEN Pos(plane, row) - Pos(p, r)
                                            ELSE Pos(plane, row) - Pos(p, r) + Cells

FrontImage(p) == fb[front[p]][p]
NewFrame == [temp |-> text, colour |-> colour]

Swapped(p) == p < dplane \/ (p = dplane /\ drawer = "swapped")

\* The frame on its way through the swap to the front planes.
FrameInv ==
  /\ drawer \in {"colour", "text", "draw", "drawing", "delay"} => dplane = 0
  /\ drawer \in {"swap", "swapped"} =>
       \A p \in Planes : IF Swapped(p) THEN FrontImage(p) = NewFrame ELSE fb[back[p]][p] = NewFrame
  /\ drawer = "delay" => \A p \in Planes : FrontImage(p) = NewFrame

\* From the first row after the swap on, what refresh_task reads and latches.
RowInv ==
  drawer = "clear" \/ RowAfterSwap =>
    /\ refresher = "shifting" => source = front[plane]
    /\ refresher \in {"shifting", "latch"} => shifted = {FrontImage(plane)}
    /\ refresher \in {"on", "lit"} => shown[plane][row] = {FrontImage(plane)}

YoungCells ==
  RowAfterSwap => \A p \in Planes, r \in RowNumbers :
                    Age(p, r) < elapsed => shown[p][r] = {FrontImage(p)}

AllCells ==
  drawer = "clear" =>
    \E f \in Frames \cup {Dark} : \A p \in Planes :
      FrontImage(p) = f /\ \A r \in RowNumbers : shown[p][r] = {f}

ShownInv == FrameInv /\ RowInv /\ YoungCells /\ AllCells

\* The cells are numbered from 0 to Cells - 1, each number once.
LEMMA Positions ==
  /\ Cells \in Nat
  /\ \A p \in Planes, r \in RowNumbers : Pos(p, r) \in 0 .. Cells - 1
  /\ \A p, q \in Planes, r, s \in RowNumbers : Pos(p, r) = Pos(q, s) => p = q /\ r = s
<1>1. \A p, q \in Int : p < q => p * Rows + Rows <= q * Rows
  <2> SUFFICES ASSUME NEW p \in Int, NEW q \in Int, p < q PROVE p * Rows + Rows <= q * Rows
    OBVIOUS
  <2>1. PICK d \in Nat : q = p + 1 + d
    <3>1. q - p - 1 \in Nat /\ q = p + 1 + (q - p - 1)
      OBVIOUS
    <3> QED BY <3>1
  <2>2. q * Rows = p * Rows + Rows + d * Rows
    BY <2>1, PanelAssumption
  <2>3. d * Rows >= 0 /\ d * Rows \in Int /\ p * Rows \in Int
    BY PanelAssumption
  <2> QED BY <2>2, <2>3, PanelAssumption
<1>2. \A p \in Int : p * Rows \in Int
  BY PanelAssumption
<1>3. 0 * Rows = 0 /\ \A p \in Nat : p * Rows >= 0
  BY PanelAssumption
<1>4. ASSUME NEW p \in Planes, NEW r \in RowNumbers PROVE Pos(p, r) \in 0 .. Cells - 1
  BY <1>1, <1>2, <1>3, PanelAssumption DEF Planes, RowNumbers, Pos, Cells
<1>5. ASSUME NEW p \in Planes, NEW q \in Planes, NEW r \in RowNumbers, NEW s \in RowNumbers,
             Pos(p, r) = Pos(q, s)
      PROVE  p = q /\ r = s
  BY <1>1, <1>2, <1>5, PanelAssumption DEF Planes, RowNumbers, Pos
<1>6. Cells \in Nat
  BY <1>2, <1>3, PanelAssumption DEF Cells
<1> QED BY <1>4, <1>5, <1>6

\* NextRow goes to the next cell; the cell it leaves is then one row old, and
\* every other cell a row older.
LEMMA CellsAge ==
  ASSUME TypeOK, NextRow, NEW p \in Planes, NEW r \in RowNumbers
  PROVE  Age(p, r)' = IF p = plane /\ r = row THEN 1 ELSE Age(p, r) + 1
<1>1. plane \in Planes /\ row \in RowNumbers /\ plane' \in Planes /\ row' \in RowNumbers
  BY PlaneTypes DEF TypeOK, NextRow
<1>2. Pos(plane', row') = IF Pos(plane, row) = Cells - 1 THEN 0 ELSE Pos(plane, row) + 1
  <2>1. CASE row + 1 < Rows
    <3>1. Pos(plane', row') = Pos(plane, row) + 1
      BY <1>1, <2>1, PanelAssumption DEF NextRow, Pos, Planes, RowNumbers
    <3> QED BY <1>1, <3>1, Positions
  <2>2. CASE row + 1 >= Rows /\ plane + 1 < Depth
    <3>1. row = Rows - 1 /\ row' = 0 /\ plane' = plane + 1
      BY <1>1, <2>2, PanelAssumption DEF NextRow, RowNumbers
    <3>2. (plane + 1) * Rows = plane * Rows + Rows
      BY <1>1, PanelAssumption DEF Planes
    <3>3. Pos(plane', row') = Pos(plane, row) + 1
      BY <1>1, <3>1, <3>2, PanelAssumption DEF Pos, Planes
    <3> QED BY <1>1, <3>3, Positions
  <2>3. CASE row + 1 >= Rows /\ plane + 1 >= Depth
    <3>1. row = Rows - 1 /\ row' = 0 /\ plane = Depth - 1 /\ plane' = 0
      BY <1>1, <2>3, PanelAssumption DEF NextRow, RowNumbers, Planes
    <3>2. (Depth - 1) * Rows = Depth * Rows - Rows /\ 0 * Rows = 0
      BY PanelAssumption
    <3>3. Pos(plane, row) = Cells - 1 /\ Pos(plane', row') = 0
      BY <3>1, <3>2, PanelAssumption DEF Pos, Cells
    <3> QED BY <3>3
  <2> QED BY <1>1, <2>1, <2>2, <2>3, PanelAssumption DEF Planes, RowNumbers
<1>3. Pos(p, r)' = Pos(p, r)
  BY DEF Pos
<1>4. /\ Pos(p, r) \in 0 .. Cells - 1 /\ Pos(plane, row) \in 0 .. Cells - 1 /\ Cells \in Nat
      /\ Pos(p, r) = Pos(plane, row) <=> p = plane /\ r = row
  BY <1>1, Positions
<1>5. Age(p, r)' = IF Pos(p, r) < Pos(plane', row') THEN Pos(plane', row') - Pos(p, r)
                   ELSE Pos(plane', row') - Pos(p, r) + Cells
  BY <1>3 DEF Age, Pos, Cells
<1> QED BY <1>2, <1>4, <1>5 DEF Age

\* No cell is older than a whole scan.
LEMMA AgeIsBounded ==
  ASSUME TypeOK, NEW p \in Planes, NEW r \in RowNumbers
  PROVE  Age(p, r) \in 1 .. Cells
<1>1. Pos(p, r) \in 0 .. Cells - 1 /\ Pos(plane, row) \in 0 .. Cells - 1 /\ Cells \in Nat
  BY Positions DEF TypeOK
<1> QED BY <1>1 DEF Age

\* The 250 ms of drawing_task last longer than one scan of the panel.
DelayOutlastsScan == RowsPerDelay > Depth * Rows

LEMMA ShownInvStep ==
  ASSUME DelayOutlastsScan, TypeOK, SwapInv, ShownInv, [Next]_vars
  PROVE  ShownInv'
<1> USE DEF ShownInv
<1>0. dplane \in Planes /\ plane \in Planes /\ row \in RowNumbers /\ Planes \subseteq Int
  BY DEF TypeOK, Planes
<1>1. CASE StoreTemperature \/ UNCHANGED vars
  <2>1. UNCHANGED <<front, back, fb, drawVars, scanVars, elapsed>>
    BY <1>1 DEF StoreTemperature, vars
  <2> QED
    BY <2>1 DEF FrameInv, RowInv, YoungCells, AllCells, Swapped, FrontImage, NewFrame,
         RowAfterSwap, Age, Pos, drawVars, scanVars
<1>2. CASE ClearPlane \/ BeginDrawing
  <2>1. /\ UNCHANGED <<front, back, scanVars>>
        /\ ~Swapping /\ ~RowAfterSwap'
        /\ drawer' \notin {"swap", "swapped", "delay"}
        /\ drawer' = "clear" => drawer = "clear"
        /\ drawer' # "clear" => dplane' = 0
    BY <1>2 DEF ClearPlane, BeginDrawing, NextPlane, Swapping, RowAfterSwap, FrameInv
  <2>2. PICK image : fb' = [fb EXCEPT ![back[dplane]][dplane] = image] \/ DrawPlanes(image)
    BY <1>2 DEF ClearPlane, BeginDrawing
  <2>3. \A p \in Planes : FrontImage(p)' = FrontImage(p)
    BY <1>0, <2>1, <2>2, WritesOffScreen DEF FrontImage
  <2>4. FrameInv'
    BY <2>1 DEF FrameInv
  <2>5. RowInv'
    BY <1>0, <2>1, <2>3 DEF RowInv, scanVars
  <2> QED BY <2>1, <2>3, <2>4, <2>5 DEF YoungCells, AllCells, scanVars
<1>3. CASE ChooseColour \/ FormatText
  BY <1>3 DEF ChooseColour, FormatText, FrameInv, RowInv, YoungCells, AllCells, RowAfterSwap
<1>4. CASE EndDrawing
  <2>1. /\ drawer' = "swap" /\ dplane' = 0 /\ dplane = 0
        /\ UNCHANGED <<back, text, colour>>
        /\ DrawPlanes(NewFrame)
        /\ ~RowAfterSwap'
    BY <1>4 DEF EndDrawing, FrameInv, NewFrame, RowAfterSwap
  <2>2. \A p \in Planes : fb'[back[p]][p] = NewFrame
    BY <2>1 DEF DrawPlanes, TypeOK
  <2>3. \A p \in Planes : ~Swapped(p)'
    BY <2>1 DEF Swapped, Planes
  <2> QED BY <2>1, <2>2, <2>3 DEF FrameInv, RowInv, YoungCells, AllCells, NewFrame
<1>5. CASE SwapFront
  <2>1. /\ drawer = "swap" /\ drawer' = "swapped" /\ ~RowAfterSwap'
        /\ front' = [front EXCEPT ![dplane] = back[dplane]]
        /\ UNCHANGED <<back, fb, dplane, text, colour>>
    BY <1>5 DEF SwapFront, RowAfterSwap
  <2>2. ASSUME NEW p \in Planes
        PROVE  IF Swapped(p)' THEN FrontImage(p)' = NewFrame ELSE fb[back[p]][p] = NewFrame
    BY <1>0, <2>1 DEF FrameInv, Swapped, FrontImage, TypeOK
  <2> QED BY <2>1, <2>2 DEF FrameInv, RowInv, YoungCells, AllCells, NewFrame
<1>6. CASE SwapBack
  <2>1. /\ drawer = "swapped" /\ ~RowAfterSwap'
        /\ back' = [back EXCEPT ![dplane] = tmp]
        /\ UNCHANGED <<front, fb, text, colour>>
        /\ IF dplane + 1 < Depth THEN drawer' = "swap" /\ dplane' = dplane + 1
                                 ELSE drawer' = "delay" /\ dplane' = 0
    BY <1>6 DEF SwapBack, NextPlane, RowAfterSwap
  <2>2. \A p \in Planes : FrontImage(p)' = FrontImage(p)
    BY <2>1 DEF FrontImage
  <2>3. ASSUME NEW p \in Planes, dplane + 1 < Depth
        PROVE  IF Swapped(p)' THEN FrontImage(p) = NewFrame ELSE fb[back'[p]][p] = NewFrame
    BY <1>0, <2>1, <2>3 DEF FrameInv, Swapped, TypeOK
  <2>4. ASSUME NEW p \in Planes, ~(dplane + 1 < Depth)
        PROVE  FrontImage(p) = NewFrame
    BY <1>0, <2>1, <2>4, PanelAssumption DEF FrameInv, Swapped, Planes
  <2> QED
    BY <2>1, <2>2, <2>3, <2>4 DEF FrameInv, RowInv, YoungCells, AllCells, NewFrame
<1>7. CASE DelayEnds
  <2>1. /\ drawer = "delay" /\ drawer' = "clear" /\ elapsed = RowsPerDelay
        /\ UNCHANGED <<front, back, fb, dplane, text, colour, scanVars>>
    BY <1>7 DEF DelayEnds
  <2>2. RowAfterSwap
    BY <2>1, PanelAssumption DEF RowAfterSwap
  <2>3. \A p \in Planes, r \in RowNumbers : shown[p][r] = {NewFrame} /\ FrontImage(p) = NewFrame
    <3>1. ASSUME NEW p \in Planes, NEW r \in RowNumbers PROVE Age(p, r) < elapsed
      BY <2>1, AgeIsBounded, Positions, PanelAssumption DEF DelayOutlastsScan, Cells
    <3> QED BY <2>1, <2>2, <3>1 DEF YoungCells, FrameInv
  <2>4. NewFrame \in Frames \cup {Dark}
    BY DEF NewFrame, Frames, TypeOK
  <2>5. RowNumbers # {}
    BY PlaneTypes
  <2>6. AllCells'
    BY <2>1, <2>3, <2>4, <2>5 DEF AllCells, FrontImage, scanVars
  <2>7. FrameInv' /\ YoungCells'
    BY <2>1 DEF FrameInv, YoungCells, RowAfterSwap
  <2> QED BY <2>1, <2>2, <2>6, <2>7 DEF RowInv, FrontImage, scanVars
<1>8. CASE TurnOff \/ SetAddress \/ TurnOn
  <2>1. /\ UNCHANGED <<front, back, fb, drawVars, plane, row, source, shifted, shown, elapsed>>
        /\ refresher' \notin {"shifting", "latch"}
        /\ refresher' \in {"on", "lit"} => refresher = "on"
    BY <1>8 DEF TurnOff, SetAddress, TurnOn
  <2> QED
    BY <2>1 DEF FrameInv, RowInv, YoungCells, AllCells, Swapped, FrontImage, NewFrame,
         RowAfterSwap, Age, Pos, drawVars
<1>9. CASE ShiftFirst
  <2>1. /\ UNCHANGED <<front, back, fb, drawVars, plane, row, shown, elapsed>>
        /\ refresher' = "shifting"
        /\ source' = front[plane] /\ shifted' = {fb[front[plane]][plane]}
    BY <1>9 DEF ShiftFirst
  <2> QED
    BY <2>1 DEF FrameInv, RowInv, YoungCells, AllCells, Swapped, FrontImage, NewFrame,
         RowAfterSwap, Age, Pos, drawVars
<1>10. CASE ShiftRest
  <2>1. /\ UNCHANGED <<front, back, fb, drawVars, plane, row, shown, elapsed>>
        /\ refresher = "shifting" /\ refresher' = "latch"
        /\ source' \in {source, front[plane]}
        /\ shifted' = shifted \cup {fb[source'][plane]}
    BY <1>10 DEF ShiftRest
  <2> QED
    BY <2>1 DEF FrameInv, RowInv, YoungCells, AllCells, Swapped, FrontImage, NewFrame,
         RowAfterSwap, Age, Pos, drawVars
<1>11. CASE Latch
  <2>1. /\ UNCHANGED <<front, back, fb, drawVars, plane, row, shifted, elapsed>>
        /\ refresher = "latch" /\ refresher' = "on"
        /\ shown' = [shown EXCEPT ![plane][row] = shifted]
    BY <1>11 DEF Latch
  <2>2. \A p \in Planes, r \in RowNumbers :
          shown'[p][r] = IF p = plane /\ r = row THEN shifted ELSE shown[p][r]
    BY <1>0, <2>1 DEF TypeOK
  <2>3. drawer = "clear" \/ RowAfterSwap => shifted = {FrontImage(plane)}
    BY <2>1 DEF RowInv
  <2>4. \A p \in Planes, r \in RowNumbers : FrontImage(p)' = FrontImage(p) /\ Age(p, r)' = Age(p, r)
    BY <2>1 DEF FrontImage, Age, Pos
  <2>5. RowAfterSwap' = RowAfterSwap
    BY <2>1 DEF RowAfterSwap, drawVars
  <2>6. FrameInv'
    BY <2>1 DEF FrameInv, Swapped, FrontImage, NewFrame, drawVars
  <2>7. RowInv'
    BY <1>0, <2>1, <2>2, <2>3, <2>4, <2>5 DEF RowInv, drawVars
  <2>8. YoungCells'
    BY <2>1, <2>2, <2>3, <2>4, <2>5 DEF YoungCells
  <2>9. AllCells'
    BY <1>0, <2>1, <2>2, <2>3, <2>4 DEF AllCells, drawVars
  <2> QED BY <2>6, <2>7, <2>8, <2>9
<1>12. CASE NextRow
  <2>1. /\ UNCHANGED <<front, back, fb, drawVars, shown>>
        /\ refresher = "lit" /\ refresher' = "off"
        /\ elapsed' = IF elapsed < RowsPerDelay THEN elapsed + 1 ELSE elapsed
    BY <1>12 DEF NextRow
  <2>2. FrameInv' /\ AllCells'
    BY <2>1 DEF FrameInv, AllCells, Swapped, FrontImage, NewFrame, drawVars
  <2>3. RowInv'
    BY <2>1 DEF RowInv
  <2>4. ASSUME RowAfterSwap', NEW p \in Planes, NEW r \in RowNumbers, Age(p, r)' < elapsed'
        PROVE  shown[p][r] = {FrontImage(p)}
    <3>1. drawer = "delay" /\ elapsed \in Nat
      BY <2>1, <2>4, PanelAssumption DEF RowAfterSwap, TypeOK, drawVars
    <3>2. Age(p, r) \in 1 .. Cells /\ Cells \in Nat
      BY AgeIsBounded, Positions
    <3>3. Age(p, r)' = IF p = plane /\ r = row THEN 1 ELSE Age(p, r) + 1
      BY <1>12, CellsAge
    <3>4. elapsed > 0
      BY <2>1, <2>4, <3>1, <3>2, <3>3
    <3>5. RowAfterSwap
      BY <3>1, <3>4 DEF RowAfterSwap
    <3>6. CASE p = plane /\ r = row
      BY <2>1, <3>5, <3>6 DEF RowInv
    <3>7. CASE ~(p = plane /\ r = row)
      <4>1. Age(p, r) < elapsed
        BY <2>1, <2>4, <3>1, <3>2, <3>3, <3>7, PanelAssumption
      <4> QED BY <3>5, <4>1 DEF YoungCells
    <3> QED BY <3>6, <3>7
  <2>5. YoungCells'
    BY <2>1, <2>4 DEF YoungCells, FrontImage
  <2> QED BY <2>2, <2>3, <2>5
<1> QED
  BY <1>1, <1>2, <1>3, <1>4, <1>5, <1>6, <1>7, <1>8, <1>9, <1>10, <1>11, <1>12
     DEF Next, DrawStep, RefreshStep

\* Whatever a swap tore up on the panel is repaired before the next drawing begins.
THEOREM RepairedBeforeDrawing ==
  ASSUME DelayOutlastsScan PROVE Spec => []EveryFrameShown
<1>1. Init => ShownInv
  <2> SUFFICES ASSUME Init PROVE ShownInv
    OBVIOUS
  <2>1. \A p \in Planes : FrontImage(p) = Dark /\ \A r \in RowNumbers : shown[p][r] = {Dark}
    BY DEF Init, FrontImage, Buffers
  <2>2. AllCells
    BY <2>1 DEF AllCells
  <2>3. FrameInv /\ RowInv /\ YoungCells
    BY DEF Init, FrameInv, RowInv, YoungCells, RowAfterSwap
  <2> QED BY <2>2, <2>3 DEF ShownInv
<1>2. TypeOK /\ SwapInv /\ ShownInv /\ [Next]_vars => ShownInv'
  BY ShownInvStep
<1>3. ShownInv => EveryFrameShown
  BY DEF ShownInv, AllCells, EveryFrameShown
<1>4. Spec => []SwapInv
  BY SwapIsClean
<1> QED BY <1>1, <1>2, <1>3, <1>4, TypeCorrect, PTL DEF Spec
=============================================================================
