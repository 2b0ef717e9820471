---------------------------- MODULE PanelRefresh ----------------------------
(***************************************************************************)
(* The double-buffered LED panel: drawing_task (main/main.c), on core 1,   *)
(* clears and draws the back planes and swaps them with the front planes;  *)
(* refresh_task (components/led_panel/led_panel.c), on core 0, scans the   *)
(* front planes out to the panel without end. The two tasks share the      *)
(* plane pointers and the frame buffers and use no lock. uart_rx_task      *)
(* changes t_module between any two steps of drawing_task.                 *)
(*                                                                         *)
(* A plane's contents are abstracted to what was drawn there: a frame (the *)
(* temperature in it and the colour it is drawn in), or a plane that is    *)
(* cleared or half drawn. A row of a plane is read in two parts, enough    *)
(* for a swap or a write to fall between them.                             *)
(***************************************************************************)
EXTENDS Integers, FiniteSets

CONSTANTS
  Depth,        \* COLOR_DEPTH: bit planes of a buffer (3)
  Rows,         \* scan_rows: rows of one plane (8)
  Temps,        \* the temperatures uart_rx_task may store
  HotLimit,     \* drawing_task: from 30 on, the text is red
  RowsPerDelay  \* timing: rows scanned at least in the 250 ms of drawing_task

ASSUME PanelAssumption ==
  /\ Depth \in Nat \ {0}
  /\ Rows \in Nat \ {0}
  /\ Temps \subseteq Nat
  /\ 0 \in Temps
  /\ HotLimit \in Nat
  /\ RowsPerDelay \in Nat \ {0}

Planes == 0 .. Depth - 1
RowNumbers == 0 .. Rows - 1

Buffers == {"fbA", "fbB"}

Colour(t) == IF t >= HotLimit THEN "red" ELSE "blue"
Frames == [temp : Temps, colour : {"red", "blue"}]
FrameOf(t) == [temp |-> t, colour |-> Colour(t)]

\* Dark is what a buffer holds at boot; its fields only give it the shape of a
\* frame, as do those of a cleared and of a half-drawn plane.
Dark == [temp |-> 0, colour |-> "dark"]
Cleared == [temp |-> 0, colour |-> "cleared"]
HalfDrawn == [temp |-> 0, colour |-> "half drawn"]
Unfinished == {Cleared, HalfDrawn}
Images == Frames \cup Unfinished \cup {Dark}

VARIABLES
  front,     \* front_planes: the buffer each plane is shown from
  back,      \* back_planes: the buffer each plane is drawn to
  fb,        \* fb[u][p]: the contents of plane p of buffer u
  t_module,  \* the temperature last stored by uart_rx_task
  drawer,    \* place of drawing_task
  dplane,    \* drawing_task: the plane it clears or swaps
  tmp,       \* swap_buffers: the local variable tmp
  colour,    \* drawing_task: r, g, b of the temperature text
  text,      \* drawing_task: the temperature in buf_temp
  refresher, \* place of refresh_task
  plane,     \* refresh_task: the plane it scans ...
  row,       \* ... and the row
  source,    \* refresh_task: the plane pointer it loaded last
  shifted,   \* images of which parts are in the panel's shift registers
  address,   \* the row address on the pins A, B, C
  duty,      \* the OE duty: 0 is off
  latched,   \* the row and plane in the panel's latches
  shown,     \* shown[p][r]: the images last latched for that plane and row
  elapsed    \* rows scanned since the last swap, up to RowsPerDelay

drawVars == <<drawer, dplane, tmp, colour, text>>
scanVars == <<refresher, plane, row, source, shifted, address, duty, latched, shown>>
vars == <<front, back, fb, t_module, drawVars, scanVars, elapsed>>

\* The type invariant of drawing_task and refresh_task: planes and rows stay inside
\* the frame buffers.
TypeOK ==
  /\ front \in [Planes -> Buffers]
  /\ back \in [Planes -> Buffers]
  /\ fb \in [Buffers -> [Planes -> Images]]
  /\ t_module \in Temps
  /\ drawer \in {"clear", "colour", "text", "draw", "drawing", "swap", "swapped", "delay"}
  /\ dplane \in Planes
  /\ tmp \in Buffers
  /\ colour \in {"red", "blue"}
  /\ text \in Temps
  /\ refresher \in {"off", "address", "shift", "shifting", "latch", "on", "lit"}
  /\ plane \in Planes
  /\ row \in RowNumbers
  /\ source \in Buffers
  /\ shifted \in SUBSET Images
  /\ address \in RowNumbers
  /\ duty \in {0, 1}
  /\ latched \in [plane : Planes, row : RowNumbers]
  /\ shown \in [Planes -> [RowNumbers -> SUBSET Images]]
  /\ elapsed \in 0 .. RowsPerDelay

\* init_planes, and app_main, which starts both tasks.
Init ==
  /\ front = [p \in Planes |-> "fbA"]
  /\ back = [p \in Planes |-> "fbB"]
  /\ fb = [u \in Buffers |-> [p \in Planes |-> Dark]]
  /\ t_module = 0
  /\ drawer = "clear"
  /\ dplane = 0
  /\ tmp = "fbA"
  /\ colour = "blue"
  /\ text = 0
  /\ refresher = "off"
  /\ plane = 0
  /\ row = 0
  /\ source = "fbA"
  /\ shifted = {}
  /\ address = 0
  /\ duty = 0
  /\ latched = [plane |-> 0, row |-> 0]
  /\ shown = [p \in Planes |-> [r \in RowNumbers |-> {Dark}]]
  /\ elapsed = 0

\* uart_rx_task stores a temperature that parse_t1_to_int returned.
StoreTemperature ==
  /\ t_module' \in Temps
  /\ UNCHANGED <<front, back, fb, drawVars, scanVars, elapsed>>

-----------------------------------------------------------------------------
(* drawing_task.                                                           *)

\* Mutant of NextPlane: the loop runs to plane <= COLOR_DEPTH.
NextPlaneTooFar(there, after) ==
  IF dplane + 1 <= Depth
  THEN drawer' = there /\ dplane' = dplane + 1
  ELSE drawer' = after /\ dplane' = 0

\* The next plane of a loop over the planes, or the place after the loop.
NextPlane(there, after) ==
  IF dplane + 1 < Depth
  THEN drawer' = there /\ dplane' = dplane + 1
  ELSE drawer' = after /\ dplane' = 0

\* clear_back_buffer: memset of one plane.
ClearPlane ==
  /\ drawer = "clear"
  /\ fb' = [fb EXCEPT ![back[dplane]][dplane] = Cleared]
  /\ NextPlane("clear", "colour")
  /\ UNCHANGED <<front, back, t_module, tmp, colour, text, scanVars, elapsed>>

\* Mutant of ChooseColour: the limit itself is not yet hot.
ChooseColourAbove ==
  /\ drawer = "colour"
  /\ colour' = IF t_module > HotLimit THEN "red" ELSE "blue"
  /\ drawer' = "text"
  /\ UNCHANGED <<front, back, fb, t_module, dplane, tmp, text, scanVars, elapsed>>

\* t_module is read once for the colour of the text ...
ChooseColour ==
  /\ drawer = "colour"
  /\ colour' = Colour(t_module)
  /\ drawer' = "text"
  /\ UNCHANGED <<front, back, fb, t_module, dplane, tmp, text, scanVars, elapsed>>

\* ... and again for the text.
FormatText ==
  /\ drawer = "text"
  /\ text' = t_module
  /\ drawer' = "draw"
  /\ UNCHANGED <<front, back, fb, t_module, dplane, tmp, colour, scanVars, elapsed>>

DrawPlanes(image) == fb' = [u \in Buffers |-> [p \in Planes |->
                              IF back[p] = u THEN image ELSE fb[u][p]]]

\* The first draw_text: set_pixel writes every plane of the back buffer.
BeginDrawing ==
  /\ drawer = "draw"
  /\ DrawPlanes(HalfDrawn)
  /\ drawer' = "drawing"
  /\ UNCHANGED <<front, back, t_module, dplane, tmp, colour, text, scanVars, elapsed>>

\* The last draw_text returns.
EndDrawing ==
  /\ drawer = "drawing"
  /\ DrawPlanes([temp |-> text, colour |-> colour])
  /\ drawer' = "swap"
  /\ UNCHANGED <<front, back, t_module, dplane, tmp, colour, text, scanVars, elapsed>>

\* swap_buffers, plane by plane: tmp = front, front = back ...
SwapFront ==
  /\ drawer = "swap"
  /\ tmp' = front[dplane]
  /\ front' = [front EXCEPT ![dplane] = back[dplane]]
  /\ drawer' = "swapped"
  /\ UNCHANGED <<back, fb, t_module, dplane, colour, text, scanVars, elapsed>>

\* Mutant of SwapBack: the swap without its temporary.
SwapBackNoTmp ==
  /\ drawer = "swapped"
  /\ back' = [back EXCEPT ![dplane] = front[dplane]]
  /\ NextPlane("swap", "delay")
  /\ elapsed' = 0
  /\ UNCHANGED <<front, fb, t_module, tmp, colour, text, scanVars>>

\* ... and back = tmp.
SwapBack ==
  /\ drawer = "swapped"
  /\ back' = [back EXCEPT ![dplane] = tmp]
  /\ NextPlane("swap", "delay")
  /\ elapsed' = 0
  /\ UNCHANGED <<front, fb, t_module, tmp, colour, text, scanVars>>

\* Mutant of DelayEnds: the next frame is begun without a delay.
DelayEndsAtOnce ==
  /\ drawer = "delay"
  /\ drawer' = "clear"
  /\ UNCHANGED <<front, back, fb, t_module, dplane, tmp, colour, text, scanVars, elapsed>>

\* vTaskDelay(250 ms) is over: refresh_task, which never sleeps, has scanned
\* RowsPerDelay rows meanwhile.
DelayEnds ==
  /\ drawer = "delay"
  /\ elapsed = RowsPerDelay
  /\ drawer' = "clear"
  /\ UNCHANGED <<front, back, fb, t_module, dplane, tmp, colour, text, scanVars, elapsed>>

DrawStep ==
  \/ ClearPlane \/ ChooseColour \/ FormatText \/ BeginDrawing \/ EndDrawing
  \/ SwapFront \/ SwapBack \/ DelayEnds

-----------------------------------------------------------------------------
(* refresh_task.                                                           *)

\* Mutant of TurnOff: the LEDs stay on.
TurnOffForgotten ==
  /\ refresher = "off"
  /\ refresher' = "address"
  /\ UNCHANGED <<front, back, fb, t_module, drawVars, plane, row, source, shifted,
                 address, duty, latched, shown, elapsed>>

\* ledc_set_duty(0): the LEDs are off while the row changes.
TurnOff ==
  /\ refresher = "off"
  /\ duty' = 0
  /\ refresher' = "address"
  /\ UNCHANGED <<front, back, fb, t_module, drawVars, plane, row, source, shifted,
                 address, latched, shown, elapsed>>

SetAddress ==
  /\ refresher = "address"
  /\ address' = row
  /\ refresher' = "shift"
  /\ UNCHANGED <<front, back, fb, t_module, drawVars, plane, row, source, shifted,
                 duty, latched, shown, elapsed>>

\* The first columns of the row, from front_planes[plane].
ShiftFirst ==
  /\ refresher = "shift"
  /\ source' = front[plane]
  /\ shifted' = {fb[source'][plane]}
  /\ refresher' = "shifting"
  /\ UNCHANGED <<front, back, fb, t_module, drawVars, plane, row, address, duty,
                 latched, shown, elapsed>>

\* The other columns. front_planes is not volatile: the compiler may keep the
\* pointer it loaded, or load it again.
ShiftRest ==
  /\ refresher = "shifting"
  /\ source' \in {source, front[plane]}
  /\ shifted' = shifted \cup {fb[source'][plane]}
  /\ refresher' = "latch"
  /\ UNCHANGED <<front, back, fb, t_module, drawVars, plane, row, address, duty,
                 latched, shown, elapsed>>

Latch ==
  /\ refresher = "latch"
  /\ latched' = [plane |-> plane, row |-> row]
  /\ shown' = [shown EXCEPT ![plane][row] = shifted]
  /\ refresher' = "on"
  /\ UNCHANGED <<front, back, fb, t_module, drawVars, plane, row, source, shifted,
                 address, duty, elapsed>>

\* update_oe_duty, with a global_brightness that is not 0.
TurnOn ==
  /\ refresher = "on"
  /\ duty' = 1
  /\ refresher' = "lit"
  /\ UNCHANGED <<front, back, fb, t_module, drawVars, plane, row, source, shifted,
                 address, latched, shown, elapsed>>

\* Mutant of NextRow: the last row is left out.
NextRowShort ==
  /\ refresher = "lit"
  /\ row' = IF row + 2 < Rows THEN row + 1 ELSE 0
  /\ plane' = IF row + 2 < Rows THEN plane
              ELSE IF plane + 1 < Depth THEN plane + 1 ELSE 0
  /\ refresher' = "off"
  /\ elapsed' = IF elapsed < RowsPerDelay THEN elapsed + 1 ELSE elapsed
  /\ UNCHANGED <<front, back, fb, t_module, drawVars, source, shifted, address, duty,
                 latched, shown>>

\* The weighted time slice is over: the next row, or the next plane.
NextRow ==
  /\ refresher = "lit"
  /\ row' = IF row + 1 < Rows THEN row + 1 ELSE 0
  /\ plane' = IF row + 1 < Rows THEN plane
              ELSE IF plane + 1 < Depth THEN plane + 1 ELSE 0
  /\ refresher' = "off"
  /\ elapsed' = IF elapsed < RowsPerDelay THEN elapsed + 1 ELSE elapsed
  /\ UNCHANGED <<front, back, fb, t_module, drawVars, source, shifted, address, duty,
                 latched, shown>>

RefreshStep ==
  TurnOff \/ SetAddress \/ ShiftFirst \/ ShiftRest \/ Latch \/ TurnOn \/ NextRow

-----------------------------------------------------------------------------
Next == StoreTemperature \/ DrawStep \/ RefreshStep

Spec == Init /\ [][Next]_vars

\* Each task has a core on which nothing of its priority or above runs on.
FairSpec == Spec /\ WF_vars(DrawStep) /\ WF_vars(RefreshStep)

-----------------------------------------------------------------------------
(* Properties.                                                             *)

\* While drawing_task clears or draws, no plane it writes to is on display:
\* the plane-by-plane swap has left front and back disjoint again.
DrawsOffScreen ==
  drawer \notin {"swap", "swapped"} => \A p \in Planes : front[p] # back[p]

\* The panel never shows a cleared or half-drawn plane, although refresh_task
\* reads without a lock and may go on with a pointer that has been swapped
\* away: the 250 ms delay outlasts any row it is in.
NoFlicker == \A p \in Planes, r \in RowNumbers : shown[p][r] \cap Unfinished = {}

\* Whatever a swap tore up on the panel is repaired before the next drawing
\* begins: by then every row of every plane shows the one frame last drawn.
EveryFrameShown ==
  drawer = "clear" /\ dplane = 0 =>
    \E f \in Frames \cup {Dark} :
      \A p \in Planes, r \in RowNumbers : shown[p][r] = {f}

\* "OE off while we change address / shift" (led_panel.c:278): whenever the
\* LEDs are on, the row that is addressed is the row that is latched, and the
\* latches do not change.
NoGhosting ==
  duty = 1 /\ refresher # "address" =>
    latched.row = address /\ refresher \in {"lit", "off"}

\* When the temperature settles, the panel ends up showing that temperature in
\* the colour that belongs to it, although colour and text come from two reads.
LatestShown ==
  \A t \in Temps :
    <>[](t_module = t) =>
      <>[](\A p \in Planes, r \in RowNumbers : shown[p][r] = {FrameOf(t)})

\* What the comment "atomic plane swap" (led_panel.c:401) says of swap_buffers:
\* refresh_task never reads a plane while some planes are of the new frame and
\* others of the old one.
AtomicPlaneSwap ==
  refresher = "shifting" => \A p, q \in Planes : front[p] = front[q]
=============================================================================
