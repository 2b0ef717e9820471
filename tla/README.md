# Verification of the thermal shock tester's panel node

This directory is a TLA+ model of the firmware in `src/main` and
`src/components/led_panel`: an ESP32 with three push buttons, a chain of LED
panels and a serial link to the *master* that runs the thermal shock test. The
modules are checked with TLC on small instances, and their main theorems are
proved with TLAPS for every instance.

Contents: the system · modules · runs · fairness · proofs · findings ·
what is only checked · what is not modelled · plan.

## The system

| part | code | state | operations |
|---|---|---|---|
| button input | `ui_node.c` | `button_queue` (8 edges), `btn_state[].pending/press_tick`, the task's place | `button_isr` posts falling edges; `button_task` takes one edge per pass, scans all buttons, calls `handle_button` after 300 ms, waits for the release |
| command sender | `ui_transport.c:164`, `protocol.c:68` | `static uint32_t sequence` | `ui_send_command`: number, build, write; called by two tasks without a lock |
| mode synchronization | `main.c:178-196`, `main.c:250-282` | `master_mode_received`, `current_test_mode`, `t_max_cycles` | `master_startup_sync_task` asks every second until `uart_rx_task` has the answer |
| text receiver | `main.c:19-202` | `t_module`, `t_cycles`, `ui`, the mode | `uart_rx_task` splits each chunk at newlines and offers every piece to four parsers |
| panel refresh | `main.c:207`, `led_panel.c:178-341` | `front_planes`, `back_planes`, `fbA`, `fbB`, the panel's latches | `drawing_task` (core 1) clears, draws, swaps every 250 ms; `refresh_task` (core 0) scans without end |
| panel geometry | `led_panel.c:10-28, 208-418`, `font6x9.h` | the planes, bit by bit | `set_pixel`, `draw_char`, `draw_text`, clear, swap, scan; `draw_bitmap_rgb` and `scroll_text` (never called) |
| packet builders, CRC | `protocol.c`, `crc16.h` | none here (`local_sequence` counts status packets, which the node never builds) | status, command and ack packets |
| packet receiver | `ui_transport.c:53` | `rx_buf`, `rx_len` | `ui_uart_rx_task`: resynchronize, check the CRC, drain. Compiled, not started by `app_main` |
| receive log | `ui_rx_log.c` | a queue of 16 messages | push, log task; never initialized |
| settings | `led_panel.c:35-120` | NVS keys `brightness`, `mode`, `format` | initialize, load, save; never called |
| brightness | `led_panel.c:132-175` | `global_brightness`, the OE duty | `update_oe_duty` (by `refresh_task`), `set_global_brightness` (never called) |
| startup | `main.c:289` | – | initializes everything, then starts the tasks |

The parts interact through shared variables without locks (`t_module`,
`t_cycles`, the mode, the plane pointers, `sequence`), through `button_queue`,
and through the link to the master. The hard behaviours are: edges that are
received long after the contact has moved; a press during the wait for another
button's release; two tasks in `ui_send_command`; an answer that races with the
retry of the request; lines cut by the end of a chunk; a plane-by-plane pointer
swap under a reader on the other core; the search for the next packet in the
remains of a damaged one; two tasks that write the duty of the LEDs; and a reset
at any step, of the startup synchronization or of a save. `PROJECT.json` lists these hazards at their lines.

The master is not in this repository. What it does (it takes `SWITCH_MODE` and
`REQUEST_STATE` and reports its mode with `TEST_MODE=..,MAX_CYCLES=..`; it sends
`T1=`, `CYCLES=` and `STATE=` lines) is taken from how `main.c` uses it, and the
definitions that model it are marked external, as are FreeRTOS and the contacts.

## Modules

| module | models | composes |
|---|---|---|
| `ButtonTask` | contacts, interrupt, `button_task`, the wrapping tick | |
| `ButtonHistory` | history variables and properties of the buttons | `ButtonTask` |
| `CommandSender` | `ui_send_command` in the tasks that call it | |
| `ModeSync` | sync task, mode part of `uart_rx_task`, `handle_button`, master, link | `CommandSender` |
| `ModeSyncHistory` | history variables and properties | `ModeSync` |
| `TextRx`, `TextRxHistory` | chunks, cuts and the four parsers; properties | |
| `PanelRefresh` | `drawing_task` against `refresh_task`; properties | |
| `PanelCanvas` | **abstract**: what the drawing calls promise | |
| `PanelGeometry` | `led_panel.c` from pixel to LED, shown to implement `PanelCanvas`; `scroll_text` frame by frame | `PanelCanvas` (INSTANCE) |
| `Brightness` | `set_global_brightness` against the OE duty of `refresh_task` | |
| `StoredSettings` | **abstract**: registers that survive a reset | |
| `Settings` | NVS initialization, saves and loads, shown to implement `StoredSettings` | `StoredSettings` (INSTANCE) |
| `PanelSettings` | a task that calls both, `refresh_task` and resets; properties | `Settings`, `Brightness` |
| `Packet` | framing and CRC-16 of the binary packets | |
| `RxLog` | the bounded queue of the receive log and the task that prints | |
| `FrameRx`, `FrameRxHistory` | `ui_uart_rx_task`, a noisy line and the log behind it; properties | `Packet`, `RxLog` |
| `ButtonProofs`, `ModeSyncProofs`, `TextRxProofs`, `FrameRxProofs`, `PanelProofs`, `PanelGeometryProofs`, `SettingsProofs` | theorems | the history module, or the component, of that name |
| `Recursion` | lemmas on induction and recursion over numbers | |
| `MC*` | instances for TLC | |

How state and actions correspond to the code:

* **ButtonTask.** `pc` is the place of `button_task`: *receive*
  (`xQueueReceive`), *now* (`xTaskGetTickCount`), *scan* (the `for` loop at
  index `i`), *send* (inside `handle_button`), *release* (the polling loop after
  it). `timer` is the wait the task is in. `Tick` advances the tick counter
  modulo `TickMod`; while the task could run, at most `MaxLag` ticks pass per
  pass, because it has the highest priority of the program's tasks. `level` is
  what `gpio_get_level` returns. An edge is posted in the same step as the
  contact moves, or by `Bounce` with no visible change of level. A button may be
  held from before the start (`Init`): no interrupt has seen that edge, but the
  contact may still bounce, and that edge is then the first one of the hold.
* **CommandSender / ModeSync.** `sequence++` is a load and a store. The write is
  one step, since the UART driver holds a mutex. `RxStoresMode`,
  `RxStoresCycles`, `RxRaisesFlag` are the three stores of `main.c:186-188`.
  `button_task` appears only as a caller: any of its commands at any time.
  `NodeResets` is a power dip or the reset pin: every task starts anew, with
  `sequence` at 1, while the frames and lines on their way, and the master, go
  on.
* **TextRx.** A line is its kind and fields; only where a cut changes what is
  read are the digits of a number kept. `Cuts` lists the two pieces a cut line
  falls into. `ProcessLine` is one pass of the `strtok` loop with all parsers.
* **PanelRefresh.** A plane's contents are the frame drawn there, or *cleared*,
  or *half drawn*. A row is read in two parts, so that a swap or a write can
  fall between them. `front_planes` is not volatile, so the second part may use
  the pointer loaded before or load it again: both are allowed.
* **PanelGeometry.** Whole calls, bit by bit: clipping, the panel chain, the
  gamma table, the planes, the scan order, and the on-time of every LED.
  `scroll_text` is not whole: `scroller` is its place in a frame (*clear*,
  *draw*, *swap*, *swapped*), and it may be stopped after any of them
  (`stop_flag`). A write is not confined to the buffers by the model:
  `Written` has the two checks of `set_pixel`, and a cell that passed them
  outside of the buffers would show in the plane's domain (`TypeOK`). The glyphs
  of `font6x9.h` are a constant; `Dots` stands for the declaration of the table.
* **Brightness.** `update_oe_duty` is three steps: the duty is computed from
  `global_brightness`, written to the register (`oe_reg`), and taken over by the
  PWM (`oe_duty`). `refresher` and `setter` are the places of the two tasks.
* **Settings.** `caller` is the place in `init_nvs_brightness`, in a save or in a
  load; the three saves differ in their key only, the three loads in key and
  default. `WriteThrough` lets the library write a value before `nvs_commit`.
  `CheckFails` is `ESP_ERROR_CHECK`: the chip restarts.
* **FrameRx.** One byte stands for the eight of sequence and timestamp; all else
  is at full width, the CRC included. `place` is *read*, *parse* (the inner
  `while`) or *drain* (the loop that discards bytes until 100 ms of silence).
  What a packet says is only logged by the code, so the switch on its type is
  left out. `RxLog` is taken with and without `ui_rx_log_init` (two initial
  states), since `app_main` does not call it and `ui_rx_log_push` checks for it.

History variables only watch: each history module's next-state relation is the
component's with an `Observe` conjunct (`HistoryRefines` proves it for the
buttons and the mode synchronization).

## Runs

| run | question | bounds, and why they suffice |
|---|---|---|
| `buttons` | are confirmed presses long, prompt, and sent once? | 2 buttons (one to be waited for while another is pending), a queue of 2 (so it overflows), long press 3 ticks, hold up to 4, 1 spurious edge per move, tick modulo 7 (wraps during a press) |
| `buttons_jitter` | and if a tick passes inside a pass? | 1 button, lag 1, long press 6, tick modulo 34. A contact keeps its level for 4 ticks, longer than two passes with lag can take; the figures satisfy the hypotheses of both timing theorems, and the tick counter still wraps |
| `buttons_live` | is a held button whose edge is queued served? | 2 buttons, queue of 2, tick modulo 5 |
| `buttons_stale` | *violation*, see findings | as `buttons`, without spurious edges, tick modulo 8 |
| `mode_sync` | does the synchronization end, and in agreement, whatever is reset or lost? | 2 tasks, sequence modulo 2, 1 frame and 1 line in flight: while one line is processed another waits, and a third is lost for want of room. The safety properties are proved for all values |
| `sequence_race` | *violation*, see findings | sequence modulo 8, so that "before" and "after" differ |
| `text_rx` | what can a cut line do to the panel? | numbers of one and two digits, limits of three, both signs, up to 2 pieces in flight: a cut line between two whole ones |
| `frame_rx` | what does the packet receiver take, lose and survive? | 3 packets of 9 and 11 bytes, a buffer of 20 (any two), any chunks, 1 byte damaged, lost or invented. One packet carries 4.21 and -1.00 degrees, which read as a header with a length of 255. A log queue of 1, so that packets find it full, and messages of 10 bytes, so that one is cut |
| `panel` | is anything unfinished, torn or wrong ever left on the panel? | 2 planes, 2 rows, 3 temperatures around the limit of red, and a delay of 5 rows, one more than a whole scan |
| `panel_swap` | *violation*, see findings | as `panel` |
| `panel_geometry` | do planes and scan show what was drawn? | 2 panels of 2 x 8 LEDs, one below the other as in the code, 3 planes, 2 calls; dots on all edges of the display and of the panels, texts and a bitmap across them, a character the font lacks, and a text of two characters that scrolls all the way through. A scroll counts as two calls |
| `panel_settings` | what do brightness calls and resets do to rows and settings? | brightness 0, 40 and 255 (above 100), values 40 and 255 to save, three keys, any storage to begin with |

The properties and what they mean:

* `NoShortPress`: a confirmed press lasted LONG_PRESS_MS (less the lag of a
  pass), unless the task was waiting for another button meanwhile.
  `PromptCommand`: a heard press is confirmed within `MaxWait` ticks of task
  time; bounces do not re-arm it. `OneCommandPerHold`. `HeldIsServed`.
* `SyncedMeansConfigured`: the flag goes up after the limit is stored.
  `OneLateRequest`: at most one request goes out after the answer.
  `AgreesWithMaster`: with the link drained and its last line not lost, panel
  and master agree. `ConsecutiveWhenAlone`: the race on `sequence` leaves no
  trace after the startup. `StartupSyncs`: once resets stop, the synchronization
  ends, with the limit stored; answers to questions from before a reset do no
  harm.
* `ModeNotMisread`, `NeverHotter`, `CountNotAhead`, `WholeLineRepairs`: what a
  cut line can and cannot do. The count may show the limit (a mode line cut
  before `CYCLES=`); a temperature may read colder (cut after a digit), never
  hotter; the next whole line repairs both. A temperature below zero comes out
  of its parser like an error and is not stored (`main.c:154`): `Reports` leaves
  it out of what is remembered as reported, and `WholeLineRepairs` says that the
  panel goes on to show the last temperature that was not below zero, however
  many below zero follow it and whatever a cut leaves of them.
* `CrcNeverByChance`: 16 bits of CRC do not detect every damage, but of the
  run's damages every one. The history keeps, for each byte in `rx_buf` and on
  the line, the packet it belongs to; whenever the buffer begins with a
  damaged byte and passes for a packet, the damaged bytes make up exactly a
  packet sent. That the first byte be undamaged is too much to ask, as TLC
  showed: the drain may cut a packet after its first byte, which was read with
  the packet before, and the next packet may lose its own first byte, which is
  the same. Nothing wrong is taken then.
* `AcceptedAsSent`: packets taken are packets sent, once and in order.
  `NoSilentLoss`: a packet that is not taken was damaged, was cut by the drain,
  or is still in the buffer. `WholePacketsNeverWedge`: the receiver waits for
  ever only after noise or a cut packet. That a packet cut by the drain does
  suffice, with no noise at all, is seen in the same run: replace the
  consequent by `noise > 0`, and TLC shows payload being read as a header that
  announces 255 bytes. `LogSkipsOnlyCrowded`: the log prints, in order and
  intact, the heads of all packets but those that found its queue full, although
  `rx_buf` is overwritten meanwhile.
* `DrawsOffScreen`, `NoFlicker`, `EveryFrameShown` (what a swap tore up is
  repaired before the next drawing begins; needs a delay longer than one scan),
  `NoGhosting`, `LatestShown`.
* `PaintsWhatItNames`: `PanelGeometry` implements `PanelCanvas`. The mapping
  reads each picture through `CellOf` and turns plane bits into levels; it holds
  only if no two pixels share a cell, every cell is scanned exactly once, and
  nothing off the display is drawn. `ScrollsThrough`: a scrolling text moves one
  pixel per frame, enters and leaves whole, and leaves a blank display.
* `DarkWhileShifting`, `LitAsSet`: rows that no call of `set_global_brightness`
  overlaps are dark while they are shifted and then lit as the brightness says.
  The others need not be: a call may turn the LEDs on in the middle of a shift,
  and a row whose duty was computed before the call may be lit as before it. The
  comment of `led_panel.c:278`, "OE off while we change address / shift", is
  true as long as nobody calls the function. `BrightnessSettles`: nothing of
  this lasts.
* `SettingsAreRegisters`: `Settings` implements `StoredSettings`. The mapping
  lets a save take effect when its value is in the flash, which may be before,
  in, or (for an equal value) without the commit.

`CHECK_DEADLOCK FALSE` is used in `frame_rx` alone: when the last packet has
been handled nothing more comes in.

## Fairness

* Buttons: weak fairness of `TaskStep` and `Tick` (FreeRTOS runs the ready task
  of the highest priority, and the tick interrupt runs), and the assumption that
  a user lets go of a button whose release is being waited for. Without the last
  one the property is false: a button held for ever blocks the others.
* Mode synchronization: weak fairness of every task's steps; strong fairness of
  the sync task's sending (button commands, 300 ms apart, do not keep it from
  the UART for ever) and of reading a line; the master starts and takes some
  request; not all frames and lines are lost.
* Panel: weak fairness of each task. They run on different cores, and
  `refresh_task` never blocks.
* Brightness: weak fairness of `refresh_task` and of the task inside
  `set_global_brightness`, which waits for nothing. The calls themselves are not
  fair, and resets are not excluded: a reset makes the brightness 100 again.
* The premises of the liveness properties (`StartupSyncs`: resets stop;
  `BrightnessSettles`: the brightness stops changing) are stated in them.

## Proofs

All theorems hold for every value of the constants that satisfies the named
assumptions of the module (`ButtonAssumption`, `HistoryAssumption`,
`SenderAssumption`, `LineAssumption`, `TasksAssumption`, `TextAssumption`,
`FrameAssumption`, `PacketAssumption`, `LogAssumption`, `PanelAssumption`,
`BrightnessAssumption`, `SettingsAssumption`), each as weak as the code allows:
sizes are positive, a long press is shorter than the range of the tick counter,
a packet fits into the receive buffer and is built as `protocol.c` builds it.
Some theorems have a hypothesis of their own, which they need and the code's
figures satisfy (and `Depth >= 3`, see the panel geometry):

* `DelayOutlastsScan` (`PanelProofs`): the 250 ms of `drawing_task` last longer
  than one scan. A scan of 3 planes and 8 rows takes a few milliseconds.
* `TimingAssumption` (`ButtonProofs`): a contact keeps its level for longer than
  two scans of the buttons can lie apart, tens of milliseconds, and a long
  press with its lag fits into the range of the tick counter, 2^32. A faster
  contact is not debounced by the code at all.
* `WaitAssumption` (`ButtonProofs`): a long press and two passes, with a wait for
  the release of every button in each, fit into the range of the tick counter
  (2^32 ticks are 497 days), and `MaxWait` covers a long press, the polling
  period and the lag of two passes more than the queue has slots. For the code's
  3 buttons, 8 slots and 30 ticks, with a lag of 1 tick, that is 61 ticks; with
  none, 30.

**Buttons.**

* `TypeCorrect`, `HistoryTypeCorrect`: the queue stays within its slots, the scan
  index within the buttons.
* `HoldSendsOnce` (`OneCommandPerHold`). Inductive invariant: a button whose hold
  has sent its command is down and is the very button the task is in *send* or
  *release* for. The task leaves *release* only when that pin is high, which
  ends the hold.
* `ConfirmedPressIsLong` (`NoShortPress`). `PressInv` relates the time since
  `press_tick`, modulo the range of the counter, to how long the contact has
  been down: a pending button was seen low when the press was noted and cannot
  have been let go and pressed again between two scans, so the press that is
  confirmed began before the noted one was stamped, give or take the lag.
* `HeardIsPrompt` (`PromptCommand`), from `WaitAssumption`. The invariant has three
  parts. `PlaceInv` bounds, for each place of the task, how long ago the scan
  read the clock: a scan takes at most `ButtonTime` per button, its wait for a
  release included, and the button waited for is not pending. `AgeInv` bounds
  the age of a pending press by LONG_PRESS_MS and the pass since the last scan,
  so that the tick counter cannot come round and `now - press_tick` is what it
  seems. `WaitInv` follows a hold that was heard: an edge at place k of the queue
  has k passes left at most (`EdgeWaits`), and from the tick it is taken the
  wait grows no faster than the age of the press (`PressWaits`), until a scan
  finds that age to be LONG_PRESS_MS. A press noted earlier, that the task
  missed the release of, only shortens the wait.

**Mode synchronization.**

* `TypeCorrect`, `HistoryTypeCorrect`, and `FlagMeansConfigured`
  (`SyncedMeansConfigured`): strengthened by the receiver's place between the
  stores.
* `AtMostOneLateRequest` (`OneLateRequest`): `LateInv` says that while a request
  is being sent none has been late, because sending begins only with the flag
  down; after a late one the flag is up, and none begins.
* `PanelAgreesWithMaster` (`AgreesWithMaster`): `AgreeInv` follows the master's
  last line from the end of the lines in flight into `rx_line` and from there
  into the variables.
* `ConsecutiveOnceAlone` (`ConsecutiveWhenAlone`): `AloneInv` says that, with the
  sync task gone and a frame written since, `sequence`, or between load and store
  the register of `button_task`, is the successor of the number written last.
  The sync task goes only after its last call has returned, and a reset makes
  the history begin anew.

**Text receiver.**

* `HistoryTypeCorrect`: whatever is in flight is a piece of a line of the master.
* `ModeReadAsSent` (`ModeNotMisread`): a limit cut before its last digit reads as
  no limit the parser accepts, so a mode line is stored whole or not at all.
* `TemperatureIsReported` (`NeverHotter`) and `CountIsReported` (`CountNotAhead`),
  from `BoundsInv`: every number in flight, whole or cut, reads as no more than
  one the master reported. That cutting digits never makes a number larger
  (`CutReadsLess`) is an induction on its digits.
* `RepairedByWholeLine` (`WholeLineRepairs`): `RepairInv` follows, for each kind of
  line, what the lines in flight will leave behind: the last whole report of the
  kind, unless a cut line comes after it, which the history remembers. A
  temperature below zero is no report, and may come after it.

**Packet receiver and log.**

* `HistoryTypeCorrect`: `rx_buf` never holds more than `RX_BUF_SIZE` bytes; while
  the line is drained the packet taken is still at the start of the buffer.
* `IntactPacketsNeverWedge` (`WholePacketsNeverWedge`). `StreamInv` says that, as
  long as nothing was damaged or cut, what was sent is what was removed, what is
  in the buffer and what is in the line, one behind the other. Hence a header at
  the start of the buffer is one that the master sent (`BufferBegins`): it is
  valid, its length fits, and its CRC is right once all of it is there.
* `UndisturbedReception`: from the same invariant, every packet is then taken as
  it was sent, in order (`AcceptedAsSent`), and none is lost (`NoSilentLoss`).
  No assumption about the CRC is needed for that.
* `ReceptionOnANoisyLine` (`AcceptedAsSent`) and `NoLossOnANoisyLine`
  (`NoSilentLoss`): with noise and with packets cut by the drain these two
  depend on which damages the CRC detects, and `CrcNeverByChance` is all they
  need of it. `NoisyInv`, inductive relative to it, says which packet each byte
  behind the part already taken belongs to: the bytes come in the order they
  were sent (`InOrder`), the packets taken are numbered increasingly and no byte
  of them or of earlier ones is to come (`Taken`), and every packet sent is
  damaged, taken or whole (`Accounted`). Then dropping a byte never breaks into
  an undamaged packet, since one at the start of the buffer has a valid header
  and a right CRC (`HeadIsWhole`), and taking a packet only passes over damaged
  ones (`AcceptKeepsReception`). Without the part already taken (`Cut`) the
  invariant is not inductive: in the drain, the packet taken is still in the
  buffer.
* `LogIsInOrder` (`LogSkipsOnlyCrowded`): `LogInv` numbers the messages by the
  packets they are the heads of; taking a packet appends to the numbering, or to
  the packets that found the queue full.

**Panel.**

* `TypeCorrect`, and `DrawingIsOffScreen` (`DrawsOffScreen`): in the middle of a
  swap of one plane front and back are equal and `tmp` holds the other buffer;
  everywhere else they differ (`SwapIsClean`).
* `PanelDoesNotFlicker` (`NoFlicker`), for any delay of at least one row:
  `FlickerInv` says that after the delay the reader's pointer is the plane's
  front again, so that clearing cannot touch what it reads.
* `AddressedRowIsLatched` (`NoGhosting`): `GhostInv` says from which step of a row
  on the address, and from which the latches, are those of the row.
* `RepairedBeforeDrawing` (`EveryFrameShown`): `ShownInv` orders the rows by
  the time since each was last shown; those shown since the swap show the new frame,
  and by the end of the delay that is all of them.

**Panel geometry.**

* `PixelsHaveCells`: `CellOf` maps the pixels of the display one to one into the
  plane buffers. A pixel is a place in a row of panels of `PANEL_WIDTH`, and a
  panel a place in rows of `N_HOR`; `RowMajor` and `PanelOf` say that such a place
  determines row and column, and is determined by them.
* `ClippingSuffices`: therefore the second check of `set_pixel`, against the size
  of the buffers, refuses no pixel that passed the first, against the display.
* `CellsReadOnce`: each cell has exactly one clock of the scan that reads it. The
  line and the half of the panel select one of the four quarters of its rows
  (`Quarter`), without overlap.
* `TypeCorrect`: nothing is written outside of the plane buffers. `SetPixels`
  writes whatever cells the pixels that pass the checks are mapped to, and a cell
  outside of the buffers would stay in the domain of its plane.
* `ImplementsCanvas` (`PaintsWhatItNames`), the refinement. `LevelKept` says that
  the planes of a level's bits are lit, together, for as long as the level says:
  after p planes, the time lit and what is left of the level, shifted right by p,
  are the level (`Split`, by induction on p). With that and the two theorems
  above, `SetPixels` is a `Paint` and a `RefreshPass` a `View`. The hypothesis
  `Depth >= 3` is `COLOR_DEPTH`, 3 bits for the levels 0 to 7 of the gamma table;
  with fewer planes the theorem is false.
* `TextScrollsThrough` (`ScrollsThrough`): `FramesInv` says what the front and the
  back planes show at each place of `scroll_text`: the frame just drawn, the one
  before it, or nothing. `TextMoves` and `TextWidth` relate the frames.
  `GeometryAssumption` asks of the data what their C types give: 8-bit colours,
  strings and bitmaps with an end, and dots within the width of the font.

**Settings and brightness.**

* `TypeCorrect`: whatever the argument, the duty fits into the 6 bits of the
  timer.
* `UndisturbedRowsAreDark`, `UndisturbedRowsAreLit`: `RowInv` follows the register
  and the PWM through the steps of a row; a call that overlaps the row falsifies
  its premise, and `WriteOff` restores all of it.
* `StoresAtomically` (`SettingsAreRegisters`), the refinement: `EraseInv` says
  that the storage is not in use while it is erased, that past `nvs_open` it is,
  and that a load starts from the default.

**Induction.** A recursive definition (the digits of a number, the packets sent
one behind the other) is reasoned about through `Recursion`: `UpTo` is induction
on the numbers up to n, `RecursionExists` the existence of what a first value
and a rule determine. Both speak of a set and of functions, since the provers do
not instantiate predicates.

Only model-checked: the liveness properties (`HeldIsServed`, `StartupSyncs`,
`LatestShown`, `BrightnessSettles`), which are out of the prover's reach, as is
ENABLED; and `CrcNeverByChance`, which holds for the packets and damages of the run
and not for all (16 bits of CRC do not detect everything). On a noisy line
`AcceptedAsSent` and `NoSilentLoss` are proved from it, and are as strong as it is.

## Findings

* `buttons_stale` / `LongPressConfirmed`: while the task waits for the release
  of one button, a second one that was pending can be released and pressed again
  unseen. The scan then measures from the old `press_tick`, and a press of a few
  ticks sends its command. `ui_node.c:145` says "Long press confirmed".
* `sequence_race` / `SequenceIncreases`: two tasks in `ui_send_command` put
  frames on the line with equal or decreasing numbers; `protocol.h:49` says
  "monotonically increasing".
* `panel_swap` / `AtomicPlaneSwap`: `swap_buffers` exchanges the planes one by
  one without a lock; `led_panel.c:401` calls it an "atomic plane swap". One
  scan may mix two frames. `EveryFrameShown` says that this is repaired.

## Not modelled

* Calls that `app_main` does not make are modelled as calls of a task that makes
  them in any order (`PanelSettings`, `scroll_text`, `draw_bitmap_rgb`) or with
  and without their initialization (`RxLog`). Today the node makes none of them
  (`main.c:300` and `302` are comments). `scroll_text` is not run against
  `refresh_task`: with a `speed_ms` below one tick it would not wait, and
  `NoFlicker` would not carry over.
* Errors of `nvs_open` other than a storage that is not initialized or a
  namespace that is not there (no memory): `load_*` would return the default.
* Damage inside a text line that leaves it readable. The lines have no checksum
  and `parse_test_mode_state` compares mode and limit each with a list of its
  own, so the code promises nothing then.
* `ui.c` and the reports of packets, which only log; `g_system_data` and
  `local_sequence`, which only the status packet uses, that the node never
  builds; `ui_state_elapsed_now`, never called; the commented-out block from
  `led_panel.c:420` on; the second header layout from `protocol.h:197` on.
* Pin, PWM and UART configuration: hardware set-up in a fixed order before any
  task runs.
* `ButtonTask` and `ModeSync` are not composed. Each over-approximates the other:
  `ModeSync` lets `button_task` send any command at any time, `ButtonTask` lets
  `handle_button` return at any time within the lag of a pass. A frame is
  shorter than the UART's FIFO and presses are 300 ms apart, so the write does
  not wait for room.
* Times below a tick, and the analogue side of the panel.

`load_mode` returns 4 when nothing is stored, where its comment says "default 0
if not set" (`led_panel.c:80`); the model has the 4 of the code.

## Plan

Every invariant and action property that holds for all constants is proved, and the
binary receiver's promises on a noisy line from `CrcNeverByChance`. Open is to
prove that one for a class of damage that CRC-16 detects for certain (one burst of
up to 16 bits) in place of the run's enumerated damages: an induction over the
bits of a packet.
