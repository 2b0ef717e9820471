----------------------------- MODULE ButtonTask -----------------------------
(***************************************************************************)
(* The push buttons of the UI node (main/ui_node.c).                       *)
(*                                                                         *)
(* Three actors share this state: the user, who moves the contacts; the    *)
(* GPIO interrupt button_isr, which posts every falling edge to            *)
(* button_queue and drops it when the queue is full; and button_task,      *)
(* which takes one edge per pass of its loop, then scans every button and  *)
(* sends a command for each one that has been down for LONG_PRESS_MS.      *)
(*                                                                         *)
(* Time is the FreeRTOS tick (10 ms: CONFIG_FREERTOS_HZ is 100), a counter *)
(* of type TickType_t that wraps at TickMod.                               *)
(***************************************************************************)
EXTENDS Integers, Sequences

CONSTANTS
  BtnCount,   \* BTN_COUNT
  QueueLen,   \* slots of button_queue (8)
  LongPress,  \* pdMS_TO_TICKS(LONG_PRESS_MS), 30 ticks
  PollTicks,  \* pdMS_TO_TICKS(POLL_MS), 1 tick; also the release polling period
  TickMod,    \* 2^32, the range of TickType_t
  MaxLag,     \* scheduling bound: ticks that may pass inside one pass of the loop
  MinStable,  \* user bound: ticks a contact keeps a level before it changes again
  MaxHold,    \* user bound: ticks a confirmed button is held at most
  MaxBounce   \* contact bound: spurious edges between two moves of a contact

ASSUME ButtonAssumption ==
  /\ BtnCount \in Nat \ {0}
  /\ QueueLen \in Nat \ {0}
  /\ LongPress \in Nat \ {0}
  /\ PollTicks \in Nat \ {0}
  /\ TickMod \in Nat
  /\ MaxLag \in Nat
  /\ MinStable \in Nat
  /\ MaxHold \in Nat
  /\ MaxBounce \in Nat
  /\ MinStable < MaxHold
  /\ LongPress < MaxHold
  /\ MaxHold < TickMod

Buttons == 0 .. BtnCount - 1
Ticks == 0 .. TickMod - 1

\* Where button_task is: blocked in (or about to enter) xQueueReceive, about to
\* read the tick count, at button i of the scan, inside handle_button(i), or in
\* the loop that waits for the release of i.
Places == {"receive", "now", "scan", "send", "release"}

VARIABLES
  level,         \* gpio_get_level of each pin: 1 is released, 0 is pressed
  since,         \* ticks since that level was taken, saturating at MaxHold
  chatter,       \* spurious edges the contact may still make at this level
  button_queue,  \* edges posted by the interrupt and not yet received
  pending,       \* btn_state[b].pending
  press_tick,    \* btn_state[b].press_tick
  tick,          \* xTaskGetTickCount()
  now,           \* button_task: the local variable now
  i,             \* button_task: the scan index
  pc,            \* button_task: its place in the loop
  timer,         \* button_task: ticks left of the wait it is in
  lag            \* ticks that passed in this pass while the task could run

contacts == <<level, since, chatter>>
btn_state == <<pending, press_tick>>
vars == <<level, since, chatter, button_queue, pending, press_tick, tick, now, i, pc, timer, lag>>

\* The type invariant of button_queue, btn_state and the locals of button_task: the
\* queue stays within its slots and the scan index within the buttons.
TypeOK ==
  /\ level \in [Buttons -> {0, 1}]
  /\ since \in [Buttons -> 0 .. MaxHold]
  /\ chatter \in [Buttons -> 0 .. MaxBounce]
  /\ button_queue \in Seq(Buttons)
  /\ Len(button_queue) <= QueueLen
  /\ pending \in [Buttons -> BOOLEAN]
  /\ press_tick \in [Buttons -> Ticks]
  /\ tick \in Ticks
  /\ now \in Ticks
  /\ i \in Buttons
  /\ pc \in Places
  /\ timer \in 0 .. PollTicks
  /\ lag \in 0 .. MaxLag

\* buttons_init; a button may be held from before the node was switched on or
\* reset. No interrupt has seen that edge, but the contact may still bounce, and a
\* bounce is then the first edge of the hold that raises one.
Init ==
  /\ level \in [Buttons -> {0, 1}]
  /\ since = [b \in Buttons |-> MaxHold]
  /\ chatter = [b \in Buttons |-> MaxBounce]
  /\ button_queue = <<>>
  /\ pending = [b \in Buttons |-> FALSE]
  /\ press_tick = [b \in Buttons |-> 0]
  /\ tick = 0
  /\ now = 0
  /\ i = 0
  /\ pc = "receive"
  /\ timer = PollTicks
  /\ lag = 0

-----------------------------------------------------------------------------
(* The contacts and the interrupt.                                         *)

\* button_isr: xQueueSendFromISR, whose result the code does not look at.
PostEdge(b) ==
  button_queue' = IF Len(button_queue) < QueueLen
                  THEN Append(button_queue, b)
                  ELSE button_queue

MoveContact(b, lv) ==
  /\ level[b] # lv
  /\ since[b] >= MinStable
  /\ level' = [level EXCEPT ![b] = lv]
  /\ since' = [since EXCEPT ![b] = 0]
  /\ chatter' = [chatter EXCEPT ![b] = MaxBounce]

\* The user presses b: the falling edge raises the interrupt.
Press(b) ==
  /\ MoveContact(b, 0)
  /\ PostEdge(b)
  /\ UNCHANGED <<btn_state, tick, now, i, pc, timer, lag>>

\* The user lets go of b: rising edges raise no interrupt.
LetGo(b) ==
  /\ MoveContact(b, 1)
  /\ UNCHANGED <<button_queue, btn_state, tick, now, i, pc, timer, lag>>

\* The contact of b chatters, or noise couples into its line: one more falling
\* edge, too short for gpio_get_level to see.
Bounce(b) ==
  /\ chatter[b] > 0
  /\ chatter' = [chatter EXCEPT ![b] = @ - 1]
  /\ PostEdge(b)
  /\ UNCHANGED <<level, since, btn_state, tick, now, i, pc, timer, lag>>

-----------------------------------------------------------------------------
(* Time.                                                                   *)

\* button_task sleeps in xQueueReceive or in vTaskDelay.
Blocked ==
  /\ timer > 0
  /\ pc = "receive" => button_queue = <<>>

\* One tick. It finds the task asleep, or takes from the MaxLag ticks that one
\* pass of the loop may last: button_task has the highest priority of the
\* program's tasks. Nobody holds a confirmed button for longer than MaxHold.
Tick ==
  /\ Blocked \/ lag < MaxLag
  /\ pc = "release" => level[i] = 1 \/ since[i] < MaxHold
  /\ tick' = (tick + 1) % TickMod
  /\ since' = [b \in Buttons |-> IF since[b] < MaxHold THEN since[b] + 1 ELSE MaxHold]
  /\ timer' = IF timer > 0 THEN timer - 1 ELSE 0
  /\ lag' = IF Blocked THEN lag ELSE lag + 1
  /\ UNCHANGED <<level, chatter, button_queue, btn_state, now, i, pc>>

-----------------------------------------------------------------------------
(* button_task.                                                            *)

\* Mutant of ReceiveEdge: every edge re-arms the timer of its button.
ReceiveEdgeRearms ==
  /\ pc = "receive"
  /\ button_queue # <<>>
  /\ LET b == Head(button_queue) IN
       /\ press_tick' = [press_tick EXCEPT ![b] = tick]
       /\ pending' = [pending EXCEPT ![b] = TRUE]
  /\ button_queue' = Tail(button_queue)
  /\ pc' = "now"
  /\ timer' = 0
  /\ UNCHANGED <<contacts, tick, now, i, lag>>

\* xQueueReceive returns an edge; a button that is already pending keeps the
\* tick of its first edge.
ReceiveEdge ==
  /\ pc = "receive"
  /\ button_queue # <<>>
  /\ LET b == Head(button_queue) IN
       /\ press_tick' = IF pending[b] THEN press_tick
                                      ELSE [press_tick EXCEPT ![b] = tick]
       /\ pending' = [pending EXCEPT ![b] = TRUE]
  /\ button_queue' = Tail(button_queue)
  /\ pc' = "now"
  /\ timer' = 0
  /\ UNCHANGED <<contacts, tick, now, i, lag>>

\* xQueueReceive returns pdFALSE after POLL_MS.
ReceiveTimeout ==
  /\ pc = "receive"
  /\ button_queue = <<>>
  /\ timer = 0
  /\ pc' = "now"
  /\ UNCHANGED <<contacts, button_queue, btn_state, tick, now, i, timer, lag>>

ReadNow ==
  /\ pc = "now"
  /\ now' = tick
  /\ i' = 0
  /\ pc' = "scan"
  /\ UNCHANGED <<contacts, button_queue, btn_state, tick, timer, lag>>

\* Mutant of Advance: the for loop runs to i <= BTN_COUNT.
AdvanceTooFar ==
  IF i + 1 <= BtnCount
  THEN /\ i' = i + 1
       /\ pc' = "scan"
       /\ timer' = 0
       /\ lag' = lag
  ELSE /\ i' = 0
       /\ pc' = "receive"
       /\ timer' = PollTicks
       /\ lag' = 0

\* The next button of the for loop, or the next pass of the while loop.
Advance ==
  IF i + 1 < BtnCount
  THEN /\ i' = i + 1
       /\ pc' = "scan"
       /\ timer' = 0
       /\ lag' = lag
  ELSE /\ i' = 0
       /\ pc' = "receive"
       /\ timer' = PollTicks
       /\ lag' = 0

\* now - press_tick, in the unsigned arithmetic of TickType_t.
Elapsed(b) == (now - press_tick[b] + TickMod) % TickMod

ScanIdle ==
  /\ pc = "scan"
  /\ ~pending[i]
  /\ Advance
  /\ UNCHANGED <<contacts, button_queue, btn_state, tick, now>>

\* Mutant of ScanReleased: pending is not cleared.
ScanReleasedKeepsPending ==
  /\ pc = "scan"
  /\ pending[i]
  /\ level[i] = 1
  /\ Advance
  /\ UNCHANGED <<contacts, button_queue, btn_state, tick, now>>

\* "Released too early"
ScanReleased ==
  /\ pc = "scan"
  /\ pending[i]
  /\ level[i] = 1
  /\ pending' = [pending EXCEPT ![i] = FALSE]
  /\ Advance
  /\ UNCHANGED <<contacts, button_queue, press_tick, tick, now>>

ScanTooSoon ==
  /\ pc = "scan"
  /\ pending[i]
  /\ level[i] = 0
  /\ Elapsed(i) < LongPress
  /\ Advance
  /\ UNCHANGED <<contacts, button_queue, btn_state, tick, now>>

\* "Long press confirmed": handle_button(i) is called.
Confirm ==
  /\ pc = "scan"
  /\ pending[i]
  /\ level[i] = 0
  /\ Elapsed(i) >= LongPress
  /\ pc' = "send"
  /\ UNCHANGED <<contacts, button_queue, btn_state, tick, now, i, timer, lag>>

\* Mutant of SendReturns: the flags of all buttons are cleared.
SendReturnsClearsAll ==
  /\ pc = "send"
  /\ pending' = [b \in Buttons |-> FALSE]
  /\ pc' = "release"
  /\ timer' = 0
  /\ UNCHANGED <<contacts, button_queue, press_tick, tick, now, i, lag>>

\* handle_button(i) returns; the pending flag is cleared.
SendReturns ==
  /\ pc = "send"
  /\ pending' = [pending EXCEPT ![i] = FALSE]
  /\ pc' = "release"
  /\ timer' = 0
  /\ UNCHANGED <<contacts, button_queue, press_tick, tick, now, i, lag>>

\* "Wait for release": the pin is still low, so the task sleeps for 10 ms.
StillHeld ==
  /\ pc = "release"
  /\ timer = 0
  /\ level[i] = 0
  /\ timer' = PollTicks
  /\ lag' = 0
  /\ UNCHANGED <<contacts, button_queue, btn_state, tick, now, i, pc>>

\* Mutant of Released: the release is not waited for.
ReleasedAtOnce ==
  /\ pc = "release"
  /\ timer = 0
  /\ Advance
  /\ UNCHANGED <<contacts, button_queue, btn_state, tick, now>>

Released ==
  /\ pc = "release"
  /\ timer = 0
  /\ level[i] = 1
  /\ Advance
  /\ UNCHANGED <<contacts, button_queue, btn_state, tick, now>>

-----------------------------------------------------------------------------
ContactStep == \E b \in Buttons : Press(b) \/ LetGo(b) \/ Bounce(b)

TaskStep ==
  \/ ReceiveEdge \/ ReceiveTimeout \/ ReadNow
  \/ ScanIdle \/ ScanReleased \/ ScanTooSoon \/ Confirm
  \/ SendReturns \/ StillHeld \/ Released

Next == ContactStep \/ Tick \/ TaskStep

Spec == Init /\ [][Next]_vars

\* The user eventually lets go of the button whose release is waited for.
LetGoOfConfirmed == pc = "release" /\ LetGo(i)

\* FreeRTOS runs the highest-priority ready task, and the tick interrupt runs.
FairSpec ==
  /\ Spec
  /\ WF_vars(TaskStep)
  /\ WF_vars(Tick)
  /\ WF_vars(LetGoOfConfirmed)

\* A queued edge of a button that stays down is never forgotten: its command
\* is sent, unless the button is released first. Neither queue order, nor the
\* wait for another button, nor the wrap of the tick counter loses it.
HeldIsServed ==
  \A b \in Buttons :
    (level[b] = 0 /\ \E k \in DOMAIN button_queue : button_queue[k] = b)
      ~> (level[b] = 1 \/ (pc = "send" /\ i = b))
=============================================================================
