---------------------------- MODULE ButtonHistory ----------------------------
(***************************************************************************)
(* ButtonTask with history variables, and the properties that need them.   *)
(* The history only watches: it restricts no step of ButtonTask.           *)
(***************************************************************************)
EXTENDS ButtonTask

CONSTANT MaxWait  \* ticks within which an accepted long press is confirmed

ASSUME HistoryAssumption == MaxWait \in Nat

VARIABLES
  issued,   \* issued[b]: commands sent during the present hold of b (at most 2)
  stalled,  \* stalled[b]: the task waited for another button's release while b was pending
  heard,    \* heard[b]: an edge of the present hold of b got into the queue
  waited    \* waited[b]: ticks b has been held, heard and not confirmed, while
            \* the task was not waiting for a release (at most MaxWait + 1)

history == <<issued, stalled, heard, waited>>
hvars == <<vars, history>>

\* The type invariant of ui_node.c (TypeOK), and of the history.
HistoryTypeOK ==
  /\ TypeOK
  /\ issued \in [Buttons -> 0 .. 2]
  /\ stalled \in [Buttons -> BOOLEAN]
  /\ heard \in [Buttons -> BOOLEAN]
  /\ waited \in [Buttons -> 0 .. MaxWait + 1]

HInit ==
  /\ Init
  /\ issued = [b \in Buttons |-> 0]
  /\ stalled = [b \in Buttons |-> FALSE]
  /\ heard = [b \in Buttons |-> FALSE]
  /\ waited = [b \in Buttons |-> 0]

Confirming(b) == pc = "scan" /\ pc' = "send" /\ i = b

Posting(b) == Len(button_queue') > Len(button_queue) /\ button_queue'[Len(button_queue')] = b

AtMost(n, bound) == IF n < bound THEN n ELSE bound

Observe ==
  /\ issued' = [b \in Buttons |->
       CASE level'[b] = 1 -> 0
         [] level'[b] # 1 /\ Confirming(b) -> AtMost(issued[b] + 1, 2)
         [] OTHER -> issued[b]]
  /\ stalled' = [b \in Buttons |-> pending'[b] /\ (stalled[b] \/ pc' = "release")]
  /\ heard' = [b \in Buttons |-> level'[b] = 0 /\ (heard[b] \/ Posting(b))]
  /\ waited' = [b \in Buttons |->
       CASE ~heard'[b] \/ issued'[b] > 0 -> 0
         [] heard'[b] /\ issued'[b] = 0 /\ tick' # tick /\ pc # "release"
              -> AtMost(waited[b] + 1, MaxWait + 1)
         [] OTHER -> waited[b]]

HNext == Next /\ Observe

HSpec == HInit /\ [][HNext]_hvars

-----------------------------------------------------------------------------
(* Properties.                                                             *)

\* What the comment "Long press confirmed" (ui_node.c:145) says: when the task
\* sends the command of a button, that button has been held down without a
\* break for LONG_PRESS_MS.
LongPressConfirmed == pc = "send" /\ level[i] = 0 => since[i] >= LongPress

\* When the task has not been waiting for the release of another button since
\* the press was noted, a confirmed press really lasted LONG_PRESS_MS, but for
\* the ticks one pass of the loop may straddle: no sequence of bounces, stale
\* queue entries, quick re-presses or tick wrap-around shortens it.
NoShortPress ==
  pc = "send" /\ level[i] = 0 /\ ~stalled[i] => since[i] + MaxLag >= LongPress

\* However long a button is held, and whatever the others do meanwhile, one
\* hold sends at most one command (START, SWITCH_MODE and STOP are not
\* idempotent for the master).
OneCommandPerHold == \A b \in Buttons : issued[b] <= 1

\* Bounces do not re-arm the long-press timer and stale edges do not starve it:
\* a hold whose edge reached the queue is confirmed within MaxWait ticks of
\* task time, whatever else is in the queue.
PromptCommand == \A b \in Buttons : waited[b] <= MaxWait
=============================================================================
