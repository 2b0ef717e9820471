------------------------------ MODULE ModeSync ------------------------------
(***************************************************************************)
(* How the UI node learns the master's test mode (main/main.c).            *)
(*                                                                         *)
(* master_startup_sync_task asks the master for its state until a valid    *)
(* TEST_MODE line has come back; uart_rx_task stores what the line says    *)
(* and raises master_mode_received; button_task meanwhile sends the user's *)
(* commands over the same link, one of which makes the master change its   *)
(* mode. Frames and lines may be lost, the master may start late, and the  *)
(* node may be reset at any time and then starts all over.                 *)
(*                                                                         *)
(* The master is not part of the repository: its actions say what the UI   *)
(* code expects of it. A line here is either delivered or lost; damage     *)
(* that leaves a line readable is not modelled in this module.             *)
(***************************************************************************)
EXTENDS CommandSender

CONSTANT LineLen  \* lines in flight at most, bounded by the UART receive buffer

ASSUME LineAssumption == LineLen \in Nat \ {0}

ASSUME TasksAssumption ==
  /\ Tasks = {"button_task", "master_sync"}
  /\ Commands = {"START_TEST", "STOP_TEST", "SWITCH_MODE", "REQUEST_STATE"}

TEST_MODE_1 == 1
TEST_MODE_2 == 2
TestModes == {TEST_MODE_1, TEST_MODE_2}
MODE_1_MAX_CYCLES == 500
MODE_2_MAX_CYCLES == 250
MaxCycles(m) == IF m = TEST_MODE_1 THEN MODE_1_MAX_CYCLES ELSE MODE_2_MAX_CYCLES

\* TEST_MODE=<mode>,MAX_CYCLES=<max>
Lines == [mode : TestModes, max : {MODE_1_MAX_CYCLES, MODE_2_MAX_CYCLES}]

\* received_mode and received_max_cycles are not in scope.
NoLine == [mode |-> 0, max |-> 0]

VARIABLES
  sync,                  \* place of master_startup_sync_task
  master_mode_received,  \* set by uart_rx_task, polled by the sync task
  current_test_mode,     \* the mode and ...
  t_max_cycles,          \* ... the cycle limit that the panel shows
  rx,                    \* place of uart_rx_task: the next store it makes
  rx_line,               \* the line uart_rx_task has parsed
  lines,                 \* lines sent by the master and not yet read
  master_ready,          \* master: it has started
  master_mode            \* master: its test mode

modeVars == <<master_mode_received, current_test_mode, t_max_cycles>>
rxVars == <<rx, rx_line>>
masterVars == <<master_ready, master_mode>>
vars == <<senderVars, sync, modeVars, rxVars, lines, masterVars>>

\* The type invariant of the mode variables, the receiver and the two
\* directions of the link, each of which stays within its buffer.
TypeOK ==
  /\ SenderTypeOK
  /\ sync \in {"delay", "check", "send", "sleep", "deleted"}
  /\ master_mode_received \in BOOLEAN
  /\ current_test_mode \in TestModes
  /\ t_max_cycles \in {0, MODE_1_MAX_CYCLES, MODE_2_MAX_CYCLES}
  /\ rx \in {"read", "mode", "cycles", "flag"}
  /\ rx_line \in Lines \cup {NoLine}
  /\ rx # "read" => rx_line \in Lines
  /\ lines \in Seq(Lines)
  /\ Len(lines) <= LineLen
  /\ master_ready \in BOOLEAN
  /\ master_mode \in TestModes

LineOf(m) == [mode |-> m, max |-> MaxCycles(m)]

Init ==
  /\ SenderInit
  /\ sync = "delay"
  /\ master_mode_received = FALSE
  /\ current_test_mode = TEST_MODE_2
  /\ t_max_cycles = 0
  /\ rx = "read"
  /\ rx_line = NoLine
  /\ lines = <<>>
  /\ master_ready \in BOOLEAN
  /\ master_mode \in TestModes

-----------------------------------------------------------------------------
(* button_task: handle_button sends one command per confirmed press.       *)

\* The command of each button; the scan that decides to send it is ButtonTask.
ButtonCommands == {"START_TEST", "SWITCH_MODE", "STOP_TEST"}

HandleButton ==
  /\ \E c \in ButtonCommands : CallSend("button_task", c)
  /\ UNCHANGED <<sync, modeVars, rxVars, lines, masterVars>>

ButtonSends ==
  /\ SendStep("button_task")
  /\ UNCHANGED <<sync, modeVars, rxVars, lines, masterVars>>

-----------------------------------------------------------------------------
(* master_startup_sync_task.                                               *)

\* vTaskDelay of 200 ms before the loop, of 1000 ms in it.
SyncWakes ==
  /\ sync \in {"delay", "sleep"}
  /\ sync' = "check"
  /\ UNCHANGED <<senderVars, modeVars, rxVars, lines, masterVars>>

\* Mutant of SyncRequests: the loop does not look at the flag.
SyncRequestsAlways ==
  /\ sync = "check"
  /\ CallSend("master_sync", "REQUEST_STATE")
  /\ sync' = "send"
  /\ UNCHANGED <<modeVars, rxVars, lines, masterVars>>

SyncRequests ==
  /\ sync = "check"
  /\ ~master_mode_received
  /\ CallSend("master_sync", "REQUEST_STATE")
  /\ sync' = "send"
  /\ UNCHANGED <<modeVars, rxVars, lines, masterVars>>

\* Mutant of SyncSends: the request is sent once and never again.
SyncSendsOnce ==
  /\ SendStep("master_sync")
  /\ sync' = IF place'["master_sync"] = "idle" THEN "deleted" ELSE "send"
  /\ UNCHANGED <<modeVars, rxVars, lines, masterVars>>

SyncSends ==
  /\ SendStep("master_sync")
  /\ sync' = IF place'["master_sync"] = "idle" THEN "sleep" ELSE "send"
  /\ UNCHANGED <<modeVars, rxVars, lines, masterVars>>

\* vTaskDelete(NULL)
SyncCompletes ==
  /\ sync = "check"
  /\ master_mode_received
  /\ sync' = "deleted"
  /\ UNCHANGED <<senderVars, modeVars, rxVars, lines, masterVars>>

-----------------------------------------------------------------------------
(* uart_rx_task: parse_test_mode_state accepts the line, then three stores. *)

\* Mutant of RxReadsLine: after the startup, mode lines are ignored.
RxReadsLineOnce ==
  /\ rx = "read"
  /\ lines # <<>>
  /\ rx_line' = Head(lines)
  /\ lines' = Tail(lines)
  /\ rx' = IF master_mode_received THEN "read" ELSE "mode"
  /\ UNCHANGED <<senderVars, sync, modeVars, masterVars>>

RxReadsLine ==
  /\ rx = "read"
  /\ lines # <<>>
  /\ rx_line' = Head(lines)
  /\ lines' = Tail(lines)
  /\ rx' = "mode"
  /\ UNCHANGED <<senderVars, sync, modeVars, masterVars>>

\* Mutant of RxStoresMode: the flag is raised before the cycles are stored.
RxStoresModeFirst ==
  /\ rx = "mode"
  /\ current_test_mode' = rx_line.mode
  /\ master_mode_received' = TRUE
  /\ rx' = "cycles"
  /\ UNCHANGED <<senderVars, sync, t_max_cycles, rx_line, lines, masterVars>>

RxStoresMode ==
  /\ rx = "mode"
  /\ current_test_mode' = rx_line.mode
  /\ rx' = "cycles"
  /\ UNCHANGED <<senderVars, sync, master_mode_received, t_max_cycles, rx_line, lines, masterVars>>

RxStoresCycles ==
  /\ rx = "cycles"
  /\ t_max_cycles' = rx_line.max
  /\ rx' = "flag"
  /\ UNCHANGED <<senderVars, sync, master_mode_received, current_test_mode, rx_line, lines, masterVars>>

RxRaisesFlag ==
  /\ rx = "flag"
  /\ master_mode_received' = TRUE
  /\ rx' = "read"
  /\ rx_line' = NoLine
  /\ UNCHANGED <<senderVars, sync, current_test_mode, t_max_cycles, lines, masterVars>>

RxStep == RxReadsLine \/ RxStoresMode \/ RxStoresCycles \/ RxRaisesFlag

-----------------------------------------------------------------------------
(* The master and the link (external).                                     *)

MasterStarts ==
  /\ ~master_ready
  /\ master_ready' = TRUE
  /\ UNCHANGED <<senderVars, sync, modeVars, rxVars, lines, master_mode>>

\* A line for which the receive buffer has no room is lost.
ReportMode(m) == lines' = IF Len(lines) < LineLen THEN Append(lines, LineOf(m)) ELSE lines

MasterTakes ==
  /\ master_ready
  /\ wire # <<>>
  /\ wire' = Tail(wire)
  /\ LET c == Head(wire).cmd IN
       /\ master_mode' = IF c = "SWITCH_MODE" THEN 3 - master_mode ELSE master_mode
       /\ IF c \in {"SWITCH_MODE", "REQUEST_STATE"} THEN ReportMode(master_mode')
                                                    ELSE UNCHANGED lines
  /\ UNCHANGED <<sequence, place, reg, command, sync, modeVars, rxVars, master_ready>>

\* A frame is damaged, or reaches a master that has not started.
LoseFrame ==
  /\ wire # <<>>
  /\ wire' = Tail(wire)
  /\ UNCHANGED <<sequence, place, reg, command, sync, modeVars, rxVars, lines, masterVars>>

\* A line is damaged: parse_test_mode_state rejects it.
LoseLine ==
  /\ lines # <<>>
  /\ lines' = Tail(lines)
  /\ UNCHANGED <<senderVars, sync, modeVars, rxVars, masterVars>>

-----------------------------------------------------------------------------
\* The node is reset (a power dip, the reset pin): app_main starts every task
\* anew; what is on the line, and the master, go on.
NodeResets ==
  /\ SenderResets
  /\ sync' = "delay"
  /\ master_mode_received' = FALSE
  /\ current_test_mode' = TEST_MODE_2
  /\ t_max_cycles' = 0
  /\ rx' = "read"
  /\ rx_line' = NoLine
  /\ UNCHANGED <<lines, masterVars>>

SyncStep == SyncWakes \/ SyncRequests \/ SyncSends \/ SyncCompletes

Next ==
  \/ HandleButton \/ ButtonSends
  \/ SyncStep
  \/ RxStep
  \/ MasterStarts \/ MasterTakes \/ LoseFrame \/ LoseLine
  \/ NodeResets

Spec == Init /\ [][Next]_vars

\* The master answers a request of the sync task (and not only button frames).
MasterAnswers == MasterTakes /\ Head(wire).cmd = "REQUEST_STATE"

\* Every task keeps running; the sync task is not starved of the UART by button
\* commands, each of which takes a 300 ms press; the master starts; neither the
\* frames of the sync task nor the lines are all lost.
Fairness ==
  /\ WF_vars(SyncWakes) /\ WF_vars(SyncRequests) /\ WF_vars(SyncCompletes)
  /\ SF_vars(SyncSends)
  /\ WF_vars(RxStep) /\ SF_vars(RxReadsLine)
  /\ WF_vars(MasterStarts) /\ SF_vars(MasterAnswers)
  /\ WF_vars(LoseFrame \/ MasterTakes)

FairSpec == Spec /\ Fairness

\* "Retry if the master was not ready or the response was lost"
\* (main.c:271): when the node is not reset any more, the startup
\* synchronization comes to an end however late the master starts and however
\* many frames and lines are lost, as long as not all are; neither a retry that
\* races with the answer nor an answer to a question from before the reset
\* does harm.
StartupSyncs ==
  <>[][~NodeResets]_vars => <>[](sync = "deleted" /\ t_max_cycles # 0)
=============================================================================
