--------------------------- MODULE ModeSyncProofs ---------------------------
(***************************************************************************)
(* Theorems about ModeSync, for every range of the sequence counter and    *)
(* every length of the link and of the receive buffer.                     *)
(***************************************************************************)
EXTENDS ModeSyncHistory, SequenceTheorems, TLAPS

(***************************************************************************)
(* Type correctness.                                                       *)
(***************************************************************************)

\* What is left of a queue when its first element has been taken.
LEMMA QueueRest ==
  ASSUME NEW S, NEW q \in Seq(S), q # <<>>
  PROVE  /\ Head(q) \in S
         /\ Tail(q) \in Seq(S)
         /\ Len(Tail(q)) < Len(q)
BY HeadTailProperties

\* Every mode line carries one of the two modes and one of the two limits.
LEMMA LineTypes ==
  /\ \A m \in TestModes : LineOf(m) \in Lines
  /\ TestModes = {1, 2}
  /\ \A line \in Lines :
       line.mode \in TestModes /\ line.max \in {MODE_1_MAX_CYCLES, MODE_2_MAX_CYCLES}
BY DEF LineOf, Lines, TestModes, MaxCycles, TEST_MODE_1, TEST_MODE_2,
       MODE_1_MAX_CYCLES, MODE_2_MAX_CYCLES

\* The steps of ui_send_command keep the types of what they share.
LEMMA SenderTypes ==
  ASSUME SenderTypeOK, NEW t \in Tasks,
         (\E c \in Commands : CallSend(t, c)) \/ SendStep(t)
  PROVE  SenderTypeOK'
<1> USE SenderAssumption DEF SenderTypeOK, Goto
<1>1. CASE \E c \in Commands : CallSend(t, c)
  BY <1>1 DEF CallSend
<1>2. CASE LoadSequence(t)
  BY <1>2 DEF LoadSequence
<1>3. CASE StoreSequence(t)
  <2>1. (reg[t] + 1) % SeqMod \in SeqNumbers
    BY DEF SeqNumbers
  <2> QED BY <1>3, <2>1 DEF StoreSequence
<1>4. CASE WriteFrame(t)
  <2>1. BuildCommand(t) \in Frames
    BY <1>4 DEF WriteFrame, BuildCommand, Frames
  <2>2. 0 \in SeqNumbers
    BY DEF SeqNumbers
  <2> QED BY <1>4, <2>1, <2>2 DEF WriteFrame, Return
<1> QED BY <1>1, <1>2, <1>3, <1>4 DEF SendStep

\* The tasks that send, and the commands they send, are known to CommandSender.
LEMMA TasksAreKnown ==
  /\ "button_task" \in Tasks /\ "master_sync" \in Tasks
  /\ "REQUEST_STATE" \in Commands
  /\ ButtonCommands \subseteq Commands
BY TasksAssumption DEF ButtonCommands

\* Every variable keeps its type: the link and the receive buffer hold no more
\* than they have room for, whatever is sent, lost or late.
THEOREM TypeCorrect == Spec => []TypeOK
<1>1. Init => TypeOK
  <2> SUFFICES ASSUME Init PROVE TypeOK
    OBVIOUS
  <2>1. SenderTypeOK
    BY SenderAssumption, TasksAreKnown DEF Init, SenderInit, SenderTypeOK, SeqNumbers
  <2>2. rx_line = NoLine /\ current_test_mode \in TestModes
    BY LineTypes DEF Init, TEST_MODE_2
  <2>3. lines \in Seq(Lines) /\ Len(lines) <= LineLen
    BY LineAssumption DEF Init
  <2> QED
    BY <2>1, <2>2, <2>3 DEF Init, TypeOK
<1>2. TypeOK /\ [Next]_vars => TypeOK'
  <2> SUFFICES ASSUME TypeOK, [Next]_vars PROVE TypeOK'
    OBVIOUS
  <2> USE TasksAreKnown, LineTypes DEF TypeOK
  <2>1. CASE HandleButton
    <3>1. SenderTypeOK'
      BY <2>1, SenderTypes DEF HandleButton
    <3> QED BY <2>1, <3>1 DEF HandleButton, modeVars, rxVars, masterVars
  <2>2. CASE ButtonSends
    <3>1. SenderTypeOK'
      BY <2>2, SenderTypes DEF ButtonSends
    <3> QED BY <2>2, <3>1 DEF ButtonSends, modeVars, rxVars, masterVars
  <2>3. CASE SyncWakes \/ SyncCompletes
    <3>1. SenderTypeOK'
      BY <2>3 DEF SyncWakes, SyncCompletes, senderVars, SenderTypeOK
    <3> QED BY <2>3, <3>1 DEF SyncWakes, SyncCompletes, modeVars, rxVars, masterVars
  <2>4. CASE SyncRequests
    <3>1. SenderTypeOK'
      BY <2>4, SenderTypes DEF SyncRequests
    <3> QED BY <2>4, <3>1 DEF SyncRequests, modeVars, rxVars, masterVars
  <2>5. CASE SyncSends
    <3>1. SenderTypeOK'
      BY <2>5, SenderTypes DEF SyncSends
    <3> QED BY <2>5, <3>1 DEF SyncSends, modeVars, rxVars, masterVars
  <2>6. CASE RxStep
    <3>1. SenderTypeOK'
      BY <2>6 DEF RxStep, RxReadsLine, RxStoresMode, RxStoresCycles, RxRaisesFlag, senderVars,
                  SenderTypeOK
    <3>2. CASE RxReadsLine
      <4>1. Head(lines) \in Lines /\ Tail(lines) \in Seq(Lines) /\ Len(Tail(lines)) <= LineLen
        BY <3>2, QueueRest, LineAssumption DEF RxReadsLine
      <4> QED BY <3>1, <3>2, <4>1 DEF RxReadsLine, modeVars, masterVars
    <3>3. CASE RxStoresMode \/ RxStoresCycles \/ RxRaisesFlag
      BY <3>1, <3>3 DEF RxStoresMode, RxStoresCycles, RxRaisesFlag, masterVars, senderVars
    <3> QED BY <2>6, <3>2, <3>3 DEF RxStep
  <2>7. CASE MasterStarts
    <3>1. SenderTypeOK'
      BY <2>7 DEF MasterStarts, senderVars, SenderTypeOK
    <3> QED BY <2>7, <3>1 DEF MasterStarts, modeVars, rxVars
  <2>8. CASE MasterTakes
    <3>1. SenderTypeOK'
      <4>1. Tail(wire) \in Seq(Frames) /\ Len(Tail(wire)) <= WireLen
        BY <2>8, QueueRest, SenderAssumption DEF MasterTakes, SenderTypeOK
      <4> QED BY <2>8, <4>1 DEF MasterTakes, SenderTypeOK
    <3>2. master_mode' \in TestModes
      BY <2>8 DEF MasterTakes
    <3>3. lines' = lines \/ (Len(lines) < LineLen /\ lines' = Append(lines, LineOf(master_mode')))
      BY <2>8 DEF MasterTakes, ReportMode
    <3>4. lines' \in Seq(Lines) /\ Len(lines') <= LineLen
      BY <3>2, <3>3, LineAssumption
    <3> QED BY <2>8, <3>1, <3>2, <3>4 DEF MasterTakes, modeVars, rxVars
  <2>9. CASE LoseFrame
    <3>1. SenderTypeOK'
      <4>1. Tail(wire) \in Seq(Frames) /\ Len(Tail(wire)) <= WireLen
        BY <2>9, QueueRest, SenderAssumption DEF LoseFrame, SenderTypeOK
      <4> QED BY <2>9, <4>1 DEF LoseFrame, SenderTypeOK
    <3> QED BY <2>9, <3>1 DEF LoseFrame, modeVars, rxVars, masterVars
  <2>10. CASE LoseLine
    <3>1. SenderTypeOK'
      BY <2>10 DEF LoseLine, senderVars, SenderTypeOK
    <3>2. Tail(lines) \in Seq(Lines) /\ Len(Tail(lines)) <= LineLen
      BY <2>10, QueueRest, LineAssumption DEF LoseLine
    <3> QED BY <2>10, <3>1, <3>2 DEF LoseLine, modeVars, rxVars, masterVars
  <2>11. CASE NodeResets
    <3>1. SenderTypeOK'
      BY <2>11, SenderAssumption DEF NodeResets, SenderResets, SenderTypeOK, SeqNumbers
    <3> QED BY <2>11, <3>1 DEF NodeResets, masterVars, TEST_MODE_2
  <2>12. CASE UNCHANGED vars
    <3>1. SenderTypeOK'
      BY <2>12 DEF vars, senderVars, SenderTypeOK
    <3> QED BY <2>12, <3>1 DEF vars, modeVars, rxVars, masterVars
  <2> QED
    BY <2>1, <2>2, <2>3, <2>4, <2>5, <2>6, <2>7, <2>8, <2>9, <2>10, <2>11, <2>12 DEF Next, SyncStep
<1> QED BY <1>1, <1>2, PTL DEF Spec
(***************************************************************************)
(* The flag is raised after the cycle limit has been stored.               *)
(***************************************************************************)

SyncedInv == master_mode_received \/ rx = "flag" => t_max_cycles # 0

\* master_startup_sync_task ends only when the panel has the master's limit.
THEOREM FlagMeansConfigured == Spec => []SyncedMeansConfigured
<1>1. Init => SyncedInv
  BY DEF Init, SyncedInv
<1>2. TypeOK /\ SyncedInv /\ [Next]_vars => SyncedInv'
  <2> SUFFICES ASSUME TypeOK, SyncedInv, [Next]_vars PROVE SyncedInv'
    OBVIOUS
  <2>1. CASE RxStoresCycles
    <3>1. rx_line.max # 0
      BY <2>1, LineTypes DEF TypeOK, RxStoresCycles, MODE_1_MAX_CYCLES, MODE_2_MAX_CYCLES
    <3> QED BY <2>1, <3>1 DEF RxStoresCycles, SyncedInv
  <2>2. CASE RxReadsLine \/ RxStoresMode \/ RxRaisesFlag
    BY <2>2 DEF RxReadsLine, RxStoresMode, RxRaisesFlag, modeVars, SyncedInv
  <2>3. CASE NodeResets
    BY <2>3 DEF NodeResets, SyncedInv
  <2>4. CASE ~RxStep /\ ~NodeResets
    <3>1. UNCHANGED <<master_mode_received, rx, t_max_cycles>>
      BY <2>4 DEF Next, HandleButton, ButtonSends, SyncStep, SyncWakes, SyncRequests, SyncSends,
                  SyncCompletes, MasterStarts, MasterTakes, LoseFrame, LoseLine,
                  modeVars, rxVars, vars
    <3> QED BY <3>1 DEF SyncedInv
  <2> QED BY <2>1, <2>2, <2>3, <2>4 DEF RxStep
<1>3. SyncedInv => SyncedMeansConfigured
  BY DEF SyncedInv, SyncedMeansConfigured
<1> QED BY <1>1, <1>2, <1>3, TypeCorrect, PTL DEF Spec

(***************************************************************************)
(* The history restricts nothing.                                          *)
(***************************************************************************)

\* The history restricts nothing: every behaviour with it is one of ModeSync.
LEMMA HistoryRefines == HSpec => Spec
<1>1. HInit => Init
  BY DEF HInit
<1>2. [Next /\ Observe]_hvars => [Next]_vars
  BY DEF hvars, vars
<1> QED BY <1>1, <1>2, PTL DEF HSpec, Spec

(***************************************************************************)
(* Requests after the answer. A request is being sent only in "send", and  *)
(* sending begins only while the flag is down; so none has been late when  *)
(* one is sent, and after a late one the task finds the flag up.           *)
(***************************************************************************)

LateInv ==
  /\ place["master_sync"] # "idle" => sync = "send"
  /\ late \in 0 .. 1
  /\ ~master_mode_received => late = 0
  /\ sync = "send" => late = 0

\* At most one request goes out after the master's mode is known.
THEOREM AtMostOneLateRequest == HSpec => []OneLateRequest
<1>1. HInit => LateInv
  BY TasksAreKnown DEF HInit, Init, SenderInit, LateInv
<1>2. TypeOK /\ LateInv /\ [Next /\ Observe]_hvars => LateInv'
  <2> SUFFICES ASSUME TypeOK, LateInv, [Next /\ Observe]_hvars PROVE LateInv'
    OBVIOUS
  <2> DEFINE s == "master_sync"
  <2>1. place \in [Tasks -> {"idle", "load", "store", "write"}] /\ s \in Tasks
    BY TasksAreKnown DEF TypeOK, SenderTypeOK
  <2>write. WriteFrame(s) => place[s] = "write" /\ place'[s] = "idle"
    BY <2>1 DEF WriteFrame, Return, Goto
  <2>2. CASE (HandleButton \/ ButtonSends) /\ ObserveStep
    <3>1. UNCHANGED <<sync, master_mode_received>>
      BY <2>2 DEF HandleButton, ButtonSends, modeVars
    <3>2. place'[s] = place[s]
      BY <2>1, <2>2 DEF HandleButton, ButtonSends, CallSend, SendStep, LoadSequence,
                        StoreSequence, WriteFrame, Return, Goto
    <3>3. late' = late
      BY <2>2, <3>2, <2>write DEF ObserveStep
    <3> QED BY <3>1, <3>2, <3>3 DEF LateInv
  <2>3. CASE SyncRequests /\ ObserveStep
    <3>1. /\ UNCHANGED master_mode_received /\ ~master_mode_received
          /\ place[s] = "idle" /\ sync' = "send"
      BY <2>3 DEF SyncRequests, CallSend, modeVars
    <3>2. late' = late
      BY <2>3, <3>1, <2>write DEF ObserveStep
    <3> QED BY <3>1, <3>2 DEF LateInv
  <2>4. CASE SyncSends /\ ObserveStep
    <3>1. UNCHANGED master_mode_received /\ place[s] # "idle"
      BY <2>4 DEF SyncSends, SendStep, LoadSequence, StoreSequence, WriteFrame, modeVars
    <3>2. sync = "send" /\ late = 0
      BY <3>1 DEF LateInv
    <3>3. CASE WriteFrame(s)
      <4>1. place'[s] = "idle" /\ sync' = "sleep"
        BY <2>1, <2>4, <3>3 DEF WriteFrame, Return, Goto, SyncSends
      <4>2. late' = IF master_mode_received THEN 1 ELSE 0
        BY <2>4, <3>2, <3>3 DEF ObserveStep
      <4> QED BY <3>1, <4>1, <4>2 DEF LateInv
    <3>4. CASE LoadSequence(s) \/ StoreSequence(s)
      <4>1. place'[s] # "idle" /\ sync' = "send"
        BY <2>1, <2>4, <3>4 DEF LoadSequence, StoreSequence, Goto, SyncSends
      <4>2. late' = late
        BY <2>4, <4>1, <2>write DEF ObserveStep
      <4> QED BY <3>1, <3>2, <4>1, <4>2 DEF LateInv
    <3> QED BY <2>4, <3>3, <3>4 DEF SyncSends, SendStep
  <2>5. CASE (SyncWakes \/ SyncCompletes) /\ ObserveStep
    <3>1. UNCHANGED <<place, master_mode_received>> /\ sync # "send" /\ sync' # "send"
      BY <2>5 DEF SyncWakes, SyncCompletes, senderVars, modeVars
    <3>2. late' = late
      BY <2>5, <3>1, <2>write DEF ObserveStep
    <3> QED BY <3>1, <3>2 DEF LateInv
  <2>6. CASE (RxStep \/ MasterStarts \/ MasterTakes \/ LoseFrame \/ LoseLine) /\ ObserveStep
    <3>1. UNCHANGED <<place, sync>> /\ (master_mode_received => master_mode_received')
      BY <2>6 DEF RxStep, RxReadsLine, RxStoresMode, RxStoresCycles, RxRaisesFlag,
                  MasterStarts, MasterTakes, LoseFrame, LoseLine, senderVars, modeVars
    <3>2. late' = late
      BY <2>6, <3>1, <2>write DEF ObserveStep
    <3> QED BY <3>1, <3>2 DEF LateInv
  <2>7. CASE NodeResets /\ ObserveReset
    BY <2>1, <2>7 DEF NodeResets, SenderResets, ObserveReset, LateInv
  <2>8. CASE UNCHANGED hvars
    BY <2>8 DEF hvars, vars, senderVars, modeVars, history, LateInv
  <2> QED BY <2>2, <2>3, <2>4, <2>5, <2>6, <2>7, <2>8 DEF Next, SyncStep, Observe
<1>3. LateInv => OneLateRequest
  BY DEF LateInv, OneLateRequest
<1>4. HSpec => []TypeOK
  BY HistoryRefines, TypeCorrect
<1> QED BY <1>1, <1>2, <1>3, <1>4, PTL DEF HSpec

(***************************************************************************)
(* The panel agrees with the master. As long as the master's last line has *)
(* not been missed, it is found at the end of the lines in flight, or in   *)
(* rx_line, or in what uart_rx_task has stored.                            *)
(***************************************************************************)

AgreeInv ==
  /\ rx \in {"cycles", "flag"} => current_test_mode = rx_line.mode
  /\ rx = "flag" => t_max_cycles = rx_line.max
  /\ ~missed =>
       /\ lines # <<>> => lines[Len(lines)] = LineOf(master_mode)
       /\ lines = <<>> /\ rx # "read" => rx_line = LineOf(master_mode)
       /\ lines = <<>> /\ rx = "read" /\ master_mode_received =>
            current_test_mode = master_mode /\ t_max_cycles = MaxCycles(master_mode)

\* Taking the first line leaves the last one last, unless it was the only one.
LEMMA LastOfRest ==
  ASSUME NEW q \in Seq(Lines), q # <<>>
  PROVE  /\ Tail(q) = <<>> => Len(q) = 1 /\ Head(q) = q[Len(q)]
         /\ Tail(q) # <<>> => Len(q) # 1 /\ Tail(q)[Len(Tail(q))] = q[Len(q)]
<1>1. /\ Tail(q) \in Seq(Lines) /\ Len(Tail(q)) = Len(q) - 1
      /\ \A k \in 1 .. Len(Tail(q)) : Tail(q)[k] = q[k + 1]
  BY HeadTailProperties
<1>2. Len(q) \in Nat /\ Len(q) # 0 /\ Head(q) = q[1]
  BY EmptySeq
<1>3. Tail(q) = <<>> <=> Len(Tail(q)) = 0
  BY <1>1, EmptySeq
<1> QED BY <1>1, <1>2, <1>3

\* When the link is drained and its last line was not lost, the panel shows
\* the mode and the cycle limit of the master.
THEOREM PanelAgreesWithMaster == HSpec => []AgreesWithMaster
<1>1. HInit => AgreeInv
  BY DEF HInit, Init, AgreeInv
<1>2. TypeOK /\ AgreeInv /\ [Next /\ Observe]_hvars => AgreeInv'
  <2> SUFFICES ASSUME TypeOK, AgreeInv, [Next /\ Observe]_hvars PROVE AgreeInv'
    OBVIOUS
  <2> USE DEF TypeOK
  <2>1. CASE Reports /\ ObserveStep
    <3>1. UNCHANGED <<modeVars, rxVars>> /\ missed' = (Len(lines') = Len(lines))
      BY <2>1 DEF Reports, MasterTakes, ObserveStep
    <3>2. \/ lines' = lines
          \/ lines' = Append(lines, LineOf(master_mode'))
      BY <2>1 DEF Reports, MasterTakes, ReportMode
    <3>3. CASE lines' = lines
      BY <3>1, <3>3 DEF AgreeInv, modeVars, rxVars
    <3>4. CASE lines' = Append(lines, LineOf(master_mode'))
      <4>1. master_mode' \in TestModes
        BY <2>1, LineTypes DEF Reports, MasterTakes
      <4>2. lines' # <<>> /\ lines'[Len(lines')] = LineOf(master_mode')
        BY <3>4, <4>1, LineTypes, AppendProperties
      <4> QED BY <3>1, <4>2 DEF AgreeInv, modeVars, rxVars
    <3> QED BY <3>2, <3>3, <3>4
  <2>2. CASE LoseLine /\ ~Reports /\ ObserveStep
    <3>1. UNCHANGED <<modeVars, rxVars, master_mode>> /\ lines # <<>> /\ lines' = Tail(lines)
      BY <2>2 DEF LoseLine, masterVars
    <3>2. CASE Tail(lines) = <<>>
      <4>1. Len(lines) = 1
        BY <3>1, <3>2, LastOfRest
      <4>2. missed'
        BY <2>2, <4>1 DEF ObserveStep
      <4> QED BY <3>1, <4>2 DEF AgreeInv, modeVars, rxVars
    <3>3. CASE Tail(lines) # <<>>
      <4>1. Len(lines) # 1 /\ lines'[Len(lines')] = lines[Len(lines)]
        BY <3>1, <3>3, LastOfRest
      <4>2. missed' = missed
        BY <2>2, <4>1 DEF ObserveStep
      <4> QED BY <3>1, <3>3, <4>1, <4>2 DEF AgreeInv, modeVars, rxVars
    <3> QED BY <3>2, <3>3
  <2>3. CASE ~LoseLine /\ ~Reports /\ ObserveStep /\ Next /\ ~NodeResets
    <3>1. missed' = missed
      BY <2>3 DEF ObserveStep
    <3>2. CASE HandleButton \/ ButtonSends \/ SyncStep \/ MasterStarts \/ LoseFrame \/ MasterTakes
      <4>1. UNCHANGED <<modeVars, rxVars, lines, master_mode>>
        BY <2>3, <3>2 DEF HandleButton, ButtonSends, SyncStep, SyncWakes, SyncRequests, SyncSends,
                    SyncCompletes, MasterStarts, LoseFrame, masterVars, MasterTakes, Reports
      <4> QED BY <3>1, <4>1 DEF AgreeInv, modeVars, rxVars
    <3>3. CASE RxReadsLine
      <4>1. /\ UNCHANGED <<modeVars, master_mode>>
            /\ lines # <<>> /\ lines' = Tail(lines)
            /\ rx_line' = Head(lines) /\ rx' = "mode"
        BY <3>3 DEF RxReadsLine, masterVars
      <4>2. CASE Tail(lines) = <<>>
        <5>1. Head(lines) = lines[Len(lines)]
          BY <4>1, <4>2, LastOfRest
        <5> QED BY <3>1, <4>1, <4>2, <5>1 DEF AgreeInv, modeVars
      <4>3. CASE Tail(lines) # <<>>
        <5>1. lines'[Len(lines')] = lines[Len(lines)]
          BY <4>1, <4>3, LastOfRest
        <5> QED BY <3>1, <4>1, <4>3, <5>1 DEF AgreeInv, modeVars
      <4> QED BY <4>2, <4>3
    <3>4. CASE RxStoresMode \/ RxStoresCycles
      BY <3>1, <3>4 DEF RxStoresMode, RxStoresCycles, masterVars, AgreeInv
    <3>5. CASE RxRaisesFlag
      BY <3>1, <3>5 DEF RxRaisesFlag, masterVars, AgreeInv, LineOf
    <3> QED BY <2>3, <3>2, <3>3, <3>4, <3>5 DEF Next, RxStep
  <2>4. CASE NodeResets /\ ObserveReset
    BY <2>4 DEF NodeResets, ObserveReset, masterVars, AgreeInv
  <2>5. CASE UNCHANGED hvars
    BY <2>5 DEF hvars, vars, modeVars, rxVars, masterVars, history, AgreeInv
  <2> QED BY <2>1, <2>2, <2>3, <2>4, <2>5 DEF Observe
<1>3. AgreeInv => AgreesWithMaster
  BY DEF AgreeInv, AgreesWithMaster
<1>4. HSpec => []TypeOK
  BY HistoryRefines, TypeCorrect
<1> QED BY <1>1, <1>2, <1>3, <1>4, PTL DEF HSpec

(***************************************************************************)
(* Consecutive numbers. Once the sync task is deleted it is outside        *)
(* ui_send_command for good, so what button_task has loaded is what the    *)
(* static variable still holds when it stores the successor.               *)
(***************************************************************************)

AloneInv ==
  /\ place["master_sync"] # "idle" => sync = "send"
  /\ alone => sync = "deleted"
  /\ last_alone => alone
  /\ alone /\ place["button_task"] = "store" => sequence = reg["button_task"]
  /\ alone /\ place["button_task"] = "write" => sequence = (reg["button_task"] + 1) % SeqMod
  /\ last_alone /\ place["button_task"] \in {"idle", "load"} => sequence = (last_seq + 1) % SeqMod
  /\ last_alone /\ place["button_task"] \in {"store", "write"} =>
       reg["button_task"] = (last_seq + 1) % SeqMod

\* What a frame carries when it has been appended to the wire.
LEMMA LastWritten ==
  ASSUME SenderTypeOK, NEW t \in Tasks, WriteFrame(t)
  PROVE  /\ place[t] = "write" /\ place' = [place EXCEPT ![t] = "idle"]
         /\ sequence' = sequence
         /\ wire' # wire /\ wire'[Len(wire')].seq = reg[t]
<1>1. BuildCommand(t) \in Frames /\ BuildCommand(t).seq = reg[t]
  BY DEF WriteFrame, BuildCommand, Frames, SenderTypeOK
<1>2. wire' # wire /\ wire'[Len(wire')] = BuildCommand(t)
  BY <1>1, AppendProperties DEF WriteFrame, SenderTypeOK
<1> QED BY <1>1, <1>2 DEF WriteFrame, Return, Goto

\* Once master_startup_sync_task is deleted, the numbers of the frames that
\* button_task writes are consecutive.
THEOREM ConsecutiveOnceAlone == HSpec => ConsecutiveWhenAlone
<1> DEFINE b == "button_task"
           s == "master_sync"
<1>1. HInit => AloneInv
  BY TasksAreKnown DEF HInit, Init, SenderInit, AloneInv
<1>2. TypeOK /\ AloneInv /\ [Next /\ Observe]_hvars => AloneInv'
  <2> SUFFICES ASSUME TypeOK, AloneInv, [Next /\ Observe]_hvars PROVE AloneInv'
    OBVIOUS
  <2>1. /\ SenderTypeOK
        /\ place \in [Tasks -> {"idle", "load", "store", "write"}]
        /\ b \in Tasks /\ s \in Tasks /\ Tasks = {b, s}
    BY TasksAreKnown, TasksAssumption DEF TypeOK, SenderTypeOK
  <2>2. \A t \in Tasks : ~WriteFrame(t) \/ (place[t] = "write" /\ place'[t] = "idle")
    BY <2>1 DEF WriteFrame, Return, Goto
  <2>3. LoadSequence(b) => place[b] = "load" /\ place'[b] = "store"
    BY <2>1 DEF LoadSequence, Goto
  <2>4. CASE HandleButton /\ ObserveStep
    <3>1. /\ place[b] = "idle" /\ place' = [place EXCEPT ![b] = "load"]
          /\ UNCHANGED <<sequence, sync>>
      BY <2>4 DEF HandleButton, CallSend, Goto
    <3>2. UNCHANGED <<alone, last_alone, last_seq>>
      BY <2>1, <2>2, <2>3, <2>4, <3>1 DEF ObserveStep
    <3> QED BY <2>1, <3>1, <3>2 DEF AloneInv
  <2>5. CASE ButtonSends /\ LoadSequence(b) /\ ObserveStep
    <3>1. /\ place[b] = "load" /\ place' = [place EXCEPT ![b] = "store"]
          /\ reg' = [reg EXCEPT ![b] = sequence] /\ UNCHANGED <<sequence, sync>>
      BY <2>5 DEF ButtonSends, LoadSequence, Goto
    <3>2. UNCHANGED <<last_alone, last_seq>> /\ alone' = (sync = "deleted")
      BY <2>1, <2>2, <2>5, <3>1 DEF ObserveStep
    <3>3. reg'[b] = sequence
      BY <2>1, <3>1 DEF SenderTypeOK
    <3> QED BY <2>1, <3>1, <3>2, <3>3 DEF AloneInv
  <2>6. CASE ButtonSends /\ StoreSequence(b) /\ ObserveStep
    <3>1. /\ place[b] = "store" /\ place' = [place EXCEPT ![b] = "write"]
          /\ sequence' = (reg[b] + 1) % SeqMod /\ UNCHANGED <<reg, sync>>
      BY <2>6 DEF ButtonSends, StoreSequence, Goto
    <3>2. UNCHANGED <<alone, last_alone, last_seq>>
      BY <2>1, <2>2, <2>3, <2>6, <3>1 DEF ObserveStep
    <3> QED BY <2>1, <3>1, <3>2 DEF AloneInv
  <2>7. CASE ButtonSends /\ WriteFrame(b) /\ ObserveStep
    <3>1. /\ place[b] = "write" /\ place' = [place EXCEPT ![b] = "idle"]
          /\ UNCHANGED <<sequence, sync>>
      BY <2>1, <2>7, LastWritten DEF ButtonSends
    <3>2. last_alone' = alone /\ alone' = alone /\ last_seq' = reg[b]
      BY <2>1, <2>3, <2>7, <3>1, LastWritten DEF ObserveStep
    <3> QED BY <2>1, <3>1, <3>2 DEF AloneInv
  <2>8. CASE (SyncRequests \/ SyncSends) /\ ObserveStep
    <3>1. /\ place'[b] = place[b] /\ reg'[b] = reg[b]
          /\ sync # "deleted" /\ sync' \in {"send", "sleep"}
          /\ place'[s] # "idle" => sync' = "send"
      BY <2>1, <2>8 DEF SyncRequests, SyncSends, CallSend, SendStep, LoadSequence,
                        StoreSequence, WriteFrame, Return, Goto, SenderTypeOK, AloneInv
    <3>2. ~alone /\ ~last_alone
      BY <3>1 DEF AloneInv
    <3>3. ~alone' /\ ~last_alone'
      BY <2>1, <2>2, <2>3, <2>8, <3>1, <3>2 DEF ObserveStep
    <3> QED BY <3>1, <3>3 DEF AloneInv
  <2>9. CASE /\ \/ SyncWakes \/ SyncCompletes \/ RxStep \/ MasterStarts
                \/ MasterTakes \/ LoseFrame \/ LoseLine
             /\ ObserveStep
    <3>1. UNCHANGED <<place, reg, sequence>>
      BY <2>9 DEF SyncWakes, SyncCompletes, RxStep, RxReadsLine, RxStoresMode, RxStoresCycles,
                  RxRaisesFlag, MasterStarts, MasterTakes, LoseFrame, LoseLine, senderVars
    <3>2. (sync # "send" /\ sync # "deleted") \/ sync' = sync
      BY <2>9 DEF SyncWakes, SyncCompletes, RxStep, RxReadsLine, RxStoresMode, RxStoresCycles,
                  RxRaisesFlag, MasterStarts, MasterTakes, LoseFrame, LoseLine
    <3>3. UNCHANGED <<alone, last_alone, last_seq>>
      BY <2>1, <2>2, <2>3, <2>9, <3>1 DEF ObserveStep
    <3> QED BY <3>1, <3>2, <3>3 DEF AloneInv
  <2>10. CASE NodeResets /\ ObserveReset
    BY <2>1, <2>10 DEF NodeResets, SenderResets, ObserveReset, AloneInv
  <2>11. CASE UNCHANGED hvars
    BY <2>11 DEF hvars, vars, senderVars, history, AloneInv
  <2> QED BY <2>4, <2>5, <2>6, <2>7, <2>8, <2>9, <2>10, <2>11
          DEF Next, SyncStep, Observe, ButtonSends, SendStep
<1>3. TypeOK /\ AloneInv /\ [Next /\ Observe]_hvars
        => (WriteFrame(b) /\ alone /\ last_alone => last_seq' = (last_seq + 1) % SeqMod)
  <2> SUFFICES ASSUME TypeOK, AloneInv, [Next /\ Observe]_hvars, WriteFrame(b), last_alone
               PROVE  last_seq' = (last_seq + 1) % SeqMod
    OBVIOUS
  <2>1. SenderTypeOK /\ b \in Tasks
    BY TasksAreKnown DEF TypeOK
  <2>2. place[b] = "write" /\ wire'[Len(wire')].seq = reg[b] /\ wire' # wire
    BY <2>1, LastWritten
  <2>3. Observe /\ ~NodeResets
    BY <2>2 DEF NodeResets, SenderResets, hvars, vars, senderVars
  <2>4. last_seq' = reg[b]
    BY <2>1, <2>2, <2>3 DEF Observe, ObserveStep
  <2> QED BY <2>2, <2>4 DEF AloneInv
<1>4. HSpec => []TypeOK
  BY HistoryRefines, TypeCorrect
<1> QED BY <1>1, <1>2, <1>3, <1>4, PTL DEF HSpec, ConsecutiveWhenAlone

(***************************************************************************)
(* The history.                                                            *)
(***************************************************************************)

\* What the history remembers are sequence numbers, flags and a bounded count.
THEOREM HistoryTypeCorrect == HSpec => []HistoryTypeOK
<1>1. HInit /\ TypeOK => HistoryTypeOK
  <2>1. HInit => late \in 0 .. 2
    BY DEF HInit
  <2> QED BY <2>1 DEF HInit, HistoryTypeOK
<1>2. TypeOK /\ TypeOK' /\ HistoryTypeOK /\ [Next /\ Observe]_hvars => HistoryTypeOK'
  <2> SUFFICES ASSUME TypeOK, TypeOK', HistoryTypeOK, [Next /\ Observe]_hvars PROVE HistoryTypeOK'
    OBVIOUS
  <2>1. CASE ObserveStep
    <3>1. ASSUME NEW t \in Tasks, WriteFrame(t) PROVE wire'[Len(wire')].seq \in SeqNumbers
      BY <3>1, LastWritten DEF TypeOK, SenderTypeOK
    <3>2. last_seq' \in SeqNumbers \cup {NoSeq}
      BY <2>1, <3>1 DEF ObserveStep, HistoryTypeOK
    <3>3. missed' \in BOOLEAN
      BY <2>1 DEF ObserveStep, HistoryTypeOK
    <3>4. late' \in 0 .. 2
      BY <2>1 DEF ObserveStep, HistoryTypeOK
    <3>5. alone' \in BOOLEAN /\ last_alone' \in BOOLEAN
      BY <2>1 DEF ObserveStep, HistoryTypeOK
    <3> QED BY <3>2, <3>3, <3>4, <3>5 DEF HistoryTypeOK
  <2>2. CASE ObserveReset
    <3>1. late' \in 0 .. 2
      BY <2>2 DEF ObserveReset
    <3> QED BY <2>2, <3>1 DEF ObserveReset, HistoryTypeOK
  <2>3. CASE UNCHANGED hvars
    BY <2>3 DEF hvars, history, HistoryTypeOK
  <2> QED BY <2>1, <2>2, <2>3 DEF Observe
<1>3. HSpec => []TypeOK
  BY HistoryRefines, TypeCorrect
<1> QED BY <1>1, <1>2, <1>3, PTL DEF HSpec
=============================================================================
