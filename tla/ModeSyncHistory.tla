--------------------------- MODULE ModeSyncHistory ---------------------------
(***************************************************************************)
(* ModeSync with history variables, and its properties. The history only   *)
(* watches: it restricts no step of ModeSync.                              *)
(***************************************************************************)
EXTENDS ModeSync

CONSTANT NoSeq  \* a model value: no such sequence number yet

VARIABLES
  last_seq,    \* the number of the last frame written, or NoSeq
  alone,       \* button_task loaded its number after the sync task was deleted
  last_alone,  \* so had it when it wrote the last frame
  late,        \* requests written after master_mode_received was set (at most 2)
  missed       \* the last line the master sent did not arrive

history == <<last_seq, alone, last_alone, late, missed>>
hvars == <<vars, history>>

HInit ==
  /\ Init
  /\ last_seq = NoSeq
  /\ alone = FALSE
  /\ last_alone = FALSE
  /\ late = 0
  /\ missed = FALSE

\* The type invariant of the mode synchronization (TypeOK), and of the history.
HistoryTypeOK ==
  /\ TypeOK
  /\ last_seq \in SeqNumbers \cup {NoSeq}
  /\ alone \in BOOLEAN
  /\ last_alone \in BOOLEAN
  /\ late \in 0 .. 2
  /\ missed \in BOOLEAN

\* The master sends a line in this step.
Reports == MasterTakes /\ Head(wire).cmd \in {"SWITCH_MODE", "REQUEST_STATE"}

\* The node has nothing to remember of what it did before a reset.
ObserveReset ==
  /\ last_seq' = NoSeq
  /\ alone' = FALSE
  /\ last_alone' = FALSE
  /\ late' = 0
  /\ UNCHANGED missed

ObserveStep ==
  /\ last_seq' = IF \E t \in Tasks : WriteFrame(t) THEN wire'[Len(wire')].seq ELSE last_seq
  /\ alone' = IF LoadSequence("button_task") THEN sync = "deleted" ELSE alone
  /\ last_alone' = IF WriteFrame("button_task") THEN alone ELSE last_alone
  /\ late' = IF WriteFrame("master_sync") /\ master_mode_received /\ late < 2
             THEN late + 1 ELSE late
  /\ missed' = CASE Reports -> Len(lines') = Len(lines)
                 [] ~Reports /\ LoseLine /\ Len(lines) = 1 -> TRUE
                 [] OTHER -> missed

Observe == IF NodeResets THEN ObserveReset ELSE ObserveStep

HSpec == HInit /\ [][Next /\ Observe]_hvars

FairHSpec == HSpec /\ Fairness

-----------------------------------------------------------------------------
(* Properties.                                                             *)

\* The startup synchronization is over only when the cycle limit the panel
\* shows has come from the master: the flag is raised last of the three stores.
SyncedMeansConfigured == master_mode_received => t_max_cycles # 0

\* The poll of master_mode_received and the sending of the request are not
\* atomic, so a request may go out after the answer is in; but only one.
OneLateRequest == late <= 1

\* Once the sync task is gone, the numbers of the frames button_task writes
\* are consecutive: whatever the race on the static variable did before, it
\* does not survive the startup.
ConsecutiveWhenAlone ==
  [][WriteFrame("button_task") /\ alone /\ last_alone
       => last_seq' = (last_seq + 1) % SeqMod]_hvars

\* When both directions of the link are drained and the last line was not
\* lost, the panel shows the mode and the cycle limit the master is in,
\* however requests and mode switches were interleaved.
AgreesWithMaster ==
  (/\ master_mode_received
   /\ rx = "read" /\ lines = <<>>
   /\ ~missed)
  => /\ current_test_mode = master_mode
     /\ t_max_cycles = MaxCycles(master_mode)

\* What the comment on the header's sequence field says ("monotonically
\* increasing", protocol.h:49): each frame carries a number after the previous
\* frame's, in the arithmetic of a counter that wraps.
SequenceIncreases ==
  [][last_seq # NoSeq /\ (\E t \in Tasks : WriteFrame(t))
       => (last_seq' - last_seq + SeqMod) % SeqMod \in 1 .. SeqMod \div 2]_hvars
=============================================================================
