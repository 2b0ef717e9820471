---------------------------- MODULE CommandSender ----------------------------
(***************************************************************************)
(* ui_send_command (main/ui_transport.c) as the tasks that call it run it. *)
(*                                                                         *)
(* The sequence number is a static variable that no lock protects, and     *)
(* button_task and master_startup_sync_task call the function from two     *)
(* tasks that FreeRTOS may place on either core. sequence++ is a load and  *)
(* a store; uart_write_bytes is atomic, because the UART driver sends each *)
(* buffer under its own mutex.                                             *)
(***************************************************************************)
EXTENDS Integers, Sequences

CONSTANTS
  Tasks,     \* the tasks that call ui_send_command
  Commands,  \* the command ids they pass
  SeqMod,    \* 2^32, the range of the static variable sequence
  WireLen    \* frames in flight at most: the writer waits for room in the FIFO

ASSUME SenderAssumption ==
  /\ SeqMod \in Nat \ {0, 1}
  /\ WireLen \in Nat \ {0}

SeqNumbers == 0 .. SeqMod - 1

Frames == [seq : SeqNumbers, cmd : Commands]

\* No call: the arguments and the temporary of ui_send_command are not in scope.
NoCommand == "none"

VARIABLES
  sequence,  \* ui_send_command: static uint32_t sequence
  place,     \* place[t]: where t is in ui_send_command
  reg,       \* reg[t]: the value of sequence that t loaded
  command,   \* command[t]: the argument cmd_id of t's call
  wire       \* frames sent to the master and not yet there

senderVars == <<sequence, place, reg, command, wire>>

SenderTypeOK ==
  /\ sequence \in SeqNumbers
  /\ place \in [Tasks -> {"idle", "load", "store", "write"}]
  /\ reg \in [Tasks -> SeqNumbers]
  /\ command \in [Tasks -> Commands \cup {NoCommand}]
  /\ \A t \in Tasks : place[t] # "idle" => command[t] \in Commands
  /\ wire \in Seq(Frames)
  /\ Len(wire) <= WireLen

SenderInit ==
  /\ sequence = 1
  /\ place = [t \in Tasks |-> "idle"]
  /\ reg = [t \in Tasks |-> 0]
  /\ command = [t \in Tasks |-> NoCommand]
  /\ wire = <<>>

Goto(t, p) == place' = [place EXCEPT ![t] = p]

\* t calls ui_send_command(c, 0, 0).
CallSend(t, c) ==
  /\ place[t] = "idle"
  /\ Goto(t, "load")
  /\ command' = [command EXCEPT ![t] = c]
  /\ UNCHANGED <<sequence, reg, wire>>

\* sequence++ in the argument list: the old value is loaded and passed on ...
LoadSequence(t) ==
  /\ place[t] = "load"
  /\ reg' = [reg EXCEPT ![t] = sequence]
  /\ Goto(t, "store")
  /\ UNCHANGED <<sequence, command, wire>>

\* Mutant of StoreSequence: the static variable is narrower than the field.
StoreSequenceNarrow(t) ==
  /\ place[t] = "store"
  /\ sequence' = (reg[t] + 1) % (SeqMod - 1)
  /\ Goto(t, "write")
  /\ UNCHANGED <<reg, command, wire>>

\* ... and its successor is stored.
StoreSequence(t) ==
  /\ place[t] = "store"
  /\ sequence' = (reg[t] + 1) % SeqMod
  /\ Goto(t, "write")
  /\ UNCHANGED <<reg, command, wire>>

\* protocol_build_command_packet fills the header and the payload of the frame
\* that t is about to send.
BuildCommand(t) == [seq |-> reg[t], cmd |-> command[t]]

\* The call of t returns.
Return(t) ==
  /\ Goto(t, "idle")
  /\ reg' = [reg EXCEPT ![t] = 0]
  /\ command' = [command EXCEPT ![t] = NoCommand]

\* Mutant of WriteFrame: the call does not wait for room in the FIFO.
WriteFrameNoWait(t) ==
  /\ place[t] = "write"
  /\ wire' = Append(wire, BuildCommand(t))
  /\ Return(t)
  /\ UNCHANGED sequence

\* ui_uart_send_bytes: the frame goes out whole; the call returns.
WriteFrame(t) ==
  /\ place[t] = "write"
  /\ Len(wire) < WireLen
  /\ wire' = Append(wire, BuildCommand(t))
  /\ Return(t)
  /\ UNCHANGED sequence

SendStep(t) == LoadSequence(t) \/ StoreSequence(t) \/ WriteFrame(t)

\* The node is reset: the calls are gone and the static variable starts again.
\* Frames that have left the node are still on their way.
SenderResets ==
  /\ sequence' = 1
  /\ place' = [t \in Tasks |-> "idle"]
  /\ reg' = [t \in Tasks |-> 0]
  /\ command' = [t \in Tasks |-> NoCommand]
  /\ UNCHANGED wire
=============================================================================
