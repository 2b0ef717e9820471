-------------------------------- MODULE RxLog --------------------------------
(***************************************************************************)
(* The receive log (main/ui_rx_log.c): ui_rx_log_push copies the head of a *)
(* packet into a bounded queue and never waits; ui_rx_log_task, at the     *)
(* lowest priority but one, prints what it takes from the queue.           *)
(***************************************************************************)
EXTENDS Integers, SequencesExt

CONSTANTS
  LogQueueLen,  \* RX_LOG_QUEUE_LEN (16)
  LogMaxBytes   \* RX_LOG_MAX_BYTES (64)

ASSUME LogAssumption == LogQueueLen \in Nat \ {0} /\ LogMaxBytes \in Nat \ {0}

VARIABLES
  log_created,  \* ui_rx_log_init has been called: rx_log_q is not NULL
  rx_log_q,     \* the messages in the queue
  printed       \* the messages printed so far

logVars == <<log_created, rx_log_q, printed>>

LogTypeOK ==
  /\ log_created \in BOOLEAN
  /\ \A m \in ToSet(rx_log_q \o printed) : Len(m) \in 1 .. LogMaxBytes
  /\ Len(rx_log_q) <= LogQueueLen

LogInit ==
  /\ log_created \in BOOLEAN
  /\ rx_log_q = <<>>
  /\ printed = <<>>

\* What a message keeps of a packet.
Message(data) == SubSeq(data, 1, IF Len(data) > LogMaxBytes THEN LogMaxBytes ELSE Len(data))

LogFull == Len(rx_log_q) = LogQueueLen

\* Mutant of Push: the oldest message makes room.
PushOverOldest(data) ==
  /\ rx_log_q' = IF ~log_created \/ data = <<>> THEN rx_log_q
                 ELSE Append(IF LogFull THEN Tail(rx_log_q) ELSE rx_log_q, Message(data))
  /\ UNCHANGED <<log_created, printed>>

\* ui_rx_log_push: without room the message is dropped.
Push(data) ==
  /\ rx_log_q' = IF ~log_created \/ data = <<>> \/ LogFull THEN rx_log_q
                 ELSE Append(rx_log_q, Message(data))
  /\ UNCHANGED <<log_created, printed>>

\* ui_rx_log_task
LogReceives ==
  /\ rx_log_q # <<>>
  /\ rx_log_q' = Tail(rx_log_q)
  /\ printed' = Append(printed, Head(rx_log_q))
  /\ UNCHANGED log_created
=============================================================================
