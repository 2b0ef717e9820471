--------------------------- MODULE TextRxHistory ---------------------------
(***************************************************************************)
(* TextRx with history variables, and its properties. The history only     *)
(* watches: it restricts no step of TextRx.                                *)
(***************************************************************************)
EXTENDS TextRx

VARIABLES
  sent,       \* sent[k]: the last report of kind k the master sent, or Junk
  hottest,    \* the highest temperature it has reported, or 0
  furthest,   \* the highest count it has reported, or 0
  tail_next,  \* the stream begins with the second part of a cut line
  tail_first, \* so did the stream the present chunk was taken from
  head_last,  \* the chunk ends with the first part of a cut line
  dirty       \* dirty[k]: a part of a cut line was processed after the last
              \* whole report of kind k

history == <<sent, hottest, furthest, tail_next, tail_first, head_last, dirty>>
hvars == <<vars, history>>

Kinds == {"T1", "CYCLES"}

\* The type invariant of uart_rx_task (TypeOK), and of the history.
HistoryTypeOK ==
  /\ TypeOK
  /\ sent \in [Kinds -> Lines \cup {Junk}]
  /\ hottest \in Nat
  /\ furthest \in Nat
  /\ tail_next \in BOOLEAN
  /\ tail_first \in BOOLEAN
  /\ head_last \in BOOLEAN
  /\ dirty \in [Kinds -> BOOLEAN]

HInit ==
  /\ Init
  /\ sent = [k \in Kinds |-> Junk]
  /\ hottest = 0
  /\ furthest = 0
  /\ tail_next = FALSE
  /\ tail_first = FALSE
  /\ head_last = FALSE
  /\ dirty = [k \in Kinds |-> FALSE]

\* The whole degrees that a temperature line reports.
Degrees(line) == line.arg * Value(line.num)

\* A piece that reports a temperature, or a count, that the panel shows. One
\* below zero comes out of the parser like an error and is not one of them.
Reports(piece, k) == piece.kind = k /\ (k = "T1" => Degrees(piece) >= 0)

ObserveSent(line) ==
  /\ sent' = [k \in Kinds |-> IF Reports(line, k) THEN line ELSE sent[k]]
  /\ hottest' = IF line.kind = "T1" /\ Degrees(line) > hottest THEN Degrees(line) ELSE hottest
  /\ furthest' = IF line.kind = "CYCLES" /\ Value(line.num) > furthest
                 THEN Value(line.num) ELSE furthest
  /\ UNCHANGED <<tail_next, tail_first, head_last, dirty>>

ObserveRead(torn) ==
  /\ tail_first' = tail_next
  /\ tail_next' = torn
  /\ head_last' = torn
  /\ UNCHANGED <<sent, hottest, furthest, dirty>>

\* The piece about to be processed is a part of a cut line.
Torn == tail_first \/ (head_last /\ Len(chunk) = 1)

ObserveLine ==
  /\ dirty' = [k \in Kinds |-> Torn \/ (dirty[k] /\ ~Reports(Head(chunk), k))]
  /\ tail_first' = FALSE
  /\ UNCHANGED <<sent, hottest, furthest, tail_next, head_last>>

HNext ==
  \/ \E line \in Lines : MasterSends(line) /\ ObserveSent(line)
  \/ ReadWhole /\ ObserveRead(FALSE)
  \/ ReadTorn /\ ObserveRead(TRUE)
  \/ ProcessLine /\ ObserveLine

HSpec == HInit /\ [][HNext]_hvars

-----------------------------------------------------------------------------
(* Properties.                                                             *)

\* A mode line is read as it was sent or not at all: no part of a cut line
\* passes the two checks of parse_test_mode_state with a limit that is not the
\* limit of its mode.
ModeNotMisread ==
  master_mode_received => t_max_cycles = Value(MaxCycles(current_test_mode))

\* A cut temperature may read too cold, but never hotter than any temperature
\* the master has reported.
NeverHotter == t_module <= hottest

\* The count on the panel is never ahead of the master's counts, but for one
\* case: a mode line cut before CYCLES= shows its limit, or if it is cut again
\* the first digits of it, as the count.
CountNotAhead ==
  \/ t_cycles <= furthest
  \/ \E m \in TestModes : \E k \in 1 .. 3 : t_cycles = Value(SubSeq(MaxCycles(m), 1, k))

\* Wrong values do not last: when everything sent has been processed, and since
\* the last whole report of its kind no part of a cut line has come in, the count
\* is the one reported last. The temperature is the last one reported that was
\* not below zero, however many below zero have come since.
WholeLineRepairs ==
  stream = <<>> /\ chunk = <<>> =>
    /\ sent["CYCLES"] # Junk /\ ~dirty["CYCLES"] => t_cycles = Value(sent["CYCLES"].num)
    /\ sent["T1"] # Junk /\ ~dirty["T1"] => t_module = Degrees(sent["T1"])
=============================================================================
