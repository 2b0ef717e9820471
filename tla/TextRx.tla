------------------------------- MODULE TextRx -------------------------------
(***************************************************************************)
(* The lines of the master as uart_rx_task (main/main.c) reads them.       *)
(*                                                                         *)
(* uart_read_bytes returns whatever has come in when its buffer is full or *)
(* its second is over, so a chunk may end in the middle of a line. The     *)
(* task keeps nothing from one chunk to the next: it splits each chunk at  *)
(* "\n" and offers every piece to four parsers, which look at the start of *)
(* the piece only. A cut line is therefore read as two pieces, and either  *)
(* of them may still look like a line.                                     *)
(*                                                                         *)
(* A piece is the line's kind and its fields: arg is what stands before    *)
(* the last number (the sign of T1, the state, the test mode) and num the  *)
(* digits of that number, which is where a cut changes what is read.       *)
(* Bytes are neither lost nor damaged here: ModeSync loses lines.          *)
(***************************************************************************)
EXTENDS Integers, Sequences

CONSTANTS
  Numbers,   \* the temperatures and counts the master reports, as digits
  Durations, \* the elapsed times it reports, as digits
  States,    \* the values of sm_state_t it reports
  MaxPieces  \* pieces sent and not processed at most: the UART receive buffer

ASSUME TextAssumption ==
  /\ Numbers \cup Durations \subseteq Seq(0 .. 9)
  /\ \A n \in Numbers \cup Durations : n # <<>>
  /\ States \subseteq Nat
  /\ 0 \in States
  /\ MaxPieces \in Nat \ {0}

TestModes == {1, 2}
MODE_1_MAX_CYCLES == <<5, 0, 0>>
MODE_2_MAX_CYCLES == <<2, 5, 0>>
MaxCycles(m) == IF m = 1 THEN MODE_1_MAX_CYCLES ELSE MODE_2_MAX_CYCLES

\* %lu, %f and %d read digits as long as there are any: the number read after
\* each of them, and after the last.
Readings(digits) ==
  LET read[n \in 0 .. Len(digits)] == IF n = 0 THEN 0 ELSE 10 * read[n - 1] + digits[n]
  IN read

Value(digits) == Readings(digits)[Len(digits)]

\* What the master sends: T1=<num>.<fraction>, CYCLES=<num>,
\* STATE=<arg>,ELAPSED=<num> and TEST_MODE=<arg>,MAX_CYCLES=<num>.
Lines ==
  [kind : {"T1"}, arg : {1, -1}, num : Numbers]
    \cup [kind : {"CYCLES"}, arg : {0}, num : Numbers]
    \cup [kind : {"STATE"}, arg : States, num : Durations]
    \cup {[kind |-> "TEST_MODE", arg |-> m, num |-> MaxCycles(m)] : m \in TestModes}

Junk == [kind |-> "junk", arg |-> 0, num |-> <<>>]

\* Where a chunk may end inside a piece, as the two pieces it leaves: after a
\* digit; so early that neither part matches a parser; and after the MAX_ of a
\* mode line, whose second part then starts with CYCLES=.
Cuts(piece) ==
  {[head |-> Junk, tail |-> Junk]}
    \cup {[head |-> [piece EXCEPT !.num = SubSeq(@, 1, k)], tail |-> Junk] :
            k \in 1 .. Len(piece.num)}
    \cup IF piece.kind = "TEST_MODE"
         THEN {[head |-> Junk, tail |-> [kind |-> "CYCLES", arg |-> 0, num |-> piece.num]]}
         ELSE {}

VARIABLES
  stream,                \* pieces sent by the master and not yet read
  chunk,                 \* buf: pieces of the last chunk still to process
  t_module, t_cycles,    \* the temperature and the count on the panel
  ui,                    \* ui.state and ui.elapsed (sync_us is never read)
  current_test_mode, t_max_cycles, master_mode_received

shownVars == <<t_module, t_cycles, ui, current_test_mode, t_max_cycles, master_mode_received>>
vars == <<stream, chunk, shownVars>>

\* The type invariant of uart_rx_task: only lines and parts of lines are in flight,
\* and the limit on the panel is one of the two limits, or none.
TypeOK ==
  /\ stream \in Seq(Lines \cup {Junk} \cup [kind : {"CYCLES"}, arg : {0}, num : Seq(0 .. 9)])
  /\ Len(stream) + Len(chunk) <= MaxPieces + 1
  /\ t_module \in Nat
  /\ t_cycles \in Nat
  /\ ui \in [state : States, elapsed : Nat]
  /\ current_test_mode \in TestModes
  /\ t_max_cycles \in {0, 250, 500}
  /\ master_mode_received \in BOOLEAN

Init ==
  /\ stream = <<>>
  /\ chunk = <<>>
  /\ t_module = 0
  /\ t_cycles = 0
  /\ ui = [state |-> 0, elapsed |-> 0]
  /\ current_test_mode = 2
  /\ t_max_cycles = 0
  /\ master_mode_received = FALSE

MasterSends(line) ==
  /\ Len(stream) + Len(chunk) < MaxPieces
  /\ stream' = Append(stream, line)
  /\ UNCHANGED <<chunk, shownVars>>

\* uart_read_bytes returns n whole lines.
ReadWhole ==
  /\ chunk = <<>>
  /\ \E n \in 1 .. Len(stream) :
       /\ chunk' = SubSeq(stream, 1, n)
       /\ stream' = SubSeq(stream, n + 1, Len(stream))
  /\ UNCHANGED shownVars

\* Mutant of ReadTorn: the end of the chunk is put back without its first part.
ReadTornTwice ==
  /\ chunk = <<>>
  /\ \E n \in 0 .. Len(stream) - 1 : \E cut \in Cuts(stream[n + 1]) :
       /\ chunk' = Append(SubSeq(stream, 1, n), cut.head)
       /\ stream' = <<cut.head, cut.tail>> \o SubSeq(stream, n + 2, Len(stream))
  /\ UNCHANGED shownVars

\* uart_read_bytes returns n whole lines and a part of the next one.
ReadTorn ==
  /\ chunk = <<>>
  /\ \E n \in 0 .. Len(stream) - 1 : \E cut \in Cuts(stream[n + 1]) :
       /\ chunk' = Append(SubSeq(stream, 1, n), cut.head)
       /\ stream' = <<cut.tail>> \o SubSeq(stream, n + 2, Len(stream))
  /\ UNCHANGED shownVars

-----------------------------------------------------------------------------
(* The parsers and what the loop over the lines stores.                    *)

\* Mutant of ParseT1: the sign is not read.
ParseT1Unsigned(piece) == IF piece.kind = "T1" THEN Value(piece.num) ELSE -1

\* parse_t1_to_int: the float cut off to an int; -1 for any other line.
ParseT1(piece) == IF piece.kind = "T1" THEN piece.arg * Value(piece.num) ELSE -1

\* Mutant of StoreT1: only -1, the parse error, is not stored.
StoreT1UnlessError(piece) ==
  t_module' = IF ParseT1(piece) # -1 THEN ParseT1(piece) ELSE t_module

\* A temperature is stored unless it is negative.
StoreT1(piece) ==
  t_module' = IF ParseT1(piece) >= 0 THEN ParseT1(piece) ELSE t_module

\* Mutant of StoreCycles: the number is read without looking at the line's name.
StoreCyclesOfAnyLine(piece) ==
  t_cycles' = IF piece.num # <<>> THEN Value(piece.num) ELSE t_cycles

\* parse_cycles
StoreCycles(piece) ==
  t_cycles' = IF piece.kind = "CYCLES" THEN Value(piece.num) ELSE t_cycles

\* parse_state_elapsed
StoreState(piece) ==
  ui' = IF piece.kind = "STATE" THEN [state |-> piece.arg, elapsed |-> Value(piece.num)] ELSE ui

\* Mutant of ParseTestMode: the cycle limit is not checked.
ParseTestModeUnchecked(piece) ==
  /\ piece.kind = "TEST_MODE"
  /\ piece.arg \in TestModes

\* parse_test_mode_state: both fields are checked, each against its own list.
ParseTestMode(piece) ==
  /\ piece.kind = "TEST_MODE"
  /\ piece.arg \in TestModes
  /\ Value(piece.num) \in {500, 250}

StoreTestMode(piece) ==
  IF ParseTestMode(piece)
  THEN /\ current_test_mode' = piece.arg
       /\ t_max_cycles' = Value(piece.num)
       /\ master_mode_received' = TRUE
  ELSE UNCHANGED <<current_test_mode, t_max_cycles, master_mode_received>>

\* One pass of the strtok loop.
ProcessLine ==
  /\ chunk # <<>>
  /\ LET piece == Head(chunk) IN
       /\ StoreT1(piece)
       /\ StoreCycles(piece)
       /\ StoreState(piece)
       /\ StoreTestMode(piece)
  /\ chunk' = Tail(chunk)
  /\ UNCHANGED stream

Next == (\E line \in Lines : MasterSends(line)) \/ ReadWhole \/ ReadTorn \/ ProcessLine

Spec == Init /\ [][Next]_vars
=============================================================================
