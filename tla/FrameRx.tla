------------------------------- MODULE FrameRx -------------------------------
(***************************************************************************)
(* The receiver of binary packets, ui_uart_rx_task (main/ui_transport.c).  *)
(*                                                                         *)
(* Bytes come in chunks of any size into a buffer that is never larger     *)
(* than RX_BUF_SIZE. The task looks for a packet at the start of the       *)
(* buffer; what cannot be one costs a single byte, and a packet is taken   *)
(* when all of it is there and its CRC is right. After each packet the     *)
(* task throws away what comes in until the line is silent for 100 ms.     *)
(*                                                                         *)
(* The master sends packets; the line damages, loses and invents bytes.    *)
(* What is reported of a packet's contents is only text for a console and  *)
(* left out; the packet itself goes to the receive log, RxLog.             *)
(***************************************************************************)
EXTENDS Packet, RxLog

CONSTANTS
  BufSize,    \* RX_BUF_SIZE (256)
  Packets,    \* the packets the master sends, in that order
  NoiseBytes, \* the values that noise gives to a byte of the line
  MaxNoise    \* bound: bytes damaged, lost or invented by the line

ASSUME FrameAssumption ==
  /\ BufSize \in Nat
  /\ BufSize >= HeaderLen + CrcLen
  /\ Packets \in Seq(Seq(Byte))
  /\ \A k \in DOMAIN Packets : Len(Packets[k]) \in frame_len(0) .. BufSize
  /\ NoiseBytes \subseteq Byte
  /\ MaxNoise \in Nat

\* The master builds its packets as protocol.c does.
ASSUME PacketAssumption == \A k \in DOMAIN Packets : WellFormed(Packets[k])

VARIABLES
  line,      \* bytes sent and not yet read: the line and the driver's buffer
  rx_buf,    \* rx_buf[0 .. rx_len - 1]
  place,     \* of the task: reading, in the inner loop, or draining the line
  accepted,  \* the packets whose CRC was right, in the order they were taken
  next,      \* the number of the next packet in Packets
  noise      \* bytes damaged, lost or invented so far

frameVars == <<line, rx_buf, place, accepted, next, noise>>
vars == <<frameVars, logVars>>

\* The type invariant of ui_uart_rx_task: rx_buf never holds more than RX_BUF_SIZE
\* bytes, however the chunks come in.
TypeOK ==
  /\ line \in Seq(Byte)
  /\ rx_buf \in Seq(Byte)
  /\ Len(rx_buf) <= BufSize
  /\ place \in {"read", "parse", "drain"}
  /\ accepted \in Seq(Seq(Byte))
  /\ next \in 1 .. Len(Packets) + 1
  /\ noise \in 0 .. MaxNoise
  /\ LogTypeOK

Init ==
  /\ line = <<>>
  /\ rx_buf = <<>>
  /\ place = "read"
  /\ accepted = <<>>
  /\ next = 1
  /\ noise = 0
  /\ LogInit

-----------------------------------------------------------------------------
(* The master and the line.                                                *)

MasterSends ==
  /\ next <= Len(Packets)
  /\ line' = line \o Packets[next]
  /\ next' = next + 1
  /\ UNCHANGED <<rx_buf, place, accepted, noise, logVars>>

Noise(k) ==
  /\ noise < MaxNoise
  /\ noise' = noise + 1
  /\ \/ /\ k \in DOMAIN line
        /\ \E byte \in NoiseBytes \ {line[k]} : line' = [line EXCEPT ![k] = byte]
     \/ /\ k \in DOMAIN line
        /\ line' = RemoveAt(line, k)
     \/ /\ k = Len(line) + 1
        /\ \E byte \in NoiseBytes : line' = Append(line, byte)
  /\ UNCHANGED <<rx_buf, place, accepted, next, logVars>>

-----------------------------------------------------------------------------
(* ui_uart_rx_task.                                                        *)

\* Mutant of Read: the room left in the buffer is not looked at.
ReadNoRoom ==
  /\ place = "read"
  /\ \E n \in 1 .. Len(line) :
       /\ n <= BufSize
       /\ rx_buf' = rx_buf \o SubSeq(line, 1, n)
       /\ line' = SubSeq(line, n + 1, Len(line))
  /\ place' = "parse"
  /\ UNCHANGED <<accepted, next, noise, logVars>>

\* ui_uart_read_bytes returns n bytes, as many as fit at most. With a full
\* buffer it returns 0 for ever.
Read ==
  /\ place = "read"
  /\ \E n \in 1 .. Len(line) :
       /\ Len(rx_buf) + n <= BufSize
       /\ rx_buf' = rx_buf \o SubSeq(line, 1, n)
       /\ line' = SubSeq(line, n + 1, Len(line))
  /\ place' = "parse"
  /\ UNCHANGED <<accepted, next, noise, logVars>>

HeaderHere == Len(rx_buf) >= HeaderLen + CrcLen
HeaderValid == rx_buf[1] = PACKET_MAGIC /\ rx_buf[2] = PROTOCOL_VERSION
TotalLen == frame_len(rx_buf[4])

\* Mutant of CrcRight: the CRC is compared as a byte.
CrcLowByteRight ==
  rx_buf[TotalLen] = crc16_ccitt(SubSeq(rx_buf, 1, TotalLen - CrcLen)) % 256

CrcRight ==
  256 * rx_buf[TotalLen - 1] + rx_buf[TotalLen] = crc16_ccitt(SubSeq(rx_buf, 1, TotalLen - CrcLen))

\* The inner loop ends: no header yet, or not all of the packet it announces.
ParseEnds ==
  /\ place = "parse"
  /\ \/ ~HeaderHere
     \/ HeaderHere /\ HeaderValid /\ Len(rx_buf) < TotalLen
  /\ place' = "read"
  /\ UNCHANGED <<line, rx_buf, accepted, next, noise, logVars>>

\* The first byte is dropped: it begins no header ...
DropByte ==
  /\ place = "parse"
  /\ HeaderHere
  /\ ~HeaderValid
  /\ rx_buf' = Tail(rx_buf)
  /\ UNCHANGED <<line, place, accepted, next, noise, logVars>>

\* Mutant of CrcFails: all of the packet is dropped.
CrcFailsDropsAll ==
  /\ place = "parse"
  /\ HeaderHere
  /\ HeaderValid
  /\ Len(rx_buf) >= TotalLen
  /\ ~CrcRight
  /\ rx_buf' = SubSeq(rx_buf, TotalLen + 1, Len(rx_buf))
  /\ UNCHANGED <<line, place, accepted, next, noise, logVars>>

\* ... or begins a packet whose CRC is wrong.
CrcFails ==
  /\ place = "parse"
  /\ HeaderHere
  /\ HeaderValid
  /\ Len(rx_buf) >= TotalLen
  /\ ~CrcRight
  /\ rx_buf' = Tail(rx_buf)
  /\ UNCHANGED <<line, place, accepted, next, noise, logVars>>

\* Mutant of Accept: the CRC is not looked at.
AcceptAnyCrc ==
  /\ place = "parse"
  /\ HeaderHere
  /\ HeaderValid
  /\ Len(rx_buf) >= TotalLen
  /\ accepted' = Append(accepted, SubSeq(rx_buf, 1, TotalLen))
  /\ Push(SubSeq(rx_buf, 1, TotalLen))
  /\ place' = "drain"
  /\ UNCHANGED <<line, rx_buf, next, noise>>

\* A packet is logged and reported.
Accept ==
  /\ place = "parse"
  /\ HeaderHere
  /\ HeaderValid
  /\ Len(rx_buf) >= TotalLen
  /\ CrcRight
  /\ accepted' = Append(accepted, SubSeq(rx_buf, 1, TotalLen))
  /\ Push(SubSeq(rx_buf, 1, TotalLen))
  /\ place' = "drain"
  /\ UNCHANGED <<line, rx_buf, next, noise>>

\* The bytes that come in meanwhile are only logged.
DrainByte ==
  /\ place = "drain"
  /\ line # <<>>
  /\ line' = Tail(line)
  /\ UNCHANGED <<rx_buf, place, accepted, next, noise, logVars>>

\* Mutant of DrainEnds: a byte more is removed.
DrainEndsTooFar ==
  /\ place = "drain"
  /\ line = <<>>
  /\ rx_buf' = SubSeq(rx_buf, TotalLen + 2, Len(rx_buf))
  /\ place' = "parse"
  /\ UNCHANGED <<line, accepted, next, noise, logVars>>

\* 100 ms of silence: the packet is removed from the buffer.
DrainEnds ==
  /\ place = "drain"
  /\ line = <<>>
  /\ rx_buf' = SubSeq(rx_buf, TotalLen + 1, Len(rx_buf))
  /\ place' = "parse"
  /\ UNCHANGED <<line, accepted, next, noise, logVars>>

\* ui_rx_log_task runs beside the receiver.
LogStep == LogReceives /\ UNCHANGED frameVars

RxStep == Read \/ ParseEnds \/ DropByte \/ CrcFails \/ Accept \/ DrainByte \/ DrainEnds

Next == MasterSends \/ (\E k \in 1 .. Len(line) + 1 : Noise(k)) \/ RxStep \/ LogStep

Spec == Init /\ [][Next]_vars
=============================================================================
