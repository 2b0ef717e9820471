------------------------------- MODULE Packet -------------------------------
(***************************************************************************)
(* The binary packets of main/protocol.c and their checksum.               *)
(*                                                                         *)
(* A packet is a sequence of bytes: a header, a payload, and the CRC of    *)
(* both. The bytes that a receiver decides by (magic, version, type,       *)
(* length, CRC) are kept at full width; the eight bytes of sequence and    *)
(* timestamp are abstracted to one, the number of the packet.              *)
(***************************************************************************)
EXTENDS Integers, Sequences, FiniteSets, FiniteSetsExt, SequencesExt

Byte == 0 .. 255

PACKET_MAGIC == 165
PROTOCOL_VERSION == 1

\* sizeof(packet_header_t), with one byte for the sequence and the timestamp.
HeaderLen == 5
CrcLen == 2

-----------------------------------------------------------------------------
(* crc16_ccitt                                                             *)

\* A 16-bit word, as the set of its bits that are 1.
Words == SUBSET (0 .. 15)
Bits(x) == {k \in 0 .. 15 : (x \div 2^k) % 2 = 1}

Xor[a \in Words, b \in Words] == (a \ b) \cup (b \ a)

\* crc << 1, with 0x1021 for the bit that leaves.
ShiftBit[crc \in Words] ==
  LET shifted == {k + 1 : k \in crc \ {15}}
  IN IF 15 \in crc THEN Xor[shifted, Bits(4129)] ELSE shifted

\* crc ^= byte << 8, and eight shifts.
AddByte[crc \in Words, byte \in Byte] ==
  FoldLeft(LAMBDA c, bit : ShiftBit[c], Xor[crc, Bits(256 * byte)], <<1, 2, 3, 4, 5, 6, 7, 8>>)

crc16_ccitt(data) ==
  MapThenSumSet(LAMBDA k : 2^k, FoldLeft(LAMBDA crc, byte : AddByte[crc, byte], {}, data))

-----------------------------------------------------------------------------
(* Building a packet.                                                      *)

\* append_crc: the upper byte first.
AppendCrc(data) == data \o <<crc16_ccitt(data) \div 256, crc16_ccitt(data) % 256>>

frame_len(payload_len) == HeaderLen + payload_len + CrcLen

\* What protocol_build_status_packet, protocol_build_command_packet and
\* protocol_build_ack_packet have in common.
Packet(type, number, payload) ==
  AppendCrc(<<PACKET_MAGIC, PROTOCOL_VERSION, type, Len(payload), number>> \o payload)

\* What every packet built so is: its header gives its version and its length, and
\* its last two bytes are the CRC of the others.
WellFormed(packet) ==
  /\ packet[1] = PACKET_MAGIC
  /\ packet[2] = PROTOCOL_VERSION
  /\ Len(packet) = frame_len(packet[4])
  /\ 256 * packet[Len(packet) - 1] + packet[Len(packet)]
       = crc16_ccitt(SubSeq(packet, 1, Len(packet) - CrcLen))

PKT_STATUS == 1
PKT_ACK == 17

\* Of the status payload, two of the three temperatures, in hundredths of a
\* degree as 16-bit integers, the lower byte first.
Centi(t) == <<t % 256, (t \div 256) % 256>>
StatusPacket(number, pt100_1_centi, pt100_2_centi) ==
  Packet(PKT_STATUS, number, Centi(pt100_1_centi) \o Centi(pt100_2_centi))

\* Of the payload of an answer, the command it echoes and the result.
AckPacket(number, cmd_id, status) == Packet(PKT_ACK, number, <<cmd_id, status>>)
=============================================================================
