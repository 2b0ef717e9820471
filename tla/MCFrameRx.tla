----------------------------- MODULE MCFrameRx -----------------------------
(***************************************************************************)
(* FrameRxHistory for TLC: an answer, a status packet whose temperatures,  *)
(* 4.21 and -1.00 degrees, read as a header that announces 255 bytes, and  *)
(* another answer. The buffer holds any two of them.                       *)
(***************************************************************************)
EXTENDS FrameRxHistory

\* Written out, so that TLC does not compute every CRC again in every state.
MCPackets == <<
  <<165, 1, 17, 2, 1, 6, 0, 39, 253>>,
  <<165, 1, 1, 4, 2, 165, 1, 156, 255, 240, 103>>,
  <<165, 1, 17, 2, 3, 7, 0, 122, 172>> >>

ASSUME MCPackets =
  <<AckPacket(1, 6, 0), StatusPacket(2, 421, -100), AckPacket(3, 7, 0)>>

MCNoiseBytes == {PACKET_MAGIC, 255}
=============================================================================
