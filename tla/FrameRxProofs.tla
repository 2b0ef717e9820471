---------------------------- MODULE FrameRxProofs ----------------------------
(***************************************************************************)
(* Theorems about FrameRx and the log behind it, for all packets the       *)
(* master sends, every size of the receive buffer and every log queue.     *)
(***************************************************************************)
EXTENDS FrameRxHistory, Recursion, SequenceTheorems, TLAPS

(***************************************************************************)
(* Type correctness.                                                       *)
(***************************************************************************)

\* What the log holds of packets.
Messages == {m \in Seq(Byte) : Len(m) \in 1 .. LogMaxBytes}

\* All of the packet that the buffer begins with is there.
PacketHere ==
  /\ HeaderHere
  /\ HeaderValid
  /\ Len(rx_buf) >= TotalLen

FrameTypes ==
  /\ line \in Seq(Byte)
  /\ rx_buf \in Seq(Byte)
  /\ Len(rx_buf) <= BufSize
  /\ place \in {"read", "parse", "drain"}
  /\ place = "drain" => PacketHere
  /\ accepted \in Seq(Seq(Byte))
  /\ next \in 1 .. Len(Packets) + 1
  /\ noise \in 0 .. MaxNoise

LogTypes ==
  /\ log_created \in BOOLEAN
  /\ rx_log_q \in Seq(Messages)
  /\ printed \in Seq(Messages)
  /\ Len(rx_log_q) <= LogQueueLen

HistoryTypes ==
  /\ owner \in Seq(0 .. Len(Packets))
  /\ Len(owner) = Len(line)
  /\ held \in Seq(0 .. Len(Packets))
  /\ Len(held) = Len(rx_buf)
  /\ torn \subseteq 0 .. Len(Packets)
  /\ crowded \subseteq 1 .. Len(accepted)

\* The inductive invariant: HistoryTypeOK, what the messages of the log are, and
\* that the packet to remove at the end of the drain is still in the buffer.
RxInv == FrameTypes /\ LogTypes /\ HistoryTypes

\* A header that is here announces a length that the buffer may or may not have.
LEMMA AnnouncedLength ==
  ASSUME FrameTypes, HeaderHere
  PROVE  /\ TotalLen \in Nat /\ TotalLen >= HeaderLen + CrcLen
         /\ Len(rx_buf) \in Nat /\ Len(rx_buf) >= HeaderLen + CrcLen
         /\ rx_buf # <<>>
<1>1. Len(rx_buf) \in Nat /\ Len(rx_buf) >= 7 /\ rx_buf # <<>>
  BY LenProperties, EmptySeq DEF FrameTypes, HeaderHere, HeaderLen, CrcLen
<1>2. rx_buf[4] \in 0 .. 255
  <2>1. rx_buf \in Seq(Byte) /\ 4 \in 1 .. Len(rx_buf)
    BY <1>1 DEF FrameTypes
  <2> QED BY <2>1, ElementOfSeq DEF Byte
<1>3. TotalLen \in Nat /\ TotalLen >= 7
  BY <1>2 DEF TotalLen, frame_len, HeaderLen, CrcLen
<1> QED BY <1>1, <1>3 DEF HeaderLen, CrcLen

\* The packet at the start of the buffer, and what follows it.
LEMMA PacketTypes ==
  ASSUME FrameTypes, PacketHere
  PROVE  /\ SubSeq(rx_buf, 1, TotalLen) \in Seq(Byte)
         /\ Len(SubSeq(rx_buf, 1, TotalLen)) = TotalLen
         /\ SubSeq(rx_buf, 1, TotalLen) # <<>>
         /\ SubSeq(rx_buf, TotalLen + 1, Len(rx_buf)) \in Seq(Byte)
         /\ Len(SubSeq(rx_buf, TotalLen + 1, Len(rx_buf))) <= BufSize
<1>1. /\ TotalLen \in Nat /\ TotalLen >= 7
      /\ Len(rx_buf) \in Nat /\ TotalLen <= Len(rx_buf) /\ Len(rx_buf) <= BufSize
  BY AnnouncedLength DEF PacketHere, FrameTypes, HeaderLen, CrcLen
<1>2. BufSize \in Nat
  BY FrameAssumption
<1>3. \A k \in 1 .. Len(rx_buf) : rx_buf[k] \in Byte
  BY ElementOfSeq DEF FrameTypes
<1> DEFINE n == TotalLen
           l == Len(rx_buf)
<1> HIDE DEF n, l
<1>4. /\ SubSeq(rx_buf, 1, n) \in Seq(Byte)
      /\ Len(SubSeq(rx_buf, 1, n)) = n
  BY <1>1, <1>3, SubSeqProperties DEF n, l
<1>5. /\ SubSeq(rx_buf, n + 1, l) \in Seq(Byte)
      /\ Len(SubSeq(rx_buf, n + 1, l)) <= BufSize
  BY <1>1, <1>2, <1>3, SubSeqProperties DEF n, l
<1>6. SubSeq(rx_buf, 1, n) # <<>>
  <2>1. Len(SubSeq(rx_buf, 1, n)) # 0 /\ Len(<<>>) = 0
    BY <1>1, <1>4 DEF n
  <2> QED BY <2>1
<1> QED BY <1>4, <1>5, <1>6 DEF n, l

\* The head of a packet is a message.
LEMMA MessageTypes ==
  ASSUME NEW data \in Seq(Byte), data # <<>>
  PROVE  Message(data) \in Messages
<1>1. Len(data) \in Nat /\ Len(data) >= 1
  BY EmptySeq, LenProperties
<1>2. \A k \in 1 .. Len(data) : data[k] \in Byte
  BY ElementOfSeq
<1> DEFINE n == IF Len(data) > LogMaxBytes THEN LogMaxBytes ELSE Len(data)
<1>3. n \in 1 .. Len(data) /\ n \in 1 .. LogMaxBytes
  BY <1>1, LogAssumption
<1> HIDE DEF n
<1>4. SubSeq(data, 1, n) \in Seq(Byte) /\ Len(SubSeq(data, 1, n)) = n
  BY <1>1, <1>2, <1>3, SubSeqProperties
<1> QED BY <1>3, <1>4 DEF Message, Messages, n

\* The log keeps the types of its own, whatever packet is pushed.
LEMMA PushTypes ==
  ASSUME LogTypes, NEW data \in Seq(Byte), data # <<>>, Push(data)
  PROVE  LogTypes'
<1>1. Message(data) \in Messages
  BY MessageTypes
<1>2. /\ Append(rx_log_q, Message(data)) \in Seq(Messages)
      /\ Len(Append(rx_log_q, Message(data))) = Len(rx_log_q) + 1
      /\ Len(rx_log_q) \in Nat
  BY <1>1, AppendProperties, LenProperties DEF LogTypes
<1> QED BY <1>2, LogAssumption DEF LogTypes, Push, LogFull

LEMMA LogReceivesTypes ==
  ASSUME LogTypes, LogReceives
  PROVE  LogTypes'
<1>1. /\ Head(rx_log_q) \in Messages /\ Tail(rx_log_q) \in Seq(Messages)
      /\ Len(Tail(rx_log_q)) = Len(rx_log_q) - 1
      /\ Len(rx_log_q) \in Nat
  BY HeadTailProperties, LenProperties DEF LogTypes, LogReceives
<1>2. Append(printed, Head(rx_log_q)) \in Seq(Messages)
  BY <1>1, AppendProperties DEF LogTypes
<1> QED BY <1>1, <1>2, LogAssumption DEF LogTypes, LogReceives

\* A byte taken out of a sequence.
LEMMA RemoveAtTypes ==
  ASSUME NEW S, NEW s \in Seq(S), NEW k \in 1 .. Len(s)
  PROVE  RemoveAt(s, k) \in Seq(S) /\ Len(RemoveAt(s, k)) = Len(s) - 1
<1>1. Len(s) \in Nat /\ \A i \in 1 .. Len(s) : s[i] \in S
  BY LenProperties, ElementOfSeq
<1>2. /\ SubSeq(s, 1, k - 1) \in Seq(S) /\ Len(SubSeq(s, 1, k - 1)) = k - 1
      /\ SubSeq(s, k + 1, Len(s)) \in Seq(S) /\ Len(SubSeq(s, k + 1, Len(s))) = Len(s) - k
  BY <1>1, SubSeqProperties
<1> DEFINE a == SubSeq(s, 1, k - 1)
           b == SubSeq(s, k + 1, Len(s))
<1>3. RemoveAt(s, k) = a \o b
  BY DEF RemoveAt
<1> HIDE DEF a, b
<1>4. a \in Seq(S) /\ b \in Seq(S) /\ Len(a) = k - 1 /\ Len(b) = Len(s) - k
  BY <1>2 DEF a, b
<1>5. a \o b \in Seq(S) /\ Len(a \o b) = Len(a) + Len(b)
  BY <1>4, ConcatProperties
<1> QED BY <1>1, <1>3, <1>4, <1>5

\* The line and its owners when n bytes are taken from their heads.
LEMMA TakenTypes ==
  ASSUME NEW S, NEW s \in Seq(S), NEW n \in 0 .. Len(s)
  PROVE  /\ SubSeq(s, 1, n) \in Seq(S) /\ Len(SubSeq(s, 1, n)) = n
         /\ SubSeq(s, n + 1, Len(s)) \in Seq(S)
         /\ Len(SubSeq(s, n + 1, Len(s))) = Len(s) - n
<1>1. Len(s) \in Nat /\ \A i \in 1 .. Len(s) : s[i] \in S
  BY LenProperties, ElementOfSeq
<1> QED BY <1>1, SubSeqProperties

\* A packet of the master is a sequence of bytes, and owns as many.
LEMMA SentTypes ==
  ASSUME NEW k \in DOMAIN Packets
  PROVE  /\ k \in 1 .. Len(Packets)
         /\ Packets[k] \in Seq(Byte)
         /\ [i \in DOMAIN Packets[k] |-> k] \in Seq(0 .. Len(Packets))
         /\ Len([i \in DOMAIN Packets[k] |-> k]) = Len(Packets[k])
<1>1. k \in 1 .. Len(Packets) /\ Len(Packets) \in Nat /\ Packets[k] \in Seq(Byte)
  BY FrameAssumption, LenProperties, ElementOfSeq
<1>2. Len(Packets[k]) \in Nat /\ DOMAIN Packets[k] = 1 .. Len(Packets[k])
  BY <1>1, LenProperties
<1>3. [i \in 1 .. Len(Packets[k]) |-> k] \in Seq(0 .. Len(Packets))
  <2>1. [i \in 1 .. Len(Packets[k]) |-> k] \in [1 .. Len(Packets[k]) -> 0 .. Len(Packets)]
    BY <1>1
  <2> QED BY <1>2, <2>1, SeqDef
<1>4. Len([i \in 1 .. Len(Packets[k]) |-> k]) = Len(Packets[k])
  BY <1>2
<1> QED BY <1>1, <1>2, <1>3, <1>4

\* The master and the line keep the types.
LEMMA SendTypes ==
  ASSUME FrameTypes, HistoryTypes, MasterSends, ObserveSent
  PROVE  FrameTypes' /\ HistoryTypes'
<1> DEFINE tags == [i \in DOMAIN Packets[next] |-> next]
<1>1. next \in DOMAIN Packets /\ next + 1 \in 1 .. Len(Packets) + 1
  BY FrameAssumption, LenProperties DEF FrameTypes, MasterSends
<1>2. /\ Packets[next] \in Seq(Byte)
      /\ tags \in Seq(0 .. Len(Packets)) /\ Len(tags) = Len(Packets[next])
  BY <1>1, SentTypes
<1>3. owner' = owner \o tags /\ line' = line \o Packets[next]
  BY DEF MasterSends, ObserveSent
<1> HIDE DEF tags
<1>4. line' \in Seq(Byte) /\ Len(line') = Len(line) + Len(Packets[next])
  BY <1>2, <1>3, ConcatProperties DEF FrameTypes
<1>5. owner' \in Seq(0 .. Len(Packets)) /\ Len(owner') = Len(owner) + Len(tags)
  BY <1>2, <1>3, ConcatProperties DEF HistoryTypes
<1>6. FrameTypes'
  BY <1>1, <1>4 DEF FrameTypes, MasterSends, PacketHere, HeaderHere, HeaderValid, TotalLen
<1>7. HistoryTypes'
  <2>1. Len(owner') = Len(line')
    BY <1>2, <1>4, <1>5 DEF HistoryTypes
  <2> QED BY <1>5, <2>1 DEF HistoryTypes, MasterSends, ObserveSent
<1> QED BY <1>6, <1>7

LEMMA NoiseTypes ==
  ASSUME FrameTypes, HistoryTypes, NEW k \in 1 .. Len(line) + 1, Noise(k), ObserveNoise(k)
  PROVE  FrameTypes' /\ HistoryTypes'
<1>1. /\ line \in Seq(Byte) /\ Len(line) \in Nat /\ DOMAIN line = 1 .. Len(line)
      /\ owner \in Seq(0 .. Len(Packets)) /\ Len(owner) = Len(line)
      /\ Len(Packets) \in Nat
  BY FrameAssumption, LenProperties DEF FrameTypes, HistoryTypes
<1>2. \A byte \in NoiseBytes : byte \in Byte
  BY FrameAssumption
<1>3. line' \in Seq(Byte) /\ owner' \in Seq(0 .. Len(Packets)) /\ Len(owner') = Len(line')
  <2>1. CASE k \in DOMAIN line /\ \E byte \in NoiseBytes \ {line[k]} : line' = [line EXCEPT ![k] = byte]
    <3>1. line' \in Seq(Byte) /\ Len(line') = Len(line)
      BY <1>1, <1>2, <2>1, ExceptSeq
    <3> QED BY <1>1, <3>1 DEF ObserveNoise
  <2>2. CASE k \in DOMAIN line /\ line' = RemoveAt(line, k)
    <3>1. line' \in Seq(Byte) /\ Len(line') = Len(line) - 1
      BY <1>1, <2>2, RemoveAtTypes
    <3>2. RemoveAt(owner, k) \in Seq(0 .. Len(Packets)) /\ Len(RemoveAt(owner, k)) = Len(owner) - 1
      BY <1>1, <2>2, RemoveAtTypes
    <3>3. owner' = RemoveAt(owner, k)
      BY <1>1, <3>1 DEF ObserveNoise
    <3> QED BY <1>1, <3>1, <3>2, <3>3
  <2>3. CASE k = Len(line) + 1 /\ \E byte \in NoiseBytes : line' = Append(line, byte)
    <3>1. line' \in Seq(Byte) /\ Len(line') = Len(line) + 1
      BY <1>1, <1>2, <2>3, AppendProperties
    <3>2. Append(owner, 0) \in Seq(0 .. Len(Packets)) /\ Len(Append(owner, 0)) = Len(owner) + 1
      BY <1>1, AppendProperties
    <3>3. owner' = Append(owner, 0)
      BY <1>1, <3>1 DEF ObserveNoise
    <3> QED BY <1>1, <3>1, <3>2, <3>3
  <2> QED BY <2>1, <2>2, <2>3 DEF Noise
<1>4. torn' \subseteq 0 .. Len(Packets)
  <2>1. CASE k \in 1 .. Len(line)
    <3>1. owner[k] \in 0 .. Len(Packets)
      BY <1>1, <2>1, ElementOfSeq
    <3> QED BY <3>1 DEF ObserveNoise, HistoryTypes
  <2>2. CASE k = Len(line) + 1
    <3>1. PICK byte \in NoiseBytes : line' = Append(line, byte)
      BY <1>1, <2>2 DEF Noise
    <3>2. Len(line') = Len(line) + 1
      BY <1>1, <1>2, <3>1, AppendProperties
    <3>3. Len(line') > Len(line)
      BY <1>1, <3>2
    <3>4. torn' = torn
      BY <3>3 DEF ObserveNoise
    <3> QED BY <3>4 DEF HistoryTypes
  <2> QED BY <2>1, <2>2
<1>5. FrameTypes'
  BY <1>3, FrameAssumption DEF FrameTypes, Noise, PacketHere, HeaderHere, HeaderValid, TotalLen
<1> QED BY <1>3, <1>4, <1>5 DEF HistoryTypes, ObserveNoise, Noise

\* The steps of the receiver keep the types of what is its own, and of the log.
LEMMA RxTypes ==
  ASSUME FrameTypes, LogTypes, RxStep
  PROVE  FrameTypes' /\ LogTypes'
<1> USE DEF PacketHere, HeaderHere, HeaderValid, TotalLen
<1>1. CASE Read
  <2>1. PICK n \in 1 .. Len(line) :
          /\ Len(rx_buf) + n <= BufSize
          /\ rx_buf' = rx_buf \o SubSeq(line, 1, n)
          /\ line' = SubSeq(line, n + 1, Len(line))
    BY <1>1 DEF Read
  <2> DEFINE chunk == SubSeq(line, 1, n)
  <2>2. Len(line) \in Nat /\ n \in 0 .. Len(line)
    BY LenProperties DEF FrameTypes
  <2>3. /\ chunk \in Seq(Byte) /\ Len(chunk) = n
        /\ line' \in Seq(Byte)
    BY <2>1, <2>2, TakenTypes DEF FrameTypes
  <2>4. rx_buf' = rx_buf \o chunk
    BY <2>1
  <2> HIDE DEF chunk
  <2>5. rx_buf' \in Seq(Byte) /\ Len(rx_buf') = Len(rx_buf) + Len(chunk)
    BY <2>3, <2>4, ConcatProperties DEF FrameTypes
  <2>6. Len(rx_buf') <= BufSize
    BY <2>1, <2>3, <2>5
  <2> QED BY <1>1, <2>3, <2>5, <2>6 DEF Read, FrameTypes, LogTypes, logVars
<1>2. CASE ParseEnds
  BY <1>2 DEF ParseEnds, FrameTypes, LogTypes, logVars
<1>3. CASE DropByte \/ CrcFails
  <2>1. rx_buf # <<>> /\ rx_buf' = Tail(rx_buf) /\ Len(rx_buf) \in Nat
    BY <1>3, AnnouncedLength DEF DropByte, CrcFails
  <2>2. rx_buf' \in Seq(Byte) /\ Len(rx_buf') = Len(rx_buf) - 1
    BY <2>1, HeadTailProperties DEF FrameTypes
  <2>3. Len(rx_buf') <= BufSize
    BY <2>1, <2>2, FrameAssumption DEF FrameTypes
  <2> QED BY <1>3, <2>2, <2>3 DEF DropByte, CrcFails, FrameTypes, LogTypes, logVars
<1>4. CASE Accept
  <2>1. PacketHere
    BY <1>4 DEF Accept
  <2> DEFINE packet == SubSeq(rx_buf, 1, TotalLen)
  <2>2. packet \in Seq(Byte) /\ packet # <<>>
    BY <2>1, PacketTypes
  <2>3. accepted' = Append(accepted, packet) /\ Push(packet)
    BY <1>4 DEF Accept
  <2> HIDE DEF packet
  <2>4. LogTypes'
    BY <2>2, <2>3, PushTypes
  <2>5. accepted' \in Seq(Seq(Byte))
    BY <2>2, <2>3, AppendProperties DEF FrameTypes
  <2> QED BY <1>4, <2>1, <2>4, <2>5 DEF Accept, FrameTypes
<1>5. CASE DrainByte
  <2>1. line' \in Seq(Byte)
    BY <1>5, HeadTailProperties DEF DrainByte, FrameTypes
  <2> QED BY <1>5, <2>1 DEF DrainByte, FrameTypes, LogTypes, logVars
<1>6. CASE DrainEnds
  <2>1. rx_buf' \in Seq(Byte) /\ Len(rx_buf') <= BufSize
    BY <1>6, PacketTypes DEF DrainEnds, FrameTypes
  <2> QED BY <1>6, <2>1 DEF DrainEnds, FrameTypes, LogTypes, logVars
<1> QED BY <1>1, <1>2, <1>3, <1>4, <1>5, <1>6 DEF RxStep

\* A step of the receiver takes some bytes of the line, none but in Read and in
\* DrainByte; what is left is the end of the line.
LEMMA RxTakes ==
  ASSUME FrameTypes, RxStep
  PROVE  \E n \in 0 .. Len(line) :
           /\ Len(line) - Len(line') = n
           /\ line' = SubSeq(line, n + 1, Len(line))
<1>1. Len(line) \in Nat /\ line \in Seq(Byte)
  BY LenProperties DEF FrameTypes
<1>2. CASE Read
  <2>1. PICK n \in 1 .. Len(line) : line' = SubSeq(line, n + 1, Len(line))
    BY <1>2 DEF Read
  <2>2. n \in 0 .. Len(line) /\ Len(line') = Len(line) - n
    BY <1>1, <2>1, TakenTypes
  <2> QED BY <1>1, <2>1, <2>2
<1>3. CASE DrainByte
  <2>1. 1 \in 0 .. Len(line)
    BY <1>1, <1>3, EmptySeq DEF DrainByte
  <2>2. line' = SubSeq(line, 1 + 1, Len(line))
    BY <1>1, <1>3, TailIsSubSeq DEF DrainByte
  <2>3. Len(line') = Len(line) - 1
    BY <1>1, <2>1, <2>2, TakenTypes
  <2> QED BY <1>1, <2>1, <2>2, <2>3
<1>4. CASE line' = line
  <2>1. SubSeq(line, 0 + 1, Len(line)) = line
    BY <1>1, SubSeqFull
  <2> QED BY <1>1, <1>4, <2>1
<1> QED BY <1>2, <1>3, <1>4 DEF RxStep, ParseEnds, DropByte, CrcFails, Accept, DrainEnds

\* The bytes of the buffer keep the packets they belong to.
LEMMA HeldTypes ==
  ASSUME FrameTypes, HistoryTypes, RxStep, ObserveRx
  PROVE  held' \in Seq(0 .. Len(Packets)) /\ Len(held') = Len(rx_buf')
<1> DEFINE S == 0 .. Len(Packets)
<1>1. /\ held \in Seq(S) /\ Len(held) = Len(rx_buf)
      /\ owner \in Seq(S) /\ Len(owner) = Len(line)
      /\ rx_buf \in Seq(Byte) /\ line \in Seq(Byte)
      /\ Len(rx_buf) \in Nat /\ Len(line) \in Nat
  BY LenProperties DEF FrameTypes, HistoryTypes
<1> HIDE DEF S
<1>2. CASE Read
  <2>1. PICK n \in 1 .. Len(line) :
          /\ rx_buf' = rx_buf \o SubSeq(line, 1, n)
          /\ line' = SubSeq(line, n + 1, Len(line))
    BY <1>2 DEF Read
  <2>2. n \in 0 .. Len(line) /\ n \in 0 .. Len(owner)
    BY <1>1
  <2>3. /\ SubSeq(line, 1, n) \in Seq(Byte) /\ Len(SubSeq(line, 1, n)) = n
        /\ Len(line') = Len(line) - n
    BY <1>1, <2>1, <2>2, TakenTypes
  <2>4. SubSeq(owner, 1, n) \in Seq(S) /\ Len(SubSeq(owner, 1, n)) = n
    BY <1>1, <2>2, TakenTypes
  <2>5. Len(line) - Len(line') = n /\ place = "read"
    BY <1>1, <1>2, <2>2, <2>3 DEF Read
  <2>6. held' = held \o SubSeq(owner, 1, n)
    BY <2>5 DEF ObserveRx
  <2> DEFINE tags == SubSeq(owner, 1, n)
             chunk == SubSeq(line, 1, n)
  <2>7. tags \in Seq(S) /\ Len(tags) = n /\ chunk \in Seq(Byte) /\ Len(chunk) = n
    BY <2>3, <2>4
  <2>8. held' = held \o tags /\ rx_buf' = rx_buf \o chunk
    BY <2>1, <2>6
  <2> HIDE DEF tags, chunk
  <2>9. /\ held \o tags \in Seq(S) /\ Len(held \o tags) = Len(held) + n
        /\ Len(rx_buf \o chunk) = Len(rx_buf) + n
    <3>1. held \o tags \in Seq(S) /\ Len(held \o tags) = Len(held) + Len(tags)
      BY <1>1, <2>7, ConcatProperties
    <3>2. Len(rx_buf \o chunk) = Len(rx_buf) + Len(chunk)
      BY <1>1, <2>7, ConcatProperties
    <3> QED BY <2>7, <3>1, <3>2
  <2>10. held' \in Seq(S) /\ Len(held') = Len(rx_buf) + n /\ Len(rx_buf') = Len(rx_buf) + n
    BY <1>1, <2>8, <2>9, Zenon
  <2> QED BY <2>10, Zenon DEF S
<1>3. CASE ~Read
  <2>1. place # "read"
    BY <1>3 DEF RxStep, ParseEnds, DropByte, CrcFails, Accept, DrainByte, DrainEnds
  <2>2. \E d \in 0 .. Len(rx_buf) : Len(rx_buf') = Len(rx_buf) - d
    <3>1. CASE rx_buf' = rx_buf
      BY <1>1, <3>1
    <3>2. CASE DropByte \/ CrcFails
      <4>1. rx_buf # <<>> /\ rx_buf' = Tail(rx_buf)
        BY <3>2, AnnouncedLength DEF DropByte, CrcFails
      <4>2. Len(rx_buf') = Len(rx_buf) - 1 /\ Len(rx_buf) >= 1
        BY <1>1, <4>1, HeadTailProperties, EmptySeq
      <4> QED BY <1>1, <4>2
    <3>3. CASE DrainEnds
      <4>1. PacketHere
        BY <3>3 DEF DrainEnds, FrameTypes
      <4>2. TotalLen \in 0 .. Len(rx_buf)
        BY <1>1, <4>1, AnnouncedLength DEF PacketHere
      <4>3. Len(SubSeq(rx_buf, TotalLen + 1, Len(rx_buf))) = Len(rx_buf) - TotalLen
        BY <1>1, <4>2, TakenTypes
      <4> QED BY <3>3, <4>2, <4>3 DEF DrainEnds
    <3> QED BY <1>3, <3>1, <3>2, <3>3 DEF RxStep, ParseEnds, Accept, DrainByte
  <2>3. PICK d \in 0 .. Len(rx_buf) : Len(rx_buf') = Len(rx_buf) - d
    BY <2>2
  <2>4. Len(rx_buf) - Len(rx_buf') = d
    BY <1>1, <2>3
  <2>5. held' = SubSeq(held, d + 1, Len(held))
    BY <2>1, <2>4 DEF ObserveRx
  <2>6. d \in 0 .. Len(held)
    BY <1>1
  <2>7. held' \in Seq(S) /\ Len(held') = Len(held) - d
    BY <1>1, <2>5, <2>6, TakenTypes
  <2> QED BY <1>1, <2>3, <2>7 DEF S
<1> QED BY <1>2, <1>3

LEMMA ObserveTypes ==
  ASSUME FrameTypes, LogTypes, HistoryTypes, RxStep, ObserveRx
  PROVE  HistoryTypes'
<1>1. PICK n \in 0 .. Len(line) :
        /\ Len(line) - Len(line') = n
        /\ line' = SubSeq(line, n + 1, Len(line))
  BY RxTakes
<1>2. /\ Len(line) \in Nat /\ Len(owner) = Len(line) /\ n \in 0 .. Len(owner)
      /\ line \in Seq(Byte) /\ owner \in Seq(0 .. Len(Packets))
  BY LenProperties DEF FrameTypes, HistoryTypes
<1>3. owner' = SubSeq(owner, n + 1, Len(owner))
  BY <1>1 DEF ObserveRx
<1>4. /\ owner' \in Seq(0 .. Len(Packets)) /\ Len(owner') = Len(owner) - n
      /\ Len(line') = Len(line) - n
  <2>1. owner' \in Seq(0 .. Len(Packets)) /\ Len(owner') = Len(owner) - n
    BY <1>2, <1>3, TakenTypes
  <2>2. Len(line') = Len(line) - n
    BY <1>1, <1>2, TakenTypes
  <2> QED BY <2>1, <2>2
<1>5. torn' \subseteq 0 .. Len(Packets)
  <2>1. \A k \in 1 .. n : owner[k] \in 0 .. Len(Packets)
    BY <1>2, ElementOfSeq
  <2>2. torn' \subseteq torn \cup {owner[k] : k \in 1 .. n}
    BY <1>1 DEF ObserveRx
  <2> QED BY <2>1, <2>2 DEF HistoryTypes
<1>6. crowded' \subseteq 1 .. Len(accepted')
  <2>1. Len(accepted) \in Nat
    BY LenProperties DEF FrameTypes
  <2>2. CASE accepted' = accepted
    BY <2>2 DEF ObserveRx, HistoryTypes
  <2>3. CASE accepted' # accepted
    <3>1. Accept
      BY <2>3 DEF RxStep, Read, ParseEnds, DropByte, CrcFails, DrainByte, DrainEnds
    <3>2. SubSeq(rx_buf, 1, TotalLen) \in Seq(Byte)
      BY <3>1, PacketTypes DEF Accept, PacketHere
    <3>3. Len(accepted') = Len(accepted) + 1
      BY <3>1, <3>2, AppendProperties DEF Accept, FrameTypes
    <3>4. crowded' \subseteq crowded \cup {Len(accepted')}
      BY DEF ObserveRx
    <3> QED BY <2>1, <3>3, <3>4 DEF HistoryTypes
  <2> QED BY <2>2, <2>3
<1>7. held' \in Seq(0 .. Len(Packets)) /\ Len(held') = Len(rx_buf')
  BY HeldTypes
<1> QED BY <1>2, <1>4, <1>5, <1>6, <1>7 DEF HistoryTypes

LEMMA FrameIsTyped == HSpec => []RxInv
<1>1. HInit => RxInv
  <2> SUFFICES ASSUME HInit PROVE RxInv
    OBVIOUS
  <2>1. Len(Packets) \in Nat
    BY FrameAssumption, LenProperties
  <2>2. \A S : <<>> \in Seq(S) /\ Len(<<>>) = 0
    BY EmptySeq
  <2> QED
    BY <2>1, <2>2, FrameAssumption, LogAssumption
    DEF HInit, Init, LogInit, RxInv, FrameTypes, LogTypes, HistoryTypes
<1>2. RxInv /\ [HNext]_hvars => RxInv'
  <2> SUFFICES ASSUME RxInv, [HNext]_hvars PROVE RxInv'
    OBVIOUS
  <2>0. FrameTypes /\ LogTypes /\ HistoryTypes
    BY DEF RxInv
  <2>1. CASE MasterSends /\ ObserveSent
    <3>1. LogTypes'
      BY <2>0, <2>1 DEF MasterSends, logVars, LogTypes
    <3> QED BY <2>0, <2>1, <3>1, SendTypes DEF RxInv
  <2>2. CASE \E k \in 1 .. Len(line) + 1 : Noise(k) /\ ObserveNoise(k)
    <3>1. PICK k \in 1 .. Len(line) + 1 : Noise(k) /\ ObserveNoise(k)
      BY <2>2
    <3>2. LogTypes'
      BY <2>0, <3>1 DEF Noise, logVars, LogTypes
    <3> QED BY <2>0, <3>1, <3>2, NoiseTypes DEF RxInv
  <2>3. CASE RxStep /\ ObserveRx
    BY <2>0, <2>3, RxTypes, ObserveTypes DEF RxInv
  <2>4. CASE LogStep /\ UNCHANGED history
    <3>1. LogTypes'
      BY <2>0, <2>4, LogReceivesTypes DEF LogStep
    <3>2. FrameTypes' /\ HistoryTypes'
      BY <2>0, <2>4 DEF LogStep, frameVars, history, FrameTypes, HistoryTypes,
         PacketHere, HeaderHere, HeaderValid, TotalLen
    <3> QED BY <3>1, <3>2 DEF RxInv
  <2>5. CASE UNCHANGED hvars
    BY <2>0, <2>5 DEF hvars, vars, frameVars, logVars, history, RxInv, FrameTypes, LogTypes,
       HistoryTypes, PacketHere, HeaderHere, HeaderValid, TotalLen
  <2> QED BY <2>1, <2>2, <2>3, <2>4, <2>5 DEF HNext
<1> QED BY <1>1, <1>2, PTL DEF HSpec

\* ui_uart_rx_task keeps within RX_BUF_SIZE whatever comes in, and ui_rx_log.c
\* within its queue and its messages, none of which is empty.
THEOREM HistoryTypeCorrect == HSpec => []HistoryTypeOK
<1>1. RxInv => HistoryTypeOK
  <2> SUFFICES ASSUME RxInv PROVE HistoryTypeOK
    OBVIOUS
  <2>1. FrameTypes /\ LogTypes /\ HistoryTypes
    BY DEF RxInv
  <2>2. \A m \in ToSet(rx_log_q \o printed) : Len(m) \in 1 .. LogMaxBytes
    <3> DEFINE all == rx_log_q \o printed
    <3>1. all \in Seq(Messages)
      BY <2>1, ConcatProperties DEF LogTypes
    <3> HIDE DEF all
    <3>2. \A i \in DOMAIN all : all[i] \in Messages
      BY <3>1, LenProperties, ElementOfSeq
    <3>3. \A m \in ToSet(all) : m \in Messages
      BY <3>2 DEF ToSet
    <3> QED BY <3>3 DEF all, Messages
  <2>3. DOMAIN accepted = 1 .. Len(accepted)
    BY <2>1, LenProperties DEF FrameTypes
  <2> QED BY <2>1, <2>2, <2>3 DEF HistoryTypeOK, TypeOK, LogTypeOK, FrameTypes, LogTypes, HistoryTypes
<1> QED BY <1>1, FrameIsTyped, PTL

(***************************************************************************)
(* A line that adds and damages nothing, read by a receiver that cuts      *)
(* nothing, delivers every packet.                                         *)
(***************************************************************************)

Undisturbed == noise = 0 /\ torn = {}

\* The first n packets, one behind the other.
Sent == LET sent[n \in 0 .. Len(Packets)] == IF n = 0 THEN <<>> ELSE sent[n - 1] \o Packets[n]
        IN sent

\* Bytes, or the marks of their owners, one behind the other: where one begins
\* to put them together does not matter.
LEMMA Regroup == \A s, t, u \in Seq(Byte) : (s \o t) \o u = s \o (t \o u)
BY ConcatAssociative

LEMMA RegroupTags ==
  \A s, t, u \in Seq(0 .. Len(Packets)) : (s \o t) \o u = s \o (t \o u)
<1> DEFINE S == 0 .. Len(Packets)
<1> HIDE DEF S
<1>1. \A s, t, u \in Seq(S) : (s \o t) \o u = s \o (t \o u)
  BY ConcatAssociative
<1> QED BY <1>1 DEF S

LEMMA PacketsAreBytes ==
  /\ Len(Packets) \in Nat
  /\ DOMAIN Packets = 1 .. Len(Packets)
  /\ \A n \in 1 .. Len(Packets) :
       /\ Packets[n] \in Seq(Byte)
       /\ Len(Packets[n]) \in Nat /\ Len(Packets[n]) >= HeaderLen + CrcLen
       /\ Len(Packets[n]) <= BufSize
       /\ WellFormed(Packets[n])
<1>1. Len(Packets) \in Nat /\ DOMAIN Packets = 1 .. Len(Packets)
  BY FrameAssumption, LenProperties
<1>2. ASSUME NEW n \in 1 .. Len(Packets)
      PROVE  /\ Packets[n] \in Seq(Byte)
             /\ Len(Packets[n]) \in Nat /\ Len(Packets[n]) >= HeaderLen + CrcLen
             /\ Len(Packets[n]) <= BufSize
             /\ WellFormed(Packets[n])
  <2>1. Packets[n] \in Seq(Byte) /\ Len(Packets[n]) \in frame_len(0) .. BufSize
    BY <1>1, FrameAssumption, ElementOfSeq
  <2>2. WellFormed(Packets[n])
    BY <1>1, PacketAssumption
  <2> QED BY <2>1, <2>2, FrameAssumption DEF frame_len, HeaderLen, CrcLen
<1> QED BY <1>1, <1>2

LEMMA SentDefined ==
  /\ Sent \in [0 .. Len(Packets) -> Seq(Byte)]
  /\ Sent[0] = <<>>
  /\ \A n \in 1 .. Len(Packets) : Sent[n] = Sent[n - 1] \o Packets[n]
<1> DEFINE len == Len(Packets)
           Good(f) == f = [n \in 0 .. len |-> IF n = 0 THEN <<>> ELSE f[n - 1] \o Packets[n]]
           step == [n \in 1 .. len |-> [s \in Seq(Byte) |-> s \o Packets[n]]]
<1>1. len \in Nat /\ <<>> \in Seq(Byte)
  BY PacketsAreBytes, EmptySeq
<1>2. \A n \in 1 .. len : \A s \in Seq(Byte) : s \o Packets[n] \in Seq(Byte)
  BY PacketsAreBytes, ConcatProperties
<1>3. step \in [1 .. len -> [Seq(Byte) -> Seq(Byte)]]
  BY <1>2
<1>4. \A n \in 1 .. len, s \in Seq(Byte) : step[n][s] = s \o Packets[n]
  OBVIOUS
<1>5. Sent = CHOOSE f : Good(f)
  BY DEF Sent
<1> HIDE DEF step, len, Good
<1>6. PICK f \in [0 .. len -> Seq(Byte)] : Follows(f, len, <<>>, step)
  BY <1>1, <1>3, RecursionExists
<1>7. \A n \in 1 .. len : f[n] = f[n - 1] \o Packets[n]
  <2> SUFFICES ASSUME NEW n \in 1 .. len PROVE f[n] = f[n - 1] \o Packets[n]
    OBVIOUS
  <2>1. n - 1 \in 0 .. len
    BY <1>1
  <2>2. f[n - 1] \in Seq(Byte)
    BY <2>1
  <2>3. f[n] = step[n][f[n - 1]]
    BY <1>6 DEF Follows
  <2> QED BY <1>4, <2>2, <2>3
<1>8. Good(f)
  <2>1. \A n \in 0 .. len : f[n] = IF n = 0 THEN <<>> ELSE f[n - 1] \o Packets[n]
    <3>1. f[0] = <<>>
      BY <1>6 DEF Follows
    <3>2. ASSUME NEW n \in 0 .. len, n # 0 PROVE n \in 1 .. len
      BY <1>1, <3>2
    <3> QED BY <1>7, <3>1, <3>2, Zenon
  <2> QED BY <2>1 DEF Good
<1>9. Good(Sent)
  BY <1>5, <1>8
<1>10. Sent = f
  <2>1. \A n \in 0 .. len : Sent[n] = IF n = 0 THEN <<>> ELSE Sent[n - 1] \o Packets[n]
    BY <1>9 DEF Good
  <2>2. DOMAIN Sent = 0 .. len
    BY <1>9 DEF Good
  <2> DEFINE T == {n \in Nat : n <= len => Sent[n] = f[n]}
  <2>3. 0 \in T
    BY <1>1, <1>6, <2>1 DEF Follows
  <2>4. ASSUME NEW n \in 0 .. len - 1, n \in T PROVE n + 1 \in T
    <3>1. n + 1 \in 1 .. len /\ (n + 1) - 1 = n
      BY <1>1
    <3>2. n + 1 \in 0 .. len /\ n + 1 # 0 /\ n <= len /\ n + 1 \in Nat
      BY <1>1
    <3>3. f[n + 1] = f[n] \o Packets[n + 1]
      BY <1>7, <3>1, Zenon
    <3>4. Sent[n + 1] = Sent[n] \o Packets[n + 1]
      BY <2>1, <3>1, <3>2, Zenon
    <3>5. Sent[n] = f[n]
      BY <2>4, <3>2
    <3> QED BY <3>2, <3>3, <3>4, <3>5, Zenon
  <2> HIDE DEF T
  <2>5. 0 .. len \subseteq T
    BY <1>1, <2>3, <2>4, UpTo
  <2>6. \A n \in 0 .. len : Sent[n] = f[n]
    BY <2>5 DEF T
  <2> QED BY <1>9, <2>6 DEF Good
<1> QED BY <1>6, <1>7, <1>10 DEF len, Follows

\* What was sent first stays in front.
LEMMA SentGrows ==
  ASSUME NEW a \in 0 .. Len(Packets), NEW b \in a .. Len(Packets)
  PROVE  \E rest \in Seq(Byte) : Sent[b] = Sent[a] \o rest
<1> DEFINE T == {d \in Nat : a + d <= Len(Packets) => \E rest \in Seq(Byte) : Sent[a + d] = Sent[a] \o rest}
<1>1. Len(Packets) \in Nat /\ Sent \in [0 .. Len(Packets) -> Seq(Byte)]
  BY PacketsAreBytes, SentDefined
<1>2. 0 \in T
  <2>1. <<>> \in Seq(Byte) /\ Sent[a] \in Seq(Byte)
    BY <1>1, EmptySeq
  <2>2. Sent[a] = Sent[a] \o <<>>
    BY <2>1, ConcatEmptySeq
  <2>3. a + 0 = a
    BY <1>1
  <2> QED BY <2>1, <2>2, <2>3
<1>3. ASSUME NEW d \in 0 .. b - a - 1, d \in T PROVE d + 1 \in T
  <2>1. a + d \in 0 .. Len(Packets) /\ a + (d + 1) \in 1 .. Len(Packets) /\ (a + (d + 1)) - 1 = a + d
    BY <1>1
  <2>2. PICK rest \in Seq(Byte) : Sent[a + d] = Sent[a] \o rest
    BY <1>1, <1>3, <2>1
  <2>3. Packets[a + (d + 1)] \in Seq(Byte) /\ Sent[a] \in Seq(Byte)
    BY <1>1, <2>1, PacketsAreBytes
  <2>4. Sent[a + (d + 1)] = Sent[a + d] \o Packets[a + (d + 1)]
    BY <2>1, SentDefined
  <2>5. Sent[a + (d + 1)] = Sent[a] \o (rest \o Packets[a + (d + 1)])
    <3> DEFINE front == Sent[a]
               packet == Packets[a + (d + 1)]
    <3>1. front \in Seq(Byte) /\ packet \in Seq(Byte)
      BY <2>3
    <3>2. Sent[a + (d + 1)] = (front \o rest) \o packet
      BY <2>2, <2>4, Zenon
    <3> HIDE DEF front, packet
    <3>3. (front \o rest) \o packet = front \o (rest \o packet)
      BY <3>1, Regroup, Zenon
    <3> QED BY <3>2, <3>3, Zenon DEF front, packet
  <2>6. rest \o Packets[a + (d + 1)] \in Seq(Byte)
    BY <2>3, ConcatProperties
  <2>7. \E more \in Seq(Byte) : Sent[a + (d + 1)] = Sent[a] \o more
    BY <2>5, <2>6, Zenon
  <2>8. d + 1 \in Nat
    OBVIOUS
  <2> QED BY <2>7, <2>8
<1> DEFINE gap == b - a
<1>4. gap \in Nat /\ a + gap = b /\ b <= Len(Packets)
  BY <1>1
<1>5. \A d \in 0 .. gap - 1 : d \in T => d + 1 \in T
  BY <1>3
<1> HIDE DEF T, gap
<1>6. 0 .. gap \subseteq T
  BY <1>2, <1>4, <1>5, UpTo
<1>7. gap \in T
  BY <1>4, <1>6
<1> QED BY <1>4, <1>7 DEF T

\* The packet that the buffer begins with, once it holds anything: the first one
\* not removed from it yet.
Removed == IF place = "drain" THEN Len(accepted) - 1 ELSE Len(accepted)

\* The inductive invariant: what was sent is what was removed from the buffer, what
\* is in the buffer, and what is in the line; and every packet taken is the one
\* whose turn it was.
StreamInv ==
  Undisturbed =>
    /\ Removed \in 0 .. next - 1
    /\ Sent[next - 1] = Sent[Removed] \o (rx_buf \o line)
    /\ Len(accepted) <= next - 1
    /\ \A k \in 1 .. Len(accepted) : accepted[k] = Packets[k]
    /\ \A k \in 1 .. Len(owner) : owner[k] # 0

\* The buffer begins with a packet of the master, as far as it has come: the task
\* finds its header, its length and, once all of it is there, its CRC right.
LEMMA PacketAtHead ==
  ASSUME FrameTypes, HeaderHere,
         NEW packet \in Seq(Byte), WellFormed(packet), Len(packet) >= 7,
         \A i \in 1 .. Len(packet) : i <= Len(rx_buf) => rx_buf[i] = packet[i]
  PROVE  /\ HeaderValid
         /\ TotalLen = Len(packet)
         /\ Len(rx_buf) >= TotalLen =>
              /\ SubSeq(rx_buf, 1, TotalLen) = packet
              /\ CrcRight
              /\ rx_buf = packet \o SubSeq(rx_buf, TotalLen + 1, Len(rx_buf))
<1>1. /\ rx_buf \in Seq(Byte) /\ Len(rx_buf) \in Nat /\ Len(rx_buf) >= 7
      /\ Len(packet) \in Nat
  BY AnnouncedLength, LenProperties DEF FrameTypes, HeaderLen, CrcLen
<1>2. rx_buf[1] = packet[1] /\ rx_buf[2] = packet[2] /\ rx_buf[4] = packet[4]
  <2>1. \A i \in {1, 2, 4} : i \in 1 .. Len(packet) /\ i <= Len(rx_buf)
    BY <1>1
  <2> QED BY <2>1
<1>3. HeaderValid /\ TotalLen = Len(packet)
  BY <1>2 DEF HeaderValid, TotalLen, WellFormed
<1>4. ASSUME Len(rx_buf) >= TotalLen
      PROVE  /\ SubSeq(rx_buf, 1, TotalLen) = packet
             /\ CrcRight
             /\ rx_buf = packet \o SubSeq(rx_buf, TotalLen + 1, Len(rx_buf))
  <2> DEFINE n == Len(packet)
             tail == SubSeq(rx_buf, n + 1, Len(rx_buf))
             head == SubSeq(rx_buf, 1, n)
  <2>1. n \in 0 .. Len(rx_buf) /\ n \in Nat
    BY <1>1, <1>3, <1>4
  <2>2. \A i \in 1 .. Len(rx_buf) : rx_buf[i] \in Byte
    BY <1>1, ElementOfSeq
  <2>3. head \in Seq(Byte) /\ Len(head) = n /\ \A i \in 1 .. n : head[i] = rx_buf[i]
    BY <1>1, <2>1, <2>2, SubSeqProperties
  <2>4. head = packet
    <3>1. \A i \in 1 .. n : head[i] = packet[i]
      BY <1>1, <2>1, <2>3
    <3> QED BY <2>3, <3>1, SeqEqual
  <2>5. rx_buf = head \o tail
    <3>1. 1 \in 1 .. Len(rx_buf) + 1 /\ n \in 1 - 1 .. Len(rx_buf) /\ Len(rx_buf) \in n .. Len(rx_buf)
      BY <1>1, <2>1
    <3>2. SubSeq(rx_buf, 1, Len(rx_buf)) = rx_buf
      BY <1>1, SubSeqFull
    <3> QED BY <1>1, <3>1, <3>2, ConcatAdjacentSubSeq
  <2>6. CrcRight
    <3>1. SubSeq(rx_buf, 1, n - CrcLen) = SubSeq(packet, 1, n - CrcLen)
      <4>1. n - CrcLen \in 1 .. n
        BY <1>1 DEF CrcLen
      <4>2. /\ SubSeq(rx_buf, 1, n - CrcLen) \in Seq(Byte)
            /\ Len(SubSeq(rx_buf, 1, n - CrcLen)) = n - CrcLen
            /\ \A i \in 1 .. n - CrcLen : SubSeq(rx_buf, 1, n - CrcLen)[i] = rx_buf[i]
        BY <1>1, <2>1, <2>2, <4>1, SubSeqProperties
      <4>3. \A i \in 1 .. n : packet[i] \in Byte
        BY ElementOfSeq
      <4>4. /\ SubSeq(packet, 1, n - CrcLen) \in Seq(Byte)
            /\ Len(SubSeq(packet, 1, n - CrcLen)) = n - CrcLen
            /\ \A i \in 1 .. n - CrcLen : SubSeq(packet, 1, n - CrcLen)[i] = packet[i]
        BY <1>1, <4>1, <4>3, SubSeqProperties
      <4>5. \A i \in 1 .. n - CrcLen : rx_buf[i] = packet[i]
        BY <1>1, <2>1, <4>1
      <4>6. \A i \in 1 .. n - CrcLen :
              SubSeq(rx_buf, 1, n - CrcLen)[i] = SubSeq(packet, 1, n - CrcLen)[i]
        BY <4>2, <4>4, <4>5
      <4> QED BY <4>2, <4>4, <4>6, SeqEqual
    <3>2. rx_buf[n - 1] = packet[n - 1] /\ rx_buf[n] = packet[n]
      BY <1>1, <2>1
    <3> QED BY <1>3, <3>1, <3>2 DEF CrcRight, WellFormed
  <2> QED BY <1>3, <2>4, <2>5, <2>6
<1> QED BY <1>3, <1>4

\* The buffer begins with the packet whose turn it is, as far as it has come.
LEMMA BufferBegins ==
  ASSUME FrameTypes, StreamInv, Undisturbed, HeaderHere
  PROVE  LET packet == Packets[Removed + 1]
         IN /\ Removed + 1 \in 1 .. Len(Packets) /\ Removed + 1 <= next - 1
            /\ HeaderValid
            /\ TotalLen = Len(packet)
            /\ Len(rx_buf) >= TotalLen =>
                 /\ SubSeq(rx_buf, 1, TotalLen) = packet
                 /\ CrcRight
                 /\ rx_buf = packet \o SubSeq(rx_buf, TotalLen + 1, Len(rx_buf))
<1> DEFINE packet == Packets[Removed + 1]
           bytes == rx_buf \o line
<1>1. /\ rx_buf \in Seq(Byte) /\ line \in Seq(Byte)
      /\ Len(rx_buf) \in Nat /\ Len(rx_buf) >= 7 /\ Len(line) \in Nat
      /\ next - 1 \in 0 .. Len(Packets)
      /\ Len(Packets) \in Nat
  BY AnnouncedLength, PacketsAreBytes, LenProperties DEF FrameTypes, HeaderLen, CrcLen
<1>2. Removed \in 0 .. next - 1 /\ Sent[next - 1] = Sent[Removed] \o bytes
  BY DEF StreamInv
<1>3. /\ bytes \in Seq(Byte) /\ Len(bytes) = Len(rx_buf) + Len(line)
      /\ \A i \in 1 .. Len(rx_buf) : bytes[i] = rx_buf[i]
  BY <1>1, ConcatProperties
<1>4. Removed \in 0 .. Len(Packets) /\ Sent[Removed] \in Seq(Byte)
  BY <1>1, <1>2, SentDefined
<1> HIDE DEF bytes
<1>5. Removed # next - 1
  <2> SUFFICES ASSUME Removed = next - 1 PROVE FALSE
    OBVIOUS
  <2>1. bytes = <<>>
    BY <1>2, <1>3, <1>4, ConcatEqualIffEmpty
  <2>2. Len(bytes) # 0 /\ Len(<<>>) = 0
    BY <1>1, <1>3
  <2> QED BY <2>1, <2>2
<1>6. Removed + 1 \in 1 .. Len(Packets) /\ Removed + 1 <= next - 1
  BY <1>1, <1>2, <1>5
<1>7. /\ packet \in Seq(Byte) /\ WellFormed(packet)
      /\ Len(packet) \in Nat /\ Len(packet) >= 7
  BY <1>6, PacketsAreBytes DEF HeaderLen, CrcLen
<1>8. PICK rest \in Seq(Byte) : Sent[next - 1] = Sent[Removed + 1] \o rest
  <2>1. Removed + 1 \in 0 .. Len(Packets) /\ next - 1 \in Removed + 1 .. Len(Packets)
    BY <1>1, <1>6
  <2> QED BY <2>1, SentGrows
<1>9. Sent[Removed + 1] = Sent[Removed] \o packet
  <2>1. (Removed + 1) - 1 = Removed
    BY <1>4
  <2> QED BY <1>6, <2>1, SentDefined
<1> HIDE DEF packet
<1>10. bytes = packet \o rest
  <2>1. Sent[next - 1] = Sent[Removed] \o (packet \o rest)
    <3> DEFINE front == Sent[Removed]
    <3>1. front \in Seq(Byte) /\ Sent[next - 1] = (front \o packet) \o rest
      BY <1>4, <1>8, <1>9, Zenon
    <3> HIDE DEF front
    <3>2. (front \o packet) \o rest = front \o (packet \o rest)
      BY <1>7, <3>1, Regroup, Zenon
    <3> QED BY <3>1, <3>2, Zenon DEF front
  <2>2. packet \o rest \in Seq(Byte)
    BY <1>7, ConcatProperties
  <2> QED BY <1>2, <1>3, <1>4, <2>1, <2>2, ConcatSimplifications
<1>11. \A i \in 1 .. Len(packet) : i <= Len(rx_buf) => rx_buf[i] = packet[i]
  <2> SUFFICES ASSUME NEW i \in 1 .. Len(packet), i <= Len(rx_buf) PROVE rx_buf[i] = packet[i]
    OBVIOUS
  <2>1. (packet \o rest)[i] = packet[i]
    <3>1. Len(rest) \in Nat /\ i \in 1 .. Len(packet) + Len(rest) /\ i <= Len(packet)
      BY <1>7, LenProperties
    <3> QED BY <1>7, <3>1, ConcatProperties
  <2>2. i \in 1 .. Len(rx_buf)
    BY <1>1, <1>7
  <2>3. bytes[i] = rx_buf[i]
    BY <1>3, <2>2
  <2>4. bytes[i] = packet[i]
    BY <1>10, <2>1
  <2> QED BY <2>3, <2>4
<1>12. /\ HeaderValid
       /\ TotalLen = Len(packet)
       /\ Len(rx_buf) >= TotalLen =>
            /\ SubSeq(rx_buf, 1, TotalLen) = packet
            /\ CrcRight
            /\ rx_buf = packet \o SubSeq(rx_buf, TotalLen + 1, Len(rx_buf))
  BY <1>7, <1>11, PacketAtHead
<1> QED BY <1>6, <1>12 DEF packet

\* Each byte left in the line belongs to the packet it belonged to.
LEMMA OwnersStay ==
  ASSUME FrameTypes, HistoryTypes, RxStep, ObserveRx
  PROVE  \A i \in 1 .. Len(owner') : \E j \in 1 .. Len(owner) : owner'[i] = owner[j]
<1>1. PICK n \in 0 .. Len(line) : Len(line) - Len(line') = n
  BY RxTakes
<1>2. /\ owner \in Seq(0 .. Len(Packets)) /\ n \in 0 .. Len(owner) /\ Len(owner) \in Nat
      /\ \A k \in 1 .. Len(owner) : owner[k] \in 0 .. Len(Packets)
  BY <1>1, LenProperties, ElementOfSeq DEF HistoryTypes
<1>3. owner' = SubSeq(owner, n + 1, Len(owner))
  BY <1>1 DEF ObserveRx
<1> DEFINE left == SubSeq(owner, n + 1, Len(owner))
<1>4. /\ Len(left) = Len(owner) - n
      /\ \A i \in 1 .. Len(owner) - n : left[i] = owner[n + i]
  <2>1. \A i \in n + 1 .. Len(owner) : owner[i] \in 0 .. Len(Packets)
    BY <1>2
  <2>2. /\ Len(left) = IF n + 1 <= Len(owner) THEN Len(owner) - (n + 1) + 1 ELSE 0
        /\ \A i \in 1 .. Len(owner) - (n + 1) + 1 : left[i] = owner[(n + 1) + i - 1]
    BY <1>2, <2>1, SubSeqProperties
  <2>3. \A i \in 1 .. Len(owner) - n : (n + 1) + i - 1 = n + i
    BY <1>2
  <2> HIDE DEF left
  <2> QED BY <1>2, <2>2, <2>3
<1> HIDE DEF left
<1>5. \A i \in 1 .. Len(left) : n + i \in 1 .. Len(owner)
  BY <1>2, <1>4
<1>6. \A i \in 1 .. Len(left) : \E j \in 1 .. Len(owner) : left[i] = owner[j]
  BY <1>2, <1>4, <1>5
<1> QED BY <1>3, <1>6 DEF left

\* The master sends a packet more.
LEMMA SendStream ==
  ASSUME FrameTypes, HistoryTypes, StreamInv, MasterSends, ObserveSent
  PROVE  StreamInv'
<1> SUFFICES ASSUME Undisturbed'
             PROVE  /\ Removed' \in 0 .. next' - 1
                    /\ Sent[next' - 1] = Sent[Removed'] \o (rx_buf' \o line')
                    /\ Len(accepted') <= next' - 1
                    /\ \A k \in 1 .. Len(accepted') : accepted'[k] = Packets[k]
                    /\ \A k \in 1 .. Len(owner') : owner'[k] # 0
  BY DEF StreamInv
<1>1. Undisturbed
  BY DEF Undisturbed, MasterSends, ObserveSent
<1>2. /\ Removed \in 0 .. next - 1
      /\ Sent[next - 1] = Sent[Removed] \o (rx_buf \o line)
      /\ Len(accepted) <= next - 1
      /\ \A k \in 1 .. Len(accepted) : accepted[k] = Packets[k]
      /\ \A k \in 1 .. Len(owner) : owner[k] # 0
  BY <1>1 DEF StreamInv
<1>3. /\ next \in DOMAIN Packets /\ next \in 1 .. Len(Packets) /\ Len(Packets) \in Nat
      /\ next' = next + 1 /\ next' - 1 = next
      /\ Removed' = Removed /\ rx_buf' = rx_buf /\ accepted' = accepted
      /\ line' = line \o Packets[next]
  BY PacketsAreBytes DEF FrameTypes, MasterSends, Removed
<1>4. /\ Len(accepted) \in Nat /\ Removed \in 0 .. Len(Packets)
      /\ rx_buf \in Seq(Byte) /\ line \in Seq(Byte)
  BY <1>2, <1>3, LenProperties DEF FrameTypes
<1>5. Sent[next] = Sent[Removed] \o (rx_buf \o line')
  <2> DEFINE packet == Packets[next]
             front == Sent[Removed]
  <2>1. packet \in Seq(Byte) /\ front \in Seq(Byte) /\ rx_buf \o line \in Seq(Byte)
    BY <1>3, <1>4, PacketsAreBytes, SentDefined, ConcatProperties
  <2>2. Sent[next] = (front \o (rx_buf \o line)) \o packet
    BY <1>2, <1>3, SentDefined
  <2>3. line' = line \o packet
    BY <1>3
  <2> HIDE DEF packet, front
  <2>4. (front \o (rx_buf \o line)) \o packet = front \o ((rx_buf \o line) \o packet)
    BY <2>1, Regroup, Zenon
  <2>5. (rx_buf \o line) \o packet = rx_buf \o (line \o packet)
    BY <1>4, <2>1, Regroup, Zenon
  <2> QED BY <2>2, <2>3, <2>4, <2>5, Zenon DEF front
<1>6. \A k \in 1 .. Len(owner') : owner'[k] # 0
  <2> DEFINE tags == [i \in DOMAIN Packets[next] |-> next]
  <2>1. /\ tags \in Seq(0 .. Len(Packets)) /\ Len(tags) = Len(Packets[next])
        /\ Len(tags) \in Nat
        /\ DOMAIN Packets[next] = 1 .. Len(Packets[next])
    BY <1>3, SentTypes, PacketsAreBytes, LenProperties
  <2>2. \A k \in 1 .. Len(tags) : tags[k] # 0
    BY <1>3, <2>1
  <2>3. owner' = owner \o tags /\ owner \in Seq(0 .. Len(Packets)) /\ Len(owner) \in Nat
    BY LenProperties DEF ObserveSent, HistoryTypes
  <2> HIDE DEF tags
  <2>4. /\ Len(owner') = Len(owner) + Len(tags)
        /\ \A k \in 1 .. Len(owner) + Len(tags) :
             owner'[k] = IF k <= Len(owner) THEN owner[k] ELSE tags[k - Len(owner)]
    BY <2>1, <2>3, ConcatProperties
  <2> SUFFICES ASSUME NEW k \in 1 .. Len(owner') PROVE owner'[k] # 0
    OBVIOUS
  <2>5. k \in 1 .. Len(owner) + Len(tags)
    BY <2>4
  <2>6. CASE k <= Len(owner)
    BY <1>2, <2>3, <2>4, <2>5, <2>6
  <2>7. CASE ~(k <= Len(owner))
    <3>1. k - Len(owner) \in 1 .. Len(tags)
      BY <2>1, <2>3, <2>5, <2>7
    <3> QED BY <2>2, <2>4, <2>5, <2>7, <3>1
  <2> QED BY <2>6, <2>7
<1>7. Sent[next' - 1] = Sent[Removed'] \o (rx_buf' \o line')
  BY <1>3, <1>5, Zenon
<1>8. Removed \in 0 .. next /\ Len(accepted) <= next
  BY <1>2, <1>3, <1>4
<1>9. Removed' \in 0 .. next' - 1 /\ Len(accepted') <= next' - 1
  BY <1>3, <1>8, Zenon
<1>10. \A k \in 1 .. Len(accepted') : accepted'[k] = Packets[k]
  BY <1>2, <1>3, Zenon
<1> QED BY <1>6, <1>7, <1>9, <1>10

\* The receiver takes its step.
LEMMA RxStream ==
  ASSUME FrameTypes, HistoryTypes, StreamInv, RxStep, ObserveRx
  PROVE  StreamInv'
<1> DEFINE Goal ==
      /\ Removed' \in 0 .. next' - 1
      /\ Sent[next' - 1] = Sent[Removed'] \o (rx_buf' \o line')
      /\ Len(accepted') <= next' - 1
      /\ \A k \in 1 .. Len(accepted') : accepted'[k] = Packets[k]
<1> SUFFICES ASSUME Undisturbed'
             PROVE  Goal /\ \A k \in 1 .. Len(owner') : owner'[k] # 0
  BY DEF StreamInv
<1>1. Undisturbed
  <2>1. noise' = noise
    BY DEF RxStep, Read, ParseEnds, DropByte, CrcFails, Accept, DrainByte, DrainEnds
  <2>2. torn \subseteq torn'
    BY DEF ObserveRx
  <2> QED BY <2>1, <2>2 DEF Undisturbed
<1>2. /\ Removed \in 0 .. next - 1
      /\ Sent[next - 1] = Sent[Removed] \o (rx_buf \o line)
      /\ Len(accepted) <= next - 1
      /\ \A k \in 1 .. Len(accepted) : accepted[k] = Packets[k]
      /\ \A k \in 1 .. Len(owner) : owner[k] # 0
  BY <1>1 DEF StreamInv
<1>3. \A k \in 1 .. Len(owner') : owner'[k] # 0
  BY <1>2, OwnersStay
<1>4. /\ next' = next /\ next - 1 \in 0 .. Len(Packets)
      /\ Len(accepted) \in Nat /\ Removed \in 0 .. Len(Packets)
      /\ rx_buf \in Seq(Byte) /\ line \in Seq(Byte) /\ Len(line) \in Nat
  <2>1. next' = next
    BY DEF RxStep, Read, ParseEnds, DropByte, CrcFails, Accept, DrainByte, DrainEnds
  <2>2. next - 1 \in 0 .. Len(Packets) /\ Len(Packets) \in Nat
    BY PacketsAreBytes DEF FrameTypes
  <2> QED BY <1>2, <2>1, <2>2, LenProperties DEF FrameTypes
<1>5. CASE Read
  <2>1. PICK n \in 1 .. Len(line) :
          /\ rx_buf' = rx_buf \o SubSeq(line, 1, n)
          /\ line' = SubSeq(line, n + 1, Len(line))
    BY <1>5 DEF Read
  <2> DEFINE chunk == SubSeq(line, 1, n)
             left == SubSeq(line, n + 1, Len(line))
  <2>2. n \in 0 .. Len(line)
    BY <1>4
  <2>3. chunk \in Seq(Byte) /\ left \in Seq(Byte)
    BY <1>4, <2>2, TakenTypes
  <2>4. line = chunk \o left
    <3>1. 1 \in 1 .. Len(line) + 1 /\ n \in 1 - 1 .. Len(line) /\ Len(line) \in n .. Len(line)
      BY <1>4, <2>2
    <3>2. SubSeq(line, 1, Len(line)) = line
      BY <1>4, SubSeqFull
    <3> QED BY <1>4, <3>1, <3>2, ConcatAdjacentSubSeq
  <2> HIDE DEF chunk, left
  <2>5. (rx_buf \o chunk) \o left = rx_buf \o (chunk \o left)
    BY <1>4, <2>3, Regroup, Zenon
  <2>6. rx_buf' \o line' = rx_buf \o line
    BY <2>1, <2>4, <2>5, Zenon DEF chunk, left
  <2>7. Removed' = Removed /\ accepted' = accepted
    BY <1>5 DEF Read, Removed
  <2> QED BY <1>2, <1>3, <1>4, <2>6, <2>7, Zenon
<1>6. CASE ParseEnds
  BY <1>2, <1>3, <1>4, <1>6, Zenon DEF ParseEnds, Removed
<1>7. CASE DropByte
  BY <1>1, <1>7, BufferBegins DEF DropByte
<1>8. CASE CrcFails
  BY <1>1, <1>8, BufferBegins DEF CrcFails
<1>9. CASE Accept
  <2>1. /\ Removed = Len(accepted)
        /\ accepted' = Append(accepted, SubSeq(rx_buf, 1, TotalLen))
        /\ rx_buf' = rx_buf /\ line' = line /\ place' = "drain"
    BY <1>9 DEF Accept, Removed
  <2>2. /\ SubSeq(rx_buf, 1, TotalLen) = Packets[Removed + 1]
        /\ Removed + 1 <= next - 1
    BY <1>1, <1>9, BufferBegins DEF Accept
  <2>3. SubSeq(rx_buf, 1, TotalLen) \in Seq(Byte)
    BY <1>9, PacketTypes DEF Accept, PacketHere
  <2>4. /\ Len(accepted') = Len(accepted) + 1
        /\ \A k \in 1 .. Len(accepted) : accepted'[k] = accepted[k]
        /\ accepted'[Len(accepted) + 1] = SubSeq(rx_buf, 1, TotalLen)
    BY <2>1, <2>3, AppendProperties DEF FrameTypes
  <2>5. Removed' = Removed
    BY <1>4, <2>1, <2>4 DEF Removed
  <2>6. \A k \in 1 .. Len(accepted') : accepted'[k] = Packets[k]
    <3> SUFFICES ASSUME NEW k \in 1 .. Len(accepted') PROVE accepted'[k] = Packets[k]
      OBVIOUS
    <3>1. CASE k = Len(accepted) + 1
      BY <2>1, <2>2, <2>4, <3>1, Zenon
    <3>2. CASE k # Len(accepted) + 1
      <4>1. k \in 1 .. Len(accepted)
        BY <1>4, <2>4, <3>2
      <4> QED BY <1>2, <2>4, <4>1, Zenon
    <3> QED BY <3>1, <3>2
  <2>7. Len(accepted') <= next' - 1
    BY <1>4, <2>1, <2>2, <2>4
  <2>8. Sent[next' - 1] = Sent[Removed'] \o (rx_buf' \o line')
    BY <1>2, <1>4, <2>1, <2>5, Zenon
  <2>9. Removed' \in 0 .. next' - 1
    BY <1>2, <1>4, <2>5, Zenon
  <2> QED BY <1>3, <2>6, <2>7, <2>8, <2>9
<1>10. CASE DrainByte
  <2>1. Len(line) # 0 /\ line' = Tail(line) /\ Len(line') = Len(line) - 1
    BY <1>4, <1>10, EmptySeq, HeadTailProperties DEF DrainByte
  <2>2. 1 \in 1 .. Len(line) - Len(line')
    BY <1>4, <2>1
  <2>3. owner[1] \in torn'
    BY <1>10, <2>2 DEF DrainByte, ObserveRx
  <2> QED BY <2>3 DEF Undisturbed
<1>11. CASE DrainEnds
  <2>1. place = "drain" /\ PacketHere /\ Removed = Len(accepted) - 1
    BY <1>11 DEF DrainEnds, FrameTypes, Removed
  <2>2. Removed' = Removed + 1 /\ accepted' = accepted
    <3>1. Removed' = Len(accepted) /\ accepted' = accepted
      BY <1>11 DEF DrainEnds, Removed
    <3> QED BY <1>4, <2>1, <3>1
  <2> DEFINE packet == Packets[Removed + 1]
             front == Sent[Removed]
  <2>3. Removed + 1 \in 1 .. Len(Packets) /\ Removed + 1 <= next - 1
    BY <1>1, <2>1, BufferBegins DEF PacketHere
  <2>4. rx_buf = packet \o rx_buf' /\ rx_buf' \in Seq(Byte)
    BY <1>1, <1>11, <2>1, BufferBegins, PacketTypes DEF PacketHere, DrainEnds
  <2>5. packet \in Seq(Byte) /\ front \in Seq(Byte)
    BY <1>4, <2>3, PacketsAreBytes, SentDefined
  <2>6. Sent[Removed + 1] = front \o packet
    <3>1. (Removed + 1) - 1 = Removed
      BY <1>4
    <3> QED BY <2>3, <3>1, SentDefined
  <2>7. line = <<>> /\ line' = <<>>
    BY <1>11 DEF DrainEnds
  <2> HIDE DEF packet, front
  <2>8. rx_buf \o line = packet \o (rx_buf' \o line')
    <3>1. line' \in Seq(Byte)
      BY <2>7, EmptySeq
    <3>2. (packet \o rx_buf') \o line' = packet \o (rx_buf' \o line')
      BY <2>4, <2>5, <3>1, Regroup, Zenon
    <3> QED BY <2>4, <2>7, <3>2, Zenon
  <2>9. (front \o packet) \o (rx_buf' \o line') = front \o (packet \o (rx_buf' \o line'))
    <3>1. rx_buf' \o line' \in Seq(Byte)
      BY <2>4, <2>7, EmptySeq, ConcatProperties
    <3> QED BY <2>5, <3>1, Regroup, Zenon
  <2>10. Sent[next' - 1] = Sent[Removed'] \o (rx_buf' \o line')
    BY <1>2, <1>4, <2>2, <2>6, <2>8, <2>9, Zenon DEF front
  <2>11. Removed' \in 0 .. next' - 1
    BY <1>2, <1>4, <2>2, <2>3
  <2>12. /\ Len(accepted') <= next' - 1
         /\ \A k \in 1 .. Len(accepted') : accepted'[k] = Packets[k]
    BY <1>2, <1>4, <2>2, Zenon
  <2> QED BY <1>3, <2>10, <2>11, <2>12
<1> QED BY <1>5, <1>6, <1>7, <1>8, <1>9, <1>10, <1>11 DEF RxStep

LEMMA StreamHolds == HSpec => []StreamInv
<1>1. HInit => StreamInv
  <2> SUFFICES ASSUME HInit PROVE StreamInv
    OBVIOUS
  <2>1. <<>> \in Seq(Byte) /\ Len(<<>>) = 0
    BY EmptySeq
  <2>2. <<>> = <<>> \o (<<>> \o <<>>)
    BY <2>1, ConcatEmptySeq
  <2>3. Removed = 0 /\ next - 1 = 0 /\ rx_buf = <<>> /\ line = <<>>
    BY <2>1 DEF HInit, Init, Removed
  <2>4. Sent[next - 1] = Sent[Removed] \o (rx_buf \o line)
    BY <2>2, <2>3, SentDefined, Zenon
  <2> QED BY <2>1, <2>3, <2>4 DEF HInit, Init, StreamInv
<1>2. RxInv /\ StreamInv /\ [HNext]_hvars => StreamInv'
  <2> SUFFICES ASSUME RxInv, StreamInv, [HNext]_hvars PROVE StreamInv'
    OBVIOUS
  <2>0. FrameTypes /\ HistoryTypes
    BY DEF RxInv
  <2>1. CASE MasterSends /\ ObserveSent
    BY <2>0, <2>1, SendStream
  <2>2. CASE \E k \in 1 .. Len(line) + 1 : Noise(k) /\ ObserveNoise(k)
    <3>1. noise' = noise + 1 /\ noise \in Nat
      BY <2>0, <2>2, FrameAssumption DEF Noise, FrameTypes
    <3> QED BY <3>1 DEF StreamInv, Undisturbed
  <2>3. CASE RxStep /\ ObserveRx
    BY <2>0, <2>3, RxStream
  <2>4. CASE (LogStep /\ UNCHANGED history) \/ UNCHANGED hvars
    <3>1. UNCHANGED <<line, rx_buf, place, accepted, next, noise, owner, torn>>
      BY <2>4 DEF LogStep, hvars, vars, frameVars, history
    <3> QED BY <3>1, Zenon DEF StreamInv, Undisturbed, Removed
  <2> QED BY <2>1, <2>2, <2>3, <2>4 DEF HNext
<1> QED BY <1>1, <1>2, FrameIsTyped, PTL DEF HSpec

\* Packets that arrive whole never fill ui_uart_rx_task's buffer with what it waits
\* for in vain: the header at the start of the buffer is one the master sent.
THEOREM IntactPacketsNeverWedge == HSpec => []WholePacketsNeverWedge
<1>1. RxInv /\ StreamInv => WholePacketsNeverWedge
  <2> SUFFICES ASSUME RxInv, StreamInv, Wedged, Undisturbed PROVE FALSE
    <3>1. RxInv => noise \in 0 .. MaxNoise /\ MaxNoise \in Nat
      BY FrameAssumption DEF RxInv, FrameTypes
    <3> QED BY <3>1 DEF WholePacketsNeverWedge, Undisturbed
  <2>1. FrameTypes /\ HeaderHere /\ TotalLen > BufSize
    BY DEF RxInv, Wedged
  <2>2. Removed + 1 \in 1 .. Len(Packets) /\ TotalLen = Len(Packets[Removed + 1])
    BY <2>1, BufferBegins
  <2>3. TotalLen \in Nat /\ BufSize \in Nat /\ TotalLen <= BufSize
    BY <2>2, PacketsAreBytes, FrameAssumption
  <2> QED BY <2>1, <2>3
<1> QED BY <1>1, FrameIsTyped, StreamHolds, PTL

\* A packet that was sent and not yet removed from the buffer is found in it, or in
\* the line behind it.
LEMMA StillThere ==
  ASSUME FrameTypes, StreamInv, Undisturbed, NEW k \in Removed + 1 .. next - 1
  PROVE  LET bytes == rx_buf \o line
         IN \E from \in DOMAIN bytes :
              /\ from + Len(Packets[k]) - 1 <= Len(bytes)
              /\ SubSeq(bytes, from, from + Len(Packets[k]) - 1) = Packets[k]
<1> DEFINE bytes == rx_buf \o line
           packet == Packets[k]
           front == Sent[Removed]
<1>1. /\ rx_buf \in Seq(Byte) /\ line \in Seq(Byte)
      /\ next - 1 \in 0 .. Len(Packets) /\ Len(Packets) \in Nat
      /\ Removed \in 0 .. next - 1
      /\ Sent[next - 1] = front \o bytes
  <2>1. Removed \in 0 .. next - 1 /\ Sent[next - 1] = front \o bytes
    BY Zenon DEF StreamInv
  <2> QED BY <2>1, PacketsAreBytes DEF FrameTypes
<1>2. /\ k \in 1 .. Len(Packets) /\ k - 1 \in Removed .. Len(Packets)
      /\ k \in 0 .. Len(Packets) /\ next - 1 \in k .. Len(Packets)
      /\ Removed \in 0 .. Len(Packets)
  BY <1>1
<1>3. /\ bytes \in Seq(Byte) /\ front \in Seq(Byte)
      /\ packet \in Seq(Byte) /\ Len(packet) \in Nat /\ Len(packet) >= 7
  <2>1. bytes \in Seq(Byte)
    BY <1>1, ConcatProperties
  <2>2. front \in Seq(Byte)
    BY <1>2, SentDefined
  <2>3. packet \in Seq(Byte) /\ Len(packet) \in Nat /\ Len(packet) >= 7
    BY <1>2, PacketsAreBytes DEF HeaderLen, CrcLen
  <2> QED BY <2>1, <2>2, <2>3
<1>4. PICK before \in Seq(Byte) : Sent[k - 1] = front \o before
  BY <1>2, SentGrows
<1>5. PICK after \in Seq(Byte) : Sent[next - 1] = Sent[k] \o after
  BY <1>2, SentGrows
<1>6. Sent[k] = Sent[k - 1] \o packet
  BY <1>2, SentDefined
<1> HIDE DEF bytes, packet, front
<1>7. bytes = before \o (packet \o after)
  <2> DEFINE rest == packet \o after
             upto == front \o before
  <2>1. /\ front \in Seq(Byte) /\ packet \in Seq(Byte)
        /\ rest \in Seq(Byte) /\ upto \in Seq(Byte)
    BY <1>3, ConcatProperties
  <2> HIDE DEF rest, upto
  <2>2. (upto \o packet) \o after = upto \o (packet \o after)
    BY <2>1, Regroup, Zenon
  <2>3. (front \o before) \o rest = front \o (before \o rest)
    <3>1. front \in Seq(Byte) /\ rest \in Seq(Byte)
      BY <2>1
    <3> QED BY <3>1, Regroup
  <2>4. front \o bytes = front \o (before \o rest)
    BY <1>1, <1>4, <1>5, <1>6, <2>2, <2>3, Zenon DEF rest, upto
  <2>5. before \o rest \in Seq(Byte)
    BY <2>1, ConcatProperties
  <2> QED BY <1>3, <2>4, <2>5, ConcatSimplifications DEF rest
<1>8. /\ Len(before) \in Nat /\ Len(after) \in Nat
      /\ Len(packet \o after) = Len(packet) + Len(after)
      /\ packet \o after \in Seq(Byte)
      /\ \A i \in 1 .. Len(packet) + Len(after) :
           (packet \o after)[i] = IF i <= Len(packet) THEN packet[i] ELSE after[i - Len(packet)]
  BY <1>3, LenProperties, ConcatProperties
<1> DEFINE rest == packet \o after
<1>9. /\ Len(bytes) = Len(before) + Len(rest)
      /\ \A i \in 1 .. Len(before) + Len(rest) :
           bytes[i] = IF i <= Len(before) THEN before[i] ELSE rest[i - Len(before)]
  <2>1. rest \in Seq(Byte) /\ bytes = before \o rest
    BY <1>7, <1>8
  <2> HIDE DEF rest
  <2> QED BY <2>1, ConcatProperties
<1> DEFINE from == Len(before) + 1
           to == from + Len(packet) - 1
<1>10. /\ from \in Nat /\ to \in Nat /\ to = Len(before) + Len(packet)
       /\ from \in DOMAIN bytes /\ to <= Len(bytes) /\ from <= to
  BY <1>3, <1>8, <1>9, LenProperties
<1>11. SubSeq(bytes, from, to) = packet
  <2>1. \A i \in from .. to : bytes[i] \in Byte
    BY <1>3, <1>10, ElementOfSeq, LenProperties
  <2>2. /\ SubSeq(bytes, from, to) \in Seq(Byte)
        /\ Len(SubSeq(bytes, from, to)) = to - from + 1
        /\ \A i \in 1 .. to - from + 1 : SubSeq(bytes, from, to)[i] = bytes[from + i - 1]
    BY <1>10, <2>1, SubSeqProperties
  <2>3. to - from + 1 = Len(packet)
    BY <1>3, <1>8
  <2>4. \A i \in 1 .. Len(packet) : bytes[from + i - 1] = packet[i]
    <3> SUFFICES ASSUME NEW i \in 1 .. Len(packet) PROVE bytes[from + i - 1] = packet[i]
      OBVIOUS
    <3>1. /\ from + i - 1 \in 1 .. Len(before) + Len(rest)
          /\ ~(from + i - 1 <= Len(before))
          /\ (from + i - 1) - Len(before) = i
          /\ i \in 1 .. Len(packet) + Len(after) /\ i <= Len(packet)
      BY <1>3, <1>8
    <3>2. bytes[from + i - 1] = rest[i]
      BY <1>9, <3>1
    <3>3. rest[i] = packet[i]
      BY <1>8, <3>1
    <3> QED BY <3>2, <3>3, Zenon
  <2>5. \A i \in 1 .. Len(packet) : SubSeq(bytes, from, to)[i] = packet[i]
    BY <2>2, <2>3, <2>4
  <2> HIDE DEF from, to
  <2> QED BY <1>3, <2>2, <2>3, <2>5, SeqEqual
<1> QED BY <1>10, <1>11, Zenon DEF bytes, packet

\* As long as the line is undisturbed and the drain has cut nothing, ui_uart_rx_task
\* takes every packet, as it was sent and in that order.
THEOREM UndisturbedReception == HSpec => [](Undisturbed => AcceptedAsSent /\ NoSilentLoss)
<1>1. RxInv /\ StreamInv => (Undisturbed => AcceptedAsSent /\ NoSilentLoss)
  <2> SUFFICES ASSUME RxInv, StreamInv, Undisturbed PROVE AcceptedAsSent /\ NoSilentLoss
    OBVIOUS
  <2>1. /\ FrameTypes
        /\ DOMAIN accepted = 1 .. Len(accepted) /\ Len(accepted) \in Nat
        /\ DOMAIN Packets = 1 .. Len(Packets)
        /\ next - 1 <= Len(Packets) /\ Len(Packets) \in Nat /\ next \in Nat
    BY LenProperties, PacketsAreBytes DEF RxInv, FrameTypes
  <2>2. /\ Len(accepted) <= next - 1
        /\ \A k \in 1 .. Len(accepted) : accepted[k] = Packets[k]
        /\ Removed \in 0 .. next - 1
    BY DEF StreamInv
  <2>3. AcceptedAsSent
    <3> DEFINE number == [k \in 1 .. Len(accepted) |-> k]
    <3>1. number \in [DOMAIN accepted -> DOMAIN Packets]
      BY <2>1, <2>2
    <3>2. /\ \A k \in DOMAIN accepted : accepted[k] = Packets[number[k]]
          /\ \A k, l \in DOMAIN accepted : k < l => number[k] < number[l]
      BY <2>1, <2>2
    <3> HIDE DEF number
    <3> QED BY <3>1, <3>2 DEF AcceptedAsSent
  <2>4. NoSilentLoss
    <3> DEFINE Found(k) ==
          LET bytes == rx_buf \o line
          IN \E from \in DOMAIN bytes :
               /\ from + Len(Packets[k]) - 1 <= Len(bytes)
               /\ SubSeq(bytes, from, from + Len(Packets[k]) - 1) = Packets[k]
    <3>1. ASSUME NEW k \in 1 .. next - 1, k > Len(accepted)
          PROVE  Found(k)
      <4>1. k \in Removed + 1 .. next - 1
        BY <2>1, <2>2, <3>1 DEF Removed
      <4> QED BY <2>1, <4>1, StillThere
    <3>2. ASSUME NEW k \in 1 .. next - 1, k <= Len(accepted)
          PROVE  \E a \in DOMAIN accepted : accepted[a] = Packets[k]
      <4>1. k \in DOMAIN accepted /\ accepted[k] = Packets[k]
        BY <2>1, <2>2, <3>2
      <4> QED BY <4>1
    <3> HIDE DEF Found
    <3>3. \A k \in 1 .. next - 1 :
            k \in torn \/ (\E a \in DOMAIN accepted : accepted[a] = Packets[k]) \/ Found(k)
      BY <2>1, <3>1, <3>2
    <3> QED BY <3>3, Zenon DEF NoSilentLoss, Found
  <2> QED BY <2>3, <2>4
<1> QED BY <1>1, FrameIsTyped, StreamHolds, PTL

(***************************************************************************)
(* A line that damages packets: reception is right as long as the CRC is   *)
(* not right by chance.                                                    *)
(***************************************************************************)

\* What is in the buffer and in the line behind it, and the packets it belongs to.
Bytes == rx_buf \o line
Tags == held \o owner

\* What of the buffer is a packet taken already, which the end of the drain removes.
Cut == IF place = "drain" THEN TotalLen ELSE 0

\* Behind the first f bytes of b comes packet k, and no other byte of b behind the
\* first c is marked as its own by t.
WholeAt(b, t, c, k, f) ==
  /\ f + Len(Packets[k]) <= Len(b)
  /\ \A j \in 1 .. Len(Packets[k]) : b[f + j] = Packets[k][j]
  /\ \A p \in c + 1 .. Len(b) : t[p] = k <=> p \in f + 1 .. f + Len(Packets[k])

Whole(b, t, c, k) == \E f \in c .. Len(b) : WholeAt(b, t, c, k, f)

\* Each byte is one of a packet sent, and none comes before one of an earlier packet.
InOrder(t, n) ==
  /\ \A p \in 1 .. Len(t) : t[p] \in 0 .. n - 1
  /\ \A p, q \in 1 .. Len(t) : p < q /\ t[p] # 0 /\ t[q] # 0 => t[p] <= t[q]

\* number[a] is the packet that was taken as the a-th, of acc: they were taken in
\* the order they were sent, and nothing of them nor of earlier ones is to come.
Taken(acc, number, t, c, n) ==
  /\ number \in [1 .. Len(acc) -> 1 .. n - 1]
  /\ \A a \in 1 .. Len(acc) : acc[a] = Packets[number[a]]
  /\ \A a, d \in 1 .. Len(acc) : a < d => number[a] < number[d]
  /\ \A a \in 1 .. Len(acc) : \A p \in c + 1 .. Len(t) : t[p] # 0 => number[a] < t[p]

\* Each packet sent is damaged, taken, or all there.
Accounted(acc, number, b, t, c, n, damaged) ==
  \A k \in 1 .. n - 1 :
    k \in damaged \/ (\E a \in 1 .. Len(acc) : number[a] = k) \/ Whole(b, t, c, k)

Reception(b, t, c, n, damaged, acc, number) ==
  /\ InOrder(t, n)
  /\ Taken(acc, number, t, c, n)
  /\ Accounted(acc, number, b, t, c, n, damaged)

\* The inductive invariant of reception, relative to CrcNeverByChance.
NoisyInv == \E number : Reception(Bytes, Tags, Cut, next, torn, accepted, number)

\* z is s without d elements, the first of them at lo.
CutOut(s, z, lo, d) ==
  /\ Len(z) = Len(s) - d
  /\ \A i \in 1 .. Len(s) - d : z[i] = IF i < lo THEN s[i] ELSE s[i + d]

\* A packet stays whole when none of its bytes is among those taken out.
LEMMA CutKeepsWhole ==
  ASSUME NEW b, NEW t, NEW x, NEW y, NEW c \in Nat, NEW e \in Nat,
         NEW lo \in Nat, NEW d \in Nat, NEW k \in 1 .. Len(Packets),
         Len(b) \in Nat, Len(t) = Len(b), lo >= 1, lo + d <= Len(b) + 1,
         CutOut(b, x, lo, d), CutOut(t, y, lo, d),
         (e = c /\ c < lo) \/ (e = 0 /\ lo = 1 /\ d = c),
         \A p \in c + 1 .. Len(b) : lo <= p /\ p < lo + d => t[p] # k,
         Whole(b, t, c, k)
  PROVE  Whole(x, y, e, k)
<1>1. PICK f \in c .. Len(b) : WholeAt(b, t, c, k, f)
  BY DEF Whole
<1>0. /\ Len(x) = Len(b) - d
      /\ \A i \in 1 .. Len(b) - d : x[i] = IF i < lo THEN b[i] ELSE b[i + d]
      /\ \A i \in 1 .. Len(b) - d : y[i] = IF i < lo THEN t[i] ELSE t[i + d]
  BY DEF CutOut
<1> DEFINE l == Len(Packets[k])
<1>2. l \in Nat /\ l >= 7
  BY PacketsAreBytes DEF HeaderLen, CrcLen
<1>3. /\ f + l <= Len(b)
      /\ \A j \in 1 .. l : b[f + j] = Packets[k][j]
      /\ \A p \in c + 1 .. Len(b) : t[p] = k <=> p \in f + 1 .. f + l
  BY <1>1 DEF WholeAt
<1> HIDE DEF l
<1>4. f \in Nat /\ f >= c /\ Len(x) \in Nat /\ Len(x) = Len(b) - d
  BY <1>0, <1>1
<1>5. f + l < lo \/ lo + d <= f + 1 \/ d = 0
  <2> SUFFICES ASSUME lo <= f + l, f + 1 < lo + d, d > 0 PROVE FALSE
    BY <1>2, <1>4
  <2> DEFINE p == IF lo <= f + 1 THEN f + 1 ELSE lo
  <2>1. p \in c + 1 .. Len(b) /\ lo <= p /\ p < lo + d /\ p \in f + 1 .. f + l
    BY <1>2, <1>3, <1>4
  <2> HIDE DEF p
  <2> QED BY <1>3, <2>1
<1>6. CASE f + l < lo
  <2>1. f \in e .. Len(x) /\ f + l <= Len(x)
    BY <1>2, <1>4, <1>6
  <2>2. \A j \in 1 .. l : x[f + j] = Packets[k][j]
    <3> SUFFICES ASSUME NEW j \in 1 .. l PROVE x[f + j] = Packets[k][j]
      OBVIOUS
    <3>1. f + j \in 1 .. Len(b) - d /\ f + j < lo
      BY <1>2, <1>4, <1>6, <2>1
    <3>2. x[f + j] = b[f + j]
      BY <1>0, <3>1
    <3> QED BY <1>3, <3>2
  <2>3. \A p \in e + 1 .. Len(x) : y[p] = k <=> p \in f + 1 .. f + l
    <3> SUFFICES ASSUME NEW p \in e + 1 .. Len(x) PROVE y[p] = k <=> p \in f + 1 .. f + l
      OBVIOUS
    <3>1. p \in 1 .. Len(b) - d
      BY <1>4
    <3>2. CASE p < lo
      <4>1. y[p] = t[p]
        BY <1>0, <3>1, <3>2
      <4>2. p <= c \/ p \in c + 1 .. Len(b)
        BY <1>4, <3>1
      <4>3. e = c
        BY <1>2, <1>4, <1>6
      <4> QED BY <1>3, <3>1, <4>1, <4>2, <4>3
    <3>3. CASE ~(p < lo)
      <4>1. y[p] = t[p + d]
        BY <1>0, <3>1, <3>3
      <4>2. p + d \in c + 1 .. Len(b) /\ ~(p + d \in f + 1 .. f + l) /\ ~(p \in f + 1 .. f + l)
        BY <1>2, <1>4, <1>6, <3>1, <3>3
      <4> QED BY <1>3, <4>1, <4>2
    <3> QED BY <3>2, <3>3
  <2> QED BY <2>1, <2>2, <2>3 DEF Whole, WholeAt, l
<1>7. CASE lo + d <= f + 1 \/ d = 0
  <2> DEFINE g == f - d
  <2>1. g \in e .. Len(x) /\ g + l <= Len(x) /\ g + d = f /\ g \in Nat
    <3>1. g >= e /\ g \in Int
      <4>1. CASE d = 0
        BY <1>4, <4>1
      <4>2. CASE lo + d <= f + 1 /\ e = c /\ c < lo
        BY <1>4, <4>2
      <4>3. CASE e = 0 /\ lo = 1 /\ d = c
        BY <1>4, <4>3
      <4> QED BY <1>7, <4>1, <4>2, <4>3
    <3> QED BY <1>2, <1>3, <1>4, <3>1
  <2> HIDE DEF g
  <2>2. \A j \in 1 .. l : x[g + j] = Packets[k][j]
    <3> SUFFICES ASSUME NEW j \in 1 .. l PROVE x[g + j] = Packets[k][j]
      OBVIOUS
    <3>1. g + j \in 1 .. Len(b) - d /\ (~(g + j < lo) \/ d = 0) /\ (g + j) + d = f + j
      BY <1>2, <1>4, <1>7, <2>1
    <3>2. x[g + j] = b[(g + j) + d]
      <4>1. CASE d = 0
        <5>1. (g + j) + d = g + j
          BY <2>1, <4>1
        <5> QED BY <1>0, <3>1, <5>1
      <4>2. CASE ~(g + j < lo)
        BY <1>0, <3>1, <4>2
      <4> QED BY <3>1, <4>1, <4>2
    <3> QED BY <1>3, <3>1, <3>2
  <2>3. \A p \in e + 1 .. Len(x) : y[p] = k <=> p \in g + 1 .. g + l
    <3> SUFFICES ASSUME NEW p \in e + 1 .. Len(x) PROVE y[p] = k <=> p \in g + 1 .. g + l
      OBVIOUS
    <3>1. p \in 1 .. Len(b) - d
      BY <1>4
    <3>2. CASE p < lo /\ d # 0
      <4>1. y[p] = t[p]
        BY <1>0, <3>1, <3>2
      <4>2. p \in c + 1 .. Len(b) /\ ~(p \in f + 1 .. f + l) /\ ~(p \in g + 1 .. g + l)
        BY <1>2, <1>4, <1>7, <2>1, <3>1, <3>2
      <4> QED BY <1>3, <4>1, <4>2
    <3>3. CASE ~(p < lo) \/ d = 0
      <4>1. y[p] = t[p + d]
        BY <1>0, <3>1, <3>3
      <4>2. p + d \in c + 1 .. Len(b)
        BY <1>4, <1>7, <3>1, <3>3
      <4>3. p + d \in f + 1 .. f + l <=> p \in g + 1 .. g + l
        BY <1>2, <1>4, <2>1, <3>1
      <4> QED BY <1>3, <4>1, <4>2, <4>3
    <3> QED BY <3>2, <3>3
  <2> QED BY <2>1, <2>2, <2>3 DEF Whole, WholeAt, l
<1> QED BY <1>5, <1>6, <1>7

\* What the damage takes out of the buffer or the line belongs to damaged packets,
\* or to the one taken already.
LEMMA CutKeepsReception ==
  ASSUME NEW b, NEW t, NEW x, NEW y, NEW c \in Nat, NEW e \in Nat,
         NEW lo \in Nat, NEW d \in Nat, NEW n \in 1 .. Len(Packets) + 1,
         NEW damaged, NEW damaged2, NEW acc, NEW number,
         Len(b) \in Nat, Len(t) = Len(b), lo >= 1, lo + d <= Len(b) + 1,
         CutOut(b, x, lo, d), CutOut(t, y, lo, d),
         (e = c /\ c < lo) \/ (e = 0 /\ lo = 1 /\ d = c),
         damaged \subseteq damaged2,
         \A p \in c + 1 .. Len(b) : lo <= p /\ p < lo + d => t[p] = 0 \/ t[p] \in damaged2,
         Reception(b, t, c, n, damaged, acc, number)
  PROVE  Reception(x, y, e, n, damaged2, acc, number)
<1>0. InOrder(t, n) /\ Taken(acc, number, t, c, n) /\ Accounted(acc, number, b, t, c, n, damaged)
  BY DEF Reception
<1>1. /\ Len(y) = Len(b) - d /\ Len(y) \in Nat
      /\ \A i \in 1 .. Len(b) - d : y[i] = IF i < lo THEN t[i] ELSE t[i + d]
  BY DEF CutOut
<1>2. PICK old : old = [i \in 1 .. Len(b) - d |-> IF i < lo THEN i ELSE i + d]
  OBVIOUS
<1>3. \A i \in 1 .. Len(b) - d : /\ old[i] \in 1 .. Len(b)
                                 /\ y[i] = t[old[i]]
                                 /\ i > e => old[i] \in c + 1 .. Len(b)
  <2> SUFFICES ASSUME NEW i \in 1 .. Len(b) - d
               PROVE  /\ old[i] \in 1 .. Len(b)
                      /\ y[i] = t[old[i]]
                      /\ i > e => old[i] \in c + 1 .. Len(b)
    OBVIOUS
  <2>1. CASE i < lo
    <3>1. old[i] = i /\ y[i] = t[i]
      BY <1>1, <1>2, <2>1
    <3> QED BY <2>1, <3>1
  <2>2. CASE ~(i < lo)
    <3>1. old[i] = i + d /\ y[i] = t[i + d]
      BY <1>1, <1>2, <2>2
    <3> QED BY <2>2, <3>1
  <2> QED BY <2>1, <2>2
<1>4. \A i, j \in 1 .. Len(b) - d : i < j => old[i] < old[j]
  <2> SUFFICES ASSUME NEW i \in 1 .. Len(b) - d, NEW j \in 1 .. Len(b) - d, i < j
               PROVE  old[i] < old[j]
    OBVIOUS
  <2>1. old[i] = (IF i < lo THEN i ELSE i + d) /\ old[j] = (IF j < lo THEN j ELSE j + d)
    BY <1>2
  <2> QED BY <2>1
<1>5. InOrder(y, n)
  <2>1. \A p \in 1 .. Len(b) - d : y[p] \in 0 .. n - 1
    BY <1>0, <1>3 DEF InOrder
  <2>2. ASSUME NEW p \in 1 .. Len(b) - d, NEW q \in 1 .. Len(b) - d, p < q, y[p] # 0, y[q] # 0
        PROVE  y[p] <= y[q]
    <3>1. old[p] \in 1 .. Len(t) /\ old[q] \in 1 .. Len(t) /\ old[p] < old[q]
      BY <1>3, <1>4, <2>2
    <3>2. y[p] = t[old[p]] /\ y[q] = t[old[q]]
      BY <1>3
    <3> QED BY <1>0, <2>2, <3>1, <3>2 DEF InOrder
  <2> QED BY <1>0, <1>1, <2>1, <2>2 DEF InOrder
<1>6. Taken(acc, number, y, e, n)
  <2>1. ASSUME NEW a \in 1 .. Len(acc), NEW p \in e + 1 .. Len(y), y[p] # 0
        PROVE  number[a] < y[p]
    <3>1. p \in 1 .. Len(b) - d /\ p > e
      BY <1>1
    <3>2. old[p] \in c + 1 .. Len(t) /\ y[p] = t[old[p]]
      BY <1>3, <3>1
    <3> QED BY <1>0, <2>1, <3>2 DEF Taken
  <2> QED BY <1>0, <2>1 DEF Taken
<1>7. Accounted(acc, number, x, y, e, n, damaged2)
  <2> SUFFICES ASSUME NEW k \in 1 .. n - 1, k \notin damaged2,
                      ~ \E a \in 1 .. Len(acc) : number[a] = k
               PROVE  Whole(x, y, e, k)
    BY <1>0 DEF Accounted
  <2>1. Whole(b, t, c, k)
    BY <1>0 DEF Accounted
  <2>2. k \in 1 .. Len(Packets) /\ k # 0
    BY PacketsAreBytes
  <2>3. \A p \in c + 1 .. Len(b) : lo <= p /\ p < lo + d => t[p] # k
    BY <2>2
  <2> QED BY <2>1, <2>2, <2>3, CutKeepsWhole
<1> QED BY <1>5, <1>6, <1>7 DEF Reception

\* Bytes come in at the end of the line, those of packet n or of noise, or noise
\* changes one of a packet that is damaged then.
Growth(b, t, x, y, n, m, damaged) ==
  /\ Len(x) \in Nat /\ Len(y) = Len(x) /\ Len(x) >= Len(b)
  /\ \A i \in 1 .. Len(b) : y[i] = t[i] /\ (x[i] = b[i] \/ t[i] = 0 \/ t[i] \in damaged)
  /\ \A i \in Len(b) + 1 .. Len(x) : y[i] = IF m = n THEN 0 ELSE n
  /\ \/ m = n
     \/ /\ m = n + 1
        /\ Len(x) = Len(b) + Len(Packets[n])
        /\ \A j \in 1 .. Len(Packets[n]) : x[Len(b) + j] = Packets[n][j]

LEMMA GrowthKeepsReception ==
  ASSUME NEW b, NEW t, NEW x, NEW y, NEW c \in Nat, NEW n \in 1 .. Len(Packets) + 1,
         NEW m \in 1 .. Len(Packets) + 1, NEW damaged, NEW damaged2, NEW acc, NEW number,
         Len(b) \in Nat, Len(t) = Len(b), c <= Len(b),
         Growth(b, t, x, y, n, m, damaged2),
         damaged \subseteq damaged2,
         Reception(b, t, c, n, damaged, acc, number)
  PROVE  Reception(x, y, c, m, damaged2, acc, number)
<1>0. InOrder(t, n) /\ Taken(acc, number, t, c, n) /\ Accounted(acc, number, b, t, c, n, damaged)
  BY DEF Reception
<1> USE DEF Growth
<1> DEFINE tag == IF m = n THEN 0 ELSE n
<1>5. /\ \A i \in Len(b) + 1 .. Len(x) : y[i] = tag
      /\ \/ tag = 0 /\ m = n
         \/ tag = n /\ m = n + 1
  OBVIOUS
<1> HIDE DEF tag
<1>1. /\ \A p \in 1 .. Len(b) : y[p] = t[p] /\ t[p] \in 0 .. n - 1
      /\ \A p \in 1 .. Len(x) : p \in 1 .. Len(b) \/ (p \in Len(b) + 1 .. Len(x) /\ y[p] = tag)
  BY <1>0, <1>5 DEF InOrder
<1>2. InOrder(y, m)
  <2>1. \A p \in 1 .. Len(x) : y[p] \in 0 .. m - 1
    BY <1>1, <1>5
  <2>2. ASSUME NEW p \in 1 .. Len(x), NEW q \in 1 .. Len(x), p < q, y[p] # 0, y[q] # 0
        PROVE  y[p] <= y[q]
    <3>1. CASE q \in 1 .. Len(b)
      <4>1. p \in 1 .. Len(b)
        BY <2>2, <3>1
      <4> QED BY <1>0, <1>1, <2>2, <3>1, <4>1 DEF InOrder
    <3>2. CASE q \in Len(b) + 1 .. Len(x) /\ y[q] = tag
      <4>1. tag = n /\ y[q] = n
        BY <2>2, <3>2
      <4>2. CASE p \in 1 .. Len(b)
        <5>1. y[p] \in 0 .. n - 1
          BY <1>1, <4>2
        <5> QED BY <4>1, <5>1
      <4>3. CASE y[p] = tag
        BY <4>1, <4>3
      <4> QED BY <1>1, <4>2, <4>3
    <3> QED BY <1>1, <3>1, <3>2
  <2> QED BY <1>0, <2>1, <2>2 DEF InOrder
<1>3. Taken(acc, number, y, c, m)
  <2>1. number \in [1 .. Len(acc) -> 1 .. m - 1]
    BY <1>0 DEF Taken
  <2>2. ASSUME NEW a \in 1 .. Len(acc), NEW p \in c + 1 .. Len(y), y[p] # 0
        PROVE  number[a] < y[p]
    <3>1. p \in 1 .. Len(x) /\ number[a] \in 1 .. n - 1
      BY <1>0 DEF Taken
    <3>2. CASE p \in 1 .. Len(b)
      <4>1. p \in c + 1 .. Len(t) /\ y[p] = t[p]
        BY <1>1, <3>2
      <4> QED BY <1>0, <2>2, <4>1 DEF Taken
    <3>3. CASE y[p] = tag
      BY <1>5, <2>2, <3>1, <3>3
    <3> QED BY <1>1, <3>1, <3>2, <3>3
  <2> QED BY <1>0, <2>1, <2>2 DEF Taken
<1>4. Accounted(acc, number, x, y, c, m, damaged2)
  <2> SUFFICES ASSUME NEW k \in 1 .. m - 1, k \notin damaged2,
                      ~ \E a \in 1 .. Len(acc) : number[a] = k
               PROVE  Whole(x, y, c, k)
    BY <1>0 DEF Accounted
  <2> DEFINE l == Len(Packets[k])
  <2>1. k \in 1 .. Len(Packets) /\ k # 0 /\ l \in Nat /\ l >= 7
    BY PacketsAreBytes DEF HeaderLen, CrcLen
  <2>2. CASE k \in 1 .. n - 1
    <3>1. Whole(b, t, c, k)
      BY <1>0, <2>2 DEF Accounted
    <3>2. PICK f \in c .. Len(b) : WholeAt(b, t, c, k, f)
      BY <3>1 DEF Whole
    <3>3. /\ f + l <= Len(b) /\ f \in Nat
          /\ \A j \in 1 .. l : b[f + j] = Packets[k][j]
          /\ \A p \in c + 1 .. Len(b) : t[p] = k <=> p \in f + 1 .. f + l
      BY <3>2 DEF WholeAt
    <3> HIDE DEF l
    <3>4. \A j \in 1 .. l : x[f + j] = Packets[k][j]
      <4> SUFFICES ASSUME NEW j \in 1 .. l PROVE x[f + j] = Packets[k][j]
        OBVIOUS
      <4>1. f + j \in 1 .. Len(b) /\ f + j \in c + 1 .. Len(b) /\ f + j \in f + 1 .. f + l
        BY <2>1, <3>2, <3>3
      <4>2. t[f + j] = k
        BY <3>3, <4>1
      <4>3. x[f + j] = b[f + j]
        BY <2>1, <4>1, <4>2
      <4> QED BY <3>3, <4>3
    <3>5. \A p \in c + 1 .. Len(x) : y[p] = k <=> p \in f + 1 .. f + l
      <4> SUFFICES ASSUME NEW p \in c + 1 .. Len(x) PROVE y[p] = k <=> p \in f + 1 .. f + l
        OBVIOUS
      <4>1. CASE p <= Len(b)
        <5>1. p \in c + 1 .. Len(b) /\ p \in 1 .. Len(b)
          BY <4>1
        <5> QED BY <1>1, <3>3, <5>1
      <4>2. CASE p > Len(b)
        <5>1. p \in Len(b) + 1 .. Len(x)
          BY <4>2
        <5>2. y[p] # k
          BY <2>1, <2>2, <5>1
        <5> QED BY <2>1, <3>3, <4>2, <5>2
      <4> QED BY <4>1, <4>2
    <3>6. f \in c .. Len(x) /\ f + l <= Len(x)
      BY <2>1, <3>2, <3>3
    <3>7. WholeAt(x, y, c, k, f)
      BY <3>4, <3>5, <3>6, Zenon DEF WholeAt, l
    <3> QED BY <3>6, <3>7 DEF Whole
  <2>3. CASE k = n /\ tag = n
    <3>1. /\ Len(x) = Len(b) + l
          /\ \A j \in 1 .. l : x[Len(b) + j] = Packets[k][j]
      BY <2>3
    <3> HIDE DEF l
    <3>2. \A p \in c + 1 .. Len(x) : y[p] = k <=> p \in Len(b) + 1 .. Len(b) + l
      <4> SUFFICES ASSUME NEW p \in c + 1 .. Len(x) PROVE y[p] = k <=> p \in Len(b) + 1 .. Len(b) + l
        OBVIOUS
      <4>1. CASE p <= Len(b)
        <5>1. p \in 1 .. Len(b) /\ y[p] \in 0 .. n - 1
          BY <1>1, <4>1
        <5> QED BY <2>3, <4>1, <5>1
      <4>2. CASE p > Len(b)
        BY <2>3, <3>1, <4>2
      <4> QED BY <4>1, <4>2
    <3>3. Len(b) \in c .. Len(x) /\ Len(b) + l <= Len(x)
      BY <2>1, <3>1
    <3> QED BY <3>1, <3>2, <3>3 DEF Whole, WholeAt, l
  <2> QED BY <1>5, <2>2, <2>3
<1> QED BY <1>2, <1>3, <1>4 DEF Reception

\* The buffer begins with a byte of a packet that is neither damaged nor taken: it
\* begins with that packet.
Begins(b, t, k) ==
  /\ \A j \in 1 .. Len(Packets[k]) : b[j] = Packets[k][j]
  /\ \A p \in 1 .. Len(b) : t[p] = k <=> p \in 1 .. Len(Packets[k])

LEMMA HeadIsWhole ==
  ASSUME NEW b, NEW t, NEW n \in 1 .. Len(Packets) + 1, NEW damaged, NEW acc, NEW number,
         Len(b) \in Nat, Len(b) >= 1, Len(t) = Len(b), t[1] # 0, t[1] \notin damaged,
         Reception(b, t, 0, n, damaged, acc, number)
  PROVE  t[1] \in 1 .. n - 1 /\ Begins(b, t, t[1])
<1> DEFINE k == t[1]
           l == Len(Packets[k])
<1>0. InOrder(t, n) /\ Taken(acc, number, t, 0, n) /\ Accounted(acc, number, b, t, 0, n, damaged)
  BY DEF Reception
<1>1. k \in 1 .. n - 1 /\ k \in 1 .. Len(Packets) /\ k # 0 /\ k \notin damaged
  BY <1>0, PacketsAreBytes DEF InOrder
<1>2. \A a \in 1 .. Len(acc) : number[a] # k
  <2>1. 1 \in 0 + 1 .. Len(t)
    OBVIOUS
  <2>2. \A a \in 1 .. Len(acc) : number[a] < k /\ number[a] \in 1 .. n - 1
    BY <1>0, <2>1 DEF Taken
  <2> QED BY <1>1, <2>2
<1>3. l \in Nat /\ l >= 7
  BY <1>1, PacketsAreBytes DEF HeaderLen, CrcLen
<1> HIDE DEF k
<1>4. Whole(b, t, 0, k)
  BY <1>0, <1>1, <1>2 DEF Accounted
<1>5. PICK f \in 0 .. Len(b) : WholeAt(b, t, 0, k, f)
  BY <1>4 DEF Whole
<1>6. /\ f + l <= Len(b)
      /\ \A j \in 1 .. l : b[f + j] = Packets[k][j]
      /\ \A p \in 1 .. Len(b) : t[p] = k <=> p \in f + 1 .. f + l
  BY <1>5 DEF WholeAt
<1> HIDE DEF l
<1>7. f = 0
  <2>1. 1 \in 1 .. Len(b) /\ t[1] = k
    BY DEF k
  <2>2. 1 \in f + 1 .. f + l
    BY <1>6, <2>1
  <2> QED BY <2>2
<1>8. \A j \in 1 .. l : b[j] = Packets[k][j]
  <2>1. \A j \in 1 .. l : f + j = j
    BY <1>7
  <2> QED BY <1>3, <1>6, <1>7, <2>1
<1>9. \A p \in 1 .. Len(b) : t[p] = k <=> p \in 1 .. l
  BY <1>3, <1>6, <1>7
<1> QED BY <1>1, <1>8, <1>9 DEF Begins, k, l

\* The last byte of packet k is at l, and the bytes up to there are its own or damaged.
EndsAt(t, l, k, damaged) ==
  /\ 1 <= l /\ l <= Len(t)
  /\ t[l] = k
  /\ \A p \in l + 1 .. Len(t) : t[p] # k
  /\ \A p \in 1 .. l : t[p] = k \/ t[p] = 0 \/ t[p] \in damaged

\* acc2 is acc with one more packet at its end.
ExtendedBy(acc, acc2, packet) ==
  /\ Len(acc2) = Len(acc) + 1
  /\ \A a \in 1 .. Len(acc) : acc2[a] = acc[a]
  /\ acc2[Len(acc) + 1] = packet

\* A packet is taken. What it is taken for ends where its bytes end, and no
\* undamaged packet but that one has bytes in it.
LEMMA AcceptKeepsReception ==
  ASSUME NEW b, NEW t, NEW n \in 1 .. Len(Packets) + 1, NEW damaged, NEW acc, NEW number,
         NEW l \in Nat, NEW k \in 1 .. n - 1, NEW acc2,
         Len(b) \in Nat, Len(t) = Len(b), Len(acc) \in Nat,
         EndsAt(t, l, k, damaged), ExtendedBy(acc, acc2, Packets[k]),
         Reception(b, t, 0, n, damaged, acc, number)
  PROVE  \E longer : Reception(b, t, l, n, damaged, acc2, longer)
<1> USE DEF EndsAt, ExtendedBy
<1>0. InOrder(t, n) /\ Taken(acc, number, t, 0, n) /\ Accounted(acc, number, b, t, 0, n, damaged)
  BY DEF Reception
<1> DEFINE len == Len(acc)
<1>1. PICK longer : longer = [a \in 1 .. len + 1 |-> IF a = len + 1 THEN k ELSE number[a]]
  OBVIOUS
<1>2. /\ number \in [1 .. len -> 1 .. n - 1]
      /\ \A a \in 1 .. len : acc[a] = Packets[number[a]]
      /\ \A a, d \in 1 .. len : a < d => number[a] < number[d]
      /\ \A a \in 1 .. len : \A p \in 1 .. Len(t) : t[p] # 0 => number[a] < t[p]
  BY <1>0 DEF Taken
<1>3. \A a \in 1 .. len : number[a] < k /\ number[a] \in 1 .. n - 1
  BY <1>2
<1> HIDE DEF len
<1>4. /\ len \in Nat /\ longer[len + 1] = k
      /\ \A a \in 1 .. len : longer[a] = number[a]
      /\ \A a \in 1 .. len + 1 : a \in 1 .. len \/ a = len + 1
  <2>1. len \in Nat
    BY DEF len
  <2> QED BY <1>1, <2>1
<1>5. Taken(acc2, longer, t, l, n)
  <2>1. Len(acc2) = len + 1 /\ acc2[len + 1] = Packets[k] /\ \A a \in 1 .. len : acc2[a] = acc[a]
    BY DEF len
  <2>2. longer \in [1 .. len + 1 -> 1 .. n - 1]
    <3>1. \A a \in 1 .. len + 1 : (IF a = len + 1 THEN k ELSE number[a]) \in 1 .. n - 1
      BY <1>3, <1>4
    <3> QED BY <1>1, <3>1
  <2>3. \A a \in 1 .. len + 1 : acc2[a] = Packets[longer[a]]
    BY <1>2, <1>4, <2>1
  <2>4. \A a, d \in 1 .. len + 1 : a < d => longer[a] < longer[d]
    <3> SUFFICES ASSUME NEW a \in 1 .. len + 1, NEW d \in 1 .. len + 1, a < d
                 PROVE  longer[a] < longer[d]
      OBVIOUS
    <3>1. a \in 1 .. len
      BY <1>4
    <3>2. CASE d = len + 1
      BY <1>3, <1>4, <3>1, <3>2
    <3>3. CASE d \in 1 .. len
      BY <1>2, <1>4, <3>1, <3>3
    <3> QED BY <1>4, <3>2, <3>3
  <2>5. ASSUME NEW a \in 1 .. len + 1, NEW p \in l + 1 .. Len(t), t[p] # 0
        PROVE  longer[a] < t[p]
    <3>1. p \in 1 .. Len(t) /\ l \in 1 .. Len(t) /\ l < p /\ t[l] # 0
      OBVIOUS
    <3>2. k <= t[p] /\ t[p] # k /\ t[p] \in 0 .. n - 1
      BY <1>0, <2>5, <3>1 DEF InOrder
    <3>3. CASE a = len + 1
      BY <1>4, <3>2, <3>3
    <3>4. CASE a \in 1 .. len
      BY <1>2, <1>4, <2>5, <3>1, <3>4
    <3> QED BY <1>4, <3>3, <3>4
  <2> QED BY <1>0, <2>1, <2>2, <2>3, <2>4, <2>5 DEF Taken
<1>6. Accounted(acc2, longer, b, t, l, n, damaged)
  <2>1. Len(acc2) = len + 1
    BY DEF len
  <2> SUFFICES ASSUME NEW j \in 1 .. n - 1, j \notin damaged,
                      ~ \E a \in 1 .. len + 1 : longer[a] = j
               PROVE  Whole(b, t, l, j)
    BY <1>0, <2>1 DEF Accounted
  <2>2. j # k
    BY <1>4
  <2>3. ASSUME NEW a \in 1 .. len PROVE number[a] # j
    <3>1. a \in 1 .. len + 1 /\ longer[a] = number[a]
      BY <1>4
    <3> QED BY <3>1
  <2>4. PICK f \in 0 .. Len(b) : WholeAt(b, t, 0, j, f)
    BY <1>0, <2>3 DEF Accounted, Whole, len
  <2> DEFINE m == Len(Packets[j])
  <2>5. m \in Nat /\ m >= 7
    BY PacketsAreBytes DEF HeaderLen, CrcLen
  <2>6. /\ f + m <= Len(b)
        /\ \A i \in 1 .. m : b[f + i] = Packets[j][i]
        /\ \A p \in 1 .. Len(b) : t[p] = j <=> p \in f + 1 .. f + m
    BY <2>4 DEF WholeAt
  <2> HIDE DEF m
  <2>7. t[f + 1] = j /\ f + 1 \in 1 .. Len(b)
    BY <2>5, <2>6
  <2>8. f >= l
    BY <2>2, <2>7
  <2>9. f \in l .. Len(b) /\ \A p \in l + 1 .. Len(b) : t[p] = j <=> p \in f + 1 .. f + m
    BY <2>6, <2>8
  <2> QED BY <2>6, <2>9 DEF Whole, WholeAt, m
<1> QED BY <1>0, <1>5, <1>6 DEF Reception

\* Bytes are taken out of the front of the buffer ...
LEMMA FrontOut ==
  ASSUME NEW S, NEW s \in Seq(S), NEW u \in Seq(S), NEW d \in 0 .. Len(s)
  PROVE  CutOut(s \o u, SubSeq(s, d + 1, Len(s)) \o u, 1, d)
<1> DEFINE v == SubSeq(s, d + 1, Len(s))
<1>1. /\ Len(s) \in Nat /\ Len(u) \in Nat
      /\ \A i \in 1 .. Len(s) : s[i] \in S
  BY LenProperties, ElementOfSeq
<1>2. /\ v \in Seq(S) /\ Len(v) = Len(s) - d
      /\ \A i \in 1 .. Len(s) - d : v[i] = s[i + d]
  <2>1. /\ v \in Seq(S)
        /\ Len(v) = IF d + 1 <= Len(s) THEN Len(s) - (d + 1) + 1 ELSE 0
        /\ \A i \in 1 .. Len(s) - (d + 1) + 1 : v[i] = s[(d + 1) + i - 1]
    BY <1>1, SubSeqProperties
  <2>2. \A i \in 1 .. Len(s) - d : (d + 1) + i - 1 = i + d
    BY <1>1
  <2> HIDE DEF v
  <2> QED BY <1>1, <2>1, <2>2
<1> HIDE DEF v
<1>3. /\ Len(s \o u) = Len(s) + Len(u)
      /\ \A i \in 1 .. Len(s) + Len(u) : (s \o u)[i] = IF i <= Len(s) THEN s[i] ELSE u[i - Len(s)]
  BY ConcatProperties
<1>4. /\ Len(v \o u) = Len(v) + Len(u)
      /\ \A i \in 1 .. Len(v) + Len(u) : (v \o u)[i] = IF i <= Len(v) THEN v[i] ELSE u[i - Len(v)]
  BY <1>2, ConcatProperties
<1>5. Len(v \o u) = Len(s \o u) - d
  BY <1>1, <1>2, <1>3, <1>4
<1>6. ASSUME NEW i \in 1 .. Len(s \o u) - d PROVE (v \o u)[i] = (s \o u)[i + d]
  <2>1. i + d \in 1 .. Len(s) + Len(u) /\ i \in 1 .. Len(v) + Len(u)
    BY <1>1, <1>2, <1>3
  <2>2. CASE i <= Len(v)
    <3>1. i + d <= Len(s) /\ i \in 1 .. Len(s) - d
      BY <1>1, <1>2, <2>1, <2>2
    <3> QED BY <1>2, <1>3, <1>4, <2>1, <2>2, <3>1
  <2>3. CASE ~(i <= Len(v))
    <3>1. ~(i + d <= Len(s)) /\ i - Len(v) = (i + d) - Len(s)
      BY <1>1, <1>2, <2>1, <2>3
    <3> QED BY <1>3, <1>4, <2>1, <2>3, <3>1
  <2> QED BY <2>2, <2>3
<1>7. CutOut(s \o u, v \o u, 1, d)
  <2>1. \A i \in 1 .. Len(s \o u) - d : ~(i < 1)
    BY <1>1, <1>3
  <2> QED BY <1>5, <1>6, <2>1 DEF CutOut
<1> QED BY <1>7 DEF v

\* ... or out of the line.
LEMMA BehindOut ==
  ASSUME NEW S, NEW s \in Seq(S), NEW u \in Seq(S), NEW v \in Seq(S),
         NEW lo \in 1 .. Len(u), NEW d \in 0 .. Len(u), CutOut(u, v, lo, d)
  PROVE  CutOut(s \o u, s \o v, Len(s) + lo, d)
<1>1. Len(s) \in Nat /\ Len(u) \in Nat /\ Len(v) \in Nat
  BY LenProperties
<1>2. /\ Len(v) = Len(u) - d
      /\ \A i \in 1 .. Len(u) - d : v[i] = IF i < lo THEN u[i] ELSE u[i + d]
  BY DEF CutOut
<1>3. /\ Len(s \o u) = Len(s) + Len(u)
      /\ \A i \in 1 .. Len(s) + Len(u) : (s \o u)[i] = IF i <= Len(s) THEN s[i] ELSE u[i - Len(s)]
  BY ConcatProperties
<1>4. /\ Len(s \o v) = Len(s) + Len(v)
      /\ \A i \in 1 .. Len(s) + Len(v) : (s \o v)[i] = IF i <= Len(s) THEN s[i] ELSE v[i - Len(s)]
  BY ConcatProperties
<1>5. Len(s \o v) = Len(s \o u) - d
  BY <1>1, <1>2, <1>3, <1>4
<1>6. ASSUME NEW i \in 1 .. Len(s \o u) - d
      PROVE  (s \o v)[i] = IF i < Len(s) + lo THEN (s \o u)[i] ELSE (s \o u)[i + d]
  <2>1. i + d \in 1 .. Len(s) + Len(u) /\ i \in 1 .. Len(s) + Len(v) /\ i \in 1 .. Len(s) + Len(u)
    BY <1>1, <1>2, <1>3
  <2>2. CASE i <= Len(s)
    <3>1. i < Len(s) + lo
      BY <1>1, <2>2
    <3> QED BY <1>3, <1>4, <2>1, <2>2, <3>1
  <2>3. CASE ~(i <= Len(s))
    <3> DEFINE j == i - Len(s)
    <3>1. /\ j \in 1 .. Len(u) - d /\ (i + d) - Len(s) = j + d /\ ~(i + d <= Len(s))
          /\ (i < Len(s) + lo <=> j < lo)
      BY <1>1, <1>2, <2>1, <2>3
    <3>2. (s \o v)[i] = v[j] /\ (s \o u)[i] = u[j]
      BY <1>3, <1>4, <2>1, <2>3
    <3>3. (s \o u)[i + d] = u[j + d]
      BY <1>3, <2>1, <3>1
    <3> HIDE DEF j
    <3> QED BY <1>2, <3>1, <3>2, <3>3
  <2> QED BY <2>2, <2>3
<1> QED BY <1>5, <1>6 DEF CutOut

LEMMA RemoveAtCuts ==
  ASSUME NEW S, NEW u \in Seq(S), NEW k \in 1 .. Len(u)
  PROVE  CutOut(u, RemoveAt(u, k), k, 1)
<1> DEFINE a == SubSeq(u, 1, k - 1)
           z == SubSeq(u, k + 1, Len(u))
<1>1. Len(u) \in Nat /\ \A i \in 1 .. Len(u) : u[i] \in S
  BY LenProperties, ElementOfSeq
<1>2. a \in Seq(S) /\ Len(a) = k - 1 /\ \A i \in 1 .. k - 1 : a[i] = u[i]
  BY <1>1, SubSeqProperties
<1>3. z \in Seq(S) /\ Len(z) = Len(u) - k /\ \A i \in 1 .. Len(u) - k : z[i] = u[k + i]
  <2>1. /\ z \in Seq(S)
        /\ Len(z) = IF k + 1 <= Len(u) THEN Len(u) - (k + 1) + 1 ELSE 0
        /\ \A i \in 1 .. Len(u) - (k + 1) + 1 : z[i] = u[(k + 1) + i - 1]
    BY <1>1, SubSeqProperties
  <2>2. \A i \in 1 .. Len(u) - k : (k + 1) + i - 1 = k + i
    BY <1>1
  <2> HIDE DEF z
  <2> QED BY <1>1, <2>1, <2>2
<1>4. RemoveAt(u, k) = a \o z
  BY DEF RemoveAt
<1> HIDE DEF a, z
<1>5. /\ Len(a \o z) = Len(a) + Len(z)
      /\ \A i \in 1 .. Len(a) + Len(z) : (a \o z)[i] = IF i <= Len(a) THEN a[i] ELSE z[i - Len(a)]
  BY <1>2, <1>3, ConcatProperties
<1>6. Len(a \o z) = Len(u) - 1
  BY <1>1, <1>2, <1>3, <1>5
<1>7. ASSUME NEW i \in 1 .. Len(u) - 1
      PROVE  (a \o z)[i] = IF i < k THEN u[i] ELSE u[i + 1]
  <2>1. i \in 1 .. Len(a) + Len(z)
    BY <1>1, <1>2, <1>3
  <2>2. CASE i < k
    BY <1>2, <1>5, <2>1, <2>2
  <2>3. CASE ~(i < k)
    <3>1. /\ ~(i <= Len(a)) /\ i - Len(a) \in 1 .. Len(u) - k
          /\ k + (i - Len(a)) = i + 1
      BY <1>1, <1>2, <2>3
    <3>2. (a \o z)[i] = z[i - Len(a)] /\ z[i - Len(a)] = u[i + 1]
      BY <1>3, <1>5, <2>1, <3>1
    <3> QED BY <2>3, <3>2
  <2> QED BY <2>2, <2>3
<1> QED BY <1>4, <1>6, <1>7 DEF CutOut

\* What is in the buffer and behind it, as one sequence.
LEMMA StreamTypes ==
  ASSUME FrameTypes, HistoryTypes
  PROVE  /\ Bytes \in Seq(Byte) /\ Tags \in Seq(0 .. Len(Packets))
         /\ rx_buf \in Seq(Byte) /\ line \in Seq(Byte)
         /\ held \in Seq(0 .. Len(Packets)) /\ owner \in Seq(0 .. Len(Packets))
         /\ Len(rx_buf) \in Nat /\ Len(line) \in Nat
         /\ Len(held) = Len(rx_buf) /\ Len(owner) = Len(line)
         /\ Len(Bytes) = Len(rx_buf) + Len(line) /\ Len(Bytes) \in Nat
         /\ Len(Tags) = Len(Bytes)
         /\ \A i \in 1 .. Len(rx_buf) : Bytes[i] = rx_buf[i] /\ Tags[i] = held[i]
         /\ \A i \in 1 .. Len(line) :
              Bytes[Len(rx_buf) + i] = line[i] /\ Tags[Len(rx_buf) + i] = owner[i]
         /\ Cut \in Nat /\ Cut <= Len(rx_buf)
         /\ next \in 1 .. Len(Packets) + 1
<1>1. /\ rx_buf \in Seq(Byte) /\ line \in Seq(Byte)
      /\ held \in Seq(0 .. Len(Packets)) /\ owner \in Seq(0 .. Len(Packets))
      /\ Len(rx_buf) \in Nat /\ Len(line) \in Nat
      /\ Len(held) = Len(rx_buf) /\ Len(owner) = Len(line)
      /\ next \in 1 .. Len(Packets) + 1
  BY LenProperties DEF FrameTypes, HistoryTypes
<1>2. /\ Bytes \in Seq(Byte) /\ Len(Bytes) = Len(rx_buf) + Len(line)
      /\ \A i \in 1 .. Len(rx_buf) + Len(line) :
           Bytes[i] = IF i <= Len(rx_buf) THEN rx_buf[i] ELSE line[i - Len(rx_buf)]
  BY <1>1, ConcatProperties DEF Bytes
<1>3. /\ Tags \in Seq(0 .. Len(Packets)) /\ Len(Tags) = Len(held) + Len(owner)
      /\ \A i \in 1 .. Len(held) + Len(owner) :
           Tags[i] = IF i <= Len(held) THEN held[i] ELSE owner[i - Len(held)]
  BY <1>1, ConcatProperties DEF Tags
<1>4. \A i \in 1 .. Len(rx_buf) : Bytes[i] = rx_buf[i] /\ Tags[i] = held[i]
  BY <1>1, <1>2, <1>3
<1>5. \A i \in 1 .. Len(line) :
        Bytes[Len(rx_buf) + i] = line[i] /\ Tags[Len(rx_buf) + i] = owner[i]
  <2> SUFFICES ASSUME NEW i \in 1 .. Len(line)
               PROVE  Bytes[Len(rx_buf) + i] = line[i] /\ Tags[Len(rx_buf) + i] = owner[i]
    OBVIOUS
  <2> DEFINE j == Len(rx_buf) + i
  <2>1. /\ j \in 1 .. Len(rx_buf) + Len(line) /\ ~(j <= Len(rx_buf)) /\ j - Len(rx_buf) = i
        /\ j \in 1 .. Len(held) + Len(owner) /\ ~(j <= Len(held)) /\ j - Len(held) = i
    BY <1>1
  <2> HIDE DEF j
  <2>2. Bytes[j] = line[i]
    BY <1>2, <2>1
  <2>3. Tags[j] = owner[i]
    BY <1>3, <2>1
  <2> QED BY <2>2, <2>3 DEF j
<1>6. Cut \in Nat /\ Cut <= Len(rx_buf)
  <2>1. CASE place = "drain"
    <3>1. PacketHere
      BY <2>1 DEF FrameTypes
    <3>2. TotalLen \in Nat /\ TotalLen <= Len(rx_buf)
      BY <1>1, <3>1, AnnouncedLength DEF PacketHere
    <3> QED BY <2>1, <3>2 DEF Cut
  <2>2. CASE place # "drain"
    BY <1>1, <2>2 DEF Cut
  <2> QED BY <2>1, <2>2
<1> QED BY <1>1, <1>2, <1>3, <1>4, <1>5, <1>6

\* A step takes bytes of damaged packets out, or the packet that is taken.
LEMMA CutStep ==
  ASSUME FrameTypes, HistoryTypes, NoisyInv, NEW lo \in Nat, NEW d \in Nat,
         lo >= 1, lo + d <= Len(Bytes) + 1,
         CutOut(Bytes, Bytes', lo, d), CutOut(Tags, Tags', lo, d),
         UNCHANGED <<next, accepted>>, torn \subseteq torn',
         (Cut' = Cut /\ Cut < lo) \/ (Cut' = 0 /\ lo = 1 /\ d = Cut),
         \A p \in Cut + 1 .. Len(Bytes) :
           lo <= p /\ p < lo + d => Tags[p] = 0 \/ Tags[p] \in torn'
  PROVE  NoisyInv'
<1>1. PICK x, y, e, damaged2 : x = Bytes' /\ y = Tags' /\ e = Cut' /\ damaged2 = torn'
  OBVIOUS
<1>2. PICK number : Reception(Bytes, Tags, Cut, next, torn, accepted, number)
  BY DEF NoisyInv
<1>4. /\ Len(Bytes) \in Nat /\ Len(Tags) = Len(Bytes)
      /\ Cut \in Nat /\ next \in 1 .. Len(Packets) + 1
  BY StreamTypes
<1>5. (e = Cut /\ Cut < lo) \/ (e = 0 /\ lo = 1 /\ d = Cut)
  BY <1>1, Zenon
<1>6. e \in Nat
  BY <1>4, <1>5
<1>7. /\ CutOut(Bytes, x, lo, d) /\ CutOut(Tags, y, lo, d) /\ torn \subseteq damaged2
      /\ \A p \in Cut + 1 .. Len(Bytes) :
           lo <= p /\ p < lo + d => Tags[p] = 0 \/ Tags[p] \in damaged2
  BY <1>1, Zenon
<1>8. Reception(x, y, e, next, damaged2, accepted, number)
  BY <1>2, <1>4, <1>5, <1>6, <1>7, CutKeepsReception
<1>9. next' = next /\ accepted' = accepted
  OBVIOUS
<1> QED BY <1>1, <1>8, <1>9, Zenon DEF NoisyInv

\* A step brings bytes, or changes one of a packet that is damaged then.
LEMMA GrowthStep ==
  ASSUME FrameTypes, HistoryTypes, NoisyInv,
         NEW x, NEW y, NEW m \in 1 .. Len(Packets) + 1,
         x = Bytes', y = Tags', m = next',
         UNCHANGED accepted, Cut' = Cut, torn \subseteq torn',
         Growth(Bytes, Tags, x, y, next, m, torn')
  PROVE  NoisyInv'
<1>1. PICK damaged2 : damaged2 = torn'
  OBVIOUS
<1>2. PICK number : Reception(Bytes, Tags, Cut, next, torn, accepted, number)
  BY DEF NoisyInv
<1>4. /\ Len(Bytes) \in Nat /\ Len(Tags) = Len(Bytes)
      /\ Cut \in Nat /\ Cut <= Len(Bytes) /\ next \in 1 .. Len(Packets) + 1
  BY StreamTypes
<1>5. torn \subseteq damaged2 /\ Growth(Bytes, Tags, x, y, next, m, damaged2)
  BY <1>1, Zenon
<1>6. Reception(x, y, Cut, m, damaged2, accepted, number)
  BY <1>2, <1>4, <1>5, GrowthKeepsReception
<1>7. accepted' = accepted /\ Cut' = Cut
  OBVIOUS
<1> QED BY <1>1, <1>6, <1>7, Zenon DEF NoisyInv

\* The buffer begins with a byte of an undamaged packet: it begins with that packet,
\* and the task sees it so.
LEMMA IntactHead ==
  ASSUME FrameTypes, HistoryTypes, NoisyInv, place = "parse", HeaderHere, ~Damaged(held[1])
  PROVE  /\ held[1] \in 1 .. next - 1 /\ held[1] \in 1 .. Len(Packets)
         /\ HeaderValid
         /\ TotalLen = Len(Packets[held[1]])
         /\ Len(rx_buf) >= TotalLen =>
              CrcRight /\ SubSeq(rx_buf, 1, TotalLen) = Packets[held[1]]
         /\ \A p \in 1 .. Len(Bytes) : Tags[p] = held[1] <=> p \in 1 .. TotalLen
<1> DEFINE k == held[1]
           packet == Packets[k]
<1>1. PICK number : Reception(Bytes, Tags, Cut, next, torn, accepted, number)
  BY DEF NoisyInv
<1>2. Cut = 0 /\ Reception(Bytes, Tags, 0, next, torn, accepted, number)
  BY <1>1 DEF Cut
<1>3. /\ Len(Bytes) \in Nat /\ Len(Tags) = Len(Bytes) /\ next \in 1 .. Len(Packets) + 1
      /\ Len(rx_buf) \in Nat /\ Len(line) \in Nat /\ Len(Bytes) = Len(rx_buf) + Len(line)
      /\ \A i \in 1 .. Len(rx_buf) : Bytes[i] = rx_buf[i] /\ Tags[i] = held[i]
  BY StreamTypes
<1>4. Len(rx_buf) >= 7
  BY AnnouncedLength DEF HeaderLen, CrcLen
<1>5. Tags[1] = k /\ Len(Bytes) >= 1
  <2>1. 1 \in 1 .. Len(rx_buf)
    BY <1>3, <1>4
  <2> QED BY <1>3, <1>4, <2>1
<1>6. Tags[1] # 0 /\ Tags[1] \notin torn
  BY <1>5 DEF Damaged
<1> HIDE DEF packet, k
<1>7. Tags[1] \in 1 .. next - 1 /\ Begins(Bytes, Tags, Tags[1])
  BY <1>2, <1>3, <1>5, <1>6, HeadIsWhole
<1>8. /\ k \in 1 .. next - 1 /\ k \in 1 .. Len(Packets)
      /\ \A j \in 1 .. Len(packet) : Bytes[j] = packet[j]
      /\ \A p \in 1 .. Len(Bytes) : Tags[p] = k <=> p \in 1 .. Len(packet)
  <2>1. k \in 1 .. next - 1 /\ Begins(Bytes, Tags, k)
    BY <1>5, <1>7, Zenon
  <2>2. k \in 1 .. Len(Packets)
    BY <1>3, <2>1, PacketsAreBytes
  <2> QED BY <2>1, <2>2, Zenon DEF Begins, packet
<1>9. packet \in Seq(Byte) /\ Len(packet) \in Nat /\ Len(packet) >= 7 /\ WellFormed(packet)
  BY <1>8, PacketsAreBytes DEF HeaderLen, CrcLen, packet
<1>10. \A j \in 1 .. Len(packet) : j <= Len(rx_buf) => rx_buf[j] = packet[j]
  <2> SUFFICES ASSUME NEW j \in 1 .. Len(packet), j <= Len(rx_buf) PROVE rx_buf[j] = packet[j]
    OBVIOUS
  <2>1. j \in 1 .. Len(rx_buf)
    BY <1>3
  <2> QED BY <1>3, <1>8, <2>1
<1>11. /\ HeaderValid /\ TotalLen = Len(packet)
       /\ Len(rx_buf) >= TotalLen => CrcRight /\ SubSeq(rx_buf, 1, TotalLen) = packet
  BY <1>9, <1>10, PacketAtHead
<1>12. \A p \in 1 .. Len(Bytes) : Tags[p] = k <=> p \in 1 .. TotalLen
  BY <1>8, <1>11, Zenon
<1> QED BY <1>8, <1>11, <1>12, Zenon DEF packet, k

\* A step of the receiver leaves the line, or what is left of it.
LEMMA OwnerFollows ==
  ASSUME FrameTypes, HistoryTypes, RxStep, ObserveRx, UNCHANGED line
  PROVE  UNCHANGED <<owner, torn>>
<1>1. /\ Len(line) \in Nat /\ owner \in Seq(0 .. Len(Packets)) /\ Len(owner) = Len(line)
  BY StreamTypes
<1>2. Len(line) - Len(line') = 0
  BY <1>1
<1>3. owner' = SubSeq(owner, 0 + 1, Len(owner))
  BY <1>2 DEF ObserveRx
<1>4. SubSeq(owner, 1, Len(owner)) = owner
  BY <1>1, SubSeqFull
<1>5. torn' = torn
  <2>1. \A k \in 1 .. 0 : FALSE
    OBVIOUS
  <2>2. {owner[k] : k \in 1 .. Len(line) - Len(line')} = {}
    BY <1>2, <2>1
  <2> QED BY <2>2 DEF ObserveRx
<1> QED BY <1>3, <1>4, <1>5

\* The first d bytes of the buffer go.
LEMMA FrontStep ==
  ASSUME FrameTypes, HistoryTypes, RxStep, ObserveRx, UNCHANGED line, place # "read",
         NEW d \in 0 .. Len(rx_buf), rx_buf' = SubSeq(rx_buf, d + 1, Len(rx_buf))
  PROVE  CutOut(Bytes, Bytes', 1, d) /\ CutOut(Tags, Tags', 1, d)
<1>1. /\ rx_buf \in Seq(Byte) /\ line \in Seq(Byte) /\ Len(rx_buf) \in Nat
      /\ held \in Seq(0 .. Len(Packets)) /\ owner \in Seq(0 .. Len(Packets))
      /\ Len(held) = Len(rx_buf)
  BY StreamTypes
<1>2. Len(SubSeq(rx_buf, d + 1, Len(rx_buf))) = Len(rx_buf) - d
  BY <1>1, TakenTypes
<1>3. Len(rx_buf) - Len(rx_buf') = d
  BY <1>1, <1>2
<1>4. held' = SubSeq(held, d + 1, Len(held))
  BY <1>3 DEF ObserveRx
<1>5. owner' = owner
  BY OwnerFollows
<1>6. CutOut(rx_buf \o line, SubSeq(rx_buf, d + 1, Len(rx_buf)) \o line, 1, d)
  BY <1>1, FrontOut
<1>7. CutOut(held \o owner, SubSeq(held, d + 1, Len(held)) \o owner, 1, d)
  <2>1. d \in 0 .. Len(held)
    BY <1>1
  <2> QED BY <1>1, <2>1, FrontOut
<1>8. /\ Bytes' = SubSeq(rx_buf, d + 1, Len(rx_buf)) \o line
      /\ Tags' = SubSeq(held, d + 1, Len(held)) \o owner
  BY <1>4, <1>5, Zenon DEF Bytes, Tags
<1> QED BY <1>6, <1>7, <1>8, Zenon DEF Bytes, Tags

\* Bytes that come in at the end of the line come in at the end of all.
LEMMA EndGrows ==
  ASSUME FrameTypes, HistoryTypes,
         NEW v \in Seq(Byte), NEW w \in Seq(0 .. Len(Packets)), Len(w) = Len(v),
         NEW m \in 1 .. Len(Packets) + 1, NEW damaged,
         \A i \in 1 .. Len(v) : w[i] = IF m = next THEN 0 ELSE next,
         m = next \/ (m = next + 1 /\ v = Packets[next])
  PROVE  /\ rx_buf \o (line \o v) = Bytes \o v
         /\ held \o (owner \o w) = Tags \o w
         /\ Growth(Bytes, Tags, Bytes \o v, Tags \o w, next, m, damaged)
<1>1. /\ Bytes \in Seq(Byte) /\ Tags \in Seq(0 .. Len(Packets))
      /\ rx_buf \in Seq(Byte) /\ line \in Seq(Byte)
      /\ held \in Seq(0 .. Len(Packets)) /\ owner \in Seq(0 .. Len(Packets))
      /\ Len(Bytes) \in Nat /\ Len(Tags) = Len(Bytes)
  BY StreamTypes
<1>2. rx_buf \o (line \o v) = Bytes \o v /\ held \o (owner \o w) = Tags \o w
  <2>1. (rx_buf \o line) \o v = rx_buf \o (line \o v)
    BY <1>1, Regroup, Zenon
  <2>2. (held \o owner) \o w = held \o (owner \o w)
    BY <1>1, RegroupTags, Zenon
  <2> QED BY <2>1, <2>2, Zenon DEF Bytes, Tags
<1>3. /\ Len(v) \in Nat
      /\ Len(Bytes \o v) = Len(Bytes) + Len(v)
      /\ \A i \in 1 .. Len(Bytes) + Len(v) :
           (Bytes \o v)[i] = IF i <= Len(Bytes) THEN Bytes[i] ELSE v[i - Len(Bytes)]
  BY <1>1, LenProperties, ConcatProperties
<1>4. /\ Len(Tags \o w) = Len(Bytes) + Len(v)
      /\ \A i \in 1 .. Len(Bytes) + Len(v) :
           (Tags \o w)[i] = IF i <= Len(Bytes) THEN Tags[i] ELSE w[i - Len(Bytes)]
  <2> DEFINE S == 0 .. Len(Packets)
  <2>1. Tags \in Seq(S) /\ w \in Seq(S)
    BY <1>1
  <2> HIDE DEF S
  <2>2. /\ Len(Tags \o w) = Len(Tags) + Len(w)
        /\ \A i \in 1 .. Len(Tags) + Len(w) :
             (Tags \o w)[i] = IF i <= Len(Tags) THEN Tags[i] ELSE w[i - Len(Tags)]
    BY <2>1, ConcatProperties
  <2>3. Len(Tags) = Len(Bytes) /\ Len(w) = Len(v)
    BY <1>1
  <2> QED BY <2>2, <2>3
<1> DEFINE x == Bytes \o v
           y == Tags \o w
<1> HIDE DEF x, y
<1>5. /\ Len(x) = Len(Bytes) + Len(v) /\ Len(y) = Len(x)
      /\ \A i \in 1 .. Len(Bytes) : x[i] = Bytes[i] /\ y[i] = Tags[i]
  BY <1>1, <1>3, <1>4 DEF x, y
<1>6. \A j \in 1 .. Len(v) : x[Len(Bytes) + j] = v[j]
  <2> SUFFICES ASSUME NEW j \in 1 .. Len(v) PROVE x[Len(Bytes) + j] = v[j]
    OBVIOUS
  <2>1. /\ Len(Bytes) + j \in 1 .. Len(Bytes) + Len(v) /\ ~(Len(Bytes) + j <= Len(Bytes))
        /\ (Len(Bytes) + j) - Len(Bytes) = j
    BY <1>1, <1>3
  <2> QED BY <1>3, <2>1 DEF x
<1>7. \A i \in Len(Bytes) + 1 .. Len(x) : y[i] = IF m = next THEN 0 ELSE next
  <2> SUFFICES ASSUME NEW i \in Len(Bytes) + 1 .. Len(x) PROVE y[i] = IF m = next THEN 0 ELSE next
    OBVIOUS
  <2>1. i \in 1 .. Len(Bytes) + Len(v) /\ ~(i <= Len(Bytes)) /\ i - Len(Bytes) \in 1 .. Len(v)
    BY <1>1, <1>3, <1>5
  <2>2. y[i] = w[i - Len(Bytes)]
    BY <1>4, <2>1 DEF y
  <2> QED BY <2>1, <2>2
<1>8. Growth(Bytes, Tags, x, y, next, m, damaged)
  <2>1. /\ Len(x) \in Nat /\ Len(y) = Len(x) /\ Len(x) >= Len(Bytes)
        /\ \A i \in 1 .. Len(Bytes) : y[i] = Tags[i] /\ x[i] = Bytes[i]
    BY <1>1, <1>3, <1>5
  <2>2. CASE m = next
    BY <1>7, <2>1, <2>2 DEF Growth
  <2>3. CASE m = next + 1 /\ v = Packets[next]
    <3>1. /\ Len(x) = Len(Bytes) + Len(Packets[next])
          /\ \A j \in 1 .. Len(Packets[next]) : x[Len(Bytes) + j] = Packets[next][j]
      BY <1>5, <1>6, <2>3
    <3> QED BY <1>7, <2>1, <2>3, <3>1 DEF Growth
  <2> QED BY <2>2, <2>3
<1> QED BY <1>2, <1>8 DEF x, y

\* The task's place and what it has of a packet decide what the drain will remove.
LEMMA CutStays ==
  ASSUME UNCHANGED <<place, rx_buf>>
  PROVE  Cut' = Cut
BY DEF Cut, TotalLen

LEMMA SendReception ==
  ASSUME FrameTypes, HistoryTypes, NoisyInv, MasterSends, ObserveSent
  PROVE  NoisyInv'
<1> DEFINE v == Packets[next]
           w == [i \in DOMAIN Packets[next] |-> next]
<1>1. next \in 1 .. Len(Packets) /\ next \in DOMAIN Packets
  BY PacketsAreBytes DEF FrameTypes, MasterSends
<1>2. /\ v \in Seq(Byte) /\ w \in Seq(0 .. Len(Packets)) /\ Len(w) = Len(v)
      /\ \A i \in 1 .. Len(v) : w[i] = next
  <2>1. DOMAIN v = 1 .. Len(v)
    BY <1>1, SentTypes, LenProperties
  <2> QED BY <1>1, <2>1, SentTypes
<1>3. /\ line' = line \o v /\ owner' = owner \o w
      /\ UNCHANGED <<rx_buf, place, accepted, held, torn>> /\ next' = next + 1
  BY DEF MasterSends, ObserveSent
<1> DEFINE m == next + 1
<1>4. m \in 1 .. Len(Packets) + 1 /\ m # next /\ m = next + 1 /\ m = next'
  BY <1>1, <1>3
<1>5. v = Packets[next]
  OBVIOUS
<1> HIDE DEF v, w, m
<1> DEFINE x == Bytes \o v
           y == Tags \o w
<1>6. PICK damaged : damaged = torn'
  OBVIOUS
<1>7. /\ rx_buf \o (line \o v) = x /\ held \o (owner \o w) = y
      /\ Growth(Bytes, Tags, x, y, next, m, damaged)
  BY <1>2, <1>4, <1>5, EndGrows
<1> HIDE DEF x, y
<1>8. x = Bytes' /\ y = Tags'
  BY <1>3, <1>7, Zenon DEF Bytes, Tags
<1>9. Growth(Bytes, Tags, x, y, next, m, torn')
  BY <1>6, <1>7, Zenon
<1> QED BY <1>3, <1>4, <1>8, <1>9, CutStays, GrowthStep

LEMMA NoiseReception ==
  ASSUME FrameTypes, HistoryTypes, NoisyInv, NEW k \in 1 .. Len(line) + 1, Noise(k), ObserveNoise(k)
  PROVE  NoisyInv'
<1>1. /\ Bytes \in Seq(Byte) /\ Tags \in Seq(0 .. Len(Packets))
      /\ rx_buf \in Seq(Byte) /\ line \in Seq(Byte)
      /\ held \in Seq(0 .. Len(Packets)) /\ owner \in Seq(0 .. Len(Packets))
      /\ Len(rx_buf) \in Nat /\ Len(line) \in Nat
      /\ Len(held) = Len(rx_buf) /\ Len(owner) = Len(line)
      /\ Len(Bytes) = Len(rx_buf) + Len(line) /\ Len(Bytes) \in Nat
      /\ Len(Tags) = Len(Bytes)
      /\ \A i \in 1 .. Len(rx_buf) : Bytes[i] = rx_buf[i]
      /\ \A i \in 1 .. Len(line) :
           Bytes[Len(rx_buf) + i] = line[i] /\ Tags[Len(rx_buf) + i] = owner[i]
      /\ Cut \in Nat /\ Cut <= Len(rx_buf)
      /\ next \in 1 .. Len(Packets) + 1
      /\ DOMAIN line = 1 .. Len(line)
  BY StreamTypes, LenProperties
<1>0. /\ Len(rx_buf) \in Nat /\ Len(line) \in Nat
      /\ Len(Bytes) = Len(rx_buf) + Len(line) /\ Len(Bytes) \in Nat /\ Len(Tags) = Len(Bytes)
      /\ Cut \in Nat /\ Cut <= Len(rx_buf)
  BY StreamTypes
<1>2. UNCHANGED <<rx_buf, place, accepted, held, next>> /\ Cut' = Cut
  BY CutStays DEF Noise, ObserveNoise
<1>3. \A byte \in NoiseBytes : byte \in Byte
  BY FrameAssumption
<1>4. CASE k \in DOMAIN line /\ \E byte \in NoiseBytes \ {line[k]} : line' = [line EXCEPT ![k] = byte]
  <2>1. PICK byte \in NoiseBytes : line' = [line EXCEPT ![k] = byte]
    BY <1>4
  <2> DEFINE new == [line EXCEPT ![k] = byte]
             x == rx_buf \o new
  <2>2. /\ new \in Seq(Byte) /\ Len(new) = Len(line) /\ k \in 1 .. Len(line)
        /\ \A i \in 1 .. Len(line) : i # k => new[i] = line[i]
    BY <1>1, <1>3, <1>4, ExceptSeq
  <2>3. line' = new
    BY <2>1
  <2> HIDE DEF new
  <2>4. owner' = owner /\ torn' = torn \cup {owner[k]}
    <3>1. Len(line') = Len(line)
      BY <2>2, <2>3, Zenon
    <3>2. ~(Len(line') > Len(line)) /\ ~(Len(line') < Len(line))
      BY <1>0, <3>1
    <3> QED BY <3>2, Zenon DEF ObserveNoise
  <2>5. /\ Len(x) = Len(rx_buf) + Len(new)
        /\ \A i \in 1 .. Len(rx_buf) + Len(new) :
             x[i] = IF i <= Len(rx_buf) THEN rx_buf[i] ELSE new[i - Len(rx_buf)]
    <3>1. rx_buf \in Seq(Byte) /\ new \in Seq(Byte)
      BY <1>1, <2>2
    <3> QED BY <3>1, ConcatProperties
  <2>6. x = Bytes' /\ Tags = Tags'
    BY <1>2, <2>3, <2>4, Zenon DEF Bytes, Tags
  <2> HIDE DEF x
  <2> DEFINE damaged == torn \cup {owner[k]}
  <2>7. \A i \in 1 .. Len(Bytes) : x[i] = Bytes[i] \/ Tags[i] \in damaged
    <3> SUFFICES ASSUME NEW i \in 1 .. Len(Bytes) PROVE x[i] = Bytes[i] \/ Tags[i] \in damaged
      OBVIOUS
    <3>1. CASE i <= Len(rx_buf)
      BY <1>1, <2>2, <2>5, <3>1
    <3>2. CASE ~(i <= Len(rx_buf))
      <4> DEFINE j == i - Len(rx_buf)
      <4>1. j \in 1 .. Len(line) /\ Len(rx_buf) + j = i /\ i \in 1 .. Len(rx_buf) + Len(new)
        BY <1>1, <2>2, <3>2
      <4>2. x[i] = new[j]
        BY <2>5, <3>2, <4>1
      <4> HIDE DEF j
      <4>3. Bytes[i] = line[j] /\ Tags[i] = owner[j]
        BY <1>1, <4>1
      <4> QED BY <2>2, <4>1, <4>2, <4>3
    <3> QED BY <3>1, <3>2
  <2>8. Growth(Bytes, Tags, x, Tags, next, next, damaged)
    <3>1. Len(x) = Len(Bytes) /\ Len(Tags) = Len(Bytes) /\ Len(Bytes) \in Nat
      BY <1>0, <2>2, <2>5
    <3>2. \A i \in Len(Bytes) + 1 .. Len(x) : FALSE
      BY <3>1
    <3> HIDE DEF damaged
    <3> QED BY <2>7, <3>1, <3>2 DEF Growth
  <2> HIDE DEF damaged
  <2>9. Growth(Bytes, Tags, x, Tags, next, next, torn')
    BY <2>4, <2>8, Zenon DEF damaged
  <2>10. torn \subseteq torn' /\ next = next'
    BY <1>2, <2>4
  <2> QED BY <1>1, <1>2, <2>6, <2>9, <2>10, GrowthStep
<1>5. CASE k \in DOMAIN line /\ line' = RemoveAt(line, k)
  <2> DEFINE lo == Len(rx_buf) + k
  <2>1. k \in 1 .. Len(line) /\ k \in 1 .. Len(owner)
    BY <1>1, <1>5
  <2>2. /\ RemoveAt(line, k) \in Seq(Byte) /\ Len(RemoveAt(line, k)) = Len(line) - 1
        /\ RemoveAt(owner, k) \in Seq(0 .. Len(Packets))
    BY <1>1, <2>1, RemoveAtTypes
  <2>3. owner' = RemoveAt(owner, k) /\ torn' = torn \cup {owner[k]}
    <3>1. Len(line') = Len(line) - 1
      BY <1>5, <2>2, Zenon
    <3>2. ~(Len(line') > Len(line)) /\ Len(line') < Len(line)
      BY <1>0, <3>1
    <3> QED BY <3>2, Zenon DEF ObserveNoise
  <2>4. CutOut(line, RemoveAt(line, k), k, 1) /\ CutOut(owner, RemoveAt(owner, k), k, 1)
    BY <1>1, <2>1, RemoveAtCuts
  <2>5. 1 \in 0 .. Len(line) /\ 1 \in 0 .. Len(owner)
    BY <1>1, <2>1
  <2>6. CutOut(rx_buf \o line, rx_buf \o RemoveAt(line, k), Len(rx_buf) + k, 1)
    BY <1>1, <2>1, <2>2, <2>4, <2>5, BehindOut
  <2>7. CutOut(held \o owner, held \o RemoveAt(owner, k), Len(held) + k, 1)
    BY <1>1, <2>1, <2>2, <2>4, <2>5, BehindOut
  <2>8. CutOut(Bytes, Bytes', lo, 1) /\ CutOut(Tags, Tags', lo, 1)
    BY <1>1, <1>2, <1>5, <2>3, <2>6, <2>7, Zenon DEF Bytes, Tags
  <2>9. lo \in Nat /\ lo >= 1 /\ lo + 1 <= Len(Bytes) + 1 /\ Cut < lo
    BY <1>0, <2>1
  <2>10. \A p \in Cut + 1 .. Len(Bytes) : lo <= p /\ p < lo + 1 => Tags[p] = 0 \/ Tags[p] \in torn'
    <3> SUFFICES ASSUME NEW p \in Cut + 1 .. Len(Bytes), lo <= p, p < lo + 1 PROVE Tags[p] \in torn'
      OBVIOUS
    <3>1. p = Len(rx_buf) + k
      BY <1>0, <2>1
    <3>2. Tags[p] = owner[k]
      BY <1>1, <2>1, <3>1
    <3> QED BY <2>3, <3>2
  <2>11. torn \subseteq torn' /\ UNCHANGED <<next, accepted>>
    BY <1>2, <2>3
  <2> HIDE DEF lo
  <2> QED BY <1>2, <2>8, <2>9, <2>10, <2>11, CutStep
<1>6. CASE k = Len(line) + 1 /\ \E byte \in NoiseBytes : line' = Append(line, byte)
  <2>1. PICK byte \in NoiseBytes : line' = Append(line, byte)
    BY <1>6
  <2>2. Len(Append(line, byte)) = Len(line) + 1 /\ byte \in Byte
    BY <1>1, <1>3, AppendProperties
  <2>3. owner' = Append(owner, 0) /\ torn' = torn
    BY <1>1, <2>1, <2>2 DEF ObserveNoise
  <2> DEFINE v == <<byte>>
             w == <<0>>
  <2>4. v \in Seq(Byte) /\ Len(v) = 1
    BY <2>2
  <2>5. w \in Seq(0 .. Len(Packets)) /\ Len(w) = 1 /\ \A i \in 1 .. 1 : w[i] = 0
    <3>1. 0 \in 0 .. Len(Packets)
      BY PacketsAreBytes
    <3> QED BY <3>1
  <2>6. Append(line, byte) = line \o v /\ Append(owner, 0) = owner \o w
    <3>1. Append(line, byte) = line \o <<byte>>
      BY <1>1, <2>2, AppendIsConcat
    <3>2. Append(owner, 0) = owner \o <<0>>
      BY <1>1, PacketsAreBytes, AppendIsConcat
    <3> QED BY <3>1, <3>2, Zenon
  <2> HIDE DEF v, w
  <2> DEFINE x == Bytes \o v
             y == Tags \o w
  <2>7. PICK damaged : damaged = torn'
    OBVIOUS
  <2>8. /\ rx_buf \o (line \o v) = x /\ held \o (owner \o w) = y
        /\ Growth(Bytes, Tags, x, y, next, next, damaged)
    BY <1>1, <2>4, <2>5, EndGrows
  <2> HIDE DEF x, y
  <2>9. x = Bytes' /\ y = Tags'
    BY <1>2, <2>1, <2>3, <2>6, <2>8, Zenon DEF Bytes, Tags
  <2>10. Growth(Bytes, Tags, x, y, next, next, torn')
    BY <2>7, <2>8, Zenon
  <2> QED BY <1>1, <1>2, <2>3, <2>9, <2>10, GrowthStep
<1> QED BY <1>4, <1>5, <1>6 DEF Noise

\* Bytes that move from the line into the buffer stay where they are.
LEMMA MoveIn ==
  ASSUME NEW S, NEW s \in Seq(S), NEW u \in Seq(S), NEW n \in 0 .. Len(u)
  PROVE  (s \o SubSeq(u, 1, n)) \o SubSeq(u, n + 1, Len(u)) = s \o u
<1> DEFINE a == SubSeq(u, 1, n)
           z == SubSeq(u, n + 1, Len(u))
<1>1. a \in Seq(S) /\ z \in Seq(S) /\ Len(u) \in Nat
  BY TakenTypes, LenProperties
<1>2. u = a \o z
  <2>1. 1 \in 1 .. Len(u) + 1 /\ n \in 1 - 1 .. Len(u) /\ Len(u) \in n .. Len(u)
    BY <1>1
  <2>2. SubSeq(u, 1, Len(u)) = u
    BY SubSeqFull
  <2> QED BY <2>1, <2>2, ConcatAdjacentSubSeq
<1> HIDE DEF a, z
<1>3. (s \o a) \o z = s \o (a \o z)
  BY <1>1, ConcatAssociative
<1> QED BY <1>2, <1>3, Zenon DEF a, z

LEMMA ReadReception ==
  ASSUME FrameTypes, HistoryTypes, NoisyInv, Read, ObserveRx
  PROVE  NoisyInv'
<1>1. PICK n \in 1 .. Len(line) :
        /\ rx_buf' = rx_buf \o SubSeq(line, 1, n)
        /\ line' = SubSeq(line, n + 1, Len(line))
  BY DEF Read
<1>2. /\ rx_buf \in Seq(Byte) /\ line \in Seq(Byte) /\ Len(line) \in Nat
      /\ held \in Seq(0 .. Len(Packets)) /\ owner \in Seq(0 .. Len(Packets))
      /\ Len(owner) = Len(line)
  BY StreamTypes
<1>3. n \in 0 .. Len(line) /\ n \in 0 .. Len(owner) /\ n \in Nat
  BY <1>2
<1>4. Len(SubSeq(line, n + 1, Len(line))) = Len(line) - n
  BY <1>2, <1>3, TakenTypes
<1>5. Len(line) - Len(line') = n
  <2>1. Len(line') = Len(line) - n
    BY <1>1, <1>4, Zenon
  <2> QED BY <1>2, <1>3, <2>1
<1>6. /\ held' = held \o SubSeq(owner, 1, n)
      /\ owner' = SubSeq(owner, n + 1, Len(owner))
      /\ torn' = torn /\ UNCHANGED <<next, accepted>>
      /\ place = "read" /\ place' = "parse"
  BY <1>5 DEF ObserveRx, Read
<1>7. rx_buf' \o line' = rx_buf \o line
  BY <1>1, <1>2, <1>3, MoveIn, Zenon
<1>8. held' \o owner' = held \o owner
  <2>1. (held \o SubSeq(owner, 1, n)) \o SubSeq(owner, n + 1, Len(owner)) = held \o owner
    BY <1>2, <1>3, MoveIn
  <2> QED BY <1>6, <2>1, Zenon
<1>9. Cut = 0 /\ Cut' = 0
  BY <1>6 DEF Cut
<1>10. Bytes' = Bytes /\ Tags' = Tags /\ Cut' = Cut
  BY <1>7, <1>8, <1>9, Zenon DEF Bytes, Tags
<1> QED BY <1>6, <1>10, Zenon DEF NoisyInv

\* A byte is dropped only where no undamaged packet begins.
LEMMA DropReception ==
  ASSUME FrameTypes, HistoryTypes, NoisyInv, DropByte \/ CrcFails, ObserveRx
  PROVE  NoisyInv'
<1>1. /\ place = "parse" /\ HeaderHere /\ rx_buf' = Tail(rx_buf)
      /\ UNCHANGED <<line, place, accepted, next>>
      /\ ~HeaderValid \/ (Len(rx_buf) >= TotalLen /\ ~CrcRight)
      /\ RxStep
  BY DEF DropByte, CrcFails, RxStep
<1>2. Damaged(held[1])
  BY <1>1, IntactHead
<1>3. /\ rx_buf \in Seq(Byte) /\ Len(rx_buf) \in Nat /\ Len(rx_buf) >= 7
      /\ Len(Bytes) \in Nat /\ Len(Bytes) >= 7
      /\ Tags[1] = held[1]
  <2>1. /\ rx_buf \in Seq(Byte) /\ Len(rx_buf) \in Nat /\ Len(line) \in Nat
        /\ Len(Bytes) = Len(rx_buf) + Len(line)
        /\ \A i \in 1 .. Len(rx_buf) : Tags[i] = held[i]
    BY StreamTypes
  <2>2. Len(rx_buf) >= 7
    BY <1>1, AnnouncedLength DEF HeaderLen, CrcLen
  <2>3. 1 \in 1 .. Len(rx_buf)
    BY <2>1, <2>2
  <2> QED BY <2>1, <2>2, <2>3
<1>4. rx_buf' = SubSeq(rx_buf, 1 + 1, Len(rx_buf)) /\ 1 \in 0 .. Len(rx_buf)
  <2>1. rx_buf # <<>>
    BY <1>3, EmptySeq
  <2>2. Tail(rx_buf) = SubSeq(rx_buf, 2, Len(rx_buf))
    BY <1>3, <2>1, TailIsSubSeq
  <2> QED BY <1>1, <1>3, <2>2
<1>5. CutOut(Bytes, Bytes', 1, 1) /\ CutOut(Tags, Tags', 1, 1)
  BY <1>1, <1>4, FrontStep
<1>6. torn' = torn
  BY <1>1, OwnerFollows
<1>7. Cut = 0 /\ Cut' = 0
  BY <1>1 DEF Cut
<1>8. \A p \in Cut + 1 .. Len(Bytes) : 1 <= p /\ p < 1 + 1 => Tags[p] = 0 \/ Tags[p] \in torn'
  <2> SUFFICES ASSUME NEW p \in Cut + 1 .. Len(Bytes), 1 <= p, p < 1 + 1
               PROVE  Tags[p] = 0 \/ Tags[p] \in torn'
    OBVIOUS
  <2>1. p = 1
    BY <1>7
  <2> QED BY <1>2, <1>3, <1>6, <2>1, Zenon DEF Damaged
<1>9. torn \subseteq torn' /\ UNCHANGED <<next, accepted>> /\ Cut' = Cut /\ Cut < 1
  BY <1>1, <1>6, <1>7
<1>10. 1 + 1 <= Len(Bytes) + 1
  BY <1>3
<1> QED BY <1>5, <1>8, <1>9, <1>10, CutStep

\* The drain throws bytes of the line away, and what they belong to is damaged.
LEMMA DrainReception ==
  ASSUME FrameTypes, HistoryTypes, NoisyInv, DrainByte, ObserveRx
  PROVE  NoisyInv'
<1>1. /\ place = "drain" /\ line # <<>> /\ line' = Tail(line)
      /\ UNCHANGED <<rx_buf, place, accepted, next>>
  BY DEF DrainByte
<1>2. /\ rx_buf \in Seq(Byte) /\ line \in Seq(Byte)
      /\ held \in Seq(0 .. Len(Packets)) /\ owner \in Seq(0 .. Len(Packets))
      /\ Len(held) = Len(rx_buf) /\ Len(owner) = Len(line)
      /\ \A i \in 1 .. Len(line) : Tags[Len(rx_buf) + i] = owner[i]
  BY StreamTypes
<1>3. /\ Len(rx_buf) \in Nat /\ Len(line) \in Nat
      /\ Len(Bytes) = Len(rx_buf) + Len(line) /\ Len(Bytes) \in Nat
      /\ Cut \in Nat /\ Cut <= Len(rx_buf)
  BY StreamTypes
<1>4. Len(line) >= 1 /\ 1 \in 1 .. Len(line) /\ 1 \in 1 .. Len(owner)
  BY <1>1, <1>2, <1>3, EmptySeq
<1>5. RemoveAt(line, 1) = Tail(line)
  <2>1. Tail(line) = SubSeq(line, 2, Len(line)) /\ Tail(line) \in Seq(Byte)
    BY <1>1, <1>2, TailIsSubSeq, HeadTailProperties
  <2>2. SubSeq(line, 1, 1 - 1) = <<>>
    BY <1>2, SubSeqEmpty
  <2>3. <<>> \o Tail(line) = Tail(line)
    BY <2>1, ConcatEmptySeq
  <2> QED BY <2>1, <2>2, <2>3 DEF RemoveAt
<1>6. Len(line) - Len(line') = 1
  <2>1. Len(line') = Len(line) - 1
    BY <1>1, <1>2, HeadTailProperties
  <2> QED BY <1>3, <2>1
<1>7. owner' = RemoveAt(owner, 1)
  <2>1. owner' = SubSeq(owner, 1 + 1, Len(owner))
    BY <1>6 DEF ObserveRx
  <2>2. /\ SubSeq(owner, 1 + 1, Len(owner)) \in Seq(0 .. Len(Packets))
        /\ SubSeq(owner, 1, 1 - 1) = <<>>
    <3>1. 1 \in 0 .. Len(owner)
      BY <1>2, <1>3, <1>4
    <3> QED BY <1>2, <3>1, TakenTypes, SubSeqEmpty
  <2>3. <<>> \o SubSeq(owner, 1 + 1, Len(owner)) = SubSeq(owner, 1 + 1, Len(owner))
    BY <2>2, ConcatEmptySeq
  <2> QED BY <2>1, <2>2, <2>3 DEF RemoveAt
<1>8. owner[1] \in torn' /\ torn \subseteq torn'
  <2>1. 1 \in 1 .. Len(line) - Len(line')
    BY <1>6
  <2> QED BY <1>1, <2>1 DEF ObserveRx
<1>9. held' = held
  <2>1. Len(rx_buf) - Len(rx_buf') = 0
    BY <1>1, <1>3
  <2>2. held' = SubSeq(held, 0 + 1, Len(held))
    BY <1>1, <2>1 DEF ObserveRx
  <2>3. SubSeq(held, 1, Len(held)) = held
    BY <1>2, SubSeqFull
  <2> QED BY <2>2, <2>3
<1> DEFINE lo == Len(rx_buf) + 1
<1>10. CutOut(Bytes, Bytes', lo, 1) /\ CutOut(Tags, Tags', lo, 1)
  <2>1. CutOut(line, RemoveAt(line, 1), 1, 1) /\ CutOut(owner, RemoveAt(owner, 1), 1, 1)
    BY <1>2, <1>4, RemoveAtCuts
  <2>2. RemoveAt(line, 1) \in Seq(Byte) /\ RemoveAt(owner, 1) \in Seq(0 .. Len(Packets))
    BY <1>2, <1>4, RemoveAtTypes
  <2>3. 1 \in 0 .. Len(line) /\ 1 \in 0 .. Len(owner)
    BY <1>2, <1>3, <1>4
  <2>4. CutOut(rx_buf \o line, rx_buf \o RemoveAt(line, 1), Len(rx_buf) + 1, 1)
    BY <1>2, <1>4, <2>1, <2>2, <2>3, BehindOut
  <2>5. CutOut(held \o owner, held \o RemoveAt(owner, 1), Len(held) + 1, 1)
    BY <1>2, <1>4, <2>1, <2>2, <2>3, BehindOut
  <2> QED BY <1>1, <1>2, <1>5, <1>7, <1>9, <2>4, <2>5, Zenon DEF Bytes, Tags
<1>11. lo \in Nat /\ lo >= 1 /\ lo + 1 <= Len(Bytes) + 1 /\ Cut < lo
  BY <1>3, <1>4
<1>12. \A p \in Cut + 1 .. Len(Bytes) : lo <= p /\ p < lo + 1 => Tags[p] = 0 \/ Tags[p] \in torn'
  <2> SUFFICES ASSUME NEW p \in Cut + 1 .. Len(Bytes), lo <= p, p < lo + 1 PROVE Tags[p] \in torn'
    OBVIOUS
  <2>1. p = Len(rx_buf) + 1
    BY <1>3
  <2>2. Tags[p] = owner[1]
    BY <1>2, <1>4, <2>1
  <2> QED BY <1>8, <2>2
<1>13. UNCHANGED <<next, accepted>> /\ Cut' = Cut
  BY <1>1, CutStays
<1> HIDE DEF lo
<1> QED BY <1>8, <1>10, <1>11, <1>12, <1>13, CutStep

\* The packet that was taken leaves the buffer.
LEMMA RemovalReception ==
  ASSUME FrameTypes, HistoryTypes, NoisyInv, DrainEnds, ObserveRx
  PROVE  NoisyInv'
<1>1. /\ place = "drain" /\ place' = "parse" /\ UNCHANGED <<line, accepted, next>>
      /\ rx_buf' = SubSeq(rx_buf, TotalLen + 1, Len(rx_buf))
      /\ RxStep
  BY DEF DrainEnds, RxStep
<1>2. Cut = TotalLen /\ Cut' = 0
  BY <1>1 DEF Cut
<1>3. /\ Len(rx_buf) \in Nat /\ Len(line) \in Nat /\ Len(Bytes) = Len(rx_buf) + Len(line)
      /\ Cut \in Nat /\ Cut <= Len(rx_buf) /\ Len(Bytes) \in Nat
  BY StreamTypes
<1> DEFINE d == Cut
<1>4. d \in 0 .. Len(rx_buf) /\ rx_buf' = SubSeq(rx_buf, d + 1, Len(rx_buf))
  BY <1>1, <1>2, <1>3
<1> HIDE DEF d
<1>5. CutOut(Bytes, Bytes', 1, d) /\ CutOut(Tags, Tags', 1, d)
  BY <1>1, <1>4, FrontStep
<1>6. torn' = torn
  BY <1>1, OwnerFollows
<1>7. d \in Nat /\ 1 + d <= Len(Bytes) + 1
  BY <1>3 DEF d
<1>8. \A p \in Cut + 1 .. Len(Bytes) : 1 <= p /\ p < 1 + d => Tags[p] = 0 \/ Tags[p] \in torn'
  BY <1>3 DEF d
<1>9. torn \subseteq torn' /\ UNCHANGED <<next, accepted>> /\ Cut' = 0 /\ d = Cut
  BY <1>1, <1>2, <1>6 DEF d
<1> QED BY <1>5, <1>7, <1>8, <1>9, CutStep

\* A packet is taken: an undamaged one, or one that CrcNeverByChance allows.
LEMMA AcceptReception ==
  ASSUME FrameTypes, HistoryTypes, NoisyInv, CrcNeverByChance, Accept, ObserveRx
  PROVE  NoisyInv'
<1>1. /\ place = "parse" /\ HeaderHere /\ HeaderValid /\ Len(rx_buf) >= TotalLen /\ CrcRight
      /\ accepted' = Append(accepted, SubSeq(rx_buf, 1, TotalLen))
      /\ place' = "drain" /\ UNCHANGED <<line, rx_buf, next>>
      /\ RxStep
  BY DEF Accept, RxStep
<1> DEFINE l == TotalLen
           packet == SubSeq(rx_buf, 1, TotalLen)
<1>2. l \in Nat /\ 1 <= l /\ l <= Len(rx_buf)
  <2>1. Len(rx_buf) \in Nat /\ TotalLen \in Nat /\ TotalLen >= 7
    BY <1>1, AnnouncedLength DEF HeaderLen, CrcLen
  <2> QED BY <1>1, <2>1
<1>3. /\ Len(rx_buf) \in Nat /\ Len(line) \in Nat /\ Len(Bytes) = Len(rx_buf) + Len(line)
      /\ Len(Bytes) \in Nat /\ Len(Tags) = Len(Bytes) /\ next \in 1 .. Len(Packets) + 1
      /\ held \in Seq(0 .. Len(Packets)) /\ owner \in Seq(0 .. Len(Packets))
      /\ Len(held) = Len(rx_buf) /\ Len(owner) = Len(line)
  BY StreamTypes
<1>4. /\ \A i \in 1 .. Len(rx_buf) : Tags[i] = held[i]
      /\ \A i \in 1 .. Len(line) : Tags[Len(rx_buf) + i] = owner[i]
  BY StreamTypes
<1>5. packet \in Seq(Byte)
  BY <1>1, PacketTypes DEF PacketHere
<1> HIDE DEF l, packet
<1>6. \E k \in 1 .. next - 1 :
        /\ packet = Packets[k]
        /\ Tags[l] = k
        /\ \A p \in l + 1 .. Len(Bytes) : Tags[p] # k
        /\ \A p \in 1 .. l : Tags[p] = k \/ Tags[p] = 0 \/ Tags[p] \in torn
  <2>1. CASE ~Damaged(held[1])
    <3> DEFINE k == held[1]
    <3>1. /\ k \in 1 .. next - 1
          /\ packet = Packets[k]
          /\ \A p \in 1 .. Len(Bytes) : Tags[p] = k <=> p \in 1 .. l
      BY <1>1, <2>1, IntactHead DEF l, packet
    <3> HIDE DEF k
    <3>2. /\ l \in 1 .. Len(Bytes) /\ l \in 1 .. l
          /\ \A p \in 1 .. l : p \in 1 .. Len(Bytes)
          /\ \A p \in l + 1 .. Len(Bytes) : p \in 1 .. Len(Bytes) /\ ~(p \in 1 .. l)
      BY <1>2, <1>3
    <3> QED BY <3>1, <3>2
  <2>2. CASE Damaged(held[1])
    <3>1. PICK k \in 1 .. next - 1 :
            /\ packet = Packets[k]
            /\ held[l] = k
            /\ \A p \in 1 .. l : Damaged(held[p])
            /\ \A p \in l + 1 .. Len(held) : held[p] # k
            /\ \A p \in DOMAIN owner : owner[p] # k
      BY <1>1, <2>2 DEF CrcNeverByChance, PassesForPacket, l, packet
    <3>2. l \in 1 .. Len(rx_buf) /\ \A p \in 1 .. l : p \in 1 .. Len(rx_buf)
      BY <1>2, <1>3
    <3>3. Tags[l] = k /\ \A p \in 1 .. l : Tags[p] = 0 \/ Tags[p] \in torn
      BY <1>4, <3>1, <3>2 DEF Damaged
    <3>4. ASSUME NEW p \in l + 1 .. Len(Bytes) PROVE Tags[p] # k
      <4>1. CASE p <= Len(rx_buf)
        <5>1. p \in 1 .. Len(rx_buf) /\ p \in l + 1 .. Len(held)
          BY <1>2, <1>3, <4>1
        <5> QED BY <1>4, <3>1, <5>1
      <4>2. CASE ~(p <= Len(rx_buf))
        <5> DEFINE i == p - Len(rx_buf)
        <5>1. i \in 1 .. Len(line) /\ Len(rx_buf) + i = p /\ i \in 1 .. Len(owner)
          BY <1>2, <1>3, <4>2
        <5>2. i \in DOMAIN owner
          BY <1>3, <5>1, LenProperties
        <5> HIDE DEF i
        <5> QED BY <1>4, <3>1, <5>1, <5>2
      <4> QED BY <4>1, <4>2
    <3> QED BY <3>1, <3>3, <3>4
  <2> QED BY <2>1, <2>2
<1>7. PICK k \in 1 .. next - 1 :
        /\ packet = Packets[k]
        /\ Tags[l] = k
        /\ \A p \in l + 1 .. Len(Bytes) : Tags[p] # k
        /\ \A p \in 1 .. l : Tags[p] = k \/ Tags[p] = 0 \/ Tags[p] \in torn
  BY <1>6
<1>8. PICK number : Reception(Bytes, Tags, 0, next, torn, accepted, number)
  <2>1. Cut = 0
    BY <1>1 DEF Cut
  <2> QED BY <2>1 DEF NoisyInv
<1> DEFINE more == Append(accepted, packet)
<1>9. /\ Len(accepted) \in Nat
      /\ Len(more) = Len(accepted) + 1
      /\ \A a \in 1 .. Len(accepted) : more[a] = accepted[a]
      /\ more[Len(accepted) + 1] = Packets[k]
  <2>1. accepted \in Seq(Seq(Byte)) /\ Len(accepted) \in Nat
    BY LenProperties DEF FrameTypes
  <2>2. /\ Len(more) = Len(accepted) + 1
        /\ \A a \in 1 .. Len(accepted) : more[a] = accepted[a]
        /\ more[Len(accepted) + 1] = packet
    BY <1>5, <2>1, AppendProperties
  <2> QED BY <1>7, <2>1, <2>2
<1> HIDE DEF more
<1>10. PICK longer : Reception(Bytes, Tags, l, next, torn, more, longer)
  <2>1. l <= Len(Tags)
    BY <1>2, <1>3
  <2>2. EndsAt(Tags, l, k, torn)
    BY <1>2, <1>3, <1>7, <2>1 DEF EndsAt
  <2>3. ExtendedBy(accepted, more, Packets[k])
    BY <1>9 DEF ExtendedBy
  <2> QED BY <1>2, <1>3, <1>7, <1>8, <1>9, <2>2, <2>3, AcceptKeepsReception
<1>11. accepted' = more /\ next' = next
  BY <1>1 DEF more, packet
<1>12. Cut' = l
  BY <1>1 DEF Cut, l, TotalLen
<1>13. owner' = owner /\ torn' = torn
  BY <1>1, OwnerFollows
<1>14. held' = held
  <2>1. Len(rx_buf) - Len(rx_buf') = 0
    BY <1>1, <1>3
  <2>2. held' = SubSeq(held, 0 + 1, Len(held))
    BY <1>1, <2>1 DEF ObserveRx
  <2>3. SubSeq(held, 1, Len(held)) = held
    BY <1>3, SubSeqFull
  <2> QED BY <2>2, <2>3
<1>15. Bytes' = Bytes /\ Tags' = Tags
  BY <1>1, <1>13, <1>14, Zenon DEF Bytes, Tags
<1> QED BY <1>10, <1>11, <1>12, <1>13, <1>15, Zenon DEF NoisyInv

\* Reception is in order, as long as no CRC is right by chance.
LEMMA ReceptionHolds == HSpec /\ []CrcNeverByChance => []NoisyInv
<1>1. HInit => NoisyInv
  <2> SUFFICES ASSUME HInit PROVE NoisyInv
    OBVIOUS
  <2>1. /\ rx_buf = <<>> /\ line = <<>> /\ held = <<>> /\ owner = <<>>
        /\ accepted = <<>> /\ next = 1 /\ Cut = 0
    BY DEF HInit, Init, Cut
  <2>2. Bytes = <<>> /\ Tags = <<>>
    <3>1. <<>> \o <<>> = <<>>
      OBVIOUS
    <3> QED BY <2>1, <3>1 DEF Bytes, Tags
  <2>3. Len(Tags) = 0 /\ Len(accepted) = 0
    BY <2>1, <2>2
  <2> DEFINE number == [a \in 1 .. Len(accepted) |-> 0]
  <2>4. \A S : [a \in 1 .. Len(accepted) |-> 0] \in [1 .. Len(accepted) -> S]
    BY <2>3
  <2>5. number \in [1 .. Len(accepted) -> 1 .. next - 1]
    BY <2>4
  <2> HIDE DEF number
  <2>6. InOrder(Tags, next)
    BY <2>3 DEF InOrder
  <2>7. Taken(accepted, number, Tags, Cut, next)
    BY <2>3, <2>5 DEF Taken
  <2>8. Accounted(accepted, number, Bytes, Tags, Cut, next, torn)
    BY <2>1 DEF Accounted
  <2> QED BY <2>6, <2>7, <2>8 DEF Reception, NoisyInv
<1>2. RxInv /\ CrcNeverByChance /\ NoisyInv /\ [HNext]_hvars => NoisyInv'
  <2> SUFFICES ASSUME FrameTypes, HistoryTypes, CrcNeverByChance, NoisyInv, [HNext]_hvars
               PROVE  NoisyInv'
    BY DEF RxInv
  <2>1. ASSUME UNCHANGED frameVars, UNCHANGED <<held, owner, torn>>
        PROVE  NoisyInv'
    BY <2>1 DEF frameVars, NoisyInv, Bytes, Tags, Cut, TotalLen
  <2>2. CASE MasterSends /\ ObserveSent
    BY <2>2, SendReception
  <2>3. CASE \E k \in 1 .. Len(line) + 1 : Noise(k) /\ ObserveNoise(k)
    BY <2>3, NoiseReception
  <2>4. CASE LogStep /\ UNCHANGED history
    BY <2>1, <2>4 DEF LogStep, history
  <2>5. CASE UNCHANGED hvars
    BY <2>1, <2>5 DEF hvars, vars, frameVars, history
  <2>6. CASE Read /\ ObserveRx
    BY <2>6, ReadReception
  <2>7. CASE (DropByte \/ CrcFails) /\ ObserveRx
    BY <2>7, DropReception
  <2>8. CASE Accept /\ ObserveRx
    BY <2>8, AcceptReception
  <2>9. CASE DrainByte /\ ObserveRx
    BY <2>9, DrainReception
  <2>10. CASE DrainEnds /\ ObserveRx
    BY <2>10, RemovalReception
  <2>11. CASE ParseEnds /\ ObserveRx
    <3>1. /\ place = "parse" /\ place' = "read"
          /\ UNCHANGED <<line, rx_buf, accepted, next>>
          /\ RxStep
      BY <2>11 DEF ParseEnds, RxStep
    <3>2. UNCHANGED <<owner, torn>>
      BY <2>11, <3>1, OwnerFollows
    <3>3. held' = held
      <4>1. Len(rx_buf) \in Nat /\ held \in Seq(0 .. Len(Packets))
        BY StreamTypes
      <4>2. Len(rx_buf) - Len(rx_buf') = 0
        BY <3>1, <4>1
      <4>3. held' = SubSeq(held, 0 + 1, Len(held))
        BY <2>11, <3>1, <4>2 DEF ObserveRx
      <4>4. SubSeq(held, 1, Len(held)) = held
        BY <4>1, SubSeqFull
      <4> QED BY <4>3, <4>4
    <3>4. Cut = 0 /\ Cut' = 0
      BY <3>1 DEF Cut
    <3>5. Bytes' = Bytes /\ Tags' = Tags
      BY <3>1, <3>2, <3>3 DEF Bytes, Tags
    <3> QED BY <3>1, <3>2, <3>4, <3>5 DEF NoisyInv
  <2> QED BY <2>2, <2>3, <2>4, <2>5, <2>6, <2>7, <2>8, <2>9, <2>10, <2>11 DEF HNext, RxStep
<1> QED BY <1>1, <1>2, FrameIsTyped, PTL DEF HSpec

\* A packet that is whole behind the bytes taken is all there.
LEMMA WholeIsThere ==
  ASSUME FrameTypes, NEW t, NEW c \in Nat, NEW k \in 1 .. next - 1, Whole(rx_buf \o line, t, c, k)
  PROVE  LET bytes == rx_buf \o line
         IN \E from \in DOMAIN bytes :
              /\ from + Len(Packets[k]) - 1 <= Len(bytes)
              /\ SubSeq(bytes, from, from + Len(Packets[k]) - 1) = Packets[k]
<1> DEFINE bytes == rx_buf \o line
           packet == Packets[k]
<1>1. bytes \in Seq(Byte) /\ Len(bytes) \in Nat
  BY ConcatProperties, LenProperties DEF FrameTypes
<1>2. packet \in Seq(Byte) /\ Len(packet) \in Nat /\ Len(packet) >= 7
  <2>1. k \in 1 .. Len(Packets)
    BY PacketsAreBytes DEF FrameTypes
  <2> QED BY <2>1, PacketsAreBytes DEF HeaderLen, CrcLen
<1>3. PICK f \in c .. Len(bytes) :
        /\ f + Len(packet) <= Len(bytes)
        /\ \A j \in 1 .. Len(packet) : bytes[f + j] = packet[j]
  BY DEF Whole, WholeAt
<1> HIDE DEF bytes, packet
<1> DEFINE from == f + 1
           to == from + Len(packet) - 1
<1>4. /\ from \in 1 .. Len(bytes) /\ to \in Nat /\ to = f + Len(packet)
      /\ to <= Len(bytes) /\ from <= to /\ to - from + 1 = Len(packet)
  BY <1>1, <1>2, <1>3
<1>5. from \in DOMAIN bytes
  BY <1>1, <1>4, LenProperties
<1>6. SubSeq(bytes, from, to) = packet
  <2>1. \A i \in from .. to : bytes[i] \in Byte
    <3>1. \A i \in from .. to : i \in 1 .. Len(bytes)
      BY <1>1, <1>4
    <3> QED BY <1>1, <3>1, ElementOfSeq
  <2>2. /\ SubSeq(bytes, from, to) \in Seq(Byte)
        /\ Len(SubSeq(bytes, from, to)) = Len(packet)
        /\ \A i \in 1 .. Len(packet) : SubSeq(bytes, from, to)[i] = bytes[from + i - 1]
    <3>1. /\ SubSeq(bytes, from, to) \in Seq(Byte)
          /\ Len(SubSeq(bytes, from, to)) = to - from + 1
          /\ \A i \in 1 .. to - from + 1 : SubSeq(bytes, from, to)[i] = bytes[from + i - 1]
      BY <1>4, <2>1, SubSeqProperties
    <3> QED BY <1>4, <3>1
  <2>3. \A i \in 1 .. Len(packet) : bytes[from + i - 1] = packet[i]
    <3>1. \A i \in 1 .. Len(packet) : from + i - 1 = f + i
      BY <1>3
    <3> QED BY <1>3, <3>1
  <2> HIDE DEF from, to
  <2>4. \A i \in 1 .. Len(packet) : SubSeq(bytes, from, to)[i] = packet[i]
    BY <2>2, <2>3
  <2> QED BY <1>2, <2>2, <2>4, SeqEqual
<1>7. from + Len(packet) - 1 <= Len(bytes) /\ SubSeq(bytes, from, from + Len(packet) - 1) = packet
  BY <1>4, <1>6
<1> HIDE DEF from
<1> QED BY <1>5, <1>7 DEF bytes, packet

\* What the invariant says of the packets taken and of those not taken.
LEMMA ReceptionInOrder == RxInv /\ NoisyInv => AcceptedAsSent /\ NoSilentLoss
<1> SUFFICES ASSUME FrameTypes, HistoryTypes, NoisyInv PROVE AcceptedAsSent /\ NoSilentLoss
  BY DEF RxInv
<1>1. PICK number : Reception(Bytes, Tags, Cut, next, torn, accepted, number)
  BY DEF NoisyInv
<1>2. /\ DOMAIN accepted = 1 .. Len(accepted) /\ DOMAIN Packets = 1 .. Len(Packets)
      /\ next \in 1 .. Len(Packets) + 1 /\ Len(Packets) \in Nat
  BY FrameAssumption, LenProperties DEF FrameTypes
<1>3. AcceptedAsSent
  <2>1. /\ number \in [1 .. Len(accepted) -> 1 .. next - 1]
        /\ \A a \in 1 .. Len(accepted) : accepted[a] = Packets[number[a]]
        /\ \A a, d \in 1 .. Len(accepted) : a < d => number[a] < number[d]
    BY <1>1 DEF Reception, Taken
  <2>2. 1 .. next - 1 \subseteq 1 .. Len(Packets)
    BY <1>2
  <2>3. number \in [1 .. Len(accepted) -> 1 .. Len(Packets)]
    BY <2>1, <2>2
  <2> QED BY <1>2, <2>1, <2>3 DEF AcceptedAsSent
<1>4. NoSilentLoss
  <2> SUFFICES ASSUME NEW k \in 1 .. next - 1, k \notin torn,
                      ~ \E a \in DOMAIN accepted : accepted[a] = Packets[k]
               PROVE  LET bytes == rx_buf \o line
                      IN \E from \in DOMAIN bytes :
                           /\ from + Len(Packets[k]) - 1 <= Len(bytes)
                           /\ SubSeq(bytes, from, from + Len(Packets[k]) - 1) = Packets[k]
    BY DEF NoSilentLoss
  <2>1. ASSUME NEW a \in 1 .. Len(accepted) PROVE number[a] # k
    <3>1. accepted[a] = Packets[number[a]]
      BY <1>1 DEF Reception, Taken
    <3>2. accepted[a] # Packets[k]
      BY <1>2
    <3> QED BY <3>1, <3>2
  <2>2. Whole(Bytes, Tags, Cut, k)
    BY <1>1, <2>1 DEF Reception, Accounted
  <2>3. Cut \in Nat
    BY StreamTypes
  <2> QED BY <2>2, <2>3, WholeIsThere DEF Bytes
<1> QED BY <1>3, <1>4

\* ui_uart_rx_task on a line that changes, loses and invents bytes, with a drain
\* that cuts packets: as long as no CRC is right by chance, the packets taken are
\* packets that were sent, each at most once and in the order they were sent.
THEOREM ReceptionOnANoisyLine == HSpec /\ []CrcNeverByChance => []AcceptedAsSent
BY ReceptionInOrder, FrameIsTyped, ReceptionHolds, PTL

\* On the same line and as long as no CRC is right by chance, ui_uart_rx_task loses
\* no packet that neither the line nor the drain has touched.
THEOREM NoLossOnANoisyLine == HSpec /\ []CrcNeverByChance => []NoSilentLoss
BY ReceptionInOrder, FrameIsTyped, ReceptionHolds, PTL

(***************************************************************************)
(* The log.                                                                *)
(***************************************************************************)

\* What went into the log, printed or not.
Logged == printed \o rx_log_q

\* The packets taken that did not find the log's queue full.
Kept == DOMAIN accepted \ crowded

\* number[k] is the packet whose head is the message k.
Enumerates(number) ==
  /\ number \in [DOMAIN Logged -> Kept]
  /\ \A a \in Kept : \E k \in DOMAIN Logged : number[k] = a
  /\ \A k, l \in DOMAIN Logged : k < l => number[k] < number[l]
  /\ \A k \in DOMAIN Logged : Logged[k] = Message(accepted[number[k]])

LogInv == IF log_created THEN \E number : Enumerates(number) ELSE Logged = <<>>

LEMMA LoggedTypes ==
  ASSUME LogTypes
  PROVE  /\ printed \in Seq(Messages) /\ rx_log_q \in Seq(Messages)
         /\ Logged \in Seq(Messages)
         /\ Len(Logged) \in Nat /\ DOMAIN Logged = 1 .. Len(Logged)
<1>1. printed \in Seq(Messages) /\ rx_log_q \in Seq(Messages)
  BY DEF LogTypes
<1>2. Logged \in Seq(Messages)
  BY <1>1, ConcatProperties DEF Logged
<1> QED BY <1>1, <1>2, LenProperties

\* ui_rx_log_task prints what is next.
LEMMA PrintingKeepsLog ==
  ASSUME LogTypes, LogReceives
  PROVE  Logged' = Logged
<1> DEFINE first == Head(rx_log_q)
           others == Tail(rx_log_q)
<1>1. /\ printed \in Seq(Messages) /\ rx_log_q \in Seq(Messages) /\ rx_log_q # <<>>
      /\ first \in Messages /\ others \in Seq(Messages)
      /\ printed' = Append(printed, first) /\ rx_log_q' = others
  BY LoggedTypes, HeadTailProperties DEF LogReceives
<1>2. rx_log_q = <<first>> \o others
  <2>1. 1 \in 1 .. Len(rx_log_q) /\ Len(rx_log_q) \in 1 .. Len(rx_log_q)
    BY <1>1, EmptySeq
  <2>2. SubSeq(rx_log_q, 1, Len(rx_log_q)) = <<rx_log_q[1]>> \o SubSeq(rx_log_q, 1 + 1, Len(rx_log_q))
    BY <1>1, <2>1, SubSeqRecursiveFirst
  <2>3. SubSeq(rx_log_q, 1, Len(rx_log_q)) = rx_log_q /\ others = SubSeq(rx_log_q, 2, Len(rx_log_q))
    BY <1>1, SubSeqFull, TailIsSubSeq
  <2>4. first = rx_log_q[1]
    BY <1>1
  <2> QED BY <2>2, <2>3, <2>4
<1> HIDE DEF first, others
<1>3. <<first>> \in Seq(Messages) /\ Append(printed, first) = printed \o <<first>>
  BY <1>1, AppendIsConcat
<1>4. (printed \o <<first>>) \o others = printed \o (<<first>> \o others)
  BY <1>1, <1>3, ConcatAssociative
<1> QED BY <1>1, <1>2, <1>3, <1>4, Zenon DEF Logged

\* A packet is taken: it goes into the log or into the crowd.
LEMMA PushKeepsLog ==
  ASSUME FrameTypes, LogTypes, HistoryTypes, LogInv, Accept, ObserveRx
  PROVE  LogInv'
<1> DEFINE packet == SubSeq(rx_buf, 1, TotalLen)
           n == Len(accepted)
           len == Len(Logged)
<1>1. /\ packet \in Seq(Byte) /\ packet # <<>>
      /\ accepted' = Append(accepted, packet)
      /\ Push(packet)
  BY PacketTypes DEF Accept, PacketHere
<1> HIDE DEF packet
<1>2. /\ n \in Nat /\ accepted \in Seq(Seq(Byte)) /\ DOMAIN accepted = 1 .. n
      /\ crowded \subseteq 1 .. n
  BY LenProperties DEF FrameTypes, HistoryTypes
<1>3. /\ Len(accepted') = n + 1 /\ DOMAIN accepted' = 1 .. n + 1
      /\ \A k \in 1 .. n : accepted'[k] = accepted[k]
      /\ accepted'[n + 1] = packet
      /\ accepted' # accepted
  <2>1. /\ accepted' \in Seq(Seq(Byte)) /\ Len(accepted') = n + 1
        /\ \A k \in 1 .. n : accepted'[k] = accepted[k]
        /\ accepted'[n + 1] = packet
    BY <1>1, <1>2, AppendProperties
  <2>2. DOMAIN accepted' = 1 .. n + 1
    BY <2>1, LenProperties
  <2>3. accepted' # accepted
    BY <1>2, <2>1
  <2> QED BY <2>1, <2>2, <2>3
<1>4. /\ printed \in Seq(Messages) /\ rx_log_q \in Seq(Messages)
      /\ Logged \in Seq(Messages) /\ len \in Nat /\ DOMAIN Logged = 1 .. len
  BY LoggedTypes
<1>5. log_created' = log_created /\ printed' = printed
  BY <1>1 DEF Push
<1>6. CASE ~log_created
  <2>1. Logged' = Logged /\ Logged = <<>>
    BY <1>1, <1>5, <1>6 DEF Push, Logged, LogInv
  <2> QED BY <1>5, <1>6, <2>1, Zenon DEF LogInv
<1>7. CASE log_created /\ LogFull
  <2>1. Logged' = Logged
    BY <1>1, <1>5, <1>7 DEF Push, Logged
  <2>2. Kept' = Kept
    <3>1. crowded' = crowded \cup {n + 1}
      BY <1>3, <1>7 DEF ObserveRx
    <3> QED BY <1>2, <1>3, <3>1 DEF Kept
  <2>3. PICK number : Enumerates(number)
    BY <1>7 DEF LogInv
  <2>4. \A k \in DOMAIN Logged : accepted'[number[k]] = accepted[number[k]]
    BY <1>2, <1>3, <2>3 DEF Enumerates, Kept
  <2>5. Enumerates(number)'
    BY <2>1, <2>2, <2>3, <2>4, Zenon DEF Enumerates
  <2> QED BY <1>5, <1>7, <2>5 DEF LogInv
<1>8. CASE log_created /\ ~LogFull
  <2> DEFINE m == Message(packet)
  <2>1. rx_log_q' = Append(rx_log_q, m)
    BY <1>1, <1>8 DEF Push
  <2>2. m \in Messages
    BY <1>1, MessageTypes
  <2> HIDE DEF m
  <2>3. Logged' = Append(Logged, m)
    <3>1. <<m>> \in Seq(Messages) /\ rx_log_q' = rx_log_q \o <<m>>
      BY <1>4, <2>1, <2>2, AppendIsConcat
    <3>2. (printed \o rx_log_q) \o <<m>> = printed \o (rx_log_q \o <<m>>)
      BY <1>4, <3>1, ConcatAssociative
    <3>3. Append(Logged, m) = Logged \o <<m>>
      BY <1>4, <2>2, AppendIsConcat
    <3> QED BY <1>5, <3>1, <3>2, <3>3, Zenon DEF Logged
  <2>4. /\ DOMAIN Logged' = 1 .. len + 1
        /\ \A k \in 1 .. len : Logged'[k] = Logged[k]
        /\ Logged'[len + 1] = m
    <3>1. /\ Logged' \in Seq(Messages) /\ Len(Logged') = len + 1
          /\ \A k \in 1 .. len : Logged'[k] = Logged[k]
          /\ Logged'[len + 1] = m
      BY <1>4, <2>2, <2>3, AppendProperties
    <3> QED BY <3>1, LenProperties
  <2>5. Kept' = Kept \cup {n + 1} /\ \A a \in Kept : a \in 1 .. n
    <3>1. crowded' = crowded
      BY <1>8 DEF ObserveRx
    <3> QED BY <1>2, <1>3, <3>1 DEF Kept
  <2>6. PICK number : Enumerates(number)
    BY <1>8 DEF LogInv
  <2>7. /\ number \in [1 .. len -> Kept]
        /\ \A a \in Kept : \E k \in 1 .. len : number[k] = a
        /\ \A k, l \in 1 .. len : k < l => number[k] < number[l]
        /\ \A k \in 1 .. len : Logged[k] = Message(accepted[number[k]])
    BY <1>4, <2>6, Zenon DEF Enumerates
  <2> HIDE DEF n, len
  <2>8. PICK longer : longer = [k \in 1 .. len + 1 |-> IF k = len + 1 THEN n + 1 ELSE number[k]]
    OBVIOUS
  <2>9. /\ longer[len + 1] = n + 1
        /\ \A k \in 1 .. len : longer[k] = number[k] /\ number[k] \in 1 .. n
    BY <1>4, <2>5, <2>7, <2>8 DEF len
  <2>10. longer \in [1 .. len + 1 -> Kept']
    <3>1. \A k \in 1 .. len + 1 : k # len + 1 => k \in 1 .. len
      BY <1>4 DEF len
    <3>2. \A k \in 1 .. len + 1 :
            (IF k = len + 1 THEN n + 1 ELSE number[k]) \in Kept \cup {n + 1}
      BY <2>7, <3>1
    <3> QED BY <2>5, <2>8, <3>2
  <2>11. \A a \in Kept' : \E k \in 1 .. len + 1 : longer[k] = a
    <3> SUFFICES ASSUME NEW a \in Kept' PROVE \E k \in 1 .. len + 1 : longer[k] = a
      OBVIOUS
    <3>1. CASE a = n + 1
      BY <1>4, <2>9, <3>1 DEF len
    <3>2. CASE a \in Kept
      <4>1. PICK k \in 1 .. len : number[k] = a
        BY <2>7, <3>2
      <4>2. k \in 1 .. len + 1 /\ longer[k] = a
        BY <1>4, <2>9, <4>1 DEF len
      <4> QED BY <4>2
    <3> QED BY <2>5, <3>1, <3>2
  <2>12. \A k, l \in 1 .. len + 1 : k < l => longer[k] < longer[l]
    <3> SUFFICES ASSUME NEW k \in 1 .. len + 1, NEW l \in 1 .. len + 1, k < l
                 PROVE  longer[k] < longer[l]
      OBVIOUS
    <3>1. k \in 1 .. len /\ len \in Nat /\ n \in Nat
      BY <1>2, <1>4 DEF n, len
    <3>2. CASE l = len + 1
      BY <2>9, <3>1, <3>2
    <3>3. CASE l # len + 1
      <4>1. l \in 1 .. len
        BY <3>1, <3>3
      <4> QED BY <2>7, <2>9, <3>1, <4>1
    <3> QED BY <3>2, <3>3
  <2>13. \A k \in 1 .. len + 1 : Logged'[k] = Message(accepted'[longer[k]])
    <3> SUFFICES ASSUME NEW k \in 1 .. len + 1 PROVE Logged'[k] = Message(accepted'[longer[k]])
      OBVIOUS
    <3>1. CASE k = len + 1
      <4>1. Logged'[k] = m /\ accepted'[longer[k]] = packet
        BY <1>3, <2>4, <2>9, <3>1 DEF n, len
      <4> QED BY <4>1 DEF m
    <3>2. CASE k # len + 1
      <4>1. k \in 1 .. len
        BY <1>4, <3>2 DEF len
      <4>2. Logged'[k] = Logged[k] /\ accepted'[longer[k]] = accepted[number[k]]
        BY <1>3, <2>4, <2>9, <4>1 DEF n, len
      <4> QED BY <2>7, <4>1, <4>2
    <3> QED BY <3>1, <3>2
  <2>14. Enumerates(longer)'
    <3>1. DOMAIN Logged' = 1 .. len + 1
      BY <2>4 DEF len
    <3> QED BY <2>10, <2>11, <2>12, <2>13, <3>1, Zenon DEF Enumerates
  <2> QED BY <1>5, <1>8, <2>14 DEF LogInv
<1> QED BY <1>6, <1>7, <1>8

LEMMA LogHolds == HSpec => []LogInv
<1>1. HInit => LogInv
  <2> SUFFICES ASSUME HInit PROVE LogInv
    OBVIOUS
  <2>1. Logged = <<>> /\ accepted = <<>>
    BY DEF HInit, Init, LogInit, Logged
  <2>2. DOMAIN Logged = {} /\ Kept = {}
    BY <2>1 DEF Kept
  <2>3. [k \in {} |-> 0] \in [{} -> {}]
    OBVIOUS
  <2>4. Enumerates([k \in {} |-> 0])
    BY <2>2, <2>3 DEF Enumerates
  <2> QED BY <2>1, <2>4 DEF LogInv
<1>2. RxInv /\ LogInv /\ [HNext]_hvars => LogInv'
  <2> SUFFICES ASSUME RxInv, LogInv, [HNext]_hvars PROVE LogInv'
    OBVIOUS
  <2>0. FrameTypes /\ LogTypes /\ HistoryTypes
    BY DEF RxInv
  <2>1. CASE Accept /\ ObserveRx
    BY <2>0, <2>1, PushKeepsLog
  <2>2. CASE UNCHANGED <<log_created, accepted, crowded>> /\ Logged' = Logged
    BY <2>2, Zenon DEF LogInv, Enumerates, Kept
  <2>3. CASE UNCHANGED <<logVars, accepted, crowded>>
    <3>1. Logged' = Logged
      BY <2>3 DEF logVars, Logged
    <3> QED BY <2>2, <2>3, <3>1 DEF logVars
  <2>4. CASE MasterSends /\ ObserveSent
    BY <2>3, <2>4 DEF MasterSends, ObserveSent
  <2>5. CASE \E k \in 1 .. Len(line) + 1 : Noise(k) /\ ObserveNoise(k)
    BY <2>3, <2>5 DEF Noise, ObserveNoise
  <2>6. CASE (Read \/ ParseEnds \/ DropByte \/ CrcFails \/ DrainByte \/ DrainEnds) /\ ObserveRx
    <3>1. UNCHANGED <<logVars, accepted>>
      BY <2>6 DEF Read, ParseEnds, DropByte, CrcFails, DrainByte, DrainEnds
    <3>2. crowded' = crowded
      BY <2>6, <3>1 DEF ObserveRx
    <3> QED BY <2>3, <3>1, <3>2
  <2>7. CASE LogStep /\ UNCHANGED history
    <3>1. UNCHANGED <<log_created, accepted, crowded>>
      BY <2>7 DEF LogStep, LogReceives, frameVars, history
    <3>2. Logged' = Logged
      BY <2>0, <2>7, PrintingKeepsLog DEF LogStep
    <3> QED BY <2>2, <3>1, <3>2
  <2>8. CASE UNCHANGED hvars
    BY <2>3, <2>8 DEF hvars, vars, frameVars, history
  <2> QED BY <2>1, <2>4, <2>5, <2>6, <2>7, <2>8 DEF HNext, RxStep
<1> QED BY <1>1, <1>2, FrameIsTyped, PTL DEF HSpec

\* The messages of the log, printed and to be printed, are the heads of the packets
\* ui_uart_rx_task took, in order and without any but those that found the queue full.
THEOREM LogIsInOrder == HSpec => []LogSkipsOnlyCrowded
<1>1. LogInv => LogSkipsOnlyCrowded
  BY Zenon DEF LogInv, LogSkipsOnlyCrowded, Enumerates, Logged, Kept
<1> QED BY <1>1, LogHolds, PTL
=============================================================================
