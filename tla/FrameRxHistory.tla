--------------------------- MODULE FrameRxHistory ---------------------------
(***************************************************************************)
(* FrameRx with history variables, and its properties. The history only    *)
(* watches: it restricts no step of FrameRx.                               *)
(***************************************************************************)
EXTENDS FrameRx

VARIABLES
  owner,  \* owner[k]: the packet that line[k] belongs to, 0 for noise
  held,   \* held[k]: the packet that rx_buf[k] belongs to, 0 for noise
  torn,   \* the packets that noise has changed or the drain has cut
  crowded \* the packets (by their place in accepted) that found the log's queue full

history == <<owner, held, torn, crowded>>
hvars == <<vars, history>>

HInit ==
  /\ Init
  /\ owner = <<>>
  /\ held = <<>>
  /\ torn = {}
  /\ crowded = {}

\* The type invariant of ui_uart_rx_task (TypeOK), and of the history.
HistoryTypeOK ==
  /\ TypeOK
  /\ owner \in Seq(0 .. Len(Packets))
  /\ Len(owner) = Len(line)
  /\ held \in Seq(0 .. Len(Packets))
  /\ Len(held) = Len(rx_buf)
  /\ torn \subseteq 0 .. Len(Packets)
  /\ crowded \subseteq DOMAIN accepted

ObserveSent ==
  /\ owner' = owner \o [k \in DOMAIN Packets[next] |-> next]
  /\ UNCHANGED <<held, torn, crowded>>

ObserveNoise(k) ==
  /\ UNCHANGED <<held, crowded>>
  /\ IF Len(line') > Len(line)
     THEN /\ owner' = Append(owner, 0)
          /\ UNCHANGED torn
     ELSE /\ owner' = IF Len(line') < Len(line) THEN RemoveAt(owner, k) ELSE owner
          /\ torn' = torn \cup {owner[k]}

ObserveRx ==
  /\ owner' = SubSeq(owner, Len(line) - Len(line') + 1, Len(owner))
  /\ held' = IF place = "read" THEN held \o SubSeq(owner, 1, Len(line) - Len(line'))
                              ELSE SubSeq(held, Len(rx_buf) - Len(rx_buf') + 1, Len(held))
  /\ torn' = IF place = "drain" THEN torn \cup {owner[k] : k \in 1 .. Len(line) - Len(line')}
                                ELSE torn
  /\ crowded' = IF accepted' # accepted /\ LogFull THEN crowded \cup {Len(accepted')}
                                                 ELSE crowded

HNext ==
  \/ MasterSends /\ ObserveSent
  \/ \E k \in 1 .. Len(line) + 1 : Noise(k) /\ ObserveNoise(k)
  \/ RxStep /\ ObserveRx
  \/ LogStep /\ UNCHANGED history

HSpec == HInit /\ [][HNext]_hvars

-----------------------------------------------------------------------------
(* Properties.                                                             *)

\* The buffer begins with a whole packet, by its header and by its CRC.
PassesForPacket ==
  /\ place = "parse"
  /\ HeaderHere
  /\ HeaderValid
  /\ Len(rx_buf) >= TotalLen
  /\ CrcRight

\* No byte of a damaged packet can be relied on.
Damaged(k) == k = 0 \/ k \in torn

\* The CRC is not right by chance: noise, and what noise and the drain have left of
\* packets, pass for a packet only if they make one up again, as a leftover first
\* byte does with a packet that lost its own. That packet, k, then ends where they
\* end, and no undamaged packet is among them.
CrcNeverByChance ==
  PassesForPacket /\ Damaged(held[1]) =>
    \E k \in 1 .. next - 1 :
      /\ SubSeq(rx_buf, 1, TotalLen) = Packets[k]
      /\ held[TotalLen] = k
      /\ \A p \in 1 .. TotalLen : Damaged(held[p])
      /\ \A p \in TotalLen + 1 .. Len(held) : held[p] # k
      /\ \A p \in DOMAIN owner : owner[p] # k

\* The packets that are taken are packets that were sent, each at most once and
\* in the order they were sent: nothing that starts in the middle of a packet,
\* in noise, or in the remains of a packet cut by the drain passes for one.
AcceptedAsSent ==
  \E number \in [DOMAIN accepted -> DOMAIN Packets] :
    /\ \A k \in DOMAIN accepted : accepted[k] = Packets[number[k]]
    /\ \A k, l \in DOMAIN accepted : k < l => number[k] < number[l]

\* Losing the start of a packet never costs the next one: a packet that neither
\* noise nor the drain has touched is taken, or all of its bytes are still there.
NoSilentLoss ==
  \A k \in 1 .. next - 1 :
    \/ k \in torn
    \/ \E a \in DOMAIN accepted : accepted[a] = Packets[k]
    \/ LET bytes == rx_buf \o line
       IN \E from \in DOMAIN bytes :
            /\ from + Len(Packets[k]) - 1 <= Len(bytes)
            /\ SubSeq(bytes, from, from + Len(Packets[k]) - 1) = Packets[k]

\* The buffer begins with what looks like the header of a packet that will not
\* fit: the task fills the buffer and then waits for ever.
Wedged == place = "read" /\ HeaderHere /\ TotalLen > BufSize

\* Packets that arrive whole never wedge the receiver: that takes noise, or a
\* packet that the drain has cut, after which payload is read as a header.
WholePacketsNeverWedge == Wedged => noise > 0 \/ torn # {}

\* The log never holds up the receiver, and pays for it with the packets that
\* find its queue full, and no others: what it prints is, in order, the head of
\* every other packet that was taken, even those overwritten in rx_buf by then.
LogSkipsOnlyCrowded ==
  LET logged == printed \o rx_log_q
      kept == DOMAIN accepted \ crowded
  IN IF log_created
     THEN \E number \in [DOMAIN logged -> kept] :
            /\ \A a \in kept : \E k \in DOMAIN logged : number[k] = a
            /\ \A k, l \in DOMAIN logged : k < l => number[k] < number[l]
            /\ \A k \in DOMAIN logged : logged[k] = Message(accepted[number[k]])
     ELSE logged = <<>>
=============================================================================
