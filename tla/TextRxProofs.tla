---------------------------- MODULE TextRxProofs ----------------------------
(***************************************************************************)
(* Theorems about TextRx, for all numbers and states the master reports    *)
(* and every room in the receive buffer.                                   *)
(***************************************************************************)
EXTENDS TextRxHistory, Recursion, SequenceTheorems, TLAPS

(***************************************************************************)
(* Reading a number. Readings is recursive: that it satisfies its equation *)
(* is shown by induction on the number of digits read.                     *)
(***************************************************************************)

Digits == Seq(0 .. 9)

\* The number read is 0 before the first digit, and each digit adds its place.
LEMMA ReadingsDefined ==
  ASSUME NEW s \in Digits
  PROVE  Readings(s) = [n \in 0 .. Len(s) |-> IF n = 0 THEN 0 ELSE 10 * Readings(s)[n - 1] + s[n]]
<1> DEFINE len == Len(s)
           Good(f) == f = [n \in 0 .. len |-> IF n = 0 THEN 0 ELSE 10 * f[n - 1] + s[n]]
           step == [k \in 1 .. len |-> [r \in Nat |-> 10 * r + s[k]]]
<1>1. len \in Nat /\ \A k \in 1 .. len : s[k] \in Nat
  BY LenProperties, ElementOfSeq DEF Digits
<1>2. step \in [1 .. len -> [Nat -> Nat]]
  BY <1>1
<1>3. \A r \in Nat, k \in 1 .. len : step[k][r] = 10 * r + s[k]
  OBVIOUS
<1> HIDE DEF step
<1>4. \E f : Good(f)
  <2> HIDE DEF len, Good
  <2>1. 0 \in Nat /\ len \in Nat
    BY <1>1
  <2>2. PICK f \in [0 .. len -> Nat] : Follows(f, len, 0, step)
    BY <1>2, <2>1, RecursionExists
  <2>3. \A k \in 1 .. len : f[k] = 10 * f[k - 1] + s[k]
    <3> SUFFICES ASSUME NEW k \in 1 .. len PROVE f[k] = 10 * f[k - 1] + s[k]
      OBVIOUS
    <3>1. k - 1 \in 0 .. len /\ f[k - 1] \in Nat
      BY <1>1
    <3> QED BY <1>3, <2>2, <3>1 DEF Follows
  <2>4. Good(f)
    BY <1>1, <2>2, <2>3 DEF Good, Follows
  <2> QED BY <2>4
<1>5. Readings(s) = CHOOSE f : Good(f)
  BY DEF Readings
<1> HIDE DEF Good
<1>6. Good(Readings(s))
  BY <1>4, <1>5
<1> QED BY <1>6 DEF Good

\* What is read are natural numbers, and no digit makes the number smaller.
LEMMA ReadingsGrow ==
  ASSUME NEW s \in Digits
  PROVE  \A n \in 0 .. Len(s) :
           \A k \in 0 .. n : Readings(s)[k] \in Nat /\ Readings(s)[k] <= Readings(s)[n]
<1> DEFINE len == Len(s)
           R == Readings(s)
           T == {n \in Nat : n <= len => \A k \in 0 .. n : R[k] \in Nat /\ R[k] <= R[n]}
<1>1. len \in Nat /\ \A k \in 1 .. len : s[k] \in Nat
  BY LenProperties, ElementOfSeq DEF Digits
<1>2. \A n \in 0 .. len : R[n] = IF n = 0 THEN 0 ELSE 10 * R[n - 1] + s[n]
  BY ReadingsDefined
<1> HIDE DEF R, len
<1>3. 0 \in T
  BY <1>1, <1>2
<1>4. ASSUME NEW n \in 0 .. len - 1, n \in T PROVE n + 1 \in T
  <2>1. R[n + 1] = 10 * R[n] + s[n + 1] /\ s[n + 1] \in Nat
    BY <1>1, <1>2
  <2>2. \A k \in 0 .. n : R[k] \in Nat /\ R[k] <= R[n]
    BY <1>1, <1>4
  <2>3. R[n] \in Nat /\ R[n + 1] \in Nat /\ R[n] <= R[n + 1]
    BY <2>1, <2>2
  <2> QED BY <1>1, <2>2, <2>3
<1> HIDE DEF T
<1>5. 0 .. len \subseteq T
  BY <1>1, <1>3, <1>4, UpTo
<1> QED BY <1>1, <1>5 DEF R, len, T

\* A cut number reads as the digits before the cut do.
LEMMA CutReads ==
  ASSUME NEW s \in Digits, NEW k \in 0 .. Len(s)
  PROVE  /\ SubSeq(s, 1, k) \in Digits
         /\ Value(SubSeq(s, 1, k)) = Readings(s)[k]
<1> DEFINE p == SubSeq(s, 1, k)
           T == {n \in Nat : n <= k => Readings(p)[n] = Readings(s)[n]}
<1>1. /\ Len(s) \in Nat
      /\ p \in Digits /\ Len(p) = k
      /\ \A n \in 1 .. k : p[n] = s[n]
  BY LenProperties, ElementOfSeq, SubSeqProperties DEF Digits
<1> HIDE DEF p
<1>2. /\ \A n \in 0 .. Len(s) : Readings(s)[n] = IF n = 0 THEN 0 ELSE 10 * Readings(s)[n - 1] + s[n]
      /\ \A n \in 0 .. k : Readings(p)[n] = IF n = 0 THEN 0 ELSE 10 * Readings(p)[n - 1] + p[n]
  BY <1>1, ReadingsDefined
<1>3. 0 \in T
  BY <1>1, <1>2
<1>4. ASSUME NEW n \in 0 .. k - 1, n \in T PROVE n + 1 \in T
  BY <1>1, <1>2, <1>4
<1> HIDE DEF T
<1>5. 0 .. k \subseteq T
  BY <1>3, <1>4, UpTo
<1> QED BY <1>1, <1>5 DEF p, T, Value

\* So it reads as no more than the whole number.
LEMMA CutReadsLess ==
  ASSUME NEW s \in Digits, NEW k \in 0 .. Len(s)
  PROVE  /\ Value(s) \in Nat
         /\ Value(SubSeq(s, 1, k)) \in Nat
         /\ Value(SubSeq(s, 1, k)) <= Value(s)
<1>1. Len(s) \in 0 .. Len(s) /\ k \in 0 .. Len(s)
  BY LenProperties DEF Digits
<1> QED BY <1>1, ReadingsGrow, CutReads DEF Value

\* A cycle limit that is cut reads as neither of the two limits.
LEMMA CutLimits ==
  ASSUME NEW m \in TestModes
  PROVE  /\ MaxCycles(m) \in Digits /\ Len(MaxCycles(m)) = 3
         /\ Value(MaxCycles(m)) \in {250, 500}
         /\ \A k \in 1 .. 3 : Value(SubSeq(MaxCycles(m), 1, k)) \in {250, 500} => k = 3
<1> DEFINE s == MaxCycles(m)
<1>1. /\ s \in Digits /\ Len(s) = 3
      /\ s = <<5, 0, 0>> \/ s = <<2, 5, 0>>
  <2>1. s = <<5, 0, 0>> \/ s = <<2, 5, 0>>
    BY DEF TestModes, MaxCycles, MODE_1_MAX_CYCLES, MODE_2_MAX_CYCLES
  <2>2. /\ <<5, 0, 0>> \in Seq(0 .. 9) /\ Len(<<5, 0, 0>>) = 3
        /\ <<2, 5, 0>> \in Seq(0 .. 9) /\ Len(<<2, 5, 0>>) = 3
    OBVIOUS
  <2> HIDE DEF s
  <2> QED BY <2>1, <2>2 DEF Digits
<1> HIDE DEF s
<1>2. /\ Readings(s)[0] = 0
      /\ Readings(s)[1] = 10 * Readings(s)[0] + s[1]
      /\ Readings(s)[2] = 10 * Readings(s)[1] + s[2]
      /\ Readings(s)[3] = 10 * Readings(s)[2] + s[3]
  <2>1. \A n \in 0 .. 3 : Readings(s)[n] = IF n = 0 THEN 0 ELSE 10 * Readings(s)[n - 1] + s[n]
    BY <1>1, ReadingsDefined
  <2> QED BY <2>1
<1>3. Value(s) \in {250, 500}
  BY <1>1, <1>2 DEF Value
<1>4. ASSUME NEW k \in 1 .. 3, Value(SubSeq(s, 1, k)) \in {250, 500} PROVE k = 3
  <2>1. Readings(s)[k] \in {250, 500}
    <3>1. k \in 0 .. Len(s)
      BY <1>1
    <3>2. Value(SubSeq(s, 1, k)) = Readings(s)[k]
      BY <1>1, <3>1, CutReads
    <3> QED BY <1>4, <3>2
  <2> QED BY <1>1, <1>2, <2>1
<1> QED BY <1>1, <1>3, <1>4 DEF s

(***************************************************************************)
(* The pieces in flight.                                                   *)
(***************************************************************************)

\* The digits of a cycle limit, all of them or those before a cut.
LimitCuts == {SubSeq(MaxCycles(m), 1, k) : m \in TestModes, k \in 1 .. 3}

\* What the stream may hold (see TypeOK), and what a chunk may hold.
StreamPieces == Lines \cup {Junk} \cup [kind : {"CYCLES"}, arg : {0}, num : Digits]

Pieces ==
  {p \in [kind : {"junk", "T1", "CYCLES", "STATE", "TEST_MODE"}, arg : Int, num : Digits] :
     /\ p.kind = "T1" => p.arg \in {1, -1}
     /\ p.kind = "STATE" => p.arg \in States
     /\ p.kind = "TEST_MODE" =>
          p.arg \in TestModes /\ \E k \in 1 .. 3 : p.num = SubSeq(MaxCycles(p.arg), 1, k)}

\* What is left of a cut limit when it is cut again is a cut limit.
LEMMA LimitsCutAgain ==
  ASSUME NEW s \in LimitCuts, NEW j \in 1 .. Len(s)
  PROVE  SubSeq(s, 1, j) \in LimitCuts
<1>1. PICK m \in TestModes, k \in 1 .. 3 : s = SubSeq(MaxCycles(m), 1, k)
  BY DEF LimitCuts
<1> DEFINE M == MaxCycles(m)
<1>2. M \in Seq(0 .. 9) /\ Len(M) = 3
  BY CutLimits DEF Digits
<1> HIDE DEF M
<1>3. \A n \in 1 .. 3 : M[n] \in 0 .. 9
  BY <1>2, ElementOfSeq
<1>4. s \in Seq(0 .. 9) /\ Len(s) = k /\ \A n \in 1 .. k : s[n] = M[n]
  BY <1>1, <1>3, SubSeqProperties DEF M
<1>5. /\ SubSeq(s, 1, j) \in Seq(0 .. 9) /\ Len(SubSeq(s, 1, j)) = j
      /\ \A n \in 1 .. j : SubSeq(s, 1, j)[n] = s[n]
  BY <1>4, ElementOfSeq, SubSeqProperties
<1>6. /\ SubSeq(M, 1, j) \in Seq(0 .. 9) /\ Len(SubSeq(M, 1, j)) = j
      /\ \A n \in 1 .. j : SubSeq(M, 1, j)[n] = M[n]
  BY <1>3, <1>4, SubSeqProperties
<1>7. SubSeq(s, 1, j) = SubSeq(M, 1, j)
  BY <1>4, <1>5, <1>6, SeqEqual
<1> QED BY <1>4, <1>7 DEF LimitCuts, M

\* A whole limit is a cut that takes everything.
LEMMA WholeLimits == \A m \in TestModes : MaxCycles(m) = SubSeq(MaxCycles(m), 1, 3)
<1> SUFFICES ASSUME NEW m \in TestModes PROVE MaxCycles(m) = SubSeq(MaxCycles(m), 1, 3)
  OBVIOUS
<1> DEFINE M == MaxCycles(m)
<1>1. M \in Seq(0 .. 9) /\ Len(M) = 3
  BY CutLimits DEF Digits
<1> HIDE DEF M
<1>2. \A n \in 1 .. 3 : M[n] \in 0 .. 9
  BY <1>1, ElementOfSeq
<1>3. /\ SubSeq(M, 1, 3) \in Seq(0 .. 9) /\ Len(SubSeq(M, 1, 3)) = 3
      /\ \A n \in 1 .. 3 : SubSeq(M, 1, 3)[n] = M[n]
  BY <1>2, SubSeqProperties
<1> QED BY <1>1, <1>3, SeqEqual DEF M

\* Whatever is in the stream can be in a chunk.
LEMMA StreamHoldsPieces == StreamPieces \subseteq Pieces
<1> SUFFICES ASSUME NEW p \in StreamPieces PROVE p \in Pieces
  OBVIOUS
<1>1. \A n \in Numbers \cup Durations : n \in Digits
  BY TextAssumption DEF Digits
<1>2. <<>> \in Digits
  BY DEF Digits
<1>3. CASE p \in {[kind |-> "TEST_MODE", arg |-> m, num |-> MaxCycles(m)] : m \in TestModes}
  <2> PICK m \in TestModes : p = [kind |-> "TEST_MODE", arg |-> m, num |-> MaxCycles(m)]
    BY <1>3
  <2>1. MaxCycles(m) \in Digits /\ MaxCycles(m) = SubSeq(MaxCycles(m), 1, 3) /\ m \in Int
    BY CutLimits, WholeLimits DEF TestModes
  <2>2. /\ p.kind = "TEST_MODE" /\ p.kind # "T1" /\ p.kind # "STATE"
        /\ p.arg = m /\ p.arg \in TestModes
        /\ p.num = SubSeq(MaxCycles(m), 1, 3)
    BY <2>1
  <2>3. p \in [kind : {"junk", "T1", "CYCLES", "STATE", "TEST_MODE"}, arg : Int, num : Digits]
    BY <2>1
  <2>4. \E k \in 1 .. 3 : p.num = SubSeq(MaxCycles(p.arg), 1, k)
    BY <2>2
  <2> QED BY <2>2, <2>3, <2>4, Zenon DEF Pieces
<1>4. CASE p \in [kind : {"STATE"}, arg : States, num : Durations]
  <2>1. p.kind = "STATE" /\ p.arg \in States /\ p.arg \in Int /\ p.num \in Digits
    <3>1. p.kind = "STATE" /\ p.arg \in States /\ p.num \in Durations
      BY <1>4
    <3>2. \A a \in States : a \in Int
      BY TextAssumption
    <3> QED BY <1>1, <3>1, <3>2
  <2>2. p \in [kind : {"junk", "T1", "CYCLES", "STATE", "TEST_MODE"}, arg : Int, num : Digits]
    BY <1>4, <2>1
  <2> QED BY <2>1, <2>2 DEF Pieces
<1>5. CASE p \in [kind : {"T1"}, arg : {1, -1}, num : Numbers]
             \cup [kind : {"CYCLES"}, arg : {0}, num : Digits \cup Numbers] \cup {Junk}
  BY <1>1, <1>2, <1>5 DEF Pieces, Junk
<1> QED BY <1>3, <1>4, <1>5 DEF StreamPieces, Lines

\* A mode line in the stream is whole.
LEMMA ModeLines ==
  ASSUME NEW p \in StreamPieces, p.kind = "TEST_MODE"
  PROVE  p.arg \in TestModes /\ p.num = MaxCycles(p.arg)
<1>1. p \in {[kind |-> "TEST_MODE", arg |-> m, num |-> MaxCycles(m)] : m \in TestModes}
  BY DEF StreamPieces, Lines, Junk
<1> QED BY <1>1

\* The two parts of a cut piece. The second one is junk, or a mode line that is
\* read from CYCLES= on.
LEMMA CutParts ==
  ASSUME NEW p \in StreamPieces, NEW cut \in Cuts(p)
  PROVE  /\ cut.head \in Pieces
         /\ cut.head = Junk \/ \E k \in 1 .. Len(p.num) :
                                 cut.head = [p EXCEPT !.num = SubSeq(p.num, 1, k)]
         /\ cut.tail \in StreamPieces
         /\ cut.tail = Junk \/ (cut.tail.kind = "CYCLES" /\ cut.tail.num \in LimitCuts)
<1>1. Junk \in StreamPieces /\ Junk \in Pieces /\ p \in Pieces
  BY StreamHoldsPieces DEF StreamPieces
<1>2. CASE cut = [head |-> Junk, tail |-> Junk]
  BY <1>1, <1>2
<1>3. ASSUME NEW k \in 1 .. Len(p.num),
             cut = [head |-> [p EXCEPT !.num = SubSeq(@, 1, k)], tail |-> Junk]
      PROVE  cut.head = [p EXCEPT !.num = SubSeq(p.num, 1, k)] /\ cut.head \in Pieces
  <2>1. SubSeq(p.num, 1, k) \in Digits
    <3>1. p.num \in Digits /\ k \in 0 .. Len(p.num)
      BY <1>1 DEF Pieces
    <3> QED BY <3>1, CutReads
  <2>2. p.kind = "TEST_MODE" => SubSeq(p.num, 1, k) = SubSeq(MaxCycles(p.arg), 1, k) /\ k \in 1 .. 3
    <3>1. ASSUME p.kind = "TEST_MODE" PROVE p.num = MaxCycles(p.arg) /\ p.arg \in TestModes
      BY <3>1, ModeLines
    <3>2. p.kind = "TEST_MODE" => p.num = MaxCycles(p.arg) /\ Len(p.num) = 3
      BY <3>1, CutLimits
    <3> QED BY <3>2
  <2> QED BY <1>1, <1>3, <2>1, <2>2 DEF Pieces
<1>4. CASE p.kind = "TEST_MODE" /\
           cut = [head |-> Junk, tail |-> [kind |-> "CYCLES", arg |-> 0, num |-> p.num]]
  <2>1. /\ p.arg \in TestModes /\ p.num = MaxCycles(p.arg)
        /\ p.num \in Digits
    <3>1. p.arg \in TestModes /\ p.num = MaxCycles(p.arg)
      BY <1>4, ModeLines
    <3>2. p \in [kind : {"junk", "T1", "CYCLES", "STATE", "TEST_MODE"}, arg : Int, num : Digits]
      BY <1>1 DEF Pieces
    <3> QED BY <3>1, <3>2
  <2>2. p.num \in LimitCuts
    BY <2>1, WholeLimits DEF LimitCuts
  <2> QED BY <1>1, <1>4, <2>1, <2>2 DEF StreamPieces
<1>5. CASE \E k \in 1 .. Len(p.num) :
             cut = [head |-> [p EXCEPT !.num = SubSeq(@, 1, k)], tail |-> Junk]
  <2> PICK k \in 1 .. Len(p.num) :
             cut = [head |-> [p EXCEPT !.num = SubSeq(@, 1, k)], tail |-> Junk]
    BY <1>5
  <2>1. cut.head = [p EXCEPT !.num = SubSeq(p.num, 1, k)] /\ cut.head \in Pieces
    BY <1>3
  <2> QED BY <1>1, <2>1
<1> QED BY <1>2, <1>4, <1>5 DEF Cuts

(***************************************************************************)
(* Type correctness. A cut adds a piece to those in flight, but the next   *)
(* one is read only when all of the chunk has been processed.              *)
(***************************************************************************)

FlightInv ==
  /\ HistoryTypeOK
  /\ chunk \in Seq(Pieces)
  /\ chunk = <<>> => Len(stream) <= MaxPieces

LEMMA ValueIsNat == \A s \in Digits : Value(s) \in Nat
<1> SUFFICES ASSUME NEW s \in Digits PROVE Value(s) \in Nat
  OBVIOUS
<1>1. 0 \in 0 .. Len(s)
  BY LenProperties DEF Digits
<1> QED BY <1>1, CutReadsLess

\* A stream read up to the end of a line ...
LEMMA WholeSplits ==
  ASSUME NEW S, NEW s \in Seq(S), NEW n \in 0 .. Len(s)
  PROVE  /\ SubSeq(s, 1, n) \in Seq(S)
         /\ Len(SubSeq(s, 1, n)) = n
         /\ \A k \in 1 .. n : SubSeq(s, 1, n)[k] = s[k]
         /\ SubSeq(s, n + 1, Len(s)) \in Seq(S)
         /\ Len(SubSeq(s, n + 1, Len(s))) = Len(s) - n
         /\ \A k \in 1 .. Len(s) - n : SubSeq(s, n + 1, Len(s))[k] = s[n + k]
<1>1. Len(s) \in Nat /\ \A k \in 1 .. Len(s) : s[k] \in S
  BY LenProperties, ElementOfSeq
<1>2. /\ SubSeq(s, 1, n) \in Seq(S)
      /\ Len(SubSeq(s, 1, n)) = n
      /\ \A k \in 1 .. n : SubSeq(s, 1, n)[k] = s[k]
  BY <1>1, SubSeqProperties
<1>3. /\ SubSeq(s, n + 1, Len(s)) \in Seq(S)
      /\ Len(SubSeq(s, n + 1, Len(s))) = Len(s) - n
      /\ \A k \in 1 .. Len(s) - n : SubSeq(s, n + 1, Len(s))[k] = s[n + k]
  <2> DEFINE r == SubSeq(s, n + 1, Len(s))
  <2>1. /\ r \in Seq(S)
        /\ Len(r) = IF n + 1 <= Len(s) THEN Len(s) - (n + 1) + 1 ELSE 0
        /\ \A k \in 1 .. Len(s) - (n + 1) + 1 : r[k] = s[(n + 1) + k - 1]
    BY <1>1, SubSeqProperties
  <2> HIDE DEF r
  <2>2. /\ Len(r) = Len(s) - n
        /\ \A k \in 1 .. Len(s) - n : r[k] = s[n + k]
    BY <1>1, <2>1
  <2> QED BY <2>1, <2>2 DEF r
<1> QED BY <1>2, <1>3

\* ... and in the middle of one, which leaves h at the end of the chunk and t
\* at the start of the stream.
LEMMA TornSplits ==
  ASSUME NEW S, NEW s \in Seq(S), NEW n \in 0 .. Len(s) - 1, NEW h \in S, NEW t \in S
  PROVE  LET c == Append(SubSeq(s, 1, n), h)
             r == <<t>> \o SubSeq(s, n + 2, Len(s))
         IN  /\ c \in Seq(S) /\ Len(c) = n + 1
             /\ c[n + 1] = h /\ \A k \in 1 .. n : c[k] = s[k]
             /\ r \in Seq(S) /\ Len(r) = Len(s) - n
             /\ r[1] = t /\ \A k \in 2 .. Len(s) - n : r[k] = s[n + k]
<1> DEFINE u == SubSeq(s, 1, n)
           v == SubSeq(s, (n + 1) + 1, Len(s))
           c == Append(u, h)
           r == <<t>> \o v
<1>1. Len(s) \in Nat
  BY LenProperties
<1>2. u \in Seq(S) /\ Len(u) = n /\ \A k \in 1 .. n : u[k] = s[k]
  BY <1>1, WholeSplits
<1>3. /\ v \in Seq(S) /\ Len(v) = Len(s) - (n + 1)
      /\ \A k \in 1 .. Len(s) - (n + 1) : v[k] = s[(n + 1) + k]
  <2>1. n + 1 \in 0 .. Len(s)
    BY <1>1
  <2> QED BY <2>1, WholeSplits
<1>4. v = SubSeq(s, n + 2, Len(s))
  BY <1>1
<1> HIDE DEF u, v
<1>5. /\ c \in Seq(S) /\ Len(c) = n + 1
      /\ c[n + 1] = h /\ \A k \in 1 .. n : c[k] = s[k]
  BY <1>2, AppendProperties
<1>6. /\ r \in Seq(S) /\ Len(r) = Len(s) - n
      /\ r[1] = t /\ \A k \in 2 .. Len(s) - n : r[k] = s[n + k]
  <2>1. <<t>> \in Seq(S) /\ Len(<<t>>) = 1 /\ <<t>>[1] = t
    OBVIOUS
  <2>2. /\ r \in Seq(S) /\ Len(r) = 1 + Len(v)
        /\ \A k \in 1 .. 1 + Len(v) : r[k] = IF k <= 1 THEN <<t>>[k] ELSE v[k - 1]
    BY <1>3, <2>1, ConcatProperties
  <2> HIDE DEF r
  <2>3. Len(r) = Len(s) - n /\ r[1] = t
    BY <1>1, <1>3, <2>1, <2>2
  <2>4. ASSUME NEW k \in 2 .. Len(s) - n PROVE r[k] = s[n + k]
    <3>1. r[k] = v[k - 1] /\ k - 1 \in 1 .. Len(s) - (n + 1)
      BY <1>1, <1>3, <2>2
    <3>2. v[k - 1] = s[(n + 1) + (k - 1)]
      BY <1>3, <3>1
    <3>3. (n + 1) + (k - 1) = n + k
      BY <1>1
    <3> QED BY <3>1, <3>2, <3>3
  <2> QED BY <2>2, <2>3, <2>4
<1> QED BY <1>4, <1>5, <1>6 DEF u

\* The steps that read a chunk.
LEMMA ReadTypes ==
  ASSUME stream \in Seq(StreamPieces), chunk = <<>>, Len(stream) <= MaxPieces, ReadWhole \/ ReadTorn
  PROVE  /\ chunk' \in Seq(Pieces) /\ chunk' # <<>>
         /\ stream' \in Seq(StreamPieces)
         /\ Len(stream') + Len(chunk') <= MaxPieces + 1
<1>1. Len(stream) \in Nat /\ stream \in Seq(Pieces) /\ MaxPieces \in Nat
  BY StreamHoldsPieces, TextAssumption, LenProperties
<1>2. CASE ReadWhole
  <2> PICK n \in 1 .. Len(stream) : /\ chunk' = SubSeq(stream, 1, n)
                                    /\ stream' = SubSeq(stream, n + 1, Len(stream))
    BY <1>2 DEF ReadWhole
  <2>1. n \in 0 .. Len(stream)
    BY <1>1
  <2>2. chunk' \in Seq(Pieces) /\ Len(chunk') = n
    BY <1>1, <2>1, WholeSplits
  <2>3. stream' \in Seq(StreamPieces) /\ Len(stream') = Len(stream) - n
    BY <2>1, WholeSplits
  <2>4. chunk' # <<>>
    <3>1. Len(chunk') # 0 /\ Len(<<>>) = 0
      BY <1>1, <2>2
    <3> QED BY <3>1
  <2>5. Len(stream') + Len(chunk') <= MaxPieces + 1
    <3>1. Len(stream) - n + n <= MaxPieces + 1
      BY <1>1
    <3> QED BY <2>2, <2>3, <3>1
  <2> QED BY <2>2, <2>3, <2>4, <2>5
<1>3. CASE ReadTorn
  <2> PICK n \in 0 .. Len(stream) - 1 : \E cut \in Cuts(stream[n + 1]) :
             /\ chunk' = Append(SubSeq(stream, 1, n), cut.head)
             /\ stream' = <<cut.tail>> \o SubSeq(stream, n + 2, Len(stream))
    BY <1>3 DEF ReadTorn
  <2> PICK cut \in Cuts(stream[n + 1]) :
             /\ chunk' = Append(SubSeq(stream, 1, n), cut.head)
             /\ stream' = <<cut.tail>> \o SubSeq(stream, n + 2, Len(stream))
    OBVIOUS
  <2>1. stream[n + 1] \in StreamPieces
    BY <1>1, ElementOfSeq
  <2>2. cut.head \in Pieces /\ cut.tail \in StreamPieces /\ cut.tail \in Pieces
    BY <2>1, CutParts, StreamHoldsPieces
  <2>3. chunk' \in Seq(Pieces) /\ Len(chunk') = n + 1
    BY <1>1, <2>2, TornSplits
  <2>4. stream' \in Seq(StreamPieces) /\ Len(stream') = Len(stream) - n
    BY <2>2, TornSplits
  <2>5. chunk' # <<>>
    <3>1. Len(chunk') # 0 /\ Len(<<>>) = 0
      BY <1>1, <2>3
    <3> QED BY <3>1
  <2>6. Len(stream') + Len(chunk') <= MaxPieces + 1
    <3>1. Len(stream) - n + (n + 1) <= MaxPieces + 1
      BY <1>1
    <3> QED BY <2>3, <2>4, <3>1
  <2> QED BY <2>3, <2>4, <2>5, <2>6
<1> QED BY <1>2, <1>3

\* The pass of the loop over the first piece of the chunk.
LEMMA ProcessTypes ==
  ASSUME TypeOK, chunk \in Seq(Pieces), ProcessLine
  PROVE  /\ t_module' \in Nat /\ t_cycles' \in Nat
         /\ ui' \in [state : States, elapsed : Nat]
         /\ current_test_mode' \in TestModes /\ t_max_cycles' \in {0, 250, 500}
         /\ master_mode_received' \in BOOLEAN
         /\ chunk' \in Seq(Pieces) /\ Len(chunk') = Len(chunk) - 1
<1> DEFINE piece == Head(chunk)
<1>1. /\ chunk # <<>> /\ chunk' = Tail(chunk)
      /\ StoreT1(piece) /\ StoreCycles(piece) /\ StoreState(piece) /\ StoreTestMode(piece)
  BY DEF ProcessLine
<1>2. piece \in Pieces /\ Tail(chunk) \in Seq(Pieces) /\ Len(Tail(chunk)) = Len(chunk) - 1
  BY <1>1, HeadTailProperties
<1> HIDE DEF piece
<1>3. Value(piece.num) \in Nat
  BY <1>2, ValueIsNat DEF Pieces
<1>4. t_module' \in Nat
  <2>1. ParseT1(piece) \in Int
    BY <1>2, <1>3 DEF ParseT1, Pieces
  <2> QED BY <1>1, <2>1 DEF StoreT1, TypeOK
<1>5. t_cycles' \in Nat
  BY <1>1, <1>3 DEF StoreCycles, TypeOK
<1>6. ui' \in [state : States, elapsed : Nat]
  <2>1. piece.kind = "STATE" => piece.arg \in States
    BY <1>2 DEF Pieces
  <2> QED BY <1>1, <1>3, <2>1 DEF StoreState, TypeOK
<1>7. current_test_mode' \in TestModes /\ t_max_cycles' \in {0, 250, 500}
  BY <1>1 DEF StoreTestMode, ParseTestMode, TypeOK
<1>8. master_mode_received' \in BOOLEAN
  BY <1>1 DEF StoreTestMode, TypeOK
<1> QED BY <1>1, <1>2, <1>4, <1>5, <1>6, <1>7, <1>8

\* Every variable keeps its type, and what is in flight its bound.
LEMMA FlightIsTyped == HSpec => []FlightInv
<1>1. HInit => FlightInv
  <2> SUFFICES ASSUME HInit PROVE FlightInv
    OBVIOUS
  <2>1. MaxPieces \in Nat /\ 0 \in States /\ <<>> \in Seq(StreamPieces) /\ <<>> \in Seq(Pieces)
    BY TextAssumption
  <2>2. TypeOK
    <3>1. stream \in Seq(StreamPieces) /\ Len(stream) + Len(chunk) <= MaxPieces + 1
      BY <2>1 DEF HInit, Init
    <3>2. ui \in [state : States, elapsed : Nat]
      BY <2>1 DEF HInit, Init
    <3> QED BY <3>1, <3>2 DEF HInit, Init, TypeOK, StreamPieces, Digits, TestModes
  <2>3. HistoryTypeOK
    BY <2>2 DEF HInit, HistoryTypeOK
  <2>4. chunk \in Seq(Pieces) /\ Len(stream) <= MaxPieces
    BY <2>1 DEF HInit, Init
  <2> QED BY <2>3, <2>4 DEF FlightInv
<1>2. FlightInv /\ [HNext]_hvars => FlightInv'
  <2> SUFFICES ASSUME FlightInv, [HNext]_hvars PROVE FlightInv'
    OBVIOUS
  <2>1. /\ TypeOK /\ MaxPieces \in Nat /\ Len(stream) \in Nat /\ Len(chunk) \in Nat
        /\ stream \in Seq(StreamPieces)
        /\ chunk = <<>> => Len(chunk) = 0
    BY TextAssumption, LenProperties DEF FlightInv, HistoryTypeOK, TypeOK, StreamPieces, Digits
  <2>2. ASSUME NEW line \in Lines, MasterSends(line), ObserveSent(line) PROVE FlightInv'
    <3>1. stream' \in Seq(StreamPieces) /\ Len(stream') = Len(stream) + 1
      <4>1. line \in StreamPieces
        BY DEF StreamPieces
      <4> QED BY <2>1, <2>2, <4>1, AppendProperties DEF MasterSends
    <3>2. TypeOK'
      BY <2>1, <2>2, <3>1 DEF MasterSends, shownVars, TypeOK, StreamPieces, Digits
    <3>3. line \in Pieces
      BY StreamHoldsPieces DEF StreamPieces
    <3>4. Value(line.num) \in Nat /\ (line.kind = "T1" => Degrees(line) \in Int)
      BY <3>3, ValueIsNat DEF Pieces, Degrees
    <3>5. hottest' \in Nat /\ furthest' \in Nat
      BY <2>2, <3>4 DEF ObserveSent, FlightInv, HistoryTypeOK
    <3>6. sent' \in [Kinds -> Lines \cup {Junk}]
      BY <2>2 DEF ObserveSent, FlightInv, HistoryTypeOK
    <3>7. HistoryTypeOK'
      BY <2>2, <3>2, <3>5, <3>6 DEF ObserveSent, FlightInv, HistoryTypeOK
    <3> QED BY <2>1, <2>2, <3>1, <3>7 DEF MasterSends, FlightInv
  <2>3. ASSUME NEW torn \in BOOLEAN, ReadWhole \/ ReadTorn, ObserveRead(torn) PROVE FlightInv'
    <3>1. chunk = <<>> /\ UNCHANGED shownVars
      BY <2>3 DEF ReadWhole, ReadTorn
    <3>2. /\ chunk' \in Seq(Pieces) /\ chunk' # <<>>
          /\ stream' \in Seq(StreamPieces)
          /\ Len(stream') + Len(chunk') <= MaxPieces + 1
      BY <2>1, <2>3, <3>1, ReadTypes DEF FlightInv
    <3>3. TypeOK'
      BY <2>1, <3>1, <3>2 DEF shownVars, TypeOK, StreamPieces, Digits
    <3> QED BY <2>3, <3>2, <3>3 DEF ObserveRead, FlightInv, HistoryTypeOK
  <2>4. CASE ProcessLine /\ ObserveLine
    <3>1. /\ t_module' \in Nat /\ t_cycles' \in Nat
          /\ ui' \in [state : States, elapsed : Nat]
          /\ current_test_mode' \in TestModes /\ t_max_cycles' \in {0, 250, 500}
          /\ master_mode_received' \in BOOLEAN
          /\ chunk' \in Seq(Pieces) /\ Len(chunk') = Len(chunk) - 1
      BY <2>1, <2>4, ProcessTypes DEF FlightInv
    <3>2. stream' = stream
      BY <2>4 DEF ProcessLine
    <3>3. TypeOK' /\ Len(stream') <= MaxPieces
      BY <2>1, <3>1, <3>2 DEF TypeOK
    <3>4. dirty' \in [Kinds -> BOOLEAN]
      BY <2>4 DEF ObserveLine, Torn, FlightInv, HistoryTypeOK
    <3> QED BY <2>4, <3>1, <3>3, <3>4 DEF ObserveLine, FlightInv, HistoryTypeOK
  <2>5. CASE UNCHANGED hvars
    BY <2>5 DEF hvars, vars, shownVars, history, FlightInv, HistoryTypeOK, TypeOK
  <2> QED BY <2>2, <2>3, <2>4, <2>5 DEF HNext
<1> QED BY <1>1, <1>2, PTL DEF HSpec

\* What is in flight, shown and remembered keeps its type and its bound.
THEOREM HistoryTypeCorrect == HSpec => []HistoryTypeOK
<1>1. FlightInv => HistoryTypeOK
  BY DEF FlightInv
<1> QED BY <1>1, FlightIsTyped, PTL

(***************************************************************************)
(* A mode line is read as sent or not at all: of the digits of a limit,    *)
(* only all three read as one of the limits that are accepted.             *)
(***************************************************************************)

\* The mode on the panel and the limit on it have come from the same line.
THEOREM ModeReadAsSent == HSpec => []ModeNotMisread
<1>1. HInit => ModeNotMisread
  BY DEF HInit, Init, ModeNotMisread
<1>2. FlightInv /\ ModeNotMisread /\ [HNext]_hvars => ModeNotMisread'
  <2> SUFFICES ASSUME FlightInv, ModeNotMisread, [HNext]_hvars PROVE ModeNotMisread'
    OBVIOUS
  <2>1. CASE ProcessLine
    <3> DEFINE piece == Head(chunk)
    <3>1. piece \in Pieces /\ StoreTestMode(piece)
      BY <2>1, HeadTailProperties DEF ProcessLine, FlightInv
    <3> HIDE DEF piece
    <3>2. CASE ParseTestMode(piece)
      <4>1. /\ piece.arg \in TestModes /\ Value(piece.num) \in {250, 500}
            /\ \E k \in 1 .. 3 : piece.num = SubSeq(MaxCycles(piece.arg), 1, k)
        BY <3>1, <3>2 DEF ParseTestMode, Pieces
      <4>2. piece.num = MaxCycles(piece.arg)
        BY <4>1, CutLimits, WholeLimits
      <4> QED BY <3>1, <3>2, <4>2 DEF StoreTestMode, ModeNotMisread
    <3>3. CASE ~ParseTestMode(piece)
      BY <3>1, <3>3 DEF StoreTestMode, ModeNotMisread
    <3> QED BY <3>2, <3>3
  <2>2. CASE ~ProcessLine
    BY <2>2 DEF HNext, MasterSends, ReadWhole, ReadTorn, hvars, vars, shownVars, ModeNotMisread
  <2> QED BY <2>1, <2>2
<1> QED BY <1>1, <1>2, FlightIsTyped, PTL DEF HSpec

(***************************************************************************)
(* Cutting makes numbers smaller. No piece in flight reads as more than    *)
(* what the master has reported, but for a mode line read from CYCLES= on. *)
(***************************************************************************)

Reported(p) ==
  /\ p.kind = "T1" /\ p.arg = 1 => Value(p.num) <= hottest
  /\ p.kind = "CYCLES" => Value(p.num) <= furthest \/ p.num \in LimitCuts

BoundsInv ==
  /\ t_module <= hottest
  /\ t_cycles <= furthest \/ \E s \in LimitCuts : t_cycles = Value(s)
  /\ \A n \in 1 .. Len(chunk) : Reported(chunk[n])
  /\ \A n \in 1 .. Len(stream) : Reported(stream[n])

\* What is reported stays so when a line is cut.
LEMMA CutIsReported ==
  ASSUME hottest \in Nat, furthest \in Nat,
         NEW p \in StreamPieces, Reported(p), NEW cut \in Cuts(p)
  PROVE  Reported(cut.head) /\ Reported(cut.tail)
<1>1. Reported(Junk)
  BY DEF Reported, Junk
<1>2. ASSUME NEW k \in 1 .. Len(p.num), cut.head = [p EXCEPT !.num = SubSeq(p.num, 1, k)]
      PROVE  Reported(cut.head)
  <2>1. p \in Pieces /\ p.num \in Digits /\ k \in 0 .. Len(p.num)
    BY StreamHoldsPieces DEF Pieces
  <2>2. /\ Value(p.num) \in Nat /\ Value(SubSeq(p.num, 1, k)) \in Nat
        /\ Value(SubSeq(p.num, 1, k)) <= Value(p.num)
    BY <2>1, CutReadsLess
  <2>3. p.num \in LimitCuts => SubSeq(p.num, 1, k) \in LimitCuts
    BY LimitsCutAgain
  <2>4. /\ cut.head.kind = p.kind /\ cut.head.arg = p.arg
        /\ cut.head.num = SubSeq(p.num, 1, k)
    BY <1>2, <2>1 DEF Pieces
  <2> QED BY <2>2, <2>3, <2>4 DEF Reported
<1>3. Reported(cut.tail)
  BY <1>1, CutParts DEF Reported
<1> QED BY <1>1, <1>2, <1>3, CutParts

LEMMA BoundsHold == HSpec => []BoundsInv
<1>1. HInit => BoundsInv
  BY DEF HInit, Init, BoundsInv
<1>2. FlightInv /\ BoundsInv /\ [HNext]_hvars => BoundsInv'
  <2> SUFFICES ASSUME FlightInv, BoundsInv, [HNext]_hvars PROVE BoundsInv'
    OBVIOUS
  <2>1. /\ hottest \in Nat /\ furthest \in Nat /\ t_module \in Nat /\ t_cycles \in Nat
        /\ stream \in Seq(StreamPieces) /\ chunk \in Seq(Pieces)
        /\ Len(stream) \in Nat /\ Len(chunk) \in Nat
    BY LenProperties DEF FlightInv, HistoryTypeOK, TypeOK, StreamPieces, Digits
  <2>2. ASSUME NEW line \in Lines, MasterSends(line), ObserveSent(line) PROVE BoundsInv'
    <3>1. line \in StreamPieces /\ line \in Pieces
      BY StreamHoldsPieces DEF StreamPieces
    <3>2. Value(line.num) \in Nat
      BY <3>1, ValueIsNat DEF Pieces
    <3>3. /\ hottest' \in Nat /\ furthest' \in Nat
          /\ hottest' >= hottest /\ furthest' >= furthest
          /\ line.kind = "T1" /\ line.arg = 1 => hottest' >= Value(line.num)
          /\ line.kind = "CYCLES" => furthest' >= Value(line.num)
      <4>1. line.kind = "T1" => Degrees(line) = line.arg * Value(line.num) /\ Degrees(line) \in Int
        BY <3>1, <3>2 DEF Degrees, Pieces
      <4> QED BY <2>1, <2>2, <3>2, <4>1 DEF ObserveSent
    <3>4. ASSUME NEW p \in Pieces, Reported(p) PROVE Reported(p)'
      <4>1. Value(p.num) \in Nat
        BY ValueIsNat DEF Pieces
      <4> QED BY <2>1, <3>3, <3>4, <4>1 DEF Reported
    <3>5. Reported(line)'
      BY <3>3 DEF Reported
    <3>6. /\ chunk' = chunk /\ t_module' = t_module /\ t_cycles' = t_cycles
          /\ stream' = Append(stream, line)
      BY <2>2 DEF MasterSends, shownVars
    <3>7. ASSUME NEW n \in 1 .. Len(chunk) PROVE Reported(chunk[n])'
      <4>1. chunk[n] \in Pieces /\ Reported(chunk[n])
        BY <2>1, ElementOfSeq DEF BoundsInv
      <4> QED BY <3>4, <3>6, <4>1 DEF Reported
    <3>8. ASSUME NEW n \in 1 .. Len(stream) + 1 PROVE Reported(stream[n])'
      <4>1. CASE n \in 1 .. Len(stream)
        <5>1. stream[n] \in Pieces /\ Reported(stream[n])
          BY <2>1, <4>1, ElementOfSeq, StreamHoldsPieces DEF BoundsInv
        <5>2. stream'[n] = stream[n]
          BY <2>1, <3>1, <3>6, <4>1, AppendProperties
        <5> QED BY <3>4, <5>1, <5>2 DEF Reported
      <4>2. CASE n = Len(stream) + 1
        <5>1. stream'[n] = line
          BY <2>1, <3>1, <3>6, <4>2, AppendProperties
        <5> QED BY <3>5, <5>1 DEF Reported
      <4> QED BY <2>1, <4>1, <4>2
    <3>9. Len(stream') = Len(stream) + 1
      BY <2>1, <3>1, <3>6, AppendProperties
    <3>10. t_module' <= hottest'
      BY <2>1, <3>3, <3>6 DEF BoundsInv
    <3>11. t_cycles' <= furthest' \/ \E s \in LimitCuts : t_cycles' = Value(s)
      BY <2>1, <3>3, <3>6 DEF BoundsInv
    <3> QED BY <3>6, <3>7, <3>8, <3>9, <3>10, <3>11 DEF BoundsInv
  <2>3. CASE ReadWhole /\ ObserveRead(FALSE)
    <3> PICK n \in 1 .. Len(stream) : /\ chunk' = SubSeq(stream, 1, n)
                                      /\ stream' = SubSeq(stream, n + 1, Len(stream))
      BY <2>3 DEF ReadWhole
    <3>1. n \in 0 .. Len(stream) /\ UNCHANGED <<hottest, furthest, t_module, t_cycles>>
      BY <2>1, <2>3 DEF ReadWhole, shownVars, ObserveRead
    <3>2. /\ Len(chunk') = n /\ \A k \in 1 .. n : chunk'[k] = stream[k]
          /\ Len(stream') = Len(stream) - n
          /\ \A k \in 1 .. Len(stream) - n : stream'[k] = stream[n + k]
      BY <2>1, <3>1, WholeSplits
    <3>3. ASSUME NEW p, Reported(p) PROVE Reported(p)'
      BY <3>1, <3>3 DEF Reported
    <3>4. \A k \in 1 .. Len(chunk') : Reported(chunk'[k])
      BY <2>1, <3>2 DEF BoundsInv
    <3>5. \A k \in 1 .. Len(stream') : Reported(stream'[k])
      BY <2>1, <3>2 DEF BoundsInv
    <3> QED BY <3>1, <3>3, <3>4, <3>5 DEF BoundsInv, Reported
  <2>4. CASE ReadTorn /\ ObserveRead(TRUE)
    <3> PICK n \in 0 .. Len(stream) - 1 : \E cut \in Cuts(stream[n + 1]) :
               /\ chunk' = Append(SubSeq(stream, 1, n), cut.head)
               /\ stream' = <<cut.tail>> \o SubSeq(stream, n + 2, Len(stream))
      BY <2>4 DEF ReadTorn
    <3> PICK cut \in Cuts(stream[n + 1]) :
               /\ chunk' = Append(SubSeq(stream, 1, n), cut.head)
               /\ stream' = <<cut.tail>> \o SubSeq(stream, n + 2, Len(stream))
      OBVIOUS
    <3>1. /\ stream[n + 1] \in StreamPieces /\ Reported(stream[n + 1])
          /\ stream \in Seq(Pieces)
      <4>1. n + 1 \in 1 .. Len(stream)
        BY <2>1
      <4> QED BY <2>1, <4>1, ElementOfSeq, StreamHoldsPieces DEF BoundsInv
    <3>2. cut.head \in Pieces /\ cut.tail \in Pieces /\ Reported(cut.head) /\ Reported(cut.tail)
      BY <2>1, <3>1, CutParts, CutIsReported, StreamHoldsPieces
    <3>3. /\ Len(chunk') = n + 1 /\ chunk'[n + 1] = cut.head
          /\ \A k \in 1 .. n : chunk'[k] = stream[k]
          /\ Len(stream') = Len(stream) - n /\ stream'[1] = cut.tail
          /\ \A k \in 2 .. Len(stream) - n : stream'[k] = stream[n + k]
      <4>1. n \in 0 .. Len(stream) - 1 /\ stream \in Seq(Pieces)
        BY <3>1
      <4> QED BY <3>2, <4>1, TornSplits
    <3>4. UNCHANGED <<hottest, furthest, t_module, t_cycles>>
      BY <2>4 DEF ReadTorn, shownVars, ObserveRead
    <3>5. \A k \in 1 .. Len(chunk') : Reported(chunk'[k])
      BY <2>1, <3>2, <3>3 DEF BoundsInv
    <3>6. \A k \in 1 .. Len(stream') : Reported(stream'[k])
      BY <2>1, <3>2, <3>3 DEF BoundsInv
    <3> QED BY <3>4, <3>5, <3>6 DEF BoundsInv, Reported
  <2>5. CASE ProcessLine /\ ObserveLine
    <3> DEFINE piece == Head(chunk)
    <3>1. /\ chunk # <<>> /\ chunk' = Tail(chunk)
          /\ StoreT1(piece) /\ StoreCycles(piece)
          /\ UNCHANGED <<stream, hottest, furthest>>
      BY <2>5 DEF ProcessLine, ObserveLine
    <3>2. /\ piece \in Pieces /\ Reported(piece)
          /\ Len(chunk') = Len(chunk) - 1
          /\ \A k \in 1 .. Len(chunk') : chunk'[k] = chunk[k + 1]
      <4>1. piece = chunk[1] /\ 1 \in 1 .. Len(chunk)
        BY <2>1, <3>1, LenProperties
      <4> QED BY <2>1, <3>1, <4>1, HeadTailProperties DEF BoundsInv
    <3>3. \A k \in 1 .. Len(chunk') : Reported(chunk'[k])
      BY <2>1, <3>2 DEF BoundsInv
    <3> HIDE DEF piece
    <3>4. Value(piece.num) \in Nat
      BY <3>2, ValueIsNat DEF Pieces
    <3>5. t_module' <= hottest'
      <4>1. CASE piece.kind = "T1" /\ piece.arg = 1
        BY <2>1, <3>1, <3>2, <3>4, <4>1 DEF StoreT1, ParseT1, Reported, BoundsInv
      <4>2. CASE piece.kind = "T1" /\ piece.arg = -1
        BY <2>1, <3>1, <3>4, <4>2 DEF StoreT1, ParseT1, BoundsInv
      <4>3. CASE piece.kind # "T1"
        BY <2>1, <3>1, <4>3 DEF StoreT1, ParseT1, BoundsInv
      <4> QED BY <3>2, <4>1, <4>2, <4>3 DEF Pieces
    <3>6. t_cycles' <= furthest' \/ \E s \in LimitCuts : t_cycles' = Value(s)
      BY <3>1, <3>2 DEF StoreCycles, Reported, BoundsInv
    <3> QED BY <3>1, <3>3, <3>5, <3>6 DEF BoundsInv, Reported
  <2>6. CASE UNCHANGED hvars
    BY <2>6 DEF hvars, vars, shownVars, history, BoundsInv, Reported
  <2> QED BY <2>2, <2>3, <2>4, <2>5, <2>6 DEF HNext
<1> QED BY <1>1, <1>2, FlightIsTyped, PTL DEF HSpec

\* No temperature on the panel is hotter than all the master has reported.
THEOREM TemperatureIsReported == HSpec => []NeverHotter
<1>1. BoundsInv => NeverHotter
  BY DEF BoundsInv, NeverHotter
<1> QED BY <1>1, BoundsHold, PTL

\* No count on the panel is ahead of the master's, but for the limit of a cut
\* mode line and what a second cut leaves of it.
THEOREM CountIsReported == HSpec => []CountNotAhead
<1>1. BoundsInv => CountNotAhead
  <2> SUFFICES ASSUME NEW s \in LimitCuts
               PROVE  \E m \in TestModes : \E k \in 1 .. 3 : s = SubSeq(MaxCycles(m), 1, k)
    BY DEF BoundsInv, CountNotAhead
  <2> QED BY DEF LimitCuts
<1> QED BY <1>1, BoundsHold, PTL

(***************************************************************************)
(* Whole lines repair. The pieces in flight are numbered, those of the     *)
(* chunk first. The last report of a kind is then either whole and the     *)
(* last of its kind in flight, or it, or a later piece, has been cut, or   *)
(* nothing of its kind is in flight and it is shown. A temperature below   *)
(* zero is no report: it may come after the last one and change nothing.   *)
(***************************************************************************)

InFlight == Len(chunk) + Len(stream)

Flight == [n \in 1 .. InFlight |->
             IF n <= Len(chunk) THEN chunk[n] ELSE stream[n - Len(chunk)]]

\* The places of the parts of cut lines.
CutPlaces == {n \in 1 .. InFlight :
                \/ n = 1 /\ tail_first
                \/ n = Len(chunk) /\ head_last
                \/ n = Len(chunk) + 1 /\ tail_next}

\* No whole report of kind k comes after the n-th of the len pieces f, of which
\* those at the places c are cut.
QuietAfter(n, len, f, c, k) == \A m \in n + 1 .. len : m \in c \/ ~Reports(f[m], k)

\* The report is still to come, or a part of a cut line after it.
ToCome(line, len, f, c, k) ==
  \E n \in 1 .. len : /\ n \in c \/ f[n] = line
                      /\ QuietAfter(n, len, f, c, k)

Shown(k) ==
  /\ k = "CYCLES" => t_cycles = Value(sent[k].num)
  /\ k = "T1" => t_module = Degrees(sent[k])

RepairInv ==
  /\ tail_first => chunk # <<>>
  /\ tail_next => stream # <<>>
  /\ \A k \in Kinds : sent[k] # Junk =>
       /\ Reports(sent[k], k)
       /\ \/ ToCome(sent[k], InFlight, Flight, CutPlaces, k)
          \/ QuietAfter(0, InFlight, Flight, CutPlaces, k) /\ (dirty[k] \/ Shown(k))

\* One more line at the end.
LEMMA SentToCome ==
  ASSUME NEW len \in Nat, NEW f, NEW c, NEW g, NEW d, NEW k, NEW line,
         \A n \in 1 .. len : g[n] = f[n] /\ (n \in d <=> n \in c),
         g[len + 1] = line
  PROVE  /\ ToCome(line, len + 1, g, d, k)
         /\ ~Reports(line, k) =>
              /\ \A last : ToCome(last, len, f, c, k) => ToCome(last, len + 1, g, d, k)
              /\ QuietAfter(0, len, f, c, k) => QuietAfter(0, len + 1, g, d, k)
<1>1. ToCome(line, len + 1, g, d, k)
  <2>1. QuietAfter(len + 1, len + 1, g, d, k) /\ len + 1 \in 1 .. len + 1
    BY DEF QuietAfter
  <2> QED BY <2>1 DEF ToCome
<1>2. ASSUME ~Reports(line, k), NEW n \in 0 .. len, QuietAfter(n, len, f, c, k)
      PROVE  QuietAfter(n, len + 1, g, d, k)
  BY <1>2 DEF QuietAfter
<1>3. ASSUME ~Reports(line, k), NEW last, ToCome(last, len, f, c, k) PROVE ToCome(last, len + 1, g, d, k)
  BY <1>2, <1>3 DEF ToCome
<1> QED BY <1>1, <1>2, <1>3

\* The piece at place p cut in two.
LEMMA CutToCome ==
  ASSUME NEW len \in Nat, NEW p \in 1 .. len, NEW f, NEW c, NEW g, NEW d, NEW k, NEW line,
         \A n \in 1 .. p - 1 : g[n] = f[n] /\ (n \in d <=> n \in c),
         p \in d, p + 1 \in d,
         \A n \in p + 1 .. len : g[n + 1] = f[n] /\ (n + 1 \in d <=> n \in c)
  PROVE  /\ ToCome(line, len, f, c, k) => ToCome(line, len + 1, g, d, k)
         /\ QuietAfter(0, len, f, c, k) => QuietAfter(0, len + 1, g, d, k)
<1>1. ASSUME NEW n \in 0 .. p - 1, QuietAfter(n, len, f, c, k)
      PROVE  QuietAfter(n, len + 1, g, d, k)
  <2> SUFFICES ASSUME NEW m \in n + 1 .. len + 1 PROVE m \in d \/ ~Reports(g[m], k)
    BY DEF QuietAfter
  <2>1. CASE m < p
    BY <1>1, <2>1 DEF QuietAfter
  <2>2. CASE m > p + 1
    <3>1. m - 1 \in n + 1 .. len /\ m - 1 \in p + 1 .. len /\ (m - 1) + 1 = m
      BY <2>2
    <3>2. m - 1 \in c \/ ~Reports(f[m - 1], k)
      BY <1>1, <3>1 DEF QuietAfter
    <3> QED BY <3>1, <3>2
  <2> QED BY <2>1, <2>2
<1>2. ASSUME NEW n \in p .. len, QuietAfter(n, len, f, c, k)
      PROVE  QuietAfter(n + 1, len + 1, g, d, k)
  <2> SUFFICES ASSUME NEW m \in n + 2 .. len + 1 PROVE m \in d \/ ~Reports(g[m], k)
    BY DEF QuietAfter
  <2>1. m - 1 \in n + 1 .. len /\ m - 1 \in p + 1 .. len /\ (m - 1) + 1 = m
    OBVIOUS
  <2>2. m - 1 \in c \/ ~Reports(f[m - 1], k)
    BY <1>2, <2>1 DEF QuietAfter
  <2> QED BY <2>1, <2>2
<1>3. ASSUME ToCome(line, len, f, c, k) PROVE ToCome(line, len + 1, g, d, k)
  <2> PICK n \in 1 .. len : (n \in c \/ f[n] = line) /\ QuietAfter(n, len, f, c, k)
    BY <1>3 DEF ToCome
  <2>1. CASE n < p
    BY <1>1, <2>1 DEF ToCome
  <2>2. CASE n = p
    BY <1>2, <2>2 DEF ToCome
  <2>3. CASE n > p
    BY <1>2, <2>3 DEF ToCome
  <2> QED BY <2>1, <2>2, <2>3
<1> QED BY <1>1, <1>3

\* The first piece taken.
LEMMA TakenToCome ==
  ASSUME NEW len \in Nat \ {0}, NEW f, NEW c, NEW g, NEW d, NEW k, NEW line,
         \A n \in 1 .. len - 1 : g[n] = f[n + 1] /\ (n \in d <=> n + 1 \in c)
  PROVE  /\ ToCome(line, len, f, c, k) =>
              \/ ToCome(line, len - 1, g, d, k)
              \/ QuietAfter(0, len - 1, g, d, k) /\ (1 \in c \/ f[1] = line)
         /\ QuietAfter(0, len, f, c, k) =>
              QuietAfter(0, len - 1, g, d, k) /\ (1 \in c \/ ~Reports(f[1], k))
<1>1. ASSUME NEW n \in 1 .. len, QuietAfter(n, len, f, c, k)
      PROVE  QuietAfter(n - 1, len - 1, g, d, k)
  BY <1>1 DEF QuietAfter
<1>2. ASSUME ToCome(line, len, f, c, k)
      PROVE  \/ ToCome(line, len - 1, g, d, k)
             \/ QuietAfter(0, len - 1, g, d, k) /\ (1 \in c \/ f[1] = line)
  <2> PICK n \in 1 .. len : (n \in c \/ f[n] = line) /\ QuietAfter(n, len, f, c, k)
    BY <1>2 DEF ToCome
  <2>1. CASE n = 1
    BY <1>1, <2>1
  <2>2. CASE n > 1
    <3>1. n - 1 \in 1 .. len - 1 /\ (n - 1) + 1 = n
      BY <2>2
    <3>2. n - 1 \in d \/ g[n - 1] = line
      BY <3>1
    <3>3. QuietAfter(n - 1, len - 1, g, d, k)
      BY <1>1
    <3> QED BY <3>1, <3>2, <3>3 DEF ToCome
  <2> QED BY <2>1, <2>2
<1>3. ASSUME QuietAfter(0, len, f, c, k)
      PROVE  QuietAfter(0, len - 1, g, d, k) /\ (1 \in c \/ ~Reports(f[1], k))
  BY <1>3 DEF QuietAfter
<1> QED BY <1>2, <1>3

LEMMA FlightLens ==
  ASSUME FlightInv
  PROVE  /\ stream \in Seq(StreamPieces) /\ stream \in Seq(Pieces) /\ chunk \in Seq(Pieces)
         /\ Len(stream) \in Nat /\ Len(chunk) \in Nat /\ InFlight \in Nat
         /\ chunk = <<>> <=> Len(chunk) = 0
         /\ stream = <<>> <=> Len(stream) = 0
<1>1. stream \in Seq(StreamPieces) /\ chunk \in Seq(Pieces)
  BY DEF FlightInv, HistoryTypeOK, TypeOK, StreamPieces, Digits
<1>2. stream \in Seq(Pieces)
  BY <1>1, StreamHoldsPieces
<1>3. /\ Len(stream) \in Nat /\ Len(chunk) \in Nat
      /\ chunk = <<>> <=> Len(chunk) = 0
      /\ stream = <<>> <=> Len(stream) = 0
  BY <1>1, LenProperties, EmptySeq
<1> QED BY <1>1, <1>2, <1>3 DEF InFlight

\* Each step moves the pieces in flight in one of the three ways.
LEMMA SendFlight ==
  ASSUME FlightInv, RepairInv, NEW line \in Lines, MasterSends(line), ObserveSent(line)
  PROVE  /\ InFlight' = InFlight + 1 /\ stream' # <<>>
         /\ \A n \in 1 .. InFlight : Flight'[n] = Flight[n] /\ (n \in CutPlaces' <=> n \in CutPlaces)
         /\ Flight'[InFlight + 1] = line
<1>1. /\ line \in StreamPieces
      /\ stream' = Append(stream, line) /\ chunk' = chunk
      /\ UNCHANGED <<tail_first, tail_next, head_last>>
  BY DEF MasterSends, ObserveSent, StreamPieces
<1>2. /\ Len(stream') = Len(stream) + 1 /\ stream' # <<>>
      /\ \A n \in 1 .. Len(stream) : stream'[n] = stream[n]
      /\ stream'[Len(stream) + 1] = line
  BY <1>1, FlightLens, AppendProperties
<1>3. InFlight' = InFlight + 1
  BY <1>1, <1>2, FlightLens DEF InFlight
<1>4. /\ Flight' = [n \in 1 .. InFlight + 1 |->
                      IF n <= Len(chunk) THEN chunk[n] ELSE stream'[n - Len(chunk)]]
      /\ CutPlaces' = {n \in 1 .. InFlight + 1 :
                         \/ n = 1 /\ tail_first
                         \/ n = Len(chunk) /\ head_last
                         \/ n = Len(chunk) + 1 /\ tail_next}
  BY <1>1, <1>3 DEF Flight, CutPlaces
<1>5. ASSUME NEW n \in 1 .. InFlight
      PROVE  Flight'[n] = Flight[n] /\ (n \in CutPlaces' <=> n \in CutPlaces)
  <2>1. n > Len(chunk) => n - Len(chunk) \in 1 .. Len(stream)
    BY FlightLens DEF InFlight
  <2>2. /\ Flight'[n] = IF n <= Len(chunk) THEN chunk[n] ELSE stream'[n - Len(chunk)]
        /\ Flight[n] = IF n <= Len(chunk) THEN chunk[n] ELSE stream[n - Len(chunk)]
    <3>1. n \in 1 .. InFlight + 1
      BY FlightLens
    <3> QED BY <1>4, <3>1 DEF Flight
  <2>3. n \in CutPlaces' <=> n \in CutPlaces
    BY <1>4, FlightLens DEF CutPlaces
  <2>4. n > Len(chunk) => stream'[n - Len(chunk)] = stream[n - Len(chunk)]
    BY <1>2, <2>1
  <2>5. n <= Len(chunk) \/ n > Len(chunk)
    BY FlightLens
  <2> QED BY <2>2, <2>3, <2>4, <2>5
<1>6. Flight'[InFlight + 1] = line
  BY <1>2, <1>4, FlightLens DEF InFlight
<1> QED BY <1>2, <1>3, <1>5, <1>6

\* While the task reads, the chunk is empty: the stream is all that is in flight.
LEMMA BeforeRead ==
  ASSUME FlightInv, RepairInv, chunk = <<>>
  PROVE  /\ InFlight = Len(stream)
         /\ \A n \in 1 .. InFlight : Flight[n] = stream[n]
         /\ \A n \in 1 .. InFlight : n \in CutPlaces <=> n = 1 /\ tail_next
<1>1. Len(chunk) = 0 /\ ~tail_first /\ InFlight = Len(stream)
  BY FlightLens DEF RepairInv, InFlight
<1>2. \A n \in 1 .. InFlight : Flight[n] = stream[n]
  BY <1>1, FlightLens DEF Flight
<1>3. \A n \in 1 .. InFlight : n \in CutPlaces <=> n = 1 /\ tail_next
  BY <1>1, FlightLens DEF CutPlaces
<1> QED BY <1>1, <1>2, <1>3

LEMMA ReadWholeFlight ==
  ASSUME FlightInv, RepairInv, ReadWhole, ObserveRead(FALSE)
  PROVE  /\ InFlight' = InFlight /\ Flight' = Flight /\ CutPlaces' = CutPlaces /\ chunk' # <<>>
         /\ ~tail_next'
<1> PICK n \in 1 .. Len(stream) : /\ chunk' = SubSeq(stream, 1, n)
                                  /\ stream' = SubSeq(stream, n + 1, Len(stream))
  BY DEF ReadWhole
<1>1. /\ chunk = <<>> /\ tail_first' = tail_next /\ ~head_last' /\ ~tail_next'
      /\ n \in 0 .. Len(stream) /\ n > 0
  BY FlightLens DEF ReadWhole, ObserveRead
<1>2. /\ Len(chunk') = n /\ \A k \in 1 .. n : chunk'[k] = stream[k]
      /\ Len(stream') = Len(stream) - n
      /\ \A k \in 1 .. Len(stream) - n : stream'[k] = stream[n + k]
  BY <1>1, FlightLens, WholeSplits
<1>3. InFlight' = InFlight
  <2>1. n + (Len(stream) - n) = Len(stream)
    BY <1>1, FlightLens
  <2> QED BY <1>1, <1>2, <2>1, BeforeRead DEF InFlight
<1>4. ASSUME NEW k \in 1 .. InFlight
      PROVE  (IF k <= n THEN chunk'[k] ELSE stream'[k - n]) = Flight[k]
  <2>1. k > n => k - n \in 1 .. Len(stream) - n /\ n + (k - n) = k
    BY <1>1, BeforeRead, FlightLens
  <2> QED BY <1>1, <1>2, <2>1, BeforeRead, FlightLens
<1>5. Flight' = Flight
  <2>1. Flight' = [k \in 1 .. InFlight |-> IF k <= n THEN chunk'[k] ELSE stream'[k - n]]
    BY <1>2, <1>3 DEF Flight
  <2> QED BY <1>4, <2>1 DEF Flight
<1>6. CutPlaces' = CutPlaces
  <2>1. CutPlaces' = {k \in 1 .. InFlight : k = 1 /\ tail_next}
    BY <1>1, <1>3 DEF CutPlaces
  <2>2. CutPlaces \subseteq 1 .. InFlight
    BY DEF CutPlaces
  <2> QED BY <1>1, <2>1, <2>2, BeforeRead
<1>7. chunk' # <<>>
  BY <1>1, <1>2
<1> QED BY <1>1, <1>3, <1>5, <1>6, <1>7

LEMMA ReadTornFlight ==
  ASSUME FlightInv, RepairInv, ReadTorn, ObserveRead(TRUE)
  PROVE  /\ InFlight' = InFlight + 1 /\ chunk' # <<>> /\ stream' # <<>>
         /\ \E p \in 1 .. InFlight :
              /\ \A n \in 1 .. p - 1 : /\ Flight'[n] = Flight[n]
                                       /\ n \in CutPlaces' <=> n \in CutPlaces
              /\ p \in CutPlaces' /\ p + 1 \in CutPlaces'
              /\ \A n \in p + 1 .. InFlight : /\ Flight'[n + 1] = Flight[n]
                                              /\ n + 1 \in CutPlaces' <=> n \in CutPlaces
<1> PICK k \in 0 .. Len(stream) - 1 : \E cut \in Cuts(stream[k + 1]) :
           /\ chunk' = Append(SubSeq(stream, 1, k), cut.head)
           /\ stream' = <<cut.tail>> \o SubSeq(stream, k + 2, Len(stream))
  BY DEF ReadTorn
<1> PICK cut \in Cuts(stream[k + 1]) :
           /\ chunk' = Append(SubSeq(stream, 1, k), cut.head)
           /\ stream' = <<cut.tail>> \o SubSeq(stream, k + 2, Len(stream))
  OBVIOUS
<1> DEFINE p == k + 1
<1>1. /\ chunk = <<>> /\ tail_first' = tail_next /\ head_last' /\ tail_next'
      /\ p \in 1 .. Len(stream) /\ p \in 1 .. InFlight
  BY FlightLens, BeforeRead DEF ReadTorn, ObserveRead
<1>2. cut.head \in Pieces /\ cut.tail \in Pieces
  <2>1. stream[p] \in StreamPieces
    BY <1>1, FlightLens, ElementOfSeq
  <2> QED BY <2>1, CutParts, StreamHoldsPieces
<1>3. /\ Len(chunk') = p /\ \A n \in 1 .. p - 1 : chunk'[n] = stream[n]
      /\ Len(stream') = Len(stream) - p + 1
      /\ \A n \in 2 .. Len(stream) - p + 1 : stream'[n] = stream[p + n - 1]
  <2>1. /\ Len(chunk') = k + 1 /\ \A n \in 1 .. k : chunk'[n] = stream[n]
        /\ Len(stream') = Len(stream) - k
        /\ \A n \in 2 .. Len(stream) - k : stream'[n] = stream[k + n]
    <3> DEFINE c == Append(SubSeq(stream, 1, k), cut.head)
               r == <<cut.tail>> \o SubSeq(stream, k + 2, Len(stream))
    <3>1. stream \in Seq(Pieces) /\ k \in 0 .. Len(stream) - 1
      BY FlightLens
    <3>2. /\ Len(c) = k + 1 /\ \A n \in 1 .. k : c[n] = stream[n]
          /\ Len(r) = Len(stream) - k
          /\ \A n \in 2 .. Len(stream) - k : r[n] = stream[k + n]
      BY <1>2, <3>1, TornSplits
    <3>3. chunk' = c /\ stream' = r
      OBVIOUS
    <3> HIDE DEF c, r
    <3> QED BY <3>2, <3>3
  <2>2. p - 1 = k /\ Len(stream) - p + 1 = Len(stream) - k
    BY FlightLens
  <2>3. ASSUME NEW n \in 2 .. Len(stream) - k PROVE stream'[n] = stream[p + n - 1]
    <3>1. p + n - 1 = k + n
      BY FlightLens
    <3> QED BY <2>1, <3>1
  <2> QED BY <2>1, <2>2, <2>3
<1> HIDE DEF p
<1>4. InFlight' = InFlight + 1
  <2>1. p + (Len(stream) - p + 1) = Len(stream) + 1
    BY <1>1, FlightLens
  <2> QED BY <1>1, <1>3, <2>1, BeforeRead DEF InFlight
<1>5. /\ Flight' = [n \in 1 .. InFlight + 1 |-> IF n <= p THEN chunk'[n] ELSE stream'[n - p]]
      /\ \A n \in 1 .. InFlight + 1 :
           n \in CutPlaces' <=> (n = 1 /\ tail_next) \/ n = p \/ n = p + 1
  BY <1>1, <1>3, <1>4 DEF Flight, CutPlaces
<1>6. ASSUME NEW n \in 1 .. p - 1
      PROVE  Flight'[n] = Flight[n] /\ (n \in CutPlaces' <=> n \in CutPlaces)
  <2>1. n \in 1 .. InFlight + 1 /\ n \in 1 .. InFlight /\ n <= p /\ n # p /\ n # p + 1
    BY <1>1, FlightLens
  <2> QED BY <1>1, <1>3, <1>5, <2>1, BeforeRead
<1>7. ASSUME NEW n \in p + 1 .. InFlight
      PROVE  Flight'[n + 1] = Flight[n] /\ (n + 1 \in CutPlaces' <=> n \in CutPlaces)
  <2>1. /\ n + 1 \in 1 .. InFlight + 1 /\ n \in 1 .. InFlight /\ ~(n + 1 <= p)
        /\ n + 1 # p /\ n + 1 # p + 1 /\ n + 1 # 1 /\ n # 1
    BY <1>1, FlightLens
  <2>2. (n + 1) - p \in 2 .. Len(stream) - p + 1 /\ p + ((n + 1) - p) - 1 = n
    BY <1>1, FlightLens, BeforeRead
  <2>3. Flight'[n + 1] = stream'[(n + 1) - p]
    BY <1>5, <2>1
  <2>4. stream'[(n + 1) - p] = stream[n]
    BY <1>3, <2>2
  <2>5. Flight[n] = stream[n] /\ ~(n \in CutPlaces)
    BY <1>1, <2>1, BeforeRead
  <2>6. ~(n + 1 \in CutPlaces')
    BY <1>5, <2>1
  <2> QED BY <2>3, <2>4, <2>5, <2>6
<1>8. p \in CutPlaces' /\ p + 1 \in CutPlaces'
  BY <1>1, <1>5, FlightLens
<1>9. chunk' # <<>> /\ stream' # <<>>
  <2>1. Len(chunk') # 0 /\ Len(stream') # 0 /\ Len(<<>>) = 0
    BY <1>1, <1>3, FlightLens
  <2> QED BY <2>1
<1> QED BY <1>1, <1>4, <1>6, <1>7, <1>8, <1>9

LEMMA ProcessFlight ==
  ASSUME FlightInv, RepairInv, ProcessLine, ObserveLine
  PROVE  /\ InFlight \in Nat \ {0} /\ InFlight' = InFlight - 1
         /\ \A n \in 1 .. InFlight - 1 : /\ Flight'[n] = Flight[n + 1]
                                         /\ n \in CutPlaces' <=> n + 1 \in CutPlaces
         /\ Head(chunk) = Flight[1]
         /\ Torn <=> 1 \in CutPlaces
<1>1. /\ chunk # <<>> /\ chunk' = Tail(chunk) /\ stream' = stream
      /\ ~tail_first' /\ head_last' = head_last /\ tail_next' = tail_next
  BY DEF ProcessLine, ObserveLine
<1>2. /\ Len(chunk) \in Nat \ {0} /\ Len(chunk') = Len(chunk) - 1
      /\ \A n \in 1 .. Len(chunk) - 1 : chunk'[n] = chunk[n + 1]
      /\ Head(chunk) = chunk[1]
  BY <1>1, FlightLens, HeadTailProperties
<1>3. InFlight \in Nat \ {0} /\ InFlight' = InFlight - 1
  <2>1. Len(chunk) - 1 + Len(stream) = (Len(chunk) + Len(stream)) - 1
    BY <1>2, FlightLens
  <2> QED BY <1>1, <1>2, <2>1, FlightLens DEF InFlight
<1>4. Head(chunk) = Flight[1]
  BY <1>2, <1>3 DEF Flight
<1>5. Torn <=> 1 \in CutPlaces
  BY <1>2, <1>3 DEF Torn, CutPlaces
<1>6. /\ Flight' = [n \in 1 .. InFlight - 1 |->
                      IF n <= Len(chunk) - 1 THEN chunk'[n] ELSE stream[n - (Len(chunk) - 1)]]
      /\ \A n \in 1 .. InFlight - 1 : n \in CutPlaces' <=>
           (n = Len(chunk) - 1 /\ head_last) \/ (n = Len(chunk) - 1 + 1 /\ tail_next)
  BY <1>1, <1>2, <1>3 DEF Flight, CutPlaces
<1>7. ASSUME NEW n \in 1 .. InFlight - 1
      PROVE  Flight'[n] = Flight[n + 1] /\ (n \in CutPlaces' <=> n + 1 \in CutPlaces)
  <2>1. /\ n + 1 \in 1 .. InFlight /\ n + 1 # 1
        /\ n <= Len(chunk) - 1 <=> n + 1 <= Len(chunk)
        /\ n - (Len(chunk) - 1) = n + 1 - Len(chunk)
        /\ n = Len(chunk) - 1 <=> n + 1 = Len(chunk)
        /\ n = Len(chunk) - 1 + 1 <=> n + 1 = Len(chunk) + 1
    BY <1>2, <1>3
  <2>2. Flight[n + 1] = IF n + 1 <= Len(chunk) THEN chunk[n + 1] ELSE stream[n + 1 - Len(chunk)]
    BY <2>1 DEF Flight
  <2>3. n + 1 <= Len(chunk) => chunk'[n] = chunk[n + 1]
    BY <1>2, <2>1
  <2>4. Flight'[n] = Flight[n + 1]
    BY <1>6, <2>1, <2>2, <2>3
  <2>5. n \in CutPlaces' <=> n + 1 \in CutPlaces
    BY <1>6, <2>1 DEF CutPlaces
  <2> QED BY <2>4, <2>5
<1> QED BY <1>3, <1>4, <1>5, <1>7

\* When everything sent has been processed, what is shown is what was reported
\* last, unless a part of a cut line has come in since.
THEOREM RepairedByWholeLine == HSpec => []WholeLineRepairs
<1>1. HInit => RepairInv
  BY DEF HInit, Init, RepairInv
<1>2. FlightInv /\ RepairInv /\ [HNext]_hvars => RepairInv'
  <2> SUFFICES ASSUME FlightInv, RepairInv, [HNext]_hvars PROVE RepairInv'
    OBVIOUS
  <2>1. ASSUME NEW line \in Lines, MasterSends(line), ObserveSent(line) PROVE RepairInv'
    <3>1. /\ InFlight \in Nat /\ InFlight' = InFlight + 1 /\ stream' # <<>>
          /\ \A n \in 1 .. InFlight : Flight'[n] = Flight[n] /\ (n \in CutPlaces' <=> n \in CutPlaces)
          /\ Flight'[InFlight + 1] = line
      BY <2>1, SendFlight, FlightLens
    <3>2. /\ chunk' = chunk /\ UNCHANGED <<t_module, t_cycles, tail_first, tail_next, dirty>>
          /\ \A k \in Kinds : sent'[k] = IF Reports(line, k) THEN line ELSE sent[k]
      BY <2>1 DEF MasterSends, ObserveSent, shownVars
    <3>3. ASSUME NEW k \in Kinds, sent'[k] # Junk
          PROVE  /\ Reports(sent'[k], k)
                 /\ \/ ToCome(sent'[k], InFlight', Flight', CutPlaces', k)
                    \/ QuietAfter(0, InFlight', Flight', CutPlaces', k) /\ (dirty'[k] \/ Shown(k)')
      <4>1. CASE Reports(line, k)
        <5>1. sent'[k] = line
          BY <3>2, <4>1
        <5>2. ToCome(line, InFlight + 1, Flight', CutPlaces', k)
          BY <3>1, SentToCome
        <5> QED BY <3>1, <4>1, <5>1, <5>2
      <4>2. CASE ~Reports(line, k)
        <5>1. sent'[k] = sent[k] /\ Shown(k)' = Shown(k)
          BY <3>2, <4>2 DEF Shown
        <5>2. /\ ToCome(sent[k], InFlight, Flight, CutPlaces, k)
                   => ToCome(sent[k], InFlight + 1, Flight', CutPlaces', k)
              /\ QuietAfter(0, InFlight, Flight, CutPlaces, k)
                   => QuietAfter(0, InFlight + 1, Flight', CutPlaces', k)
          BY <3>1, <4>2, SentToCome
        <5> QED BY <3>1, <3>2, <3>3, <5>1, <5>2 DEF RepairInv
      <4> QED BY <4>1, <4>2
    <3> QED BY <3>1, <3>2, <3>3 DEF RepairInv
  <2>2. CASE ReadWhole /\ ObserveRead(FALSE)
    <3>1. /\ InFlight' = InFlight /\ Flight' = Flight /\ CutPlaces' = CutPlaces
          /\ chunk' # <<>> /\ ~tail_next'
      BY <2>2, ReadWholeFlight
    <3>2. UNCHANGED <<t_module, t_cycles, sent, dirty>>
      BY <2>2 DEF ReadWhole, ObserveRead, shownVars
    <3> QED BY <3>1, <3>2 DEF RepairInv, Shown
  <2>3. CASE ReadTorn /\ ObserveRead(TRUE)
    <3>1. InFlight \in Nat /\ InFlight' = InFlight + 1 /\ chunk' # <<>> /\ stream' # <<>>
      BY <2>3, ReadTornFlight, FlightLens
    <3>2. UNCHANGED <<t_module, t_cycles, sent, dirty>>
      BY <2>3 DEF ReadTorn, ObserveRead, shownVars
    <3> PICK p \in 1 .. InFlight :
          /\ \A n \in 1 .. p - 1 : Flight'[n] = Flight[n] /\ (n \in CutPlaces' <=> n \in CutPlaces)
          /\ p \in CutPlaces' /\ p + 1 \in CutPlaces'
          /\ \A n \in p + 1 .. InFlight : /\ Flight'[n + 1] = Flight[n]
                                          /\ n + 1 \in CutPlaces' <=> n \in CutPlaces
      BY <2>3, ReadTornFlight
    <3>3. ASSUME NEW k \in Kinds
          PROVE  /\ ToCome(sent[k], InFlight, Flight, CutPlaces, k)
                      => ToCome(sent[k], InFlight + 1, Flight', CutPlaces', k)
                 /\ QuietAfter(0, InFlight, Flight, CutPlaces, k)
                      => QuietAfter(0, InFlight + 1, Flight', CutPlaces', k)
      BY <3>1, CutToCome
    <3> QED BY <3>1, <3>2, <3>3 DEF RepairInv, Shown
  <2>4. CASE ProcessLine /\ ObserveLine
    <3>1. /\ InFlight \in Nat \ {0} /\ InFlight' = InFlight - 1
          /\ \A n \in 1 .. InFlight - 1 : /\ Flight'[n] = Flight[n + 1]
                                          /\ n \in CutPlaces' <=> n + 1 \in CutPlaces
          /\ Head(chunk) = Flight[1]
          /\ Torn <=> 1 \in CutPlaces
      BY <2>4, ProcessFlight
    <3> DEFINE piece == Head(chunk)
    <3>2. /\ StoreT1(piece) /\ StoreCycles(piece)
          /\ UNCHANGED <<sent, tail_next, stream>> /\ ~tail_first'
          /\ \A k \in Kinds : dirty'[k] = (Torn \/ (dirty[k] /\ ~Reports(piece, k)))
      BY <2>4 DEF ProcessLine, ObserveLine
    <3>3. piece \in Pieces
      BY <2>4, FlightLens, HeadTailProperties DEF ProcessLine
    <3> HIDE DEF piece
    <3>4. ASSUME NEW k \in Kinds, sent[k] # Junk, QuietAfter(0, InFlight - 1, Flight', CutPlaces', k),
                 1 \in CutPlaces \/ piece = sent[k] \/ (~Reports(piece, k) /\ (dirty[k] \/ Shown(k)))
          PROVE  dirty'[k] \/ Shown(k)'
      <4>1. CASE 1 \in CutPlaces
        BY <3>1, <3>2, <4>1
      <4>2. CASE piece = sent[k]
        <5>1. Reports(piece, k)
          BY <3>4, <4>2 DEF RepairInv
        <5>2. k = "CYCLES" => t_cycles' = Value(sent'[k].num)
          BY <3>2, <4>2, <5>1 DEF StoreCycles, Reports
        <5>3. k = "T1" => t_module' = Degrees(sent'[k])
          BY <3>2, <4>2, <5>1 DEF StoreT1, ParseT1, Degrees, Reports
        <5> QED BY <3>2, <5>2, <5>3 DEF Shown, Degrees
      <4>3. CASE ~Reports(piece, k) /\ dirty[k]
        BY <3>2, <4>3
      <4>4. CASE ~Reports(piece, k) /\ Shown(k)
        <5>1. k = "CYCLES" => t_cycles' = t_cycles
          BY <3>2, <4>4 DEF StoreCycles, Reports
        <5>2. k = "T1" => t_module' = t_module
          BY <3>2, <4>4 DEF StoreT1, ParseT1, Degrees, Reports
        <5> QED BY <3>2, <4>4, <5>1, <5>2 DEF Shown, Degrees
      <4> QED BY <3>4, <4>1, <4>2, <4>3, <4>4
    <3>5. ASSUME NEW k \in Kinds, sent[k] # Junk
          PROVE  \/ ToCome(sent[k], InFlight - 1, Flight', CutPlaces', k)
                 \/ QuietAfter(0, InFlight - 1, Flight', CutPlaces', k) /\ (dirty'[k] \/ Shown(k)')
      <4>1. /\ ToCome(sent[k], InFlight, Flight, CutPlaces, k) =>
                 \/ ToCome(sent[k], InFlight - 1, Flight', CutPlaces', k)
                 \/ /\ QuietAfter(0, InFlight - 1, Flight', CutPlaces', k)
                    /\ 1 \in CutPlaces \/ Flight[1] = sent[k]
            /\ QuietAfter(0, InFlight, Flight, CutPlaces, k) =>
                 /\ QuietAfter(0, InFlight - 1, Flight', CutPlaces', k)
                 /\ 1 \in CutPlaces \/ ~Reports(Flight[1], k)
        BY <3>1, TakenToCome
      <4>2. Flight[1] = piece
        BY <3>1 DEF piece
      <4> QED BY <3>4, <3>5, <4>1, <4>2 DEF RepairInv
    <3> QED BY <3>1, <3>2, <3>5 DEF RepairInv
  <2>5. CASE UNCHANGED hvars
    BY <2>5 DEF hvars, vars, shownVars, history, RepairInv, Shown, InFlight, Flight, CutPlaces
  <2> QED BY <2>1, <2>2, <2>3, <2>4, <2>5 DEF HNext
<1>3. FlightInv /\ RepairInv => WholeLineRepairs
  <2> SUFFICES ASSUME FlightInv, RepairInv, stream = <<>>, chunk = <<>>,
                      NEW k \in Kinds, sent[k] # Junk, ~dirty[k]
               PROVE  Shown(k)
    BY DEF WholeLineRepairs, Shown, Kinds
  <2>1. InFlight = 0
    BY FlightLens DEF InFlight
  <2> QED BY <2>1 DEF RepairInv, ToCome
<1> QED BY <1>1, <1>2, <1>3, FlightIsTyped, PTL DEF HSpec
=============================================================================
