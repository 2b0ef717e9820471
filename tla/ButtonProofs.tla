---------------------------- MODULE ButtonProofs ----------------------------
(***************************************************************************)
(* Theorems about ButtonTask, for every number of buttons, every queue     *)
(* length and every timing of the user and the scheduler.                  *)
(***************************************************************************)
EXTENDS ButtonHistory, SequenceTheorems, TLAPS

(***************************************************************************)
(* Type correctness.                                                       *)
(***************************************************************************)

\* button_isr keeps button_queue a queue of buttons and within its slots.
LEMMA PostEdgeTypes ==
  ASSUME TypeOK, NEW b \in Buttons, PostEdge(b)
  PROVE  button_queue' \in Seq(Buttons) /\ Len(button_queue') <= QueueLen
<1>1. CASE Len(button_queue) < QueueLen
  BY <1>1, ButtonAssumption, AppendProperties DEF PostEdge, TypeOK
<1>2. CASE ~(Len(button_queue) < QueueLen)
  BY <1>2 DEF PostEdge, TypeOK
<1> QED BY <1>1, <1>2

\* The end of one pass of the for loop leaves a valid place and index.
LEMMA AdvanceTypes ==
  ASSUME TypeOK, Advance
  PROVE  i' \in Buttons /\ pc' \in Places /\ timer' \in 0 .. PollTicks /\ lag' \in 0 .. MaxLag
<1> USE ButtonAssumption DEF Advance, TypeOK, Buttons, Places
<1>1. CASE i + 1 < BtnCount
  BY <1>1
<1>2. CASE ~(i + 1 < BtnCount)
  BY <1>2
<1> QED BY <1>1, <1>2

\* Every step of the contacts, the clock and button_task keeps every type.
LEMMA StepKeepsTypes == ASSUME TypeOK, [Next]_vars PROVE TypeOK'
<1>1. CASE ContactStep
  <2> PICK b \in Buttons : Press(b) \/ LetGo(b) \/ Bounce(b)
    BY <1>1 DEF ContactStep
  <2>1. CASE Press(b)
    <3>1. button_queue' \in Seq(Buttons) /\ Len(button_queue') <= QueueLen
      BY <2>1, PostEdgeTypes DEF Press
    <3> QED BY <2>1, <3>1, ButtonAssumption DEF Press, MoveContact, TypeOK, btn_state
  <2>2. CASE LetGo(b)
    BY <2>2, ButtonAssumption DEF LetGo, MoveContact, TypeOK, btn_state
  <2>3. CASE Bounce(b)
    <3>1. button_queue' \in Seq(Buttons) /\ Len(button_queue') <= QueueLen
      BY <2>3, PostEdgeTypes DEF Bounce
    <3> QED BY <2>3, <3>1, ButtonAssumption DEF Bounce, TypeOK, btn_state
  <2> QED BY <2>1, <2>2, <2>3
<1>2. CASE Tick
  <2>1. tick' \in Ticks
    BY <1>2, ButtonAssumption DEF Tick, TypeOK, Ticks
  <2>2. since' \in [Buttons -> 0 .. MaxHold]
    BY <1>2, ButtonAssumption DEF Tick, TypeOK
  <2>3. timer' \in 0 .. PollTicks /\ lag' \in 0 .. MaxLag
    BY <1>2, ButtonAssumption DEF Tick, TypeOK, Blocked
  <2> QED BY <1>2, <2>1, <2>2, <2>3 DEF Tick, TypeOK, btn_state
<1>3. CASE ReceiveEdge
  <2>1. Head(button_queue) \in Buttons /\ Tail(button_queue) \in Seq(Buttons)
        /\ Len(Tail(button_queue)) <= QueueLen
    BY <1>3, HeadTailProperties, ButtonAssumption DEF ReceiveEdge, TypeOK
  <2> QED BY <1>3, <2>1, ButtonAssumption DEF ReceiveEdge, TypeOK, contacts, Places
<1>4. CASE ReceiveTimeout
  BY <1>4 DEF ReceiveTimeout, TypeOK, contacts, btn_state, Places
<1>5. CASE ReadNow
  BY <1>5, ButtonAssumption DEF ReadNow, TypeOK, contacts, btn_state, Places, Buttons
<1>6. CASE ScanIdle \/ ScanTooSoon \/ Released
  BY <1>6, AdvanceTypes DEF ScanIdle, ScanTooSoon, Released, TypeOK, contacts, btn_state
<1>7. CASE ScanReleased
  BY <1>7, AdvanceTypes DEF ScanReleased, TypeOK, contacts
<1>8. CASE Confirm
  BY <1>8 DEF Confirm, TypeOK, contacts, btn_state, Places
<1>9. CASE SendReturns
  BY <1>9, ButtonAssumption DEF SendReturns, TypeOK, contacts, Places
<1>10. CASE StillHeld
  BY <1>10, ButtonAssumption DEF StillHeld, TypeOK, contacts, btn_state
<1>11. CASE UNCHANGED vars
  BY <1>11 DEF vars, TypeOK
<1> QED
  BY <1>1, <1>2, <1>3, <1>4, <1>5, <1>6, <1>7, <1>8, <1>9, <1>10, <1>11 DEF Next, TaskStep

\* Every variable keeps its type; the queue never holds more than its slots.
THEOREM TypeCorrect == Spec => []TypeOK
<1>1. Init => TypeOK
  BY ButtonAssumption DEF Init, TypeOK, Buttons, Ticks, Places
<1>2. TypeOK /\ [Next]_vars => TypeOK'
  BY StepKeepsTypes
<1> QED BY <1>1, <1>2, PTL DEF Spec

(***************************************************************************)
(* One command per hold. A button that has had its command during the      *)
(* present hold is the one whose release the task waits for, so the scan   *)
(* does not come by it again before it is let go.                          *)
(***************************************************************************)

HoldInv ==
  \A b \in Buttons :
    /\ issued[b] \in 0 .. 1
    /\ issued[b] = 1 => level[b] = 0 /\ pc \in {"send", "release"} /\ i = b

\* The history restricts nothing: every behaviour with it is one of ButtonTask.
LEMMA HistoryRefines == HSpec => Spec
<1>1. HInit => Init
  BY DEF HInit
<1>2. [HNext]_hvars => [Next]_vars
  BY DEF HNext, hvars
<1> QED BY <1>1, <1>2, PTL DEF HSpec, Spec

\* A hold of a button sends at most one command.
THEOREM HoldSendsOnce == HSpec => []OneCommandPerHold
<1>1. HInit => HoldInv
  BY DEF HInit, HoldInv
<1>2. TypeOK /\ HoldInv /\ [HNext]_hvars => HoldInv'
  <2> SUFFICES ASSUME TypeOK, HoldInv, [HNext]_hvars, NEW b \in Buttons
               PROVE  /\ issued'[b] \in 0 .. 1
                      /\ issued'[b] = 1 => level'[b] = 0 /\ pc' \in {"send", "release"} /\ i' = b
    BY DEF HoldInv
  <2>1. CASE UNCHANGED hvars
    BY <2>1 DEF hvars, vars, history, HoldInv
  <2>2. CASE HNext
    <3>1. issued'[b] = IF level'[b] = 1 THEN 0
                       ELSE IF Confirming(b) THEN AtMost(issued[b] + 1, 2) ELSE issued[b]
      BY <2>2 DEF HNext, Observe
    <3>2. level'[b] \in {0, 1}
      <4>1. TypeOK'
        BY <2>2, StepKeepsTypes DEF HNext
      <4> QED BY <4>1 DEF TypeOK
    <3>3. CASE Confirming(b)
      <4>1. issued[b] = 0 /\ pc' = "send" /\ i = b
        BY <3>3 DEF Confirming, HoldInv
      <4>2. Confirm
        BY <2>2, <3>3 DEF HNext, Next, ContactStep, Press, LetGo, Bounce, Tick, TaskStep,
             ReceiveEdge, ReceiveTimeout, ReadNow, ScanIdle, ScanReleased, ScanTooSoon, SendReturns,
             StillHeld, Released, Advance, Confirming
      <4>3. i' = i
        BY <4>2 DEF Confirm
      <4> QED BY <3>1, <3>2, <4>1, <4>3 DEF AtMost
    <3>4. CASE ~Confirming(b) /\ issued[b] = 0
      BY <3>1, <3>4
    <3>5. CASE ~Confirming(b) /\ issued[b] = 1
      <4>1. level[b] = 0 /\ pc \in {"send", "release"} /\ i = b
        BY <3>5 DEF HoldInv
      <4>2. i' = i /\ pc' \in {"send", "release"}
        BY <2>2, <4>1 DEF HNext, Next, ContactStep, Press, LetGo, Bounce, Tick, TaskStep,
             ReceiveEdge, ReceiveTimeout, ReadNow, ScanIdle, ScanReleased, ScanTooSoon, Confirm,
             SendReturns, StillHeld, Released
      <4> QED BY <3>1, <3>2, <3>5, <4>1, <4>2
    <3> QED BY <3>3, <3>4, <3>5 DEF HoldInv
  <2> QED BY <2>1, <2>2
<1>3. HoldInv => OneCommandPerHold
  BY DEF HoldInv, OneCommandPerHold
<1>4. HSpec => []TypeOK
  BY HistoryRefines, TypeCorrect
<1> QED BY <1>1, <1>2, <1>3, <1>4, PTL DEF HSpec

(***************************************************************************)
(* No short press. The scan looks at every button once per pass, so a      *)
(* pending button that goes up is seen up before it can be pressed again,  *)
(* unless the task waits for the release of another one. The hold that is  *)
(* confirmed is therefore the one that was noted, and began at most a pass *)
(* later: the time since press_tick was written measures it.               *)
(***************************************************************************)

\* A contact keeps its level for longer than two scans can lie apart, and the
\* range of the tick counter is larger than any press that is measured.
TimingAssumption ==
  /\ PollTicks + 2 * MaxLag < MinStable
  /\ LongPress + PollTicks + 2 * MaxLag <= TickMod

\* Ticks since t, as long as they are fewer than the counter's range.
Ago(t) == (tick - t + TickMod) % TickMod

\* The scan has come by b in this pass.
Scanned(b) == pc \in {"scan", "send"} /\ b < i

\* Ticks since the scan of the previous pass at most, with ticks left of the
\* wait for an edge and used of the lag.
Window(left, used) == MaxLag + (PollTicks - left) + used

\* At most so many ticks ago the scan has last come by b.
Unseen(b) == IF Scanned(b) THEN lag ELSE Window(timer, lag)

\* b was noted in this pass, and the scan has not come by it since.
JustNoted(b) ==
  /\ pc \in {"now", "scan", "send"}
  /\ ~Scanned(b)
  /\ Ago(press_tick[b]) <= lag

\* The scan saw b down when it last came by it.
Watched(b) ==
  /\ level[b] = 1 => since[b] <= Unseen(b)
  /\ level[b] = 0 => since[b] = MaxHold \/ since[b] + MaxLag >= Ago(press_tick[b])

PressClaim(b) ==
  /\ pc # "release"
  /\ JustNoted(b) \/ Watched(b)
  /\ Ago(press_tick[b]) < LongPress + Unseen(b)
  /\ pc \in {"scan", "send"} => Ago(now) <= Ago(press_tick[b]) /\ Ago(now) <= lag
  /\ pc = "send" /\ b = i => Ago(press_tick[b]) >= LongPress

PressInv ==
  /\ pc \in {"now", "scan", "send"} => timer = 0
  /\ pc = "send" => pending[i]
  /\ \A b \in Buttons : pending[b] /\ ~stalled[b] => PressClaim(b)

\* Subtraction of ticks, in the unsigned arithmetic of TickType_t.
LEMMA TickDifference ==
  ASSUME NEW s \in Ticks, NEW t \in Ticks
  PROVE  (s - t + TickMod) % TickMod = IF s >= t THEN s - t ELSE s - t + TickMod
BY ButtonAssumption DEF Ticks

\* While the clock stands still, so do the times since any tick; a tick makes
\* them one more, short of the counter's range.
LEMMA TimePasses ==
  ASSUME TypeOK, NEW t \in Ticks
  PROVE  /\ Ago(t) \in Ticks
         /\ Ago(tick) = 0
         /\ tick' = tick => (tick' - t + TickMod) % TickMod = Ago(t)
         /\ Tick /\ Ago(t) + 1 < TickMod => (tick' - t + TickMod) % TickMod = Ago(t) + 1
<1>1. /\ tick \in Ticks
      /\ Ago(t) = IF tick >= t THEN tick - t ELSE tick - t + TickMod
  BY TickDifference DEF TypeOK, Ago
<1>2. Ago(t) \in Ticks
  BY <1>1, ButtonAssumption DEF Ticks
<1>3. Ago(tick) = 0
  BY <1>1, TickDifference DEF Ago, Ticks
<1>4. ASSUME Tick, Ago(t) + 1 < TickMod
      PROVE  (tick' - t + TickMod) % TickMod = Ago(t) + 1
  <2>1. tick' = IF tick + 1 < TickMod THEN tick + 1 ELSE 0
    BY <1>1, <1>4, ButtonAssumption DEF Tick, Ticks
  <2>2. tick' \in Ticks
    BY <1>1, <2>1, ButtonAssumption DEF Ticks
  <2>3. (tick' - t + TickMod) % TickMod = IF tick' >= t THEN tick' - t ELSE tick' - t + TickMod
    BY <2>2, TickDifference
  <2> QED BY <1>1, <1>4, <2>1, <2>3, ButtonAssumption DEF Ticks
<1> QED BY <1>2, <1>3, <1>4 DEF Ago

\* What the scan measures is as long ago as the press was noted, but for the
\* ticks since it read the clock.
LEMMA ElapsedIsBehind ==
  ASSUME TypeOK, NEW b \in Buttons, Ago(now) <= Ago(press_tick[b])
  PROVE  Elapsed(b) = Ago(press_tick[b]) - Ago(now)
<1>1. tick \in Ticks /\ now \in Ticks /\ press_tick[b] \in Ticks
  BY DEF TypeOK
<1>2. /\ Ago(now) = IF tick >= now THEN tick - now ELSE tick - now + TickMod
      /\ Ago(press_tick[b]) = IF tick >= press_tick[b] THEN tick - press_tick[b]
                                                       ELSE tick - press_tick[b] + TickMod
      /\ Elapsed(b) = IF now >= press_tick[b] THEN now - press_tick[b]
                                              ELSE now - press_tick[b] + TickMod
  BY <1>1, TickDifference DEF Ago, Elapsed
<1> QED BY <1>1, <1>2, ButtonAssumption DEF Ticks

\* A button that is pending after a step and was not passed over during a wait
\* was in the same situation before it, or its edge was received in it.
LEMMA StillPending ==
  ASSUME TypeOK, HNext, NEW b \in Buttons, pending'[b], ~stalled'[b]
  PROVE  /\ pc' # "release"
         /\ pending[b] => ~stalled[b] /\ press_tick'[b] = press_tick[b]
         /\ ~pending[b] => ReceiveEdge /\ press_tick'[b] = tick
<1>1. stalled'[b] = (pending'[b] /\ (stalled[b] \/ pc' = "release"))
  BY DEF HNext, Observe
<1>2. CASE ReceiveEdge
  <2>1. button_queue # <<>> /\ Head(button_queue) \in Buttons
    BY <1>2, HeadTailProperties DEF ReceiveEdge, TypeOK
  <2> QED BY <1>1, <1>2, <2>1 DEF ReceiveEdge, TypeOK
<1>3. CASE ~ReceiveEdge
  <2>1. UNCHANGED press_tick /\ (pending'[b] => pending[b])
    BY <1>3 DEF HNext, Next, ContactStep, Press, LetGo, Bounce, Tick, TaskStep, ReceiveTimeout,
         ReadNow, ScanIdle, ScanReleased, ScanTooSoon, Confirm, SendReturns, StillHeld, Released,
         btn_state, TypeOK
  <2> QED BY <1>1, <2>1
<1> QED BY <1>2, <1>3

\* The window is bounded, and grows with every tick and when the wait ends.
LEMMA WindowGrows ==
  ASSUME NEW left \in 0 .. PollTicks, NEW used \in 0 .. MaxLag
  PROVE  /\ Window(left, used) \in 0 .. PollTicks + 2 * MaxLag
         /\ Window(left, used) >= used
         /\ Window(PollTicks, 0) = MaxLag
         /\ Window(0, used) >= Window(left, used)
         /\ Window(left, used + 1) = Window(left, used) + 1
         /\ left > 0 => Window(left - 1, used) = Window(left, used) + 1
BY ButtonAssumption DEF Window

LEMMA PressInvStep ==
  ASSUME TimingAssumption, TypeOK, TypeOK', PressInv, HNext
  PROVE  PressInv'
<1>1. (pc \in {"now", "scan", "send"} => timer = 0)'
  BY ButtonAssumption
     DEF PressInv, HNext, Next, ContactStep, Press, LetGo, Bounce, Tick, TaskStep, ReceiveEdge,
         ReceiveTimeout, ReadNow, ScanIdle, ScanReleased, ScanTooSoon, Confirm, SendReturns,
         StillHeld, Released, Advance, TypeOK
<1>2. (pc = "send" => pending[i])'
  <2>1. CASE ReceiveEdge \/ SendReturns
    BY <2>1 DEF ReceiveEdge, SendReturns
  <2>2. CASE ~(ReceiveEdge \/ SendReturns)
    BY <2>2 DEF PressInv, HNext, Next, ContactStep, Press, LetGo, Bounce, Tick, TaskStep,
         ReceiveTimeout, ReadNow, ScanIdle, ScanReleased, ScanTooSoon, Confirm, StillHeld,
         Released, Advance, btn_state
  <2> QED BY <2>1, <2>2
<1>3. ASSUME NEW b \in Buttons, pending'[b], ~stalled'[b]
      PROVE  PressClaim(b)'
  <2> DEFINE p == press_tick[b]
  <2>1. /\ pc' # "release"
        /\ pending[b] => PressClaim(b) /\ press_tick'[b] = p
        /\ ~pending[b] => ReceiveEdge /\ press_tick'[b] = tick
    BY <1>3, StillPending DEF PressInv
  <2>2. /\ p \in Ticks /\ now \in Ticks /\ tick \in Ticks
        /\ level[b] \in {0, 1} /\ since[b] \in 0 .. MaxHold /\ lag \in 0 .. MaxLag
        /\ timer \in 0 .. PollTicks /\ i \in Buttons
        /\ level'[b] \in {0, 1} /\ since'[b] \in 0 .. MaxHold /\ lag' \in 0 .. MaxLag
        /\ timer' \in 0 .. PollTicks
    BY DEF TypeOK
  <2>3. Unseen(b) \in 0 .. PollTicks + 2 * MaxLag /\ Unseen(b)' \in 0 .. PollTicks + 2 * MaxLag
    <3>1. Unseen(b)' = IF Scanned(b)' THEN lag' ELSE Window(timer', lag')
      BY DEF Unseen
    <3>2. lag \in 0 .. PollTicks + 2 * MaxLag /\ lag' \in 0 .. PollTicks + 2 * MaxLag
      BY <2>2, ButtonAssumption
    <3> QED BY <2>2, <3>1, <3>2, WindowGrows DEF Unseen
  <2>4. CASE ~pending[b]
    <3>1. /\ pc' = "now" /\ UNCHANGED <<tick, lag>> /\ press_tick'[b] = tick
      BY <2>1, <2>4 DEF ReceiveEdge
    <3>2. Ago(press_tick[b])' = 0
      BY <2>2, <3>1, TimePasses DEF Ago
    <3>3. JustNoted(b)'
      BY <2>2, <3>1, <3>2 DEF JustNoted, Scanned
    <3> QED BY <2>1, <2>3, <3>1, <3>2, <3>3, ButtonAssumption DEF PressClaim
  <2>5. CASE pending[b] /\ Tick
    <3>1. /\ UNCHANGED <<level, pc, i, now, press_tick>>
          /\ tick' = (tick + 1) % TickMod
          /\ since'[b] = IF since[b] < MaxHold THEN since[b] + 1 ELSE MaxHold
          /\ timer' = IF timer > 0 THEN timer - 1 ELSE 0
          /\ lag' = IF Blocked THEN lag ELSE lag + 1
      BY <2>5 DEF Tick, btn_state
    <3>2. /\ Unseen(b)' >= Unseen(b) + 1
          /\ Scanned(b)' = Scanned(b)
          /\ pc \in {"now", "scan", "send"} => lag' = lag + 1
      <4>1. Scanned(b)' = Scanned(b)
        BY <3>1 DEF Scanned
      <4>2. Unseen(b)' = IF Scanned(b)' THEN lag' ELSE Window(timer', lag')
        BY DEF Unseen
      <4>3. pc \in {"now", "scan", "send"} => lag' = lag + 1
        BY <3>1 DEF Blocked, PressInv
      <4>4. Unseen(b)' >= Unseen(b) + 1
        <5>1. CASE Scanned(b)
          BY <2>2, <4>1, <4>2, <4>3, <5>1 DEF Unseen, Scanned
        <5>2. CASE ~Scanned(b)
          <6>1. \/ timer' = timer /\ lag' = lag + 1
                \/ timer > 0 /\ timer' = timer - 1 /\ lag' \in {lag, lag + 1}
            BY <2>2, <3>1 DEF Blocked
          <6>2. /\ timer > 0 => Window(timer - 1, lag) = Window(timer, lag) + 1
                /\ timer > 0 /\ lag' = lag + 1 =>
                     Window(timer - 1, lag + 1) = Window(timer - 1, lag) + 1
                /\ Window(timer, lag + 1) = Window(timer, lag) + 1
                /\ Window(timer, lag) \in Int
            BY <2>2, WindowGrows, ButtonAssumption
          <6> QED BY <4>1, <4>2, <5>2, <6>1, <6>2 DEF Unseen
        <5> QED BY <5>1, <5>2
      <4> QED BY <4>1, <4>3, <4>4
    <3>3. Ago(p) < LongPress + Unseen(b) /\ Ago(p) \in Ticks
      BY <2>1, <2>2, <2>5, TimePasses DEF PressClaim
    <3>4. Ago(p) + 1 < TickMod
      BY <2>3, <3>2, <3>3, ButtonAssumption DEF TimingAssumption, Ticks
    <3>5. Ago(press_tick[b])' = Ago(p) + 1
      BY <2>2, <2>5, <3>1, <3>4, TimePasses DEF Ago
    <3>6. pc \in {"scan", "send"} => Ago(now)' = Ago(now) + 1 /\ Ago(now) \in Ticks
      <4>1. pc \in {"scan", "send"} => Ago(now) <= Ago(p) /\ Ago(now) \in Ticks
        BY <2>1, <2>2, <2>5, TimePasses DEF PressClaim
      <4>2. pc \in {"scan", "send"} => Ago(now) + 1 < TickMod
        BY <3>3, <3>4, <4>1, ButtonAssumption DEF Ticks
      <4> QED BY <2>2, <2>5, <3>1, <4>1, <4>2, TimePasses DEF Ago
    <3>7. JustNoted(b)' \/ Watched(b)'
      <4>1. CASE JustNoted(b)
        BY <2>2, <3>1, <3>2, <3>3, <3>5, <4>1 DEF JustNoted, Ticks
      <4>2. CASE Watched(b)
        BY <2>2, <2>3, <3>1, <3>2, <3>3, <3>5, <4>2, ButtonAssumption DEF Watched, Ticks
      <4> QED BY <2>1, <2>5, <4>1, <4>2 DEF PressClaim
    <3> QED
      BY <2>1, <2>2, <2>3, <2>5, <3>1, <3>2, <3>3, <3>5, <3>6, <3>7, ButtonAssumption
         DEF PressClaim, Ticks
  <2>6. CASE pending[b] /\ ~Tick
    <3>1. tick' = tick
      BY <2>6 DEF HNext, Next, ContactStep, Press, LetGo, Bounce, TaskStep, ReceiveEdge,
           ReceiveTimeout, ReadNow, ScanIdle, ScanReleased, ScanTooSoon, Confirm, SendReturns,
           StillHeld, Released
    <3>2. Ago(press_tick[b])' = Ago(p) /\ Ago(p) \in Ticks
      BY <2>1, <2>2, <2>6, <3>1, TimePasses DEF Ago
    <3>3. /\ PressClaim(b)
          /\ pc # "release" /\ pc' # "release"
          /\ press_tick'[b] = p
      BY <2>1, <2>6 DEF PressClaim
    <3>4. CASE UNCHANGED <<level, since, now, i, pc, timer, lag>>
      <4>1. Ago(now)' = Ago(now)
        BY <3>1, <3>4 DEF Ago
      <4> QED
        BY <3>2, <3>3, <3>4, <4>1 DEF PressClaim, JustNoted, Watched, Unseen, Scanned
    <3>5. CASE ContactStep
      <4>1. UNCHANGED <<now, i, pc, timer, lag>>
        BY <3>5 DEF ContactStep, Press, LetGo, Bounce
      <4>2. \/ UNCHANGED <<level[b], since[b]>>
            \/ level[b] = 0 /\ level'[b] = 1 /\ since'[b] = 0
            \/ level[b] = 1 /\ level'[b] = 0 /\ since'[b] = 0 /\ since[b] >= MinStable
        BY <2>2, <3>5 DEF ContactStep, Press, LetGo, Bounce, MoveContact, TypeOK
      <4>3. Unseen(b)' = Unseen(b) /\ Scanned(b)' = Scanned(b)
        BY <4>1 DEF Unseen, Scanned
      <4>4. JustNoted(b)' \/ Watched(b)'
        <5>1. CASE JustNoted(b)
          BY <3>2, <3>3, <4>1, <4>3, <5>1 DEF JustNoted
        <5>2. CASE Watched(b)
          <6>1. ~(level[b] = 1 /\ since[b] >= MinStable)
            BY <2>2, <2>3, <5>2, ButtonAssumption DEF Watched, TimingAssumption
          <6> QED
            BY <2>3, <3>2, <3>3, <4>2, <4>3, <5>2, <6>1 DEF Watched
        <5> QED BY <3>3, <5>1, <5>2 DEF PressClaim
      <4>5. Ago(now)' = Ago(now)
        BY <2>2, <3>1, <4>1, TimePasses DEF Ago
      <4> QED BY <3>2, <3>3, <4>1, <4>3, <4>4, <4>5 DEF PressClaim
    <3>6. CASE ReceiveEdge \/ ReceiveTimeout
      <4>1. /\ UNCHANGED <<level, since, lag>>
            /\ pc = "receive" /\ pc' = "now" /\ timer' = 0
        BY <2>2, <3>6 DEF ReceiveEdge, ReceiveTimeout, contacts
      <4>2. Watched(b) /\ Unseen(b)' >= Unseen(b)
        BY <2>2, <3>3, <4>1, WindowGrows DEF PressClaim, JustNoted, Unseen, Scanned
      <4>3. Watched(b)'
        BY <2>2, <2>3, <3>2, <3>3, <4>1, <4>2 DEF Watched
      <4> QED
        BY <2>3, <3>2, <3>3, <4>1, <4>2, <4>3, ButtonAssumption DEF PressClaim, Ticks
    <3>7. CASE ReadNow
      <4>1. /\ UNCHANGED <<level, since, timer, lag>>
            /\ pc = "now" /\ pc' = "scan" /\ i' = 0 /\ now' = tick
        BY <3>7 DEF ReadNow, contacts
      <4>2. ~Scanned(b) /\ ~Scanned(b)' /\ Unseen(b)' = Unseen(b)
        BY <4>1, ButtonAssumption DEF Scanned, Unseen, Buttons
      <4>3. Ago(now)' = 0
        BY <2>2, <3>1, <4>1, TimePasses DEF Ago
      <4>4. JustNoted(b)' \/ Watched(b)'
        BY <3>2, <3>3, <4>1, <4>2 DEF PressClaim, JustNoted, Watched
      <4> QED BY <2>2, <3>2, <3>3, <4>1, <4>2, <4>3, <4>4 DEF PressClaim, Ticks
    <3>8. CASE ScanIdle \/ ScanTooSoon \/ ScanReleased
      <4>1. /\ UNCHANGED <<level, since, now>>
            /\ pc = "scan" /\ Advance /\ timer = 0
        BY <3>8 DEF ScanIdle, ScanTooSoon, ScanReleased, contacts, PressInv
      <4>2. Ago(now)' = Ago(now)
        BY <3>1, <4>1 DEF Ago
      <4>3. \/ /\ pc' = "scan" /\ i' = i + 1 /\ lag' = lag /\ timer' = 0
            \/ /\ pc' = "receive" /\ i = BtnCount - 1 /\ lag' = 0 /\ timer' = PollTicks
        BY <2>2, <4>1, ButtonAssumption DEF Advance, Buttons
      <4>4. Ago(now) \in Ticks /\ Ago(now) <= Ago(p) /\ Ago(now) <= lag
        BY <2>2, <3>3, <4>1, TimePasses DEF PressClaim
      <4>5. CASE b = i
        <5>1. ScanTooSoon
          BY <1>3, <2>2, <2>6, <3>8, <4>5 DEF ScanIdle, ScanReleased, TypeOK
        <5>2. level[b] = 0 /\ Elapsed(b) < LongPress
          BY <4>5, <5>1 DEF ScanTooSoon
        <5>3. Ago(p) < LongPress + lag
          BY <2>2, <3>2, <4>4, <5>2, ElapsedIsBehind, ButtonAssumption DEF Ticks
        <5>4. lag <= Unseen(b)'
          BY <2>2, <4>3, <4>5, WindowGrows, ButtonAssumption DEF Unseen, Scanned, Buttons
        <5>5. since[b] = MaxHold \/ since[b] + MaxLag >= Ago(p)
          BY <2>2, <3>2, <3>3, <5>2, ButtonAssumption DEF PressClaim, JustNoted, Watched, Ticks
        <5>6. Watched(b)'
          BY <3>2, <4>1, <5>2, <5>5 DEF Watched
        <5> QED
          BY <2>2, <2>3, <3>2, <3>3, <4>1, <4>2, <4>3, <4>4, <5>3, <5>4, <5>6, ButtonAssumption
             DEF PressClaim, Ticks
      <4>6. CASE b # i
        <5>1. /\ Unseen(b) <= Unseen(b)'
              /\ pc' = "scan" => Scanned(b)' = Scanned(b)
              /\ pc' = "receive" => Scanned(b)
          BY <2>2, <4>1, <4>3, <4>6, WindowGrows, ButtonAssumption DEF Unseen, Scanned, Buttons
        <5>2. JustNoted(b)' \/ Watched(b)'
          BY <2>2, <2>3, <3>2, <3>3, <4>1, <4>3, <5>1 DEF PressClaim, JustNoted, Watched
        <5> QED
          BY <2>2, <2>3, <3>2, <3>3, <4>1, <4>2, <4>3, <4>4, <5>1, <5>2, ButtonAssumption
             DEF PressClaim, Ticks
      <4> QED BY <4>5, <4>6
    <3>9. CASE Confirm
      <4>1. /\ UNCHANGED <<level, since, now, i, timer, lag>>
            /\ pc = "scan" /\ pc' = "send" /\ Elapsed(i) >= LongPress
        BY <3>9 DEF Confirm, contacts
      <4>2. Ago(now)' = Ago(now)
        BY <3>1, <4>1 DEF Ago
      <4>3. Scanned(b)' = Scanned(b) /\ Unseen(b)' = Unseen(b)
        BY <4>1 DEF Scanned, Unseen
      <4>4. JustNoted(b)' \/ Watched(b)'
        BY <3>2, <3>3, <4>1, <4>3 DEF PressClaim, JustNoted, Watched
      <4>5. b = i => Ago(p) >= LongPress
        <5>1. Ago(now) \in Ticks /\ Ago(now) <= Ago(p)
          BY <2>2, <3>3, <4>1, TimePasses DEF PressClaim
        <5> QED BY <3>2, <4>1, <5>1, ElapsedIsBehind, ButtonAssumption DEF Ticks
      <4> QED BY <2>2, <3>2, <3>3, <4>1, <4>2, <4>3, <4>4, <4>5 DEF PressClaim
    <3> QED
      BY <2>6, <3>3, <3>4, <3>5, <3>6, <3>7, <3>8, <3>9
         DEF HNext, Next, TaskStep, SendReturns, StillHeld, Released
  <2> QED BY <2>4, <2>5, <2>6
<1> QED BY <1>1, <1>2, <1>3 DEF PressInv

\* A confirmed press has lasted LONG_PRESS_MS, but for the ticks of one pass, when
\* no other release was waited for since it was noted: whatever bounces, stale
\* edges, quick presses and wrap-around of the tick counter come in between.
THEOREM ConfirmedPressIsLong == ASSUME TimingAssumption PROVE HSpec => []NoShortPress
<1>1. HInit => PressInv
  BY DEF HInit, Init, PressInv
<1>2. TypeOK /\ TypeOK' /\ PressInv /\ [HNext]_hvars => PressInv'
  <2>1. ASSUME PressInv, UNCHANGED hvars PROVE PressInv'
    BY <2>1 DEF hvars, vars, history, PressInv, PressClaim, JustNoted, Watched, Unseen, Scanned,
         Window, Ago
  <2> QED BY <2>1, PressInvStep
<1>3. TypeOK /\ PressInv => NoShortPress
  <2> SUFFICES ASSUME TypeOK, PressInv, pc = "send", level[i] = 0, ~stalled[i]
               PROVE  since[i] + MaxLag >= LongPress
    BY DEF NoShortPress
  <2>1. /\ i \in Buttons /\ since[i] \in 0 .. MaxHold /\ lag \in 0 .. MaxLag
        /\ Ago(press_tick[i]) \in Ticks
    BY TimePasses DEF TypeOK
  <2>2. PressClaim(i)
    BY <2>1 DEF PressInv
  <2> QED BY <2>1, <2>2, ButtonAssumption DEF PressClaim, JustNoted, Watched, Ticks
<1>4. HSpec => []TypeOK
  BY HistoryRefines, TypeCorrect
<1> QED BY <1>1, <1>2, <1>3, <1>4, PTL DEF HSpec

(***************************************************************************)
(* The history.                                                            *)
(***************************************************************************)

\* The history keeps its types too: its counters stay within their bounds.
THEOREM HistoryTypeCorrect == HSpec => []HistoryTypeOK
<1>1. HInit => HistoryTypeOK
  BY ButtonAssumption, HistoryAssumption
     DEF HInit, Init, HistoryTypeOK, TypeOK, Buttons, Ticks, Places
<1>2. HistoryTypeOK /\ [HNext]_hvars => HistoryTypeOK'
  <2> SUFFICES ASSUME HistoryTypeOK, [HNext]_hvars PROVE HistoryTypeOK'
    OBVIOUS
  <2>1. TypeOK'
    BY StepKeepsTypes DEF HistoryTypeOK, HNext, hvars
  <2>2. CASE HNext
    <3>1. issued' \in [Buttons -> 0 .. 2]
      BY <2>2 DEF HNext, Observe, HistoryTypeOK, AtMost
    <3>2. heard' \in [Buttons -> BOOLEAN]
      BY <2>2 DEF HNext, Observe
    <3>3. stalled' \in [Buttons -> BOOLEAN]
      BY <2>1, <2>2 DEF HNext, Observe, HistoryTypeOK, TypeOK
    <3>4. waited' \in [Buttons -> 0 .. MaxWait + 1]
      BY <2>2, HistoryAssumption DEF HNext, Observe, HistoryTypeOK, AtMost
    <3> QED BY <2>1, <3>1, <3>2, <3>3, <3>4 DEF HistoryTypeOK
  <2>3. CASE UNCHANGED hvars
    BY <2>1, <2>3 DEF hvars, history, HistoryTypeOK
  <2> QED BY <2>2, <2>3
<1> QED BY <1>1, <1>2, PTL DEF HSpec

(***************************************************************************)
(* Prompt commands. While a hold whose edge was heard waits for its        *)
(* command, the edge moves up in the queue by one place per pass of the    *)
(* loop, and once it is taken, press_tick stays as it is until a scan      *)
(* finds it LONG_PRESS_MS old. The ticks of both waits are bounded by what *)
(* the passes before it may last, waits for releases not counted.          *)
(***************************************************************************)

\* The wait for the release of one button, and its part of a pass, at most.
ReleaseTime == MaxHold + PollTicks + MaxLag
ButtonTime == MaxLag + ReleaseTime

\* The lag, and the time, that the first n buttons of a scan may take. A wait
\* for a release starts a new lag.
ScanLag(n) == n * MaxLag
ScanTime(n) == n * ButtonTime

\* The lag and the time of a whole pass, and the lag of n passes.
FullLag == ScanLag(BtnCount)
FullTime == ScanTime(BtnCount) + PollTicks + MaxLag
QueueLag(n) == n * FullLag

\* An edge is taken from the queue within this many ticks of task time.
TakenWithin == QueueLag(QueueLen) + MaxLag

\* The tick counter does not come round within a long press and two passes,
\* and MaxWait covers the queue, the long press and two passes.
WaitAssumption ==
  /\ LongPress + 2 * FullTime < TickMod
  /\ MaxWait >= TakenWithin + LongPress + PollTicks + 2 * FullLag - 1

InPass == pc \in {"scan", "send", "release"}

\* The lag of the present pass so far, at most.
PassLag == ScanLag(i) + IF pc = "release" THEN MaxLag ELSE lag

\* Ticks until the wait for the release of i ends, at most.
ReleaseLeft ==
  IF level[i] = 1 THEN timer + (MaxLag - lag)
                  ELSE (MaxHold - since[i]) + PollTicks + MaxLag

\* How long ago the scan read the clock, and what it knows of button i.
PlaceInv ==
  /\ pc \in {"now", "scan", "send"} => timer = 0
  /\ pc \in {"receive", "now"} =>
       i = 0 /\ Ago(now) <= ScanTime(BtnCount) + (PollTicks - timer) + lag
  /\ pc \in {"scan", "send"} => Ago(now) <= ScanTime(i) + lag
  /\ pc = "send" => IF level[i] = 0 THEN issued[i] > 0 ELSE since[i] <= lag
  /\ pc = "release" =>
       /\ ~pending[i]
       /\ Ago(now) + ReleaseLeft <= ScanTime(i + 1)
       /\ level[i] = 1 => since[i] + timer <= PollTicks + lag

\* A press that is pending is older than the scan that comes by it, and no
\* older than LONG_PRESS_MS and the pass since the last scan.
AgeClaim(b) ==
  IF InPass
  THEN /\ Ago(now) <= Ago(press_tick[b])
       /\ Ago(press_tick[b]) < LongPress + Ago(now) + IF b < i THEN 0 ELSE FullTime
  ELSE Ago(press_tick[b]) < LongPress + Ago(now)

AgeInv == \A b \in Buttons : pending[b] => AgeClaim(b)

\* The lag since the task last came to its queue, at most.
SinceQueue == IF pc = "receive" THEN PassLag + FullLag ELSE PassLag

\* An edge of b is in the queue, and each place before it stands for a pass.
EdgeWaits(b) ==
  \E k \in DOMAIN button_queue :
    /\ button_queue[k] = b
    /\ waited[b] + QueueLag(k) <= QueueLag(QueueLen) + SinceQueue

\* The press of b is noted, and not yet LONG_PRESS_MS old when last looked at.
PressWaits(b) ==
  /\ waited[b] <= TakenWithin + Ago(press_tick[b])
  /\ ~InPass => waited[b] < TakenWithin + LongPress + FullLag + (PollTicks - timer) + lag
  /\ InPass /\ b < i => waited[b] < TakenWithin + LongPress + PassLag
  /\ InPass /\ b >= i =>
       /\ waited[b] < TakenWithin + LongPress + FullLag + PollTicks + PassLag
       /\ waited[b] <= TakenWithin + (Ago(press_tick[b]) - Ago(now)) + PassLag

WaitClaim(b) ==
  /\ heard[b] => level[b] = 0
  /\ IF heard[b] /\ issued[b] = 0
     THEN IF pending[b] THEN PressWaits(b) ELSE EdgeWaits(b)
     ELSE waited[b] = 0

WaitInv == \A b \in Buttons : WaitClaim(b)

\* Products of a constant grow by one step at a time.
LEMMA TimesGrows ==
  ASSUME NEW c \in Nat, NEW m \in Nat, NEW n \in Nat
  PROVE  /\ 0 * c = 0
         /\ n * c \in Nat
         /\ (n + 1) * c = n * c + c
         /\ m <= n => m * c <= n * c
<1>1. m <= n => m * c <= n * c
  <2> SUFFICES ASSUME m <= n PROVE m * c <= n * c
    OBVIOUS
  <2> DEFINE d == n - m
  <2>1. d \in Nat /\ n = m + d
    OBVIOUS
  <2>2. n * c = m * c + d * c /\ d * c \in Nat /\ m * c \in Nat
    <3> HIDE DEF d
    <3> QED BY <2>1
  <2> QED BY <2>2
<1> QED BY <1>1

\* What the scan of n buttons may take.
LEMMA ScanGrows ==
  ASSUME NEW n \in 0 .. BtnCount
  PROVE  /\ ScanLag(n) \in Nat /\ ScanTime(n) \in Nat
         /\ ScanLag(0) = 0 /\ ScanTime(0) = 0
         /\ ScanLag(n + 1) = ScanLag(n) + MaxLag
         /\ ScanTime(n + 1) = ScanTime(n) + ButtonTime
         /\ ScanLag(n) <= FullLag
         /\ ScanTime(n) <= ScanTime(BtnCount)
         /\ MaxLag <= FullLag
<1>1. ButtonTime \in Nat
  BY ButtonAssumption DEF ButtonTime, ReleaseTime
<1>2. /\ n * MaxLag \in Nat /\ 0 * MaxLag = 0 /\ (n + 1) * MaxLag = n * MaxLag + MaxLag
      /\ n * MaxLag <= BtnCount * MaxLag
  BY TimesGrows, ButtonAssumption
<1>3. /\ n * ButtonTime \in Nat /\ 0 * ButtonTime = 0
      /\ (n + 1) * ButtonTime = n * ButtonTime + ButtonTime
      /\ n * ButtonTime <= BtnCount * ButtonTime
  BY <1>1, TimesGrows, ButtonAssumption
<1>4. MaxLag <= BtnCount * MaxLag
  <2>1. 1 * MaxLag <= BtnCount * MaxLag
    BY TimesGrows, ButtonAssumption
  <2>2. 1 * MaxLag = MaxLag
    BY ButtonAssumption
  <2> QED BY <2>1, <2>2
<1> QED BY <1>2, <1>3, <1>4 DEF ScanLag, ScanTime, FullLag

\* What n passes may take.
LEMMA QueueGrows ==
  ASSUME NEW n \in Nat
  PROVE  /\ QueueLag(n) \in Nat
         /\ QueueLag(n + 1) = QueueLag(n) + FullLag
         /\ n <= QueueLen => QueueLag(n) <= QueueLag(QueueLen)
         /\ n >= 1 => QueueLag(n) >= FullLag
<1>1. FullLag \in Nat
  BY ScanGrows, ButtonAssumption DEF FullLag
<1>2. /\ n * FullLag \in Nat
      /\ (n + 1) * FullLag = n * FullLag + FullLag
      /\ n <= QueueLen => n * FullLag <= QueueLen * FullLag
      /\ n >= 1 => 1 * FullLag <= n * FullLag
  BY <1>1, TimesGrows, ButtonAssumption
<1>3. 1 * FullLag = FullLag
  BY <1>1
<1> QED BY <1>2, <1>3 DEF QueueLag

\* The times and lags are numbers, and what MaxWait and the counter cover.
LEMMA TimesAreNumbers ==
  /\ ButtonTime \in Nat /\ FullLag \in Nat /\ FullTime \in Nat /\ TakenWithin \in Nat
  /\ ScanTime(BtnCount) \in Nat /\ QueueLag(QueueLen) \in Nat
  /\ ButtonTime = MaxLag + MaxHold + PollTicks + MaxLag
  /\ FullTime = ScanTime(BtnCount) + PollTicks + MaxLag
  /\ TakenWithin = QueueLag(QueueLen) + MaxLag
  /\ MaxLag <= FullLag
<1>1. FullLag \in Nat /\ ScanTime(BtnCount) \in Nat /\ MaxLag <= FullLag
  BY ScanGrows, ButtonAssumption DEF FullLag
<1>2. QueueLag(QueueLen) \in Nat
  BY QueueGrows, ButtonAssumption
<1> QED BY <1>1, <1>2, ButtonAssumption DEF ButtonTime, ReleaseTime, FullTime, TakenWithin

\* The end of one pass of the for loop goes on to the next button or, after the
\* last one, back to the queue.
LEMMA AdvanceMoves ==
  ASSUME TypeOK, Advance
  PROVE  \/ pc' = "scan" /\ i' = i + 1 /\ i' \in Buttons /\ lag' = lag /\ timer' = 0
         \/ /\ pc' = "receive" /\ i' = 0 /\ lag' = 0 /\ timer' = PollTicks
            /\ i + 1 = BtnCount
BY ButtonAssumption DEF Advance, Buttons, TypeOK

\* Neither the scan's clock nor a pending press is ever so old that the tick
\* counter would come round.
LEMMA AgesBounded ==
  ASSUME WaitAssumption, TypeOK, PlaceInv, AgeInv
  PROVE  /\ Ago(now) \in Nat /\ Ago(now) <= FullTime /\ Ago(now) + 1 < TickMod
         /\ \A b \in Buttons : pending[b] =>
              Ago(press_tick[b]) \in Nat /\ Ago(press_tick[b]) + 1 < TickMod
<1>1. /\ i \in Buttons /\ lag \in 0 .. MaxLag /\ timer \in 0 .. PollTicks /\ now \in Ticks
      /\ level[i] \in {0, 1} /\ since[i] \in 0 .. MaxHold
  BY DEF TypeOK
<1>2. Ago(now) \in Nat
  BY <1>1, TimePasses, ButtonAssumption DEF Ticks
<1>3. Ago(now) <= FullTime
  <2>1. CASE pc \in {"receive", "now"}
    BY <1>1, <1>2, <2>1, TimesAreNumbers, ButtonAssumption DEF PlaceInv
  <2>2. CASE pc \in {"scan", "send"}
    <3>1. ScanTime(i) \in Nat /\ ScanTime(i) <= ScanTime(BtnCount)
      BY <1>1, ScanGrows, ButtonAssumption DEF Buttons
    <3> QED BY <1>1, <1>2, <2>2, <3>1, TimesAreNumbers, ButtonAssumption DEF PlaceInv
  <2>3. CASE pc = "release"
    <3>1. ScanTime(i + 1) \in Nat /\ ScanTime(i + 1) <= ScanTime(BtnCount)
      <4>1. i + 1 \in 0 .. BtnCount
        BY <1>1, ButtonAssumption DEF Buttons
      <4> QED BY <4>1, ScanGrows
    <3>2. ReleaseLeft \in Nat
      BY <1>1, ButtonAssumption DEF ReleaseLeft
    <3>3. Ago(now) + ReleaseLeft <= ScanTime(i + 1)
      BY <2>3 DEF PlaceInv
    <3> QED BY <1>2, <3>1, <3>2, <3>3, TimesAreNumbers, ButtonAssumption
  <2> QED BY <2>1, <2>2, <2>3 DEF TypeOK, Places
<1>4. Ago(now) + 1 < TickMod
  BY <1>2, <1>3, TimesAreNumbers, ButtonAssumption DEF WaitAssumption
<1>5. ASSUME NEW b \in Buttons, pending[b]
      PROVE  Ago(press_tick[b]) \in Nat /\ Ago(press_tick[b]) + 1 < TickMod
  <2>1. Ago(press_tick[b]) \in Nat
    BY TimePasses, ButtonAssumption DEF TypeOK, Ticks
  <2>2. Ago(press_tick[b]) < LongPress + Ago(now) + FullTime
    <3>1. AgeClaim(b)
      BY <1>5 DEF AgeInv
    <3> QED BY <1>2, <2>1, <3>1, TimesAreNumbers, ButtonAssumption DEF AgeClaim
  <2> QED BY <1>2, <1>3, <2>1, <2>2, TimesAreNumbers, ButtonAssumption DEF WaitAssumption
<1> QED BY <1>2, <1>3, <1>4, <1>5

\* A tick makes these times one more; no other step changes them, but for those
\* that read the clock.
LEMMA AgesPass ==
  ASSUME WaitAssumption, TypeOK, PlaceInv, AgeInv, Next
  PROVE  /\ Tick => /\ Ago(now)' = Ago(now) + 1
                    /\ \A b \in Buttons : pending[b] =>
                         Ago(press_tick[b])' = Ago(press_tick[b]) + 1
         /\ ~Tick => /\ tick' = tick
                     /\ now' = now => Ago(now)' = Ago(now)
                     /\ \A b \in Buttons : press_tick'[b] = press_tick[b] =>
                          Ago(press_tick[b])' = Ago(press_tick[b])
<1>1. tick \in Ticks /\ now \in Ticks /\ \A b \in Buttons : press_tick[b] \in Ticks
  BY DEF TypeOK
<1>2. ASSUME Tick
      PROVE  /\ Ago(now)' = Ago(now) + 1
             /\ \A b \in Buttons : pending[b] => Ago(press_tick[b])' = Ago(press_tick[b]) + 1
  <2>1. now' = now /\ press_tick' = press_tick
    BY <1>2 DEF Tick, btn_state
  <2>2. Ago(now)' = Ago(now) + 1
    BY <1>1, <1>2, <2>1, AgesBounded, TimePasses DEF Ago
  <2>3. ASSUME NEW b \in Buttons, pending[b] PROVE Ago(press_tick[b])' = Ago(press_tick[b]) + 1
    BY <1>1, <1>2, <2>1, <2>3, AgesBounded, TimePasses DEF Ago
  <2> QED BY <2>2, <2>3
<1>3. ~Tick => tick' = tick
  BY DEF Next, ContactStep, Press, LetGo, Bounce, TaskStep, ReceiveEdge, ReceiveTimeout, ReadNow,
       ScanIdle, ScanReleased, ScanTooSoon, Confirm, SendReturns, StillHeld, Released
<1> QED BY <1>2, <1>3 DEF Ago

\* What a contact may do while button_task stands still.
LEMMA ContactMoves ==
  ASSUME TypeOK, ContactStep, NEW b \in Buttons
  PROVE  /\ UNCHANGED <<btn_state, tick, now, i, pc, timer, lag>>
         /\ \/ level'[b] = level[b] /\ since'[b] = since[b]
            \/ level[b] = 0 /\ level'[b] = 1 /\ since'[b] = 0
            \/ level[b] = 1 /\ level'[b] = 0 /\ since'[b] = 0 /\ since[b] >= MinStable
<1>1. UNCHANGED <<btn_state, tick, now, i, pc, timer, lag>>
  BY DEF ContactStep, Press, LetGo, Bounce
<1>2. \/ level'[b] = level[b] /\ since'[b] = since[b]
      \/ level[b] = 0 /\ level'[b] = 1 /\ since'[b] = 0
      \/ level[b] = 1 /\ level'[b] = 0 /\ since'[b] = 0 /\ since[b] >= MinStable
  BY DEF ContactStep, Press, LetGo, Bounce, MoveContact, TypeOK
<1> QED BY <1>1, <1>2

\* How the history of issued commands changes.
LEMMA IssuedMoves ==
  ASSUME HistoryTypeOK, HNext, NEW b \in Buttons
  PROVE  /\ level'[b] = 1 => issued'[b] = 0
         /\ level'[b] # 1 /\ Confirming(b) => issued'[b] > 0
         /\ level'[b] # 1 /\ ~Confirming(b) => issued'[b] = issued[b]
<1>1. issued'[b] = CASE level'[b] = 1 -> 0
                     [] level'[b] # 1 /\ Confirming(b) -> AtMost(issued[b] + 1, 2)
                     [] OTHER -> issued[b]
  BY DEF HNext, Observe
<1>2. AtMost(issued[b] + 1, 2) > 0
  BY DEF AtMost, HistoryTypeOK
<1> QED BY <1>1, <1>2

LEMMA PlaceInvStep ==
  ASSUME TimingAssumption, WaitAssumption, HistoryTypeOK, TypeOK', PlaceInv, AgeInv, HNext
  PROVE  PlaceInv'
<1>1. /\ TypeOK /\ Next
      /\ i \in Buttons /\ lag \in 0 .. MaxLag /\ timer \in 0 .. PollTicks
      /\ level[i] \in {0, 1} /\ since[i] \in 0 .. MaxHold /\ pc \in Places
      /\ Ago(now) \in Nat
  BY AgesBounded DEF HistoryTypeOK, TypeOK, HNext
<1>2. /\ ScanTime(0) = 0 /\ ScanTime(i) \in Nat /\ ScanTime(i + 1) = ScanTime(i) + ButtonTime
      /\ ScanTime(i) <= ScanTime(BtnCount) /\ ScanTime(BtnCount) \in Nat
      /\ ButtonTime = MaxLag + MaxHold + PollTicks + MaxLag
  BY <1>1, ScanGrows, TimesAreNumbers, ButtonAssumption DEF Buttons
<1>3. ReleaseLeft \in Nat
  BY <1>1, ButtonAssumption DEF ReleaseLeft
<1>4. CASE ContactStep
  <2>1. /\ UNCHANGED <<btn_state, tick, now, i, pc, timer, lag>>
        /\ \/ level'[i] = level[i] /\ since'[i] = since[i]
           \/ level[i] = 0 /\ level'[i] = 1 /\ since'[i] = 0
           \/ level[i] = 1 /\ level'[i] = 0 /\ since'[i] = 0 /\ since[i] >= MinStable
    BY <1>1, <1>4, ContactMoves
  <2>2. Ago(now)' = Ago(now)
    BY <2>1 DEF Ago
  <2>3. (pc = "send" => IF level[i] = 0 THEN issued[i] > 0 ELSE since[i] <= lag)'
    <3> SUFFICES ASSUME pc = "send"
                 PROVE  IF level'[i] = 0 THEN issued'[i] > 0 ELSE since'[i] <= lag
      BY <2>1
    <3>1. level'[i] = 0 => level[i] = 0
      BY <1>1, <2>1, ButtonAssumption DEF PlaceInv, TimingAssumption
    <3>2. level'[i] = 0 => issued'[i] = issued[i]
      BY <1>1, <2>1, IssuedMoves DEF Confirming
    <3> QED BY <1>1, <2>1, <3>1, <3>2, ButtonAssumption DEF PlaceInv
  <2>4. (pc = "release" =>
           /\ ~pending[i]
           /\ Ago(now) + ReleaseLeft <= ScanTime(i + 1)
           /\ level[i] = 1 => since[i] + timer <= PollTicks + lag)'
    <3> SUFFICES ASSUME pc = "release"
                 PROVE  /\ ~pending'[i]
                        /\ Ago(now) + ReleaseLeft' <= ScanTime(i + 1)
                        /\ level'[i] = 1 => since'[i] + timer <= PollTicks + lag
      BY <2>1, <2>2
    <3>1. ~(level[i] = 1 /\ since[i] >= MinStable)
      BY <1>1, ButtonAssumption DEF PlaceInv, TimingAssumption
    <3>2. ReleaseLeft' <= ReleaseLeft /\ ReleaseLeft' \in Nat
      BY <1>1, <2>1, <3>1, ButtonAssumption DEF ReleaseLeft
    <3>3. ~pending'[i] /\ Ago(now) + ReleaseLeft <= ScanTime(i + 1)
      BY <2>1 DEF PlaceInv, btn_state
    <3>4. level'[i] = 1 => since'[i] + timer <= PollTicks + lag
      BY <1>1, <2>1, <3>1, ButtonAssumption DEF PlaceInv
    <3>5. ScanTime(i + 1) \in Nat
      BY <1>1, <1>2, ButtonAssumption
    <3> QED BY <1>1, <1>3, <3>2, <3>3, <3>4, <3>5
  <2> QED BY <2>1, <2>2, <2>3, <2>4 DEF PlaceInv
<1>5. CASE Tick
  <2>1. /\ UNCHANGED <<level, btn_state, now, i, pc>>
        /\ since'[i] = IF since[i] < MaxHold THEN since[i] + 1 ELSE MaxHold
        /\ Ago(now)' = Ago(now) + 1
        /\ pc = "release" => level[i] = 1 \/ since[i] < MaxHold
        /\ \/ timer > 0 /\ timer' = timer - 1 /\ lag' \in {lag, lag + 1}
           \/ timer' = timer /\ lag' = lag + 1
        /\ timer = 0 => timer' = 0 /\ lag' = lag + 1
        /\ timer > 0 /\ pc = "release" => lag' = lag
    BY <1>1, <1>5, AgesPass DEF Tick, Blocked
  <2>2. lag' \in 0 .. MaxLag /\ timer' \in 0 .. PollTicks
    BY DEF TypeOK
  <2>3. pc = "send" /\ level[i] = 0 => issued'[i] = issued[i]
    BY <1>1, <2>1, IssuedMoves DEF Confirming
  <2>4. pc = "release" => ReleaseLeft' = ReleaseLeft - 1
    BY <1>1, <2>1, <2>2, ButtonAssumption DEF ReleaseLeft
  <2>5. (pc \in {"receive", "now"} =>
          i = 0 /\ Ago(now) <= ScanTime(BtnCount) + (PollTicks - timer) + lag)'
    BY <1>1, <1>2, <2>1, <2>2, ButtonAssumption DEF PlaceInv
  <2>6. (pc \in {"scan", "send"} => Ago(now) <= ScanTime(i) + lag)'
    BY <1>1, <1>2, <2>1, <2>2, ButtonAssumption DEF PlaceInv
  <2>7. (pc = "send" => IF level[i] = 0 THEN issued[i] > 0 ELSE since[i] <= lag)'
    BY <1>1, <2>1, <2>2, <2>3, ButtonAssumption DEF PlaceInv
  <2>8. (pc = "release" =>
           /\ ~pending[i]
           /\ Ago(now) + ReleaseLeft <= ScanTime(i + 1)
           /\ level[i] = 1 => since[i] + timer <= PollTicks + lag)'
    <3> SUFFICES ASSUME pc = "release"
                 PROVE  /\ ~pending'[i]
                        /\ Ago(now)' + ReleaseLeft' <= ScanTime(i + 1)
                        /\ level[i] = 1 => since'[i] + timer' <= PollTicks + lag'
      BY <2>1
    <3>1. ~pending'[i] /\ Ago(now) + ReleaseLeft <= ScanTime(i + 1)
      BY <2>1 DEF PlaceInv, btn_state
    <3>2. level[i] = 1 => since'[i] + timer' <= PollTicks + lag'
      BY <1>1, <2>1, <2>2, ButtonAssumption DEF PlaceInv
    <3> QED BY <1>1, <1>3, <2>1, <2>4, <3>1, <3>2
  <2> QED BY <2>1, <2>5, <2>6, <2>7, <2>8 DEF PlaceInv
<1>6. CASE ReceiveEdge \/ ReceiveTimeout
  <2>1. /\ UNCHANGED <<tick, now, i, lag>> /\ timer' = 0
        /\ pc = "receive" /\ pc' = "now"
    BY <1>6 DEF ReceiveEdge, ReceiveTimeout
  <2>2. Ago(now)' = Ago(now)
    BY <2>1 DEF Ago
  <2> QED BY <1>1, <1>2, <2>1, <2>2, ButtonAssumption DEF PlaceInv
<1>7. CASE ReadNow
  <2>1. /\ tick' = tick /\ now' = tick /\ i' = 0 /\ timer' = timer /\ lag' = lag
        /\ pc = "now" /\ pc' = "scan"
    BY <1>7 DEF ReadNow
  <2>2. Ago(now)' = 0
    BY <1>1, <2>1, TimePasses DEF Ago, TypeOK
  <2> QED BY <1>1, <1>2, <2>1, <2>2, ButtonAssumption DEF PlaceInv
<1>8. CASE ScanIdle \/ ScanReleased \/ ScanTooSoon \/ Released
  <2>1. /\ Advance /\ UNCHANGED <<tick, now>>
        /\ pc = "scan" \/ (pc = "release" /\ timer = 0 /\ level[i] = 1)
    BY <1>8 DEF ScanIdle, ScanReleased, ScanTooSoon, Released
  <2>2. Ago(now)' = Ago(now)
    BY <2>1 DEF Ago
  <2>3. Ago(now) <= ScanTime(i + 1)
    <3>1. CASE pc = "scan"
      BY <1>1, <1>2, <3>1, ButtonAssumption DEF PlaceInv
    <3>2. CASE pc = "release" /\ timer = 0 /\ level[i] = 1
      BY <1>1, <1>2, <1>3, <3>2, ButtonAssumption DEF PlaceInv
    <3> QED BY <2>1, <3>1, <3>2
  <2>4. CASE pc' = "scan" /\ i' = i + 1 /\ i' \in Buttons /\ lag' = lag /\ timer' = 0
    BY <1>1, <1>2, <2>2, <2>3, <2>4, ButtonAssumption DEF PlaceInv
  <2>5. CASE /\ pc' = "receive" /\ i' = 0 /\ lag' = 0 /\ timer' = PollTicks
             /\ i + 1 = BtnCount
    BY <1>1, <1>2, <2>2, <2>3, <2>5, ButtonAssumption DEF PlaceInv
  <2> QED BY <1>1, <2>1, <2>4, <2>5, AdvanceMoves
<1>9. CASE Confirm
  <2>1. /\ UNCHANGED <<contacts, tick, now, i, timer, lag>> /\ pc = "scan" /\ pc' = "send"
        /\ level[i] = 0
    BY <1>9 DEF Confirm
  <2>2. Ago(now)' = Ago(now)
    BY <2>1 DEF Ago
  <2>3. issued'[i] > 0
    BY <1>1, <2>1, IssuedMoves DEF Confirming, contacts
  <2> QED BY <2>1, <2>2, <2>3 DEF PlaceInv, contacts
<1>10. CASE SendReturns
  <2>1. /\ UNCHANGED <<level, since, tick, now, i, lag>> /\ pc = "send" /\ pc' = "release"
        /\ timer' = 0 /\ ~pending'[i]
    BY <1>1, <1>10 DEF SendReturns, contacts, TypeOK
  <2>2. Ago(now)' = Ago(now)
    BY <2>1 DEF Ago
  <2>3. Ago(now) <= ScanTime(i) + lag /\ (level[i] = 1 => since[i] <= lag)
    BY <1>1, <2>1 DEF PlaceInv
  <2>4. ReleaseLeft' + lag <= ButtonTime /\ ReleaseLeft' \in Nat
    BY <1>1, <1>2, <2>1, ButtonAssumption DEF ReleaseLeft
  <2>5. Ago(now) + ReleaseLeft' <= ScanTime(i + 1)
    <3>1. Ago(now) <= ScanTime(i) + lag /\ ReleaseLeft' + lag <= ButtonTime
      BY <2>3, <2>4
    <3>2. /\ Ago(now) \in Nat /\ ReleaseLeft' \in Nat /\ lag \in Nat
          /\ ScanTime(i) \in Nat /\ ButtonTime \in Nat
      BY <1>1, <1>2, <2>4, ButtonAssumption
    <3> QED BY <1>2, <3>1, <3>2
  <2> QED BY <1>1, <2>1, <2>2, <2>3, <2>5, ButtonAssumption DEF PlaceInv
<1>11. CASE StillHeld
  <2>1. /\ UNCHANGED <<level, since, pending, tick, now, i, pc>> /\ pc = "release" /\ level[i] = 0
    BY <1>11 DEF StillHeld, contacts, btn_state
  <2>2. Ago(now)' = Ago(now) /\ ReleaseLeft' = ReleaseLeft
    BY <2>1 DEF Ago, ReleaseLeft
  <2> QED BY <2>1, <2>2 DEF PlaceInv
<1> QED
  BY <1>1, <1>4, <1>5, <1>6, <1>7, <1>8, <1>9, <1>10, <1>11 DEF Next, TaskStep

\* A button that is pending after a step was pending before it, since the same
\* tick, or its edge was received in it.
LEMMA PendingMoves ==
  ASSUME TypeOK, Next, NEW b \in Buttons, pending'[b]
  PROVE  /\ pending[b] => press_tick'[b] = press_tick[b]
         /\ ~pending[b] => ReceiveEdge /\ Head(button_queue) = b /\ press_tick'[b] = tick
<1>1. CASE ReceiveEdge
  <2>1. button_queue # <<>> /\ Head(button_queue) \in Buttons
    BY <1>1, HeadTailProperties DEF ReceiveEdge, TypeOK
  <2> QED BY <1>1, <2>1 DEF ReceiveEdge, TypeOK
<1>2. CASE ~ReceiveEdge
  BY <1>2 DEF Next, ContactStep, Press, LetGo, Bounce, Tick, TaskStep, ReceiveTimeout, ReadNow,
       ScanIdle, ScanReleased, ScanTooSoon, Confirm, SendReturns, StillHeld, Released, btn_state,
       TypeOK
<1> QED BY <1>1, <1>2

\* What a scan leaves pending at i is not yet LONG_PRESS_MS old.
LEMMA PassedOver ==
  ASSUME TypeOK, PlaceInv, AgeInv, NEW b \in Buttons, pending[b], pending'[b],
         ScanIdle \/ ScanReleased \/ ScanTooSoon \/ Released
  PROVE  /\ InPass
         /\ b = i => pc = "scan" /\ Ago(press_tick[b]) - Ago(now) < LongPress
<1>1. InPass
  BY DEF ScanIdle, ScanReleased, ScanTooSoon, Released, InPass
<1>2. ASSUME b = i PROVE pc = "scan" /\ Ago(press_tick[b]) - Ago(now) < LongPress
  <2>1. ScanTooSoon
    BY <1>2 DEF ScanIdle, ScanReleased, Released, PlaceInv, TypeOK
  <2>2. Elapsed(b) < LongPress
    BY <1>2, <2>1 DEF ScanTooSoon
  <2>3. Ago(now) <= Ago(press_tick[b])
    BY <1>1 DEF AgeInv, AgeClaim
  <2>4. Elapsed(b) = Ago(press_tick[b]) - Ago(now)
    BY <2>3, ElapsedIsBehind
  <2> QED BY <2>1, <2>2, <2>4 DEF ScanTooSoon
<1> QED BY <1>1, <1>2

LEMMA AgeInvStep ==
  ASSUME WaitAssumption, TypeOK, PlaceInv, AgeInv, Next
  PROVE  AgeInv'
<1> SUFFICES ASSUME NEW b \in Buttons, pending'[b] PROVE AgeClaim(b)'
  BY DEF AgeInv
<1>1. /\ i \in Buttons /\ pc \in Places
      /\ Ago(now) \in Nat /\ Ago(now) <= FullTime /\ FullTime \in Nat
  BY AgesBounded, TimesAreNumbers DEF TypeOK
<1>2. CASE ~pending[b]
  <2>1. /\ UNCHANGED <<tick, now>> /\ pc' = "now" /\ press_tick'[b] = tick
    BY <1>2, PendingMoves DEF ReceiveEdge
  <2>2. Ago(press_tick[b])' = 0 /\ Ago(now)' = Ago(now)
    BY <2>1, TimePasses DEF Ago, TypeOK
  <2> QED BY <1>1, <2>1, <2>2, ButtonAssumption DEF AgeClaim, InPass
<1>3. CASE pending[b]
  <2>1. /\ AgeClaim(b) /\ press_tick'[b] = press_tick[b]
        /\ Ago(press_tick[b]) \in Nat
    BY <1>3, PendingMoves, AgesBounded DEF AgeInv
  <2>2. CASE Tick
    <3>1. /\ UNCHANGED <<i, pc>> /\ InPass' = InPass
          /\ Ago(now)' = Ago(now) + 1 /\ Ago(press_tick[b])' = Ago(press_tick[b]) + 1
      BY <1>3, <2>2, AgesPass DEF Tick, InPass
    <3> QED BY <1>1, <2>1, <3>1, ButtonAssumption DEF AgeClaim
  <2>3. CASE ~Tick
    <3>1. tick' = tick /\ Ago(press_tick[b])' = Ago(press_tick[b])
      BY <2>1, <2>3, AgesPass
    <3>2. CASE ReadNow
      <4>1. now' = tick /\ i' = 0 /\ pc = "now" /\ pc' = "scan" /\ ~InPass /\ InPass'
        BY <3>2 DEF ReadNow, InPass
      <4>2. Ago(now)' = 0
        BY <3>1, <4>1, TimePasses DEF Ago, TypeOK
      <4>3. ~(b < 0)
        BY ButtonAssumption DEF Buttons
      <4> QED BY <1>1, <2>1, <3>1, <4>1, <4>2, <4>3, ButtonAssumption DEF AgeClaim
    <3>3. CASE ScanIdle \/ ScanReleased \/ ScanTooSoon \/ Released
      <4>1. /\ Advance /\ InPass /\ now' = now
            /\ b = i => Ago(press_tick[b]) - Ago(now) < LongPress
        BY <1>3, <3>3, PassedOver DEF ScanIdle, ScanReleased, ScanTooSoon, Released
      <4>2. Ago(now)' = Ago(now)
        BY <3>1, <4>1 DEF Ago
      <4>3. CASE pc' = "scan" /\ i' = i + 1
        BY <1>1, <2>1, <3>1, <4>1, <4>2, <4>3, ButtonAssumption DEF AgeClaim, InPass, Buttons
      <4>4. CASE pc' = "receive" /\ i + 1 = BtnCount
        <5>1. b < i \/ b = i
          BY <1>1, <4>4, ButtonAssumption DEF Buttons
        <5> QED BY <1>1, <2>1, <3>1, <4>1, <4>2, <4>4, <5>1, ButtonAssumption DEF AgeClaim, InPass
      <4> QED BY <4>1, <4>3, <4>4, AdvanceMoves
    <3>4. CASE ContactStep \/ ReceiveEdge \/ ReceiveTimeout \/ Confirm \/ SendReturns \/ StillHeld
      <4>1. i' = i /\ now' = now /\ InPass' = InPass
        BY <3>4 DEF ContactStep, Press, LetGo, Bounce, ReceiveEdge, ReceiveTimeout, Confirm,
             SendReturns, StillHeld, InPass
      <4>2. Ago(now)' = Ago(now)
        BY <3>1, <4>1 DEF Ago
      <4> QED BY <2>1, <3>1, <4>1, <4>2 DEF AgeClaim
    <3> QED BY <2>3, <3>2, <3>3, <3>4 DEF Next, TaskStep
  <2> QED BY <2>2, <2>3
<1> QED BY <1>2, <1>3

\* How the history of heard and waiting buttons changes.
LEMMA WaitedMoves ==
  ASSUME HistoryTypeOK, HistoryTypeOK', HNext, NEW b \in Buttons
  PROVE  /\ waited[b] \in Nat /\ waited'[b] \in Nat
         /\ heard'[b] => level'[b] = 0 /\ (heard[b] \/ Posting(b))
         /\ ~heard'[b] \/ issued'[b] > 0 => waited'[b] = 0
         /\ tick' = tick \/ pc = "release" => waited'[b] <= waited[b]
         /\ waited'[b] <= waited[b] + 1
<1>1. waited[b] \in Nat /\ waited'[b] \in Nat /\ issued'[b] \in Nat
  BY HistoryAssumption DEF HistoryTypeOK
<1>2. /\ heard'[b] = (level'[b] = 0 /\ (heard[b] \/ Posting(b)))
      /\ waited'[b] = CASE ~heard'[b] \/ issued'[b] > 0 -> 0
                        [] heard'[b] /\ issued'[b] = 0 /\ tick' # tick /\ pc # "release"
                             -> AtMost(waited[b] + 1, MaxWait + 1)
                        [] OTHER -> waited[b]
  BY DEF HNext, Observe
<1>3. AtMost(waited[b] + 1, MaxWait + 1) <= waited[b] + 1
  BY <1>1, HistoryAssumption DEF AtMost
<1>4. ~heard'[b] \/ issued'[b] > 0 => waited'[b] = 0
  BY <1>2
<1>5. \/ waited'[b] = 0
      \/ waited'[b] = waited[b]
      \/ tick' # tick /\ pc # "release" /\ waited'[b] = AtMost(waited[b] + 1, MaxWait + 1)
  BY <1>2
<1>6. heard'[b] => level'[b] = 0 /\ (heard[b] \/ Posting(b))
  BY <1>2
<1>7. /\ tick' = tick \/ pc = "release" => waited'[b] <= waited[b]
      /\ waited'[b] <= waited[b] + 1
  BY <1>1, <1>3, <1>5
<1> QED BY <1>1, <1>4, <1>6, <1>7

\* An edge is posted only by a contact, at the end of the queue.
LEMMA PostingMoves ==
  ASSUME TypeOK, TypeOK', Next, NEW b \in Buttons, Posting(b)
  PROVE  /\ ContactStep
         /\ Len(button_queue') \in DOMAIN button_queue'
         /\ Len(button_queue') \in 1 .. QueueLen
         /\ button_queue'[Len(button_queue')] = b
<1>1. button_queue \in Seq(Buttons) /\ button_queue' \in Seq(Buttons)
  BY DEF TypeOK
<1>2. ~ReceiveEdge
  <2>1. ReceiveEdge => Len(button_queue') = Len(button_queue) - 1
    BY <1>1, HeadTailProperties DEF ReceiveEdge
  <2> QED BY <1>1, <2>1 DEF Posting
<1>3. ContactStep
  BY <1>2 DEF Posting, Next, Tick, TaskStep, ReceiveTimeout, ReadNow, ScanIdle, ScanReleased,
       ScanTooSoon, Confirm, SendReturns, StillHeld, Released
<1>4. Len(button_queue') \in Nat /\ DOMAIN button_queue' = 1 .. Len(button_queue')
  BY <1>1, LenProperties
<1>5. Len(button_queue) \in Nat /\ Len(button_queue') <= QueueLen
  BY <1>1, LenProperties DEF TypeOK
<1>6. Len(button_queue') \in 1 .. Len(button_queue') /\ Len(button_queue') \in 1 .. QueueLen
  BY <1>4, <1>5, ButtonAssumption DEF Posting
<1> QED BY <1>3, <1>4, <1>6 DEF Posting

\* The queue keeps its order: it loses its head to a receive and else only grows.
LEMMA QueueMoves ==
  ASSUME TypeOK, TypeOK', Next, NEW k \in DOMAIN button_queue
  PROVE  /\ ReceiveEdge /\ k > 1 =>
              k - 1 \in DOMAIN button_queue' /\ button_queue'[k - 1] = button_queue[k]
         /\ ~ReceiveEdge => k \in DOMAIN button_queue' /\ button_queue'[k] = button_queue[k]
         /\ k \in 1 .. QueueLen
         /\ button_queue # <<>> /\ Head(button_queue) = button_queue[1]
<1>1. /\ button_queue \in Seq(Buttons) /\ k \in 1 .. Len(button_queue)
      /\ Len(button_queue) \in Nat /\ Len(button_queue) <= QueueLen
  BY LenProperties DEF TypeOK
<1>2. ASSUME ReceiveEdge, k > 1
      PROVE  k - 1 \in DOMAIN button_queue' /\ button_queue'[k - 1] = button_queue[k]
  BY <1>1, <1>2, HeadTailProperties DEF ReceiveEdge
<1>3. ASSUME NEW b \in Buttons, PostEdge(b)
      PROVE  k \in DOMAIN button_queue' /\ button_queue'[k] = button_queue[k]
  BY <1>1, <1>3, AppendProperties DEF PostEdge
<1>4. ~ReceiveEdge => k \in DOMAIN button_queue' /\ button_queue'[k] = button_queue[k]
  BY <1>1, <1>3 DEF Next, ContactStep, Press, LetGo, Bounce, Tick, TaskStep, ReceiveTimeout,
       ReadNow, ScanIdle, ScanReleased, ScanTooSoon, Confirm, SendReturns, StillHeld, Released
<1> QED BY <1>1, <1>2, <1>4, ButtonAssumption

\* The lag of a pass grows with the ticks the task is not asleep, and is never
\* more than that of a whole pass.
LEMMA PassLagGrows ==
  ASSUME TypeOK, TypeOK', PlaceInv, Next
  PROVE  /\ PassLag \in 0 .. FullLag /\ PassLag' \in Nat
         /\ pc \notin {"scan", "release"} \/ pc' # "receive" => PassLag <= PassLag'
         /\ Tick /\ pc # "release" => PassLag' = PassLag + (lag' - lag)
<1>1. /\ i \in Buttons /\ lag \in 0 .. MaxLag /\ i' \in Buttons /\ lag' \in 0 .. MaxLag
      /\ pc \in Places
  BY DEF TypeOK
<1>2. /\ ScanLag(i) \in Nat /\ ScanLag(i') \in Nat /\ FullLag \in Nat
      /\ ScanLag(i + 1) = ScanLag(i) + MaxLag
      /\ ScanLag(i + 1) <= FullLag
  <2>1. i \in 0 .. BtnCount /\ i + 1 \in 0 .. BtnCount /\ i' \in 0 .. BtnCount
    BY <1>1, ButtonAssumption DEF Buttons
  <2> QED BY <2>1, ScanGrows, TimesAreNumbers
<1>3. PassLag \in 0 .. FullLag /\ PassLag' \in Nat
  BY <1>1, <1>2, ButtonAssumption DEF PassLag
<1>4. CASE ContactStep \/ Tick
  <2>1. UNCHANGED <<i, pc>> /\ lag' >= lag
    BY <1>1, <1>4, ButtonAssumption DEF ContactStep, Press, LetGo, Bounce, Tick
  <2> QED BY <1>1, <1>2, <1>3, <2>1, ButtonAssumption DEF PassLag
<1>5. CASE ~(ContactStep \/ Tick) /\ ~(ScanIdle \/ ScanReleased \/ ScanTooSoon \/ Released)
  <2>1. /\ i' = i
        /\ \/ lag' = lag /\ pc # "release" /\ pc' # "release"
           \/ pc' = "release"
    BY <1>5 DEF PlaceInv, Next, TaskStep, ReceiveEdge, ReceiveTimeout, ReadNow, Confirm,
         SendReturns, StillHeld
  <2> QED BY <1>1, <1>2, <1>3, <1>5, <2>1, ButtonAssumption DEF PassLag
<1>6. CASE ~(ContactStep \/ Tick) /\ (ScanIdle \/ ScanReleased \/ ScanTooSoon \/ Released)
  <2>1. Advance /\ pc \in {"scan", "release"}
    BY <1>6 DEF ScanIdle, ScanReleased, ScanTooSoon, Released
  <2>2. pc' # "receive" => pc' = "scan" /\ i' = i + 1 /\ lag' = lag
    BY <2>1, AdvanceMoves
  <2> QED BY <1>1, <1>2, <1>3, <1>6, <2>1, <2>2, ButtonAssumption DEF PassLag
<1> QED BY <1>4, <1>5, <1>6

\* An edge in the queue moves up, and one that is not taken waits no longer than
\* the passes that remain to it.
LEMMA EdgeStillWaits ==
  ASSUME HistoryTypeOK, HistoryTypeOK', PlaceInv, HNext,
         NEW b \in Buttons, EdgeWaits(b), ~pending'[b]
  PROVE  EdgeWaits(b)'
<1>1. /\ TypeOK /\ TypeOK' /\ Next
      /\ lag \in 0 .. MaxLag /\ lag' \in 0 .. MaxLag /\ timer \in 0 .. PollTicks
      /\ pc \in Places /\ FullLag \in Nat
  BY TimesAreNumbers DEF HistoryTypeOK, TypeOK, HNext
<1>2. PICK w \in Nat : w = waited'[b]
  BY WaitedMoves
<1>3. PICK p \in Nat : p = PassLag'
  BY <1>1, PassLagGrows
<1>4. /\ waited[b] \in Nat /\ w <= waited[b] + 1
      /\ tick' = tick \/ pc = "release" => w <= waited[b]
  BY <1>2, WaitedMoves
<1>5. /\ PassLag \in 0 .. FullLag
      /\ pc \notin {"scan", "release"} \/ pc' # "receive" => PassLag <= p
      /\ Tick /\ pc # "release" => p = PassLag + (lag' - lag)
  BY <1>1, <1>3, PassLagGrows
<1>6. SinceQueue = IF pc = "receive" THEN PassLag + FullLag ELSE PassLag
  BY DEF SinceQueue
<1>7. PICK r \in Nat : r = SinceQueue' /\ r = IF pc' = "receive" THEN p + FullLag ELSE p
  <2> DEFINE s == IF pc' = "receive" THEN p + FullLag ELSE p
  <2>1. s \in Nat
    BY <1>1
  <2>2. s = SinceQueue'
    BY <1>3, Zenon DEF SinceQueue
  <2> QED BY <2>1, <2>2
<1>8. SinceQueue \in Nat
  BY <1>1, <1>5, <1>6
<1>9. PICK k \in DOMAIN button_queue :
        button_queue[k] = b /\ waited[b] + QueueLag(k) <= QueueLag(QueueLen) + SinceQueue
  BY DEF EdgeWaits
<1>10. /\ k \in 1 .. QueueLen /\ QueueLag(QueueLen) \in Nat
       /\ button_queue # <<>> /\ Head(button_queue) = button_queue[1]
  BY <1>1, QueueMoves, TimesAreNumbers
<1>11. QueueLag(k) \in Nat /\ QueueLag(k - 1) \in Nat /\ QueueLag(k) = QueueLag(k - 1) + FullLag
  <2>1. k - 1 \in Nat /\ k \in Nat /\ (k - 1) + 1 = k
    BY <1>10, ButtonAssumption
  <2> QED BY <2>1, QueueGrows
<1>12. SUFFICES \E m \in DOMAIN button_queue' :
        button_queue'[m] = b /\ w + QueueLag(m) <= QueueLag(QueueLen) + r
  BY <1>2, <1>7 DEF EdgeWaits
<1>13. CASE ReceiveEdge
  <2>1. /\ pc = "receive" /\ pc' = "now" /\ tick' = tick
        /\ button_queue # <<>> /\ pending'[Head(button_queue)]
    BY <1>1, <1>10, <1>13, HeadTailProperties DEF ReceiveEdge, TypeOK
  <2>2. k > 1
    BY <1>9, <1>10, <2>1
  <2>3. k - 1 \in DOMAIN button_queue' /\ button_queue'[k - 1] = b
    BY <1>1, <1>9, <1>13, <2>2, QueueMoves
  <2>4. SinceQueue = PassLag + FullLag /\ r = p /\ PassLag <= p
    BY <1>5, <1>6, <1>7, <2>1
  <2>5. w + QueueLag(k - 1) <= QueueLag(QueueLen) + r
    <3>1. w <= waited[b]
      BY <1>4, <2>1
    <3>2. FullLag \in Nat /\ PassLag \in Nat
      BY <1>1, <1>5
    <3> QED BY <1>4, <1>9, <1>10, <1>11, <2>4, <3>1, <3>2
  <2> QED BY <2>3, <2>5
<1>14. CASE ~ReceiveEdge
  <2>1. k \in DOMAIN button_queue' /\ button_queue'[k] = b
    BY <1>1, <1>9, <1>14, QueueMoves
  <2>2. (w <= waited[b] /\ SinceQueue <= r) \/ (w <= waited[b] + 1 /\ SinceQueue + 1 <= r)
    <3>1. CASE Tick /\ pc # "release"
      <4>1. pc' = pc /\ lag' = lag + 1
        BY <1>1, <1>10, <3>1, ButtonAssumption DEF Tick, Blocked, PlaceInv, Places
      <4>2. p = PassLag + 1
        BY <1>1, <1>5, <3>1, <4>1
      <4> QED BY <1>1, <1>4, <1>5, <1>6, <1>7, <4>1, <4>2
    <3>2. CASE ~(Tick /\ pc # "release")
      <4>1. tick' = tick \/ pc = "release"
        BY <1>1, <3>2 DEF Next, ContactStep, Press, LetGo, Bounce, TaskStep, ReceiveEdge,
             ReceiveTimeout, ReadNow, ScanIdle, ScanReleased, ScanTooSoon, Confirm, SendReturns,
             StillHeld, Released
      <4>2. pc = "receive" => pc' = "receive"
        BY <1>1, <1>10, <1>14, <3>2 DEF Next, ContactStep, Press, LetGo, Bounce, Tick, TaskStep,
             ReceiveTimeout, ReadNow, ScanIdle, ScanReleased, ScanTooSoon, Confirm, SendReturns,
             StillHeld, Released
      <4>3. SinceQueue <= r
        BY <1>1, <1>5, <1>6, <1>7, <4>2
      <4> QED BY <1>4, <4>1, <4>3
    <3> QED BY <3>1, <3>2
  <2>3. w + QueueLag(k) <= QueueLag(QueueLen) + r
    BY <1>4, <1>8, <1>9, <1>10, <1>11, <2>2
  <2> QED BY <2>1, <2>3
<1> QED BY <1>13, <1>14

\* An edge that is taken has waited no longer than the whole queue takes.
LEMMA EdgeTaken ==
  ASSUME HistoryTypeOK, HistoryTypeOK', PlaceInv, HNext,
         NEW b \in Buttons, EdgeWaits(b), ~pending[b], pending'[b]
  PROVE  PressWaits(b)'
<1>1. /\ TypeOK /\ Next
      /\ lag \in 0 .. MaxLag /\ i \in Buttons
      /\ waited[b] \in Nat /\ waited'[b] \in Nat
      /\ tick' = tick \/ pc = "release" => waited'[b] <= waited[b]
  BY WaitedMoves DEF HistoryTypeOK, TypeOK, HNext
<1>2. /\ UNCHANGED <<tick, lag>> /\ timer' = 0 /\ pc = "receive" /\ pc' = "now" /\ i = 0
      /\ press_tick'[b] = tick
  BY <1>1, PendingMoves DEF ReceiveEdge, PlaceInv
<1>3. Ago(press_tick[b])' = 0
  BY <1>1, <1>2, TimePasses DEF Ago, TypeOK
<1>4. PassLag = lag
  BY <1>1, <1>2, ScanGrows, ButtonAssumption DEF PassLag
<1>5. PICK k \in DOMAIN button_queue : waited[b] + QueueLag(k) <= QueueLag(QueueLen) + lag + FullLag
  <2>1. lag + FullLag \in Nat
    BY <1>1, TimesAreNumbers, ButtonAssumption
  <2> QED BY <1>1, <1>2, <1>4, <2>1, TimesAreNumbers, ButtonAssumption DEF EdgeWaits, SinceQueue
<1>6. QueueLag(k) >= FullLag /\ QueueLag(k) \in Nat
  <2>1. k \in Nat /\ k >= 1
    BY <1>1, LenProperties DEF TypeOK
  <2> QED BY <2>1, QueueGrows
<1>7. waited'[b] <= TakenWithin
  BY <1>1, <1>2, <1>5, <1>6, TimesAreNumbers, ButtonAssumption
<1> QED
  BY <1>1, <1>2, <1>3, <1>7, TimesAreNumbers, ButtonAssumption DEF PressWaits, InPass

\* A time since a tick is a number.
LEMMA TicksAreNumbers ==
  ASSUME NEW s \in Ticks, NEW t \in Ticks
  PROVE  (s - t + TickMod) % TickMod \in Nat
BY TickDifference, ButtonAssumption DEF Ticks

\* A press that is noted waits no longer than LONG_PRESS_MS and what is left of
\* the pass in which it comes of age.
LEMMA PressStillWaits ==
  ASSUME WaitAssumption, HistoryTypeOK, HistoryTypeOK', PlaceInv, AgeInv, HNext,
         NEW b \in Buttons, PressWaits(b), pending[b], pending'[b]
  PROVE  PressWaits(b)'
<1> DEFINE A == Ago(press_tick[b])
           N == Ago(now)
<1>1. /\ TypeOK /\ TypeOK' /\ Next
      /\ lag \in 0 .. MaxLag /\ timer \in 0 .. PollTicks /\ pc \in Places
      /\ i \in Buttons
  BY DEF HistoryTypeOK, TypeOK, HNext
<1>2. /\ FullLag \in Nat /\ TakenWithin \in Nat /\ A \in Nat /\ N \in Nat
      /\ waited[b] \in Nat /\ PassLag \in 0 .. FullLag
      /\ LongPress \in Nat \ {0} /\ PollTicks \in Nat /\ MaxLag \in Nat
  BY <1>1, TimesAreNumbers, AgesBounded, WaitedMoves, PassLagGrows, ButtonAssumption
<1>3. PICK w \in Nat : w = waited'[b]
  BY WaitedMoves
<1>4. PICK p \in Nat : p = PassLag'
  BY <1>1, PassLagGrows
<1>5. PICK a \in Nat : a = Ago(press_tick[b])'
  BY <1>1, TicksAreNumbers DEF TypeOK, Ago
<1>6. PICK n \in Nat : n = Ago(now)'
  BY <1>1, TicksAreNumbers DEF TypeOK, Ago
<1>7. PICK t \in 0 .. PollTicks : t = timer'
  BY <1>1 DEF TypeOK
<1>8. PICK l \in 0 .. MaxLag : l = lag'
  BY <1>1 DEF TypeOK
<1>9. PICK j \in Buttons : j = i'
  BY <1>1 DEF TypeOK
<1>10. SUFFICES
        /\ w <= TakenWithin + a
        /\ ~InPass' => w < TakenWithin + LongPress + FullLag + (PollTicks - t) + l
        /\ InPass' /\ b < j => w < TakenWithin + LongPress + p
        /\ InPass' /\ b >= j =>
             /\ w < TakenWithin + LongPress + FullLag + PollTicks + p
             /\ w <= TakenWithin + (a - n) + p
  BY <1>3, <1>4, <1>5, <1>6, <1>7, <1>8, <1>9, Zenon DEF PressWaits
<1>11. /\ w <= waited[b] + 1
       /\ tick' = tick \/ pc = "release" => w <= waited[b]
  BY <1>3, WaitedMoves
<1>12. /\ pc \notin {"scan", "release"} \/ pc' # "receive" => PassLag <= p
       /\ Tick /\ pc # "release" => p = PassLag + (l - lag)
  BY <1>1, <1>4, <1>8, PassLagGrows
<1>13. /\ waited[b] <= TakenWithin + A
       /\ ~InPass => waited[b] < TakenWithin + LongPress + FullLag + (PollTicks - timer) + lag
       /\ InPass /\ b < i => waited[b] < TakenWithin + LongPress + PassLag
       /\ InPass /\ b >= i =>
            /\ waited[b] < TakenWithin + LongPress + FullLag + PollTicks + PassLag
            /\ waited[b] <= TakenWithin + (A - N) + PassLag
  BY DEF PressWaits
<1>14. press_tick'[b] = press_tick[b]
  BY <1>1, PendingMoves
<1>15. CASE Tick
  <2>1. a = A + 1 /\ n = N + 1
    BY <1>1, <1>5, <1>6, <1>15, AgesPass
  <2>2. /\ InPass' = InPass /\ pc' = pc /\ j = i
        /\ \/ timer > 0 /\ t = timer - 1 /\ l \in {lag, lag + 1}
           \/ t = timer /\ l = lag + 1
        /\ timer = 0 => l = lag + 1
    BY <1>1, <1>7, <1>8, <1>9, <1>15 DEF Tick, Blocked, InPass
  <2>3. PassLag <= p
    <3>1. pc' # "receive" \/ pc = "receive"
      BY <2>2
    <3> QED BY <1>12, <3>1
  <2>4. InPass => w <= waited[b] \/ p = PassLag + 1
    <3>1. pc \in {"scan", "send"} => timer = 0
      BY DEF PlaceInv
    <3>2. pc \in {"scan", "send"} => p = PassLag + 1
      BY <1>1, <1>2, <1>12, <1>15, <2>2, <3>1
    <3> QED BY <1>11, <3>2 DEF InPass
  <2>5. CASE InPass
    BY <1>2, <1>9, <1>11, <1>13, <2>1, <2>2, <2>3, <2>4, <2>5
  <2>6. CASE ~InPass
    <3>1. ~InPass' /\ (PollTicks - t) + l >= (PollTicks - timer) + lag + 1
      BY <1>1, <1>2, <1>7, <1>8, <2>2, <2>6
    <3>2. w < TakenWithin + LongPress + FullLag + (PollTicks - t) + l
      <4>1. waited[b] < TakenWithin + LongPress + FullLag + (PollTicks - timer) + lag
        BY <1>13, <2>6
      <4> QED BY <1>1, <1>2, <1>11, <3>1, <4>1
    <3> QED BY <1>2, <1>11, <1>13, <2>1, <3>1, <3>2
  <2> QED BY <2>5, <2>6
<1>16. CASE ~Tick
  <2>1. tick' = tick /\ a = A /\ (now' = now => n = N)
    BY <1>1, <1>5, <1>6, <1>14, <1>16, AgesPass
  <2>2. w <= waited[b]
    BY <1>11, <2>1
  <2>3. CASE ReadNow
    <3>1. /\ now' = tick /\ j = 0 /\ i = 0 /\ l = lag /\ timer = 0
          /\ pc = "now" /\ pc' = "scan"
      BY <1>8, <1>9, <2>3 DEF ReadNow, PlaceInv
    <3>2. n = 0
      BY <1>1, <1>6, <2>1, <3>1, TimePasses DEF Ago, TypeOK
    <3>3. p = lag
      <4>1. ScanLag(0) = 0
        BY ScanGrows, ButtonAssumption
      <4>2. p = ScanLag(0) + lag
        BY <1>4, <1>8, <1>9, <3>1 DEF PassLag
      <4> QED BY <1>1, <4>1, <4>2
    <3>4. ~InPass /\ InPass' /\ ~(b < 0)
      BY <3>1, ButtonAssumption DEF InPass, Buttons
    <3> QED BY <1>1, <1>2, <1>13, <2>1, <2>2, <3>1, <3>2, <3>3, <3>4
  <2>4. CASE ScanIdle \/ ScanReleased \/ ScanTooSoon \/ Released
    <3>1. InPass /\ (b = i => A - N < LongPress)
      BY <1>1, <2>4, PassedOver
    <3>2. Advance /\ now' = now /\ pc \in {"scan", "release"}
      BY <2>4 DEF ScanIdle, ScanReleased, ScanTooSoon, Released
    <3>3. b \in Int /\ i \in Int /\ b < BtnCount
      BY <1>1, ButtonAssumption DEF Buttons
    <3>4. CASE pc' = "scan" /\ i' = i + 1
      <4>1. InPass' /\ j = i + 1 /\ PassLag <= p
        BY <1>9, <1>12, <3>4 DEF InPass
      <4> QED BY <1>2, <1>13, <2>1, <2>2, <3>1, <3>2, <3>3, <4>1
    <3>5. CASE /\ pc' = "receive" /\ i + 1 = BtnCount /\ lag' = 0 /\ timer' = PollTicks
      <4>1. ~InPass' /\ l = 0 /\ t = PollTicks
        BY <1>7, <1>8, <3>5 DEF InPass
      <4>2. b < i \/ b = i
        BY <3>3, <3>5, ButtonAssumption
      <4> QED BY <1>2, <1>13, <2>1, <2>2, <3>1, <3>3, <4>1, <4>2
    <3> QED BY <1>1, <3>2, <3>4, <3>5, AdvanceMoves
  <2>5. CASE ReceiveEdge \/ ReceiveTimeout
    <3>1. l = lag /\ t = 0 /\ ~InPass /\ ~InPass'
      BY <1>7, <1>8, <2>5 DEF ReceiveEdge, ReceiveTimeout, InPass
    <3> QED BY <1>1, <1>2, <1>13, <2>1, <2>2, <3>1
  <2>6. CASE ContactStep \/ Confirm \/ SendReturns \/ StillHeld
    <3>1. /\ j = i /\ now' = now /\ InPass' = InPass
          /\ ~InPass => t = timer /\ l = lag
          /\ PassLag <= p
      BY <1>7, <1>8, <1>9, <1>12, <2>6 DEF ContactStep, Press, LetGo, Bounce, Confirm, SendReturns,
         StillHeld, InPass
    <3> QED BY <1>1, <1>2, <1>13, <2>1, <2>2, <3>1
  <2> QED BY <1>1, <1>16, <2>3, <2>4, <2>5, <2>6 DEF Next, TaskStep
<1> QED BY <1>15, <1>16

\* The scan gives up a press only when its button is up, or has its command.
LEMMA PressKept ==
  ASSUME TypeOK, PlaceInv, Next, NEW b \in Buttons,
         level[b] = 0, issued[b] = 0, pending[b]
  PROVE  pending'[b]
<1>1. CASE ReceiveEdge \/ ScanReleased \/ SendReturns
  <2>1. SendReturns => b # i
    BY DEF SendReturns, PlaceInv
  <2> QED BY <1>1, <2>1 DEF ReceiveEdge, ScanReleased, SendReturns, TypeOK
<1>2. CASE ~(ReceiveEdge \/ ScanReleased \/ SendReturns)
  BY <1>2 DEF Next, ContactStep, Press, LetGo, Bounce, Tick, TaskStep, ReceiveTimeout, ReadNow,
       ScanIdle, ScanTooSoon, Confirm, StillHeld, Released, btn_state
<1> QED BY <1>1, <1>2

\* A hold that is heard of only now waits behind the queue, or behind a press
\* of the same button that is still noted.
LEMMA FirstHeard ==
  ASSUME HistoryTypeOK, HistoryTypeOK', PlaceInv, AgeInv, AgeInv', HNext,
         NEW b \in Buttons, Posting(b), waited'[b] = 0
  PROVE  IF pending'[b] THEN PressWaits(b)' ELSE EdgeWaits(b)'
<1>1. TypeOK /\ TypeOK' /\ Next
  BY DEF HistoryTypeOK, HNext
<1>2. PICK p \in Nat : p = PassLag'
  BY <1>1, PassLagGrows
<1>3. CASE pending'[b]
  <2>1. PICK a \in Nat : a = Ago(press_tick[b])'
    BY <1>1, TicksAreNumbers DEF TypeOK, Ago
  <2>2. PICK n \in Nat : n = Ago(now)'
    BY <1>1, TicksAreNumbers DEF TypeOK, Ago
  <2>3. InPass' => n <= a
    BY <1>3, <2>1, <2>2 DEF AgeInv, AgeClaim
  <2>4. PICK t \in 0 .. PollTicks : t = timer'
    BY <1>1 DEF TypeOK
  <2>5. PICK l \in 0 .. MaxLag : l = lag'
    BY <1>1 DEF TypeOK
  <2>6. SUFFICES
        /\ 0 <= TakenWithin + a
        /\ ~InPass' => 0 < TakenWithin + LongPress + FullLag + (PollTicks - t) + l
        /\ InPass' /\ b < i' => 0 < TakenWithin + LongPress + p
        /\ InPass' /\ b >= i' =>
             /\ 0 < TakenWithin + LongPress + FullLag + PollTicks + p
             /\ 0 <= TakenWithin + (a - n) + p
    BY <1>2, <1>3, <2>1, <2>2, <2>4, <2>5, Zenon DEF PressWaits
  <2> QED BY <2>3, TimesAreNumbers, ButtonAssumption
<1>4. CASE ~pending'[b]
  <2>1. PICK k \in 1 .. QueueLen : k \in DOMAIN button_queue' /\ button_queue'[k] = b
    BY <1>1, PostingMoves
  <2>2. QueueLag(k) \in Nat /\ QueueLag(k) <= QueueLag(QueueLen)
    BY QueueGrows, ButtonAssumption
  <2>3. PICK r \in Nat : r = SinceQueue'
    <3>1. p + FullLag \in Nat
      BY TimesAreNumbers
    <3>2. SinceQueue' = p + FullLag \/ SinceQueue' = p
      BY <1>2, Zenon DEF SinceQueue
    <3> QED BY <3>1, <3>2
  <2>4. 0 + QueueLag(k) <= QueueLag(QueueLen) + r
    BY <2>2, TimesAreNumbers
  <2> QED BY <1>4, <2>1, <2>3, <2>4, Zenon DEF EdgeWaits
<1> QED BY <1>3, <1>4

LEMMA WaitInvStep ==
  ASSUME WaitAssumption, HistoryTypeOK, HistoryTypeOK', PlaceInv, AgeInv, AgeInv', WaitInv, HNext
  PROVE  WaitInv'
<1> SUFFICES ASSUME NEW b \in Buttons PROVE WaitClaim(b)'
  BY DEF WaitInv
<1>1. TypeOK /\ TypeOK' /\ Next /\ WaitClaim(b)
  BY DEF HistoryTypeOK, HNext, WaitInv
<1>2. /\ waited'[b] \in Nat
      /\ heard'[b] => level'[b] = 0 /\ (heard[b] \/ Posting(b))
      /\ ~heard'[b] \/ issued'[b] > 0 => waited'[b] = 0
  BY WaitedMoves
<1>3. issued'[b] \in Nat /\ issued[b] \in Nat
  BY DEF HistoryTypeOK
<1>4. CASE ~(heard'[b] /\ issued'[b] = 0)
  <2>1. waited'[b] = 0
    BY <1>2, <1>3, <1>4
  <2> QED BY <1>2, <1>4, <2>1 DEF WaitClaim
<1>5. CASE heard'[b] /\ issued'[b] = 0
  <2>1. level'[b] = 0 /\ (heard[b] \/ Posting(b))
    BY <1>2, <1>5
  <2>2. issued[b] = 0
    BY <1>3, <1>5, <2>1, IssuedMoves
  <2>3. CASE ~heard[b]
    <3>1. ContactStep /\ Posting(b)
      BY <1>1, <2>1, <2>3, PostingMoves
    <3>2. tick' = tick
      BY <3>1 DEF ContactStep, Press, LetGo, Bounce
    <3>3. waited[b] = 0
      BY <1>1, <2>3 DEF WaitClaim
    <3>4. waited'[b] = 0
      BY <1>2, <3>2, <3>3, WaitedMoves
    <3> QED BY <1>5, <2>1, <3>1, <3>4, FirstHeard DEF WaitClaim
  <2>4. CASE heard[b] /\ pending[b]
    <3>1. PressWaits(b) /\ level[b] = 0
      BY <1>1, <2>2, <2>4 DEF WaitClaim
    <3>2. pending'[b]
      BY <1>1, <2>2, <2>4, <3>1, PressKept
    <3>3. PressWaits(b)'
      BY <2>4, <3>1, <3>2, PressStillWaits
    <3> QED BY <1>5, <2>1, <3>2, <3>3 DEF WaitClaim
  <2>5. CASE heard[b] /\ ~pending[b]
    <3>1. EdgeWaits(b)
      BY <1>1, <2>2, <2>5 DEF WaitClaim
    <3>2. CASE pending'[b]
      BY <1>5, <2>1, <2>5, <3>1, <3>2, EdgeTaken DEF WaitClaim
    <3>3. CASE ~pending'[b]
      BY <1>5, <2>1, <3>1, <3>3, EdgeStillWaits DEF WaitClaim
    <3> QED BY <3>2, <3>3
  <2> QED BY <2>3, <2>4, <2>5
<1> QED BY <1>4, <1>5

\* What is claimed of a waiting hold bounds its wait.
LEMMA WaitIsShort ==
  ASSUME WaitAssumption, HistoryTypeOK, PlaceInv, WaitInv, NEW b \in Buttons
  PROVE  waited[b] <= MaxWait
<1>1. lag \in 0 .. MaxLag /\ timer \in 0 .. PollTicks /\ waited[b] \in Nat
  BY HistoryAssumption DEF HistoryTypeOK, TypeOK
<1>2. /\ TakenWithin = QueueLag(QueueLen) + MaxLag /\ QueueLag(QueueLen) \in Nat
      /\ TakenWithin \in Nat /\ FullLag \in Nat /\ MaxLag <= FullLag
      /\ LongPress \in Nat \ {0} /\ PollTicks \in Nat /\ MaxLag \in Nat
  BY TimesAreNumbers, ButtonAssumption
<1>3. i \in Int /\ b \in Int /\ PassLag \in 0 .. FullLag
  <2>1. i \in 0 .. BtnCount /\ i + 1 \in 0 .. BtnCount /\ b \in Int
    BY ButtonAssumption DEF HistoryTypeOK, TypeOK, Buttons
  <2>2. /\ ScanLag(i) \in Nat /\ ScanLag(i + 1) = ScanLag(i) + MaxLag
        /\ ScanLag(i + 1) <= FullLag
    BY <2>1, ScanGrows
  <2>3. PassLag = ScanLag(i) + MaxLag \/ PassLag = ScanLag(i) + lag
    BY DEF PassLag
  <2> QED BY <1>1, <1>2, <2>1, <2>2, <2>3
<1>4. MaxWait \in Nat /\ MaxWait + 1 >= TakenWithin + LongPress + PollTicks + 2 * FullLag
  BY <1>2, HistoryAssumption DEF WaitAssumption
<1>5. CASE PressWaits(b)
  <2>1. CASE InPass
    <3>1. \/ waited[b] < TakenWithin + LongPress + PassLag
          \/ waited[b] < TakenWithin + LongPress + FullLag + PollTicks + PassLag
      <4>1. b < i \/ b >= i
        BY <1>3
      <4> QED BY <1>5, <2>1, <4>1 DEF PressWaits
    <3> QED BY <1>1, <1>2, <1>3, <1>4, <3>1
  <2>2. CASE ~InPass
    <3>1. waited[b] < TakenWithin + LongPress + FullLag + (PollTicks - timer) + lag
      BY <1>5, <2>2 DEF PressWaits
    <3> QED BY <1>1, <1>2, <1>4, <3>1
  <2> QED BY <2>1, <2>2
<1>6. CASE EdgeWaits(b)
  <2>1. PICK k \in DOMAIN button_queue : waited[b] + QueueLag(k) <= QueueLag(QueueLen) + SinceQueue
    BY <1>6 DEF EdgeWaits
  <2>2. k \in Nat /\ k >= 1
    <3>1. button_queue \in Seq(Buttons)
      BY DEF HistoryTypeOK, TypeOK
    <3>2. DOMAIN button_queue = 1 .. Len(button_queue) /\ Len(button_queue) \in Nat
      BY <3>1, LenProperties
    <3> QED BY <3>2
  <2>3. QueueLag(k) \in Nat /\ QueueLag(k) >= FullLag
    BY <2>2, QueueGrows
  <2>4. SinceQueue \in Nat /\ SinceQueue <= PassLag + FullLag
    BY <1>2, <1>3 DEF SinceQueue
  <2> QED BY <1>1, <1>2, <1>3, <1>4, <2>1, <2>3, <2>4
<1>7. CASE waited[b] = 0
  BY <1>4, <1>7
<1> QED BY <1>5, <1>6, <1>7 DEF WaitInv, WaitClaim

\* A hold whose edge got into the queue is confirmed within MaxWait ticks of
\* task time: bounces do not re-arm its timer and stale edges do not starve it.
THEOREM HeardIsPrompt ==
  ASSUME TimingAssumption, WaitAssumption
  PROVE  HSpec => []PromptCommand
<1> DEFINE IInv == PlaceInv /\ AgeInv /\ WaitInv
<1>1. HInit => IInv
  <2> SUFFICES ASSUME HInit PROVE IInv
    OBVIOUS
  <2>1. /\ pc = "receive" /\ i = 0 /\ lag = 0 /\ timer = PollTicks /\ tick = 0 /\ now = 0
        /\ \A b \in Buttons : ~pending[b] /\ ~heard[b] /\ waited[b] = 0
    BY DEF HInit, Init
  <2>2. Ago(now) = 0
    BY <2>1, TickDifference, ButtonAssumption DEF Ago, Ticks
  <2>3. PlaceInv
    BY <2>1, <2>2, TimesAreNumbers, ButtonAssumption DEF PlaceInv
  <2> QED BY <2>1, <2>3 DEF AgeInv, WaitInv, WaitClaim
<1>2. HistoryTypeOK /\ HistoryTypeOK' /\ IInv /\ [HNext]_hvars => IInv'
  <2>1. ASSUME IInv, UNCHANGED hvars PROVE IInv'
    <3>1. PlaceInv'
      BY <2>1 DEF hvars, vars, history, PlaceInv, Ago, ReleaseLeft
    <3>2. AgeInv'
      BY <2>1 DEF hvars, vars, history, AgeInv, AgeClaim, InPass, Ago
    <3>3. WaitInv'
      BY <2>1 DEF hvars, vars, history, WaitInv, WaitClaim, EdgeWaits, PressWaits, InPass, Ago,
           SinceQueue, PassLag
    <3> QED BY <3>1, <3>2, <3>3
  <2>2. ASSUME HistoryTypeOK, HistoryTypeOK', IInv, HNext PROVE IInv'
    <3>1. TypeOK /\ TypeOK' /\ Next
      BY <2>2 DEF HistoryTypeOK, HNext
    <3>2. PlaceInv'
      BY <2>2, <3>1, PlaceInvStep
    <3>3. AgeInv'
      BY <2>2, <3>1, AgeInvStep
    <3>4. WaitInv'
      BY <2>2, <3>3, WaitInvStep
    <3> QED BY <3>2, <3>3, <3>4
  <2> QED BY <2>1, <2>2
<1>3. HistoryTypeOK /\ IInv => PromptCommand
  BY WaitIsShort DEF PromptCommand
<1>4. HSpec => []HistoryTypeOK
  BY HistoryTypeCorrect
<1> QED BY <1>1, <1>2, <1>3, <1>4, PTL DEF HSpec
=============================================================================
