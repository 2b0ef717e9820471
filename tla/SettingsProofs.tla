--------------------------- MODULE SettingsProofs ---------------------------
(***************************************************************************)
(* Theorems about PanelSettings, for every set of brightnesses and of      *)
(* values to save.                                                         *)
(***************************************************************************)
EXTENDS PanelSettings, TLAPS

(***************************************************************************)
(* Type correctness.                                                       *)
(***************************************************************************)

\* A percentage of at most 100 gives a duty of at most 6 bits.
LEMMA DutyTypes ==
  /\ \A percent \in 0 .. 100 : Duty(percent) \in Duties
  /\ \A percent \in Percents : Clamp(percent) \in 0 .. 100
  /\ 0 \in Duties
<1>1. ASSUME NEW percent \in 0 .. 100 PROVE Duty(percent) \in Duties
  <2> DEFINE n == percent * OE_MAX_DUTY
  <2>1. n \in Int /\ 0 <= n /\ n <= 6300
    BY DEF OE_MAX_DUTY
  <2> HIDE DEF n
  <2>2. n \div 100 \in Int /\ 0 <= n \div 100 /\ n \div 100 <= 63
    BY <2>1, Z3
  <2> QED BY <2>2 DEF n, Duty, Duties, OE_MAX_DUTY
<1>2. ASSUME NEW percent \in Percents PROVE Clamp(percent) \in 0 .. 100
  BY BrightnessAssumption DEF Clamp
<1>3. 0 \in Duties
  BY DEF Duties, OE_MAX_DUTY
<1> QED BY <1>1, <1>2, <1>3

\* The steps of refresh_task and of set_global_brightness keep the types.
LEMMA BrightnessTypes ==
  ASSUME BrightnessTypeOK,
         RefreshStep \/ SetterStep \/ (\E percent \in Percents : SetBrightness(percent))
  PROVE  BrightnessTypeOK'
<1> USE DutyTypes DEF BrightnessTypeOK
<1>1. CASE RefreshStep
  BY <1>1 DEF RefreshStep, RowStep, WriteOff, TurnOff, ShiftRow, ComputeDuty, WriteOn, TurnOn,
              RowEnds, setVars
<1>2. CASE SetterStep
  BY <1>2 DEF SetterStep, SetterComputes, SetterWrites, SetterUpdates, refreshVars
<1>3. CASE \E percent \in Percents : SetBrightness(percent)
  BY <1>3 DEF SetBrightness, refreshVars
<1> QED BY <1>1, <1>2, <1>3

\* So do the steps of the functions that initialize, save and load.
LEMMA SettingsTypes ==
  ASSUME SettingsTypeOK, SettingsStep
  PROVE  SettingsTypeOK'
<1> USE DEF SettingsTypeOK, SavePlaces, LoadPlaces, InitPlaces, At, NoCall
<1>1. CASE CallInit \/ FlashInit \/ FlashUnusable
  <2>1. CASE CallInit
    BY <2>1 DEF CallInit
  <2>2. CASE FlashInit
    BY <2>2 DEF FlashInit
  <2>3. CASE FlashUnusable
    BY <2>3 DEF FlashUnusable
  <2> QED BY <1>1, <2>1, <2>2, <2>3
<1>6. CASE EraseSome \/ EraseEnds
  <2>1. stored' \in [Keys -> Levels \cup {NoValue}]
    BY <1>6 DEF EraseSome, EraseEnds
  <2> QED BY <1>6, <2>1 DEF EraseSome, EraseEnds
<1>2. CASE (\E k \in Keys, v \in Levels : CallSave(k, v)) \/ OpenToSave \/ SetU8
  BY <1>2, SettingsAssumption DEF CallSave, OpenToSave, SetU8
<1>3. CASE WriteThrough \/ Commit \/ SaveReturns
  BY <1>3 DEF WriteThrough, Commit, SaveReturns
<1>4. CASE \E k \in Keys : CallLoad(k)
  <2>1. \A k \in Keys : Default[k] \in 0 .. 255
    BY DEF Keys, Default
  <2> QED BY <1>4, <2>1 DEF CallLoad
<1>5. CASE OpenToLoad \/ OpenFails \/ LoadReturns
  BY <1>5 DEF OpenToLoad, OpenFails, LoadReturns
<1>7. CASE GetU8
  <2>1. key \in Keys /\ value \in 0 .. 255 /\ stored[key] \in Levels \cup {NoValue}
    BY <1>7 DEF GetU8
  <2>2. value' \in 0 .. 255
    BY <1>7, <2>1, SettingsAssumption DEF GetU8
  <2> QED BY <1>7, <2>1, <2>2 DEF GetU8
<1> QED BY <1>1, <1>2, <1>3, <1>4, <1>5, <1>6, <1>7 DEF SettingsStep

\* Every variable keeps its type; no duty exceeds the 6 bits of the timer.
THEOREM TypeCorrect == Spec => []TypeOK
<1>1. Init => TypeOK
  <2>1. SettingsInit => SettingsTypeOK
    BY DEF SettingsInit, SettingsTypeOK, SavePlaces, LoadPlaces, InitPlaces
  <2>2. BrightnessInit => BrightnessTypeOK
    BY DutyTypes DEF BrightnessInit, BrightnessTypeOK
  <2> QED BY <2>1, <2>2 DEF Init, TypeOK
<1>2. TypeOK /\ [Next]_vars => TypeOK'
  <2> SUFFICES ASSUME TypeOK, [Next]_vars PROVE TypeOK'
    OBVIOUS
  <2> USE DEF TypeOK
  <2>1. CASE ClientSettings
    <3>1. BrightnessTypeOK'
      BY <2>1 DEF ClientSettings, panelVars, refreshVars, setVars, BrightnessTypeOK
    <3> QED BY <2>1, <3>1, SettingsTypes DEF ClientSettings
  <2>2. CASE ClientBrightness \/ PanelSteps
    <3>1. SettingsTypeOK'
      BY <2>2 DEF ClientBrightness, PanelSteps, settingsVars, SettingsTypeOK
    <3>2. disturbed' \in BOOLEAN
      BY <2>2 DEF ClientBrightness, PanelSteps, ObserveRow
    <3> QED BY <2>2, <3>1, <3>2, BrightnessTypes DEF ClientBrightness, PanelSteps
  <2>3. CASE Restart
    <3>1. SettingsTypeOK'
      BY <2>3 DEF Restart, CheckFails, SettingsReset, NoCall, SettingsTypeOK, SavePlaces,
                  LoadPlaces, InitPlaces
    <3>2. BrightnessResets
      BY <2>3 DEF Restart
    <3>3. BrightnessTypeOK'
      <4>1. 0 \in Duties /\ 100 \in 0 .. 100
        BY DutyTypes
      <4> QED BY <3>2, <4>1 DEF BrightnessResets, BrightnessTypeOK
    <3> QED BY <2>3, <3>1, <3>3 DEF Restart
  <2>4. CASE UNCHANGED vars
    <3>1. SettingsTypeOK'
      BY <2>4 DEF vars, settingsVars, SettingsTypeOK
    <3>2. BrightnessTypeOK'
      BY <2>4 DEF vars, panelVars, refreshVars, setVars, BrightnessTypeOK
    <3> QED BY <2>4, <3>1, <3>2 DEF vars
  <2> QED BY <2>1, <2>2, <2>3, <2>4 DEF Next
<1> QED BY <1>1, <1>2, PTL DEF Spec

(***************************************************************************)
(* The light of a row. While no call has overlapped the row, the register  *)
(* and the PWM hold what refresh_task has last put there.                  *)
(***************************************************************************)

RowInv ==
  ~disturbed =>
    /\ setter = "idle"
    /\ refresher \in {"turn off", "shift", "compute", "on"} => oe_reg = 0
    /\ refresher \in {"shift", "compute", "on", "turn on"} => oe_duty = 0
    /\ refresher = "on" => row_duty = Duty(global_brightness)
    /\ refresher = "turn on" => oe_reg = Duty(global_brightness)
    /\ refresher = "lit" => oe_duty = Duty(global_brightness)

\* RowInv is inductive.
LEMMA RowInvariant == Spec => []RowInv
<1>1. Init => RowInv
  BY DEF Init, BrightnessInit, RowInv
<1>2. RowInv /\ [Next]_vars => RowInv'
  <2> SUFFICES ASSUME RowInv, [Next]_vars PROVE RowInv'
    OBVIOUS
  <2>1. CASE PanelSteps /\ RefreshStep
    BY <2>1 DEF PanelSteps, ObserveRow, RefreshStep, RowStep, WriteOff, TurnOff, ShiftRow,
                ComputeDuty, WriteOn, TurnOn, RowEnds, setVars, RowInv, Duty
  <2>2. CASE (PanelSteps /\ SetterStep) \/ ClientBrightness
    <3>1. disturbed'
      BY <2>2 DEF PanelSteps, ClientBrightness, ObserveRow, SetterStep, SetterComputes,
                  SetterWrites, SetterUpdates, SetBrightness
    <3> QED BY <3>1 DEF RowInv
  <2>3. CASE ClientSettings \/ UNCHANGED vars
    BY <2>3 DEF ClientSettings, vars, panelVars, refreshVars, setVars, RowInv, Duty
  <2>4. CASE Restart
    BY <2>4 DEF Restart, BrightnessResets, RowInv
  <2> QED BY <2>1, <2>2, <2>3, <2>4 DEF Next, PanelSteps
<1> QED BY <1>1, <1>2, PTL DEF Spec

\* The LEDs are off while a row is shifted that no call overlaps.
THEOREM UndisturbedRowsAreDark == Spec => []DarkWhileShifting
<1>1. RowInv => DarkWhileShifting
  BY DEF RowInv, DarkWhileShifting
<1> QED BY <1>1, RowInvariant, PTL

\* A row that no call overlaps is lit with the duty of global_brightness.
THEOREM UndisturbedRowsAreLit == Spec => []LitAsSet
<1>1. RowInv => LitAsSet
  BY DEF RowInv, LitAsSet
<1> QED BY <1>1, RowInvariant, PTL

(***************************************************************************)
(* Settings implements StoredSettings.                                     *)
(***************************************************************************)

\* While the partition is erased the storage is not in use, and no call is
\* under way that could see it.
EraseInv ==
  /\ caller = "erase" => ~nvs
  /\ caller \in {"set", "commit", "close", "get"} => nvs
  /\ caller \in {"idle"} \cup InitPlaces => key = NoValue /\ value = NoValue
  /\ caller \in {"open_ro", "get"} => value = Default[key]

LEMMA EraseInvariant == Spec => []EraseInv
<1>1. Init => EraseInv
  BY DEF Init, SettingsInit, EraseInv
<1>2. EraseInv /\ [Next]_vars => EraseInv'
  <2> SUFFICES ASSUME EraseInv, [Next]_vars PROVE EraseInv'
    OBVIOUS
  <2> USE DEF EraseInv, InitPlaces, At, NoCall
  <2>1. CASE SettingsStep
    BY <2>1 DEF SettingsStep, CallInit, FlashInit, FlashUnusable, EraseSome, EraseEnds, CallSave,
                OpenToSave, SetU8, WriteThrough, Commit, SaveReturns, CallLoad, OpenToLoad,
                OpenFails, GetU8, LoadReturns
  <2>2. CASE Restart
    BY <2>2 DEF Restart, CheckFails, SettingsReset
  <2>3. CASE UNCHANGED settingsVars
    BY <2>3 DEF settingsVars
  <2> QED BY <2>1, <2>2, <2>3 DEF Next, ClientSettings, ClientBrightness, PanelSteps, vars
<1> QED BY <1>1, <1>2, PTL DEF Spec

\* Whatever is reset when, every save is atomic and durable, and every load
\* gives what was saved, or the default.
THEOREM StoresAtomically == Spec => SettingsAreRegisters
<1> USE DEF Registers!storeVars, Registers!NoRequest, Registers!Request
<1>1. Init => Registers!StoreInit
  BY DEF Init, SettingsInit, Registers!StoreInit, CallRequest, SavePlaces, LoadPlaces
<1>2. TypeOK /\ EraseInv /\ [Next]_vars => [Registers!StoreNext]_Registers!storeVars
  <2> SUFFICES ASSUME TypeOK, EraseInv, [Next]_vars
               PROVE  [Registers!StoreNext]_Registers!storeVars
    OBVIOUS
  <2> USE DEF SavePlaces, LoadPlaces, InitPlaces, At, NoCall, CallRequest
  <2>1. CASE Restart
    BY <2>1 DEF Restart, CheckFails, SettingsReset, Registers!StoreNext, Registers!Crash
  <2>2. CASE UNCHANGED settingsVars
    BY <2>2 DEF settingsVars
  <2>3. CASE SettingsStep
    <3>1. CASE CallInit \/ OpenToSave \/ OpenToLoad \/ FlashUnusable
      BY <3>1 DEF CallInit, OpenToSave, OpenToLoad, FlashUnusable
    <3>2. CASE FlashInit
      BY <3>2 DEF FlashInit, EraseInv, Registers!StoreNext, Registers!BecomeReady
    <3>3. CASE EraseSome \/ EraseEnds
      <4>1. PICK gone \in SUBSET Keys :
              stored' = [k \in Keys |-> IF k \in gone THEN NoValue ELSE stored[k]]
        BY <3>3 DEF EraseSome, EraseEnds
      <4>2. Registers!Clear
        BY <3>3, <4>1 DEF EraseSome, EraseEnds, EraseInv, Registers!Clear
      <4> QED BY <4>2 DEF Registers!StoreNext
    <3>4. CASE \E k \in Keys, v \in Levels : CallSave(k, v)
      <4>1. Registers!BeginSave
        BY <3>4 DEF CallSave, EraseInv, Registers!BeginSave
      <4> QED BY <4>1 DEF Registers!StoreNext
    <3>5. CASE SetU8
      <4>1. CASE stored[key] = value
        <5>1. stored = [stored EXCEPT ![key] = value]
          BY <4>1 DEF TypeOK, SettingsTypeOK
        <5>2. CallRequest = Registers!Request("save", key, value, "begun")
          BY <3>5 DEF SetU8
        <5>3. CallRequest' = Registers!Request("save", key, value, "done")
          BY <3>5, <4>1 DEF SetU8
        <5>4. nvs /\ UNCHANGED <<nvs, stored>>
          BY <3>5 DEF SetU8, EraseInv
        <5> HIDE DEF CallRequest
        <5>5. /\ CallRequest.op = "save" /\ CallRequest.phase = "begun"
              /\ CallRequest.key = key /\ CallRequest.value = value
              /\ CallRequest' = [CallRequest EXCEPT !.phase = "done"]
          BY <5>2, <5>3
        <5>6. Registers!SaveTakesEffect
          BY <5>1, <5>4, <5>5 DEF Registers!SaveTakesEffect
        <5> QED BY <5>6 DEF Registers!StoreNext
      <4>2. CASE stored[key] # value
        BY <3>5, <4>2 DEF SetU8
      <4> QED BY <4>1, <4>2
    <3>6. CASE WriteThrough \/ Commit
      <4>1. nvs /\ key \in Keys /\ stored' = [stored EXCEPT ![key] = value]
        BY <3>6 DEF WriteThrough, Commit, EraseInv, TypeOK, SettingsTypeOK
      <4>2. stored'[key] = value
        BY <4>1 DEF TypeOK, SettingsTypeOK
      <4>3. CASE stored[key] = value
        <5>1. stored' = stored
          BY <4>1, <4>3 DEF TypeOK, SettingsTypeOK
        <5> QED BY <3>6, <4>3, <5>1 DEF WriteThrough, Commit
      <4>4. CASE stored[key] # value
        <5>1. CallRequest = Registers!Request("save", key, value, "begun")
          BY <3>6, <4>4 DEF WriteThrough, Commit
        <5>2. CallRequest' = Registers!Request("save", key, value, "done")
          BY <3>6, <4>2 DEF WriteThrough, Commit
        <5>3. UNCHANGED nvs
          BY <3>6 DEF WriteThrough, Commit
        <5> HIDE DEF CallRequest
        <5>4. /\ CallRequest.op = "save" /\ CallRequest.phase = "begun"
              /\ CallRequest.key = key /\ CallRequest.value = value
              /\ CallRequest' = [CallRequest EXCEPT !.phase = "done"]
          BY <5>1, <5>2
        <5>5. Registers!SaveTakesEffect
          BY <4>1, <5>3, <5>4 DEF Registers!SaveTakesEffect
        <5> QED BY <5>5 DEF Registers!StoreNext
      <4> QED BY <4>3, <4>4
    <3>7. CASE SaveReturns \/ LoadReturns
      <4>1. Registers!End
        BY <3>7 DEF SaveReturns, LoadReturns, Registers!End
      <4> QED BY <4>1 DEF Registers!StoreNext
    <3>8. CASE \E k \in Keys : CallLoad(k)
      <4>1. Registers!BeginLoad
        BY <3>8 DEF CallLoad, EraseInv, Registers!BeginLoad
      <4> QED BY <4>1 DEF Registers!StoreNext
    <3>9. CASE OpenFails \/ GetU8
      <4>1. key \in Keys /\ caller \in {"open_ro", "get"} /\ caller' = "loaded"
            /\ value = Default[key] /\ UNCHANGED <<nvs, stored, key>>
        BY <3>9 DEF OpenFails, GetU8, EraseInv, TypeOK, SettingsTypeOK
      <4>2. value' = IF nvs /\ stored[key] # NoValue THEN stored[key] ELSE Default[key]
        BY <3>9, <4>1 DEF OpenFails, GetU8, EraseInv
      <4>3. CallRequest = Registers!Request("load", key, NoValue, "begun")
        BY <4>1
      <4>4. CallRequest' = Registers!Request("load", key, value', "done")
        BY <4>1
      <4> HIDE DEF CallRequest
      <4>5. /\ CallRequest.op = "load" /\ CallRequest.phase = "begun" /\ CallRequest.key = key
            /\ CallRequest' = Registers!Request("load", key, value', "done")
        BY <4>3, <4>4
      <4>6. Registers!LoadReads
        BY <4>1, <4>2, <4>5 DEF Registers!LoadReads
      <4> QED BY <4>6 DEF Registers!StoreNext
    <3> QED BY <2>3, <3>1, <3>2, <3>3, <3>4, <3>5, <3>6, <3>7, <3>8, <3>9 DEF SettingsStep
  <2> QED BY <2>1, <2>2, <2>3 DEF Next, ClientSettings, ClientBrightness, PanelSteps, vars
<1> QED BY <1>1, <1>2, TypeCorrect, EraseInvariant, PTL DEF Spec, SettingsAreRegisters,
           Registers!StoreSpec
=============================================================================
