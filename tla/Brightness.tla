----------------------------- MODULE Brightness -----------------------------
(***************************************************************************)
(* The brightness of the LED panel (components/led_panel/led_panel.c):     *)
(* refresh_task turns the LEDs off while it shifts a row and on again with *)
(* the duty that belongs to global_brightness; set_global_brightness, in   *)
(* another task, changes global_brightness and writes the same duty, with  *)
(* no lock between them. A duty is written in two calls: ledc_set_duty     *)
(* fills a register, ledc_update_duty makes the PWM take it over.          *)
(*                                                                         *)
(* What is shifted and latched is PanelRefresh, which has the constant     *)
(* brightness that app_main leaves in place.                               *)
(***************************************************************************)
EXTENDS Integers

CONSTANT Percents  \* the arguments of set_global_brightness: values of a uint8_t

ASSUME BrightnessAssumption == Percents \subseteq 0 .. 255

OE_MAX_DUTY == 63

Duties == 0 .. OE_MAX_DUTY

Clamp(percent) == IF percent > 100 THEN 100 ELSE percent

Duty(percent) == (percent * OE_MAX_DUTY) \div 100

VARIABLES
  global_brightness,  \* 0 .. 100
  oe_reg,             \* the duty that ledc_set_duty wrote last
  oe_duty,            \* the duty of the PWM: 0 is off
  refresher,          \* place of refresh_task
  row_duty,           \* refresh_task in update_oe_duty: duty
  setter,             \* place of the task that calls set_global_brightness
  call_duty           \* that task in update_oe_duty: duty

refreshVars == <<refresher, row_duty>>
setVars == <<global_brightness, setter, call_duty>>
panelVars == <<oe_reg, oe_duty, refreshVars, setVars>>

\* The type invariant of the brightness: no duty exceeds the 6 bits of the timer,
\* whatever the arguments.
BrightnessTypeOK ==
  /\ global_brightness \in 0 .. 100
  /\ oe_reg \in Duties
  /\ oe_duty \in Duties
  /\ refresher \in {"off", "turn off", "shift", "compute", "on", "turn on", "lit"}
  /\ row_duty \in Duties
  /\ setter \in {"idle", "compute", "set", "update"}
  /\ call_duty \in Duties

\* init_oe_pwm; refresh_task is about to start.
BrightnessInit ==
  /\ global_brightness = 100
  /\ oe_reg = 0
  /\ oe_duty = 0
  /\ refresher = "off"
  /\ row_duty = 0
  /\ setter = "idle"
  /\ call_duty = 0

-----------------------------------------------------------------------------
(* refresh_task, row by row.                                               *)

RowStep(from, to) == refresher = from /\ refresher' = to

\* ledc_set_duty(0) ...
WriteOff ==
  /\ RowStep("off", "turn off")
  /\ oe_reg' = 0
  /\ UNCHANGED <<oe_duty, row_duty, setVars>>

\* Mutant of TurnOff: the update is forgotten.
TurnOffNotUpdated ==
  /\ RowStep("turn off", "shift")
  /\ UNCHANGED <<oe_reg, oe_duty, row_duty, setVars>>

\* ... and ledc_update_duty.
TurnOff ==
  /\ RowStep("turn off", "shift")
  /\ oe_duty' = oe_reg
  /\ UNCHANGED <<oe_reg, row_duty, setVars>>

\* Row address, columns and latch.
ShiftRow ==
  /\ RowStep("shift", "compute")
  /\ UNCHANGED <<oe_reg, oe_duty, row_duty, setVars>>

\* Mutant of ComputeDuty: refresh_task computes the duty once and keeps it.
ComputeDutyOnce ==
  /\ RowStep("compute", "on")
  /\ row_duty' = IF row_duty = 0 THEN Duty(global_brightness) ELSE row_duty
  /\ UNCHANGED <<oe_reg, oe_duty, setVars>>

\* update_oe_duty: global_brightness is read ...
ComputeDuty ==
  /\ RowStep("compute", "on")
  /\ row_duty' = Duty(global_brightness)
  /\ UNCHANGED <<oe_reg, oe_duty, setVars>>

\* ... and the duty written ...
WriteOn ==
  /\ RowStep("on", "turn on")
  /\ oe_reg' = row_duty
  /\ UNCHANGED <<oe_duty, row_duty, setVars>>

\* ... and taken over.
TurnOn ==
  /\ RowStep("turn on", "lit")
  /\ oe_duty' = oe_reg
  /\ UNCHANGED <<oe_reg, row_duty, setVars>>

\* The weighted time slice is over.
RowEnds ==
  /\ RowStep("lit", "off")
  /\ UNCHANGED <<oe_reg, oe_duty, row_duty, setVars>>

RefreshStep ==
  WriteOff \/ TurnOff \/ ShiftRow \/ ComputeDuty \/ WriteOn \/ TurnOn \/ RowEnds

-----------------------------------------------------------------------------
(* set_global_brightness.                                                  *)

\* Mutant of SetBrightness: the argument is not clamped.
SetBrightnessUnclamped(percent) ==
  /\ setter = "idle"
  /\ global_brightness' = percent
  /\ setter' = "compute"
  /\ UNCHANGED <<oe_reg, oe_duty, refreshVars, call_duty>>

SetBrightness(percent) ==
  /\ setter = "idle"
  /\ global_brightness' = Clamp(percent)
  /\ setter' = "compute"
  /\ UNCHANGED <<oe_reg, oe_duty, refreshVars, call_duty>>

SetterComputes ==
  /\ setter = "compute"
  /\ call_duty' = Duty(global_brightness)
  /\ setter' = "set"
  /\ UNCHANGED <<oe_reg, oe_duty, refreshVars, global_brightness>>

SetterWrites ==
  /\ setter = "set"
  /\ oe_reg' = call_duty
  /\ setter' = "update"
  /\ UNCHANGED <<oe_duty, refreshVars, global_brightness, call_duty>>

\* The PWM takes over whatever the register holds by now; the call returns.
SetterUpdates ==
  /\ setter = "update"
  /\ oe_duty' = oe_reg
  /\ setter' = "idle"
  /\ UNCHANGED <<oe_reg, refreshVars, global_brightness, call_duty>>

SetterStep == SetterComputes \/ SetterWrites \/ SetterUpdates

\* The chip restarts: global_brightness is a variable and starts at 100 again.
BrightnessResets ==
  /\ global_brightness' = 100
  /\ oe_reg' = 0
  /\ oe_duty' = 0
  /\ refresher' = "off"
  /\ row_duty' = 0
  /\ setter' = "idle"
  /\ call_duty' = 0

BrightnessNext ==
  \/ RefreshStep
  \/ \E percent \in Percents : SetBrightness(percent)
  \/ SetterStep
  \/ BrightnessResets

BrightnessSpec == BrightnessInit /\ [][BrightnessNext]_panelVars
=============================================================================
