---------------------------- MODULE PanelSettings ----------------------------
(***************************************************************************)
(* The settings and the brightness of the panel together: one task, the    *)
(* client, initializes, saves and loads the settings and sets the          *)
(* brightness, one call after the other; refresh_task runs beside it; a    *)
(* reset, or an error that ESP_ERROR_CHECK meets, restarts both.           *)
(*                                                                         *)
(* Nothing in app_main makes these calls (main.c:300 and 302 are comments),*)
(* so the client makes any of them in any order, with any arguments.       *)
(***************************************************************************)
EXTENDS Settings, Brightness

VARIABLE disturbed  \* history: set_global_brightness ran while the row was shown

vars == <<settingsVars, panelVars, disturbed>>

Init ==
  /\ SettingsInit
  /\ BrightnessInit
  /\ disturbed = FALSE

\* The type invariant of the settings and of the brightness: in particular no duty
\* exceeds the 6 bits of the OE timer, whatever the arguments.
TypeOK ==
  /\ SettingsTypeOK
  /\ BrightnessTypeOK
  /\ disturbed \in BOOLEAN

\* A row begins with WriteOff.
ObserveRow ==
  disturbed' = IF setter # "idle" \/ setter' # "idle" THEN TRUE
               ELSE IF WriteOff THEN FALSE ELSE disturbed

ClientSettings ==
  /\ setter = "idle"
  /\ SettingsStep
  /\ UNCHANGED <<panelVars, disturbed>>

ClientBrightness ==
  /\ caller = "idle"
  /\ \E percent \in Percents : SetBrightness(percent)
  /\ ObserveRow
  /\ UNCHANGED settingsVars

PanelSteps ==
  /\ RefreshStep \/ SetterStep
  /\ ObserveRow
  /\ UNCHANGED settingsVars

Restart ==
  /\ CheckFails \/ SettingsReset
  /\ BrightnessResets
  /\ disturbed' = FALSE

Next == ClientSettings \/ ClientBrightness \/ PanelSteps \/ Restart

Spec == Init /\ [][Next]_vars

\* refresh_task has a core on which nothing of its priority or above runs on, and
\* a task in set_global_brightness does not wait for anything.
FairSpec ==
  /\ Spec
  /\ WF_vars(PanelSteps /\ RefreshStep)
  /\ WF_vars(PanelSteps /\ SetterStep)

-----------------------------------------------------------------------------
(* Properties.                                                             *)

\* "OE off while we change address / shift" (led_panel.c:278) is true of every
\* row that no call of set_global_brightness overlaps: a call that overlaps a
\* row may turn the LEDs on in it, but nothing of it is left in the next row.
DarkWhileShifting ==
  refresher \in {"shift", "compute", "on", "turn on"} /\ ~disturbed => oe_duty = 0

\* Such a row is then lit with the duty of global_brightness, as it is now: no
\* duty of an earlier brightness survives in a register or a local variable.
LitAsSet ==
  refresher = "lit" /\ ~disturbed => oe_duty = Duty(global_brightness)

\* When the brightness settles, so does the light of the rows, even if the
\* client goes on setting the same brightness over and over.
BrightnessSettles ==
  <>[][FALSE]_global_brightness =>
    <>[](refresher = "lit" => oe_duty = Duty(global_brightness))

\* Saves are atomic and durable, and loads see them, whatever is reset when
\* (StoredSettings): the three functions that save commit before they return.
SettingsAreRegisters == Registers!StoreSpec
=============================================================================
