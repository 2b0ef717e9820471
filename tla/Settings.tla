------------------------------ MODULE Settings ------------------------------
(***************************************************************************)
(* The settings of the panel in non-volatile storage: init_nvs_brightness  *)
(* and the functions save_* and load_* for brightness, mode and format     *)
(* (components/led_panel/led_panel.c), which differ in their key and their *)
(* default only. One task calls them, in any order; the node may be reset  *)
(* at any time, and is reset when ESP_ERROR_CHECK meets an error.          *)
(*                                                                         *)
(* The storage itself is a library: between nvs_set_u8 and nvs_commit a    *)
(* value may reach the flash or not.                                       *)
(***************************************************************************)
EXTENDS Integers

CONSTANTS
  Levels,  \* the values that are saved: values of a uint8_t
  NoValue  \* nothing stored; also the arguments of no call

ASSUME SettingsAssumption == Levels \subseteq 0 .. 255 /\ NoValue \notin 0 .. 255

Keys == {"brightness", "mode", "format"}

\* What the load function of a key returns if there is nothing to load.
Default == [brightness |-> 10, mode |-> 4, format |-> 0]

VARIABLES
  nvs,     \* nvs_flash_init has succeeded since the last reset
  stored,  \* stored[k]: the value of k in the flash, or NoValue
  caller,  \* place of the task in the functions below
  key,     \* the key of its call
  value    \* save_*: the argument; load_*: the local variable returned

settingsVars == <<nvs, stored, caller, key, value>>

SavePlaces == {"open", "set", "commit", "close"}
LoadPlaces == {"open_ro", "get", "loaded"}
InitPlaces == {"init", "erase", "init_again"}

\* The type invariant of the settings.
SettingsTypeOK ==
  /\ nvs \in BOOLEAN
  /\ stored \in [Keys -> Levels \cup {NoValue}]
  /\ caller \in SavePlaces \cup LoadPlaces \cup InitPlaces \cup {"idle"}
  /\ key \in Keys \cup {NoValue}
  /\ value \in 0 .. 255 \cup {NoValue}
  /\ caller \in SavePlaces => key \in Keys /\ value \in Levels
  /\ caller \in LoadPlaces => key \in Keys /\ value \in 0 .. 255

NoCall == caller' = "idle" /\ key' = NoValue /\ value' = NoValue

\* Any values may be stored from before.
SettingsInit ==
  /\ nvs = FALSE
  /\ stored \in [Keys -> Levels \cup {NoValue}]
  /\ caller = "idle"
  /\ key = NoValue
  /\ value = NoValue

At(from, to) == caller = from /\ caller' = to

-----------------------------------------------------------------------------
(* init_nvs_brightness.                                                    *)

CallInit ==
  /\ At("idle", "init")
  /\ UNCHANGED <<nvs, stored, key, value>>

\* nvs_flash_init succeeds, the first time or after the erase, ...
FlashInit ==
  /\ caller \in {"init", "init_again"}
  /\ nvs' = TRUE
  /\ NoCall
  /\ UNCHANGED stored

\* ... or finds no free page or a format that it does not know.
FlashUnusable ==
  /\ ~nvs
  /\ At("init", "erase")
  /\ UNCHANGED <<nvs, stored, key, value>>

\* nvs_flash_erase clears the partition sector by sector.
EraseSome ==
  /\ caller = "erase"
  /\ \E gone \in SUBSET Keys :
       stored' = [k \in Keys |-> IF k \in gone THEN NoValue ELSE stored[k]]
  /\ UNCHANGED <<nvs, caller, key, value>>

EraseEnds ==
  /\ At("erase", "init_again")
  /\ stored' = [k \in Keys |-> NoValue]
  /\ UNCHANGED <<nvs, key, value>>

-----------------------------------------------------------------------------
(* save_brightness, save_mode, save_format.                                *)

CallSave(k, v) ==
  /\ At("idle", "open")
  /\ key' = k
  /\ value' = v
  /\ UNCHANGED <<nvs, stored>>

OpenToSave ==
  /\ nvs
  /\ At("open", "set")
  /\ UNCHANGED <<nvs, stored, key, value>>

SetU8 ==
  /\ At("set", "commit")
  /\ UNCHANGED <<nvs, stored, key, value>>

\* The library may write the value before it is asked to.
WriteThrough ==
  /\ caller = "commit"
  /\ stored' = [stored EXCEPT ![key] = value]
  /\ UNCHANGED <<nvs, caller, key, value>>

\* Mutant of Commit: the commit is left out.
CommitForgotten ==
  /\ At("commit", "close")
  /\ UNCHANGED <<nvs, stored, key, value>>

Commit ==
  /\ At("commit", "close")
  /\ stored' = [stored EXCEPT ![key] = value]
  /\ UNCHANGED <<nvs, key, value>>

SaveReturns ==
  /\ caller = "close"
  /\ NoCall
  /\ UNCHANGED <<nvs, stored>>

-----------------------------------------------------------------------------
(* load_brightness, load_mode, load_format.                                *)

CallLoad(k) ==
  /\ At("idle", "open_ro")
  /\ key' = k
  /\ value' = Default[k]
  /\ UNCHANGED <<nvs, stored>>

OpenToLoad ==
  /\ nvs
  /\ At("open_ro", "get")
  /\ UNCHANGED <<nvs, stored, key, value>>

\* The storage has not been initialized, or the namespace "settings" has never
\* been written to: the error is passed over.
OpenFails ==
  /\ ~nvs \/ \A k \in Keys : stored[k] = NoValue
  /\ At("open_ro", "loaded")
  /\ UNCHANGED <<nvs, stored, key, value>>

\* nvs_get_u8 leaves the variable alone when the key is not there.
GetU8 ==
  /\ At("get", "loaded")
  /\ value' = IF stored[key] = NoValue THEN value ELSE stored[key]
  /\ UNCHANGED <<nvs, stored, key>>

LoadReturns ==
  /\ caller = "loaded"
  /\ NoCall
  /\ UNCHANGED <<nvs, stored>>

-----------------------------------------------------------------------------
SettingsReset ==
  /\ nvs' = FALSE
  /\ NoCall
  /\ UNCHANGED stored

\* ESP_ERROR_CHECK meets an error (of an nvs_open before the storage is
\* initialized, of a write for which there is no room): abort restarts the chip.
CheckFails ==
  /\ caller \in InitPlaces \cup {"open", "set", "commit"}
  /\ SettingsReset

SettingsStep ==
  \/ CallInit \/ FlashInit \/ FlashUnusable \/ EraseSome \/ EraseEnds
  \/ (\E k \in Keys, v \in Levels : CallSave(k, v))
  \/ OpenToSave \/ SetU8 \/ WriteThrough \/ Commit \/ SaveReturns
  \/ (\E k \in Keys : CallLoad(k))
  \/ OpenToLoad \/ OpenFails \/ GetU8 \/ LoadReturns

SettingsNext == SettingsStep \/ CheckFails \/ SettingsReset

SettingsSpec == SettingsInit /\ [][SettingsNext]_settingsVars

-----------------------------------------------------------------------------
(* Settings implements StoredSettings.                                     *)

\* The call under way, as StoredSettings sees it: a save has taken effect when
\* the value is in the flash.
CallRequest ==
  [op    |-> CASE caller \in SavePlaces -> "save"
               [] caller \in LoadPlaces -> "load"
               [] OTHER -> "none",
   key   |-> key,
   value |-> IF caller \in {"open_ro", "get"} THEN NoValue ELSE value,
   phase |-> IF \/ caller \in {"open", "set", "open_ro", "get"}
                \/ caller = "commit" /\ stored[key] # value
             THEN "begun" ELSE "done"]

Registers == INSTANCE StoredSettings
  WITH Values <- Levels, ready <- nvs, register <- stored, request <- CallRequest
=============================================================================
