----------------------------- MODULE MCModeSync -----------------------------
(* ModeSyncHistory for TLC: the tasks and the command ids.                 *)
EXTENDS ModeSyncHistory

MCTasks == {"button_task", "master_sync"}
MCCommands == {"START_TEST", "STOP_TEST", "SWITCH_MODE", "REQUEST_STATE"}
=============================================================================
