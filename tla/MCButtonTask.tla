---------------------------- MODULE MCButtonTask ----------------------------
(* ButtonHistory for TLC; the cfg files give the constants their values.   *)
EXTENDS ButtonHistory
=============================================================================
