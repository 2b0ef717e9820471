------------------------------ MODULE MCTextRx ------------------------------
(* TextRxHistory for TLC: numbers of one and two digits.            *)
EXTENDS TextRxHistory

MCNumbers == {<<0>>, <<3, 1>>}
MCDurations == {<<7>>}
MCStates == {0}
=============================================================================
