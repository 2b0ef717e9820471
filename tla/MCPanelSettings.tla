--------------------------- MODULE MCPanelSettings ---------------------------
(* PanelSettings for TLC: no light, some, and a percentage above 100; two   *)
(* values to save.                                                         *)
EXTENDS PanelSettings

MCPercents == {0, 40, 255}
MCLevels == {40, 255}
=============================================================================
