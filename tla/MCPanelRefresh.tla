--------------------------- MODULE MCPanelRefresh ---------------------------
(* PanelRefresh for TLC; the cfg files give the constants their values.    *)
EXTENDS PanelRefresh
MCTemps == {0, 29, 30}
MCFewTemps == {0, 30}
=============================================================================
