-------------------------- MODULE MCPanelGeometry --------------------------
(***************************************************************************)
(* PanelGeometry for TLC: two panels of 2 x 8 LEDs. A font of three        *)
(* characters, one of them a single dot, so that texts of one dot are      *)
(* pixels; texts are placed all over the display and around its edges.     *)
(***************************************************************************)
EXTENDS PanelGeometry

MCFont == [c \in {".", "L", "?"} |->
             CASE c = "." -> {<<0, 0>>}
               [] c = "L" -> {<<0, 0>>, <<1, 0>>, <<1, 1>>}
               [] c = "?" -> {<<0, 1>>}]

MCColour(r, g, b) == [ch \in Channels |-> CASE ch = "R" -> r [] ch = "G" -> g [] ch = "B" -> b]

MCDots == [x : {-1, 0, 1, 2}, y : {-1, 0, 7, 8, 13, 16}, text : {<<".">>},
           colour : {MCColour(255, 103, 48)}]
MCWords == [x : {-2, 0}, y : {3, 14}, text : {<<"L", "?">>, <<".", "degree", ".">>},
            colour : {MCColour(0, 132, 104)}]
MCTexts == MCDots \cup MCWords

MCBitmaps == [x : {-1}, y : {6}, w : {2}, h : {3},
              bmp : {[k \in 1 .. 6 |-> MCColour(40 * k, 255 - 40 * k, 104)]}]

MCScrolls == [y : {7}, text : {<<"L", ".">>}, colour : {MCColour(132, 48, 0)}]
=============================================================================
