--------------------------- MODULE MCPanelLayout ---------------------------
(***************************************************************************)
(* Constants of PanelLayout for TLC.                                       *)
(***************************************************************************)
EXTENDS PanelLayout

\* A small and a large window.
TwoWindows == {320, 1600}

\* On both sides of every threshold.
SomeWidths == {120, 121, 200, 700}

BothThemes == {"dark", "light"}
=============================================================================
