--------------------------- MODULE MCPaneTerminal ---------------------------
(* Small instances of PaneTerminal for TLC. *)
EXTENDS PaneTerminal
=============================================================================
