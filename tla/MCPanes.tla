------------------------------ MODULE MCPanes --------------------------------
(* An instance of Panes: three processes for two rows of the pane of        *)
(* processes, and more events than the stream keeps.                        *)
EXTENDS Panes

MCPids == {3, 7, 8}
=============================================================================
