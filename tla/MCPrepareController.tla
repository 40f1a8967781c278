------------------------ MODULE MCPrepareController ------------------------
(* Instances of PrepareController for TLC. *)
EXTENDS PrepareController

CONSTANTS android, ios

=============================================================================
