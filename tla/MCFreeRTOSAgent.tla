--------------------------- MODULE MCFreeRTOSAgent ---------------------------
(* Small instances of FreeRTOSAgent.                                         *)
EXTENDS FreeRTOSAgent
=============================================================================
