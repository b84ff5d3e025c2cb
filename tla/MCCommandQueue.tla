--------------------------- MODULE MCCommandQueue ---------------------------
(* Small instances of CommandQueue for TLC.                                *)
EXTENDS CommandQueue

CONSTANTS scan, process, health   \* kinds; the first two are exclusive
=============================================================================
