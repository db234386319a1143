--------------------------- MODULE MCWindowsRunner ---------------------------
(* One descendant of any kind, one captured stream with room for one chunk of   *)
(* the two that may be written.                                                 *)
EXTENDS WindowsRunner
CONSTANTS k1, out
=============================================================================
