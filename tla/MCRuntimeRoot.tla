---------------------------- MODULE MCRuntimeRoot ----------------------------
(* RuntimeRoot with an id that is used again, concurrent cleanups and a        *)
(* janitor, over every initial set of leftovers.                               *)
EXTENDS RuntimeRoot
CONSTANTS i1, c1, c2
=============================================================================
