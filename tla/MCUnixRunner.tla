----------------------------- MODULE MCUnixRunner -----------------------------
(* UnixRunner with one descendant of any kind and two captured streams whose   *)
(* limit the provider can exceed by one chunk.                                 *)
EXTENDS UnixRunner
CONSTANT k1
=============================================================================
