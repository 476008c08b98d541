--------------------------- MODULE MCReverseProxy ---------------------------
(* A writer of two bytes, and two bytes from each side: a byte that does   *)
(* not fill the writer, and one that does.                                 *)
EXTENDS ReverseProxy
=============================================================================
