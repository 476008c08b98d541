-------------------------- MODULE MCResponseWriter --------------------------
(* A chunk buffer of three bytes and writes that are shorter, as long and   *)
(* longer than it.                                                          *)
EXTENDS ResponseWriter
=============================================================================
