------------------------------ MODULE MCHTTPConn ------------------------------
(* One HTTP connection with a few segments in flight. *)
EXTENDS HTTPConn
==============================================================================
