------------------------------ MODULE MCServer ------------------------------
(* netx.Server with a few connections. *)
EXTENDS Server
=============================================================================
