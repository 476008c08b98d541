----------------------------- MODULE MCUnixConn -----------------------------
(* Two connections and two descriptors in each process: both tables can be  *)
(* full, and a number is taken again.                                      *)
EXTENDS UnixConn

Limits == [p \in Procs |-> 2]
=============================================================================
