--------------------------- MODULE GracefulServer ---------------------------
(***************************************************************************)
(* What a server with graceful shutdown promises to its caller and to its  *)
(* clients: it takes connections while it accepts, every connection taken  *)
(* is served exactly once and to its end, and it stops only when it has    *)
(* ceased to accept and no connection is left.                             *)
(***************************************************************************)
CONSTANT Conns

VARIABLES phase, active, ended

vars == <<phase, active, ended>>

Init == phase \in {"accepting", "draining"} /\ active = {} /\ ended = {}

Take(c) ==
  /\ phase = "accepting" /\ c \notin active \cup ended
  /\ active' = active \cup {c}
  /\ UNCHANGED <<phase, ended>>

Finish(c) ==
  /\ c \in active
  /\ active' = active \ {c} /\ ended' = ended \cup {c}
  /\ UNCHANGED phase

Drain ==
  /\ phase = "accepting" /\ phase' = "draining"
  /\ UNCHANGED <<active, ended>>

Stop ==
  /\ phase = "draining" /\ active = {}
  /\ phase' = "stopped"
  /\ UNCHANGED <<active, ended>>

Next == (\E c \in Conns : Take(c) \/ Finish(c)) \/ Drain \/ Stop

Spec == Init /\ [][Next]_vars
=============================================================================
