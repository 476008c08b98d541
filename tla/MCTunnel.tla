------------------------------ MODULE MCTunnel ------------------------------
(* A buffer of three bytes: a line of one byte, or of two, fits with its   *)
(* newline; a longer one does not.  The client can send one that is too    *)
(* long, or two in one; the target answers with a line or a part of one.   *)
(* A copy gets two bytes from each end.                                    *)
EXTENDS Tunnel

Sends == [e \in Ends |-> IF e = "from" THEN 3 ELSE 2]
=============================================================================
