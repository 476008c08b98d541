--------------------------- MODULE MCMultiListener ---------------------------
(* A MultiListener of two listeners; the connections c1 and c3 are made to  *)
(* the first, the others to the second.                                     *)
EXTENDS MultiListener

CONSTANTS c1, c2, c3

HomeOf == [c \in Conns |-> IF c \in {c1, c3} THEN 1 ELSE 2]
=============================================================================
