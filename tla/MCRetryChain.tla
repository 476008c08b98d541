---------------------------- MODULE MCRetryChain ----------------------------
(* The methods, statuses and limits that the code tells apart. *)
EXTENDS RetryChain

MCLimits == {-1, 0, 1, 2}
=============================================================================
