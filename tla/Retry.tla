-------------------------------- MODULE Retry --------------------------------
(* What RetryHandler and RetryTransport (src/httpx/retry.go) share: which   *)
(* requests and which responses may be retried (src/httpx/proto.go), and    *)
(* the number of attempts.                                                  *)
EXTENDS Integers

CONSTANTS
  Methods,    \* the methods of the request
  Limits,     \* the values of MaxAttempts
  Statuses    \* the statuses of sub-handlers and of backends

ASSUME RetryAssumption == Limits \subseteq Int /\ Statuses \subseteq Nat \ {0}

DefaultMaxAttempts == 10

MaxAttempts(attempts) == IF attempts = 0 THEN DefaultMaxAttempts ELSE attempts

(* How often a loop tries at most: once if the maximum is negative. *)
Attempts(max) == IF max < 1 THEN 1 ELSE max

isIdempotent(method) == method \in {"HEAD", "GET", "PUT", "DELETE", "OPTIONS"}

isRetriable(status) == status \in {500, 502, 503, 504}
=============================================================================
