--------------------------- MODULE RetryTransport ---------------------------
(***************************************************************************)
(* httpx.RetryTransport (src/httpx/retry.go): one RoundTrip, repeated with *)
(* the sub-transport until it neither fails nor returns a retriable 5xx.   *)
(* The sub-transport is an http.RoundTripper of the program: it may read   *)
(* the body of the request, fail, or return a response whose own body is   *)
(* to be closed by whoever gets it.                                        *)
(***************************************************************************)
EXTENDS Retry

VARIABLES
  method,   \* req.Method
  max,      \* the local variable max
  ctx,      \* req.Context(): "live" or "done"
  pc,       \* where RoundTrip is
  attempt,  \* the local variable attempt
  tried,    \* how many times the sub-transport was called
  read,     \* body.n # 0
  res,      \* the status of res, 0 for nil
  err       \* the local variable err

reqVars == <<method, max>>
vars == <<reqVars, ctx, pc, attempt, tried, read, res, err>>

Pc == {"call", "decide", "sleep", "done"}

Errors == {"nil", "transport", "bodySent", "notIdempotent", "exhausted", "canceled"}

Init ==
  /\ method \in Methods /\ max \in {MaxAttempts(m) : m \in Limits}
  /\ ctx = "live" /\ pc = "call" /\ attempt = 0 /\ tried = 0
  /\ read = FALSE /\ res = 0 /\ err = "nil"

Cancel ==
  /\ ctx = "live" /\ ctx' = "done"
  /\ UNCHANGED <<reqVars, pc, attempt, tried, read, res, err>>

(* transport.RoundTrip(req), which may have read bytes of the body. *)
Respond(st) ==
  /\ pc = "call" /\ pc' = "decide"
  /\ tried' = tried + 1 /\ read' \in {read, TRUE}
  /\ res' = st /\ err' = "nil"
  /\ UNCHANGED <<reqVars, ctx, attempt>>

Fail ==
  /\ pc = "call" /\ pc' = "decide"
  /\ tried' = tried + 1 /\ read' \in {read, TRUE}
  /\ res' = 0 /\ err' = "transport"
  /\ UNCHANGED <<reqVars, ctx, attempt>>

-----------------------------------------------------------------------------
(* The loop of RoundTrip. *)

(* Mutant: any response is a success. *)
SuccessAny == err = "nil"

Success == err = "nil" /\ ~(res >= 500 /\ isRetriable(res))

Succeed ==
  /\ pc = "decide" /\ Success /\ pc' = "done"
  /\ UNCHANGED <<reqVars, ctx, attempt, tried, read, res, err>>

BodySent ==
  /\ pc = "decide" /\ ~Success /\ read
  /\ err' = "bodySent" /\ pc' = "done"
  /\ UNCHANGED <<reqVars, ctx, attempt, tried, read, res>>

NotIdempotent ==
  /\ pc = "decide" /\ ~Success /\ ~read /\ ~isIdempotent(method)
  /\ err' = "notIdempotent" /\ pc' = "done"
  /\ UNCHANGED <<reqVars, ctx, attempt, tried, read, res>>

CountAttempt ==
  /\ pc = "decide" /\ ~Success /\ ~read /\ isIdempotent(method)
  /\ attempt' = attempt + 1
  /\ IF attempt' >= max THEN err' = "exhausted" /\ pc' = "done"
                        ELSE UNCHANGED err /\ pc' = "sleep"
  /\ UNCHANGED <<reqVars, ctx, tried, read, res>>

TryAgain ==
  /\ pc = "sleep" /\ pc' = "call"
  /\ err' = "nil"
  /\ UNCHANGED <<reqVars, ctx, attempt, tried, read, res>>

SleepCanceled ==
  /\ pc = "sleep" /\ ctx = "done"
  /\ err' = "canceled" /\ pc' = "done"
  /\ UNCHANGED <<reqVars, ctx, attempt, tried, read, res>>

Done == pc = "done" /\ UNCHANGED vars

-----------------------------------------------------------------------------
TransportNext == (\E st \in Statuses : Respond(st)) \/ Fail

LoopNext ==
  \/ Succeed \/ BodySent \/ NotIdempotent \/ CountAttempt
  \/ TryAgain \/ SleepCanceled

Next == Cancel \/ TransportNext \/ LoopNext \/ Done

Spec == Init /\ [][Next]_vars

-----------------------------------------------------------------------------
(* The counter of attempts never runs ahead of the attempts made           *)
(* (retry.go:114-156).                                                     *)
TypeOK ==
  /\ method \in Methods /\ max \in Int /\ ctx \in {"live", "done"}
  /\ pc \in Pc /\ attempt \in 0..tried /\ tried \in Nat /\ read \in BOOLEAN
  /\ res \in Statuses \cup {0} /\ err \in Errors

(* RoundTrip returns an error exactly when what it got last is a failure   *)
(* worth retrying: no caller is left with nothing and no error, or with an *)
(* error in place of a response it should see (retry.go:129-153).  When it *)
(* gives up on a 5xx it returns the response beside the error.             *)
ErrorIffFailure ==
  pc = "done" => (err = "nil" <=> res # 0 /\ ~isRetriable(res))

(* The two variables res and err are those of the last attempt: before it  *)
(* there is no error, after it one or the other, and only a failure is     *)
(* slept on (retry.go:128-151).                                            *)
LastAttempt ==
  /\ pc = "decide" => \/ err = "nil" /\ res # 0
                      \/ err = "transport" /\ res = 0
  /\ pc = "sleep" => res = 0 \/ isRetriable(res)

(* The counter is the one of the attempts, which go beyond the first only  *)
(* for a method that is idempotent, with no byte of the body read          *)
(* (retry.go:127, 135-151).                                                *)
AttemptsCount ==
  /\ tried <= Attempts(max)
  /\ pc = "decide" => tried = attempt + 1
  /\ pc \in {"call", "sleep"} => tried = attempt /\ ~read
  /\ pc = "sleep" \/ (pc = "call" /\ tried > 0) => isIdempotent(method) /\ tried < max

(* The outcome fits the last attempt, and the counter the attempts made    *)
(* (retry.go:114-156).                                                     *)
OutcomeInv == TypeOK /\ ErrorIffFailure /\ LastAttempt /\ AttemptsCount
=============================================================================
