----------------------------- MODULE RetryChain -----------------------------
(***************************************************************************)
(* A request through both kinds of retries: a RetryHandler whose           *)
(* sub-handler is either the program's own, or a ReverseProxy              *)
(* (src/httpx/proxy.go) that sends the request on with a RetryTransport.   *)
(* The proxy answers 502 when RoundTrip fails, which the RetryHandler      *)
(* retries again; the body that the transport reads is the one that the    *)
(* RetryHandler counts the bytes of.                                       *)
(***************************************************************************)
EXTENDS Retry

VARIABLES
  proxy,    \* the sub-handler is a ReverseProxy
  at,       \* where the proxy is: before, in or after RoundTrip, or copying
  method, ctx,
  hmax, hpc, hattempt, htried, hread, status, buffer, out,   \* RetryHandler
  tmax, tpc, tattempt, ttried, tread, res, err,              \* RetryTransport
  sent      \* history: how often the request was sent to the backend

reqVars == <<proxy, method, hmax, tmax>>
hVars   == <<hpc, hattempt, htried, hread, status, buffer, out>>
tVars   == <<tpc, tattempt, ttried, tread, res, err>>
vars == <<reqVars, ctx, at, hVars, tVars, sent>>

H == INSTANCE RetryHandler
       WITH max <- hmax, pc <- hpc, attempt <- hattempt, tried <- htried, read <- hread
T == INSTANCE RetryTransport
       WITH max <- tmax, pc <- tpc, attempt <- tattempt, tried <- ttried, read <- tread

Init ==
  /\ proxy \in BOOLEAN /\ at = "before" /\ sent = 0
  /\ H!Init /\ T!Init
  /\ ~proxy => \A m \in Limits : tmax >= MaxAttempts(m)

Cancel == H!Cancel /\ UNCHANGED <<proxy, tmax, at, tVars, sent>>

(* The program's sub-handler. *)
OwnHandler ==
  /\ ~proxy /\ H!HandlerNext
  /\ UNCHANGED <<proxy, tmax, at, tVars, sent>>

HandlerLoop == H!LoopNext /\ UNCHANGED <<proxy, tmax, at, tVars, sent>>

(* transport.RoundTrip(&outreq): the variables of RoundTrip start anew. *)
CallRoundTrip ==
  /\ proxy /\ hpc = "handler" /\ at = "before" /\ at' = "in"
  /\ tpc' = "call" /\ tattempt' = 0 /\ ttried' = 0 /\ tread' = FALSE
  /\ res' = 0 /\ err' = "nil"
  /\ UNCHANGED <<reqVars, ctx, hVars, sent>>

(* The body of outreq is the one that the RetryHandler gave to req. *)
SubTransport ==
  /\ at = "in" /\ T!TransportNext
  /\ hread' = (hread \/ tread') /\ sent' = sent + 1
  /\ UNCHANGED <<reqVars, at, hpc, hattempt, htried, status, buffer, out>>

TransportLoop ==
  /\ at = "in" /\ T!LoopNext
  /\ UNCHANGED <<proxy, hmax, at, hVars, sent>>

(* 502 for an error, or else the status of the response. *)
Answer ==
  /\ at = "in" /\ tpc = "done"
  /\ H!WriteHeader(IF err # "nil" THEN 502 ELSE res)
  /\ at' = IF err # "nil" THEN "after" ELSE "copy"
  /\ UNCHANGED <<proxy, tmax, tVars, sent>>

(* netx.Copy(w, res.Body), of a body that may be empty. *)
CopyBody ==
  /\ at = "copy" /\ at' = "after"
  /\ H!Write \/ UNCHANGED <<method, hmax, ctx, hVars>>
  /\ UNCHANGED <<proxy, tmax, tVars, sent>>

ProxyReturns ==
  /\ at = "after" /\ at' = "before" /\ H!Return
  /\ UNCHANGED <<proxy, tmax, tVars, sent>>

Done == hpc \in {"done", "panicked"} /\ UNCHANGED vars

-----------------------------------------------------------------------------
ProxyNext ==
  CallRoundTrip \/ SubTransport \/ TransportLoop \/ Answer \/ CopyBody \/ ProxyReturns

Next == Cancel \/ OwnHandler \/ HandlerLoop \/ ProxyNext \/ Done

Spec == Init /\ [][Next]_vars

-----------------------------------------------------------------------------
(* The client gets the answer of one attempt, header and bytes, and a      *)
(* failure that was held back is answered in the end (retry.go:50-88,      *)
(* 159-189).                                                               *)
AnswerInv == H!AnswerInv /\ H!FailureIsAnswered

(* The status of the last response, or 502. *)
Outcome == IF res # 0 /\ ~isRetriable(res) THEN res ELSE 502

(* A RoundTrip runs within a call of the proxy and ends before the proxy   *)
(* answers; both loops count the same bytes of the body                    *)
(* (proxy.go:130-146, retry.go:39-40, 119-120).                            *)
Nested ==
  /\ at \in {"before", "in", "copy", "after"}
  /\ at # "before" => proxy /\ hpc = "handler"
  /\ at \in {"copy", "after"} => tpc = "done" /\ status = Outcome
  /\ at = "in" => status = 0 /\ hread = tread
  /\ proxy /\ at = "before" =>
       IF hpc = "handler" THEN status = 0 /\ ~hread
                          ELSE status = Outcome /\ hpc # "panicked"

(* How often the request was sent: a full round of the transport for every *)
(* finished attempt of the handler, at most (retry.go:49-79, 127-154).     *)
SendsCount ==
  /\ sent \in Nat
  /\ IF proxy THEN sent <= htried * Attempts(tmax) ELSE sent = 0
  /\ at = "in" => sent <= (htried - 1) * Attempts(tmax) + ttried
  /\ proxy /\ at = "before" /\ hpc = "handler" => sent <= (htried - 1) * Attempts(tmax)

(* RoundTrip returns an error exactly when the last attempt is a failure   *)
(* worth retrying, and the client of the proxy gets that outcome: the      *)
(* status of the last response, or 502 (retry.go:129-153,                  *)
(* proxy.go:135-146).                                                      *)
OutcomeInv ==
  /\ T!OutcomeInv /\ Nested /\ SendsCount
  /\ proxy /\ hpc = "done" => out.status = Outcome

(* Action property: through both loops, nothing is sent again once bytes   *)
(* of the body were read by any attempt, nor for a method that is not      *)
(* idempotent, nor more often than the maxima allow together, of which a   *)
(* negative one allows one attempt; nor is a sub-handler called again      *)
(* (retry.go:23-34, 60-74, 97-110, 145).                                   *)
NoUnsafeRetry ==
  [][/\ sent' # sent /\ sent # 0 =>
          ~hread /\ isIdempotent(method) /\ sent < Attempts(hmax) * Attempts(tmax)
     /\ htried' # htried => ~hread /\ isIdempotent(method) /\ htried < hmax]_vars
=============================================================================
