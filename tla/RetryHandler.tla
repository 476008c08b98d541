---------------------------- MODULE RetryHandler ----------------------------
(***************************************************************************)
(* httpx.RetryHandler (src/httpx/retry.go): one request, given to a        *)
(* sub-handler until it answers with something else than a 5xx.  A         *)
(* retryResponseWriter holds back the 5xx answers; the others go straight  *)
(* to the client.  The sub-handler is the program's: it may read the body, *)
(* write a status and a body, say nothing, and panic.                      *)
(***************************************************************************)
EXTENDS Retry

VARIABLES
  method,   \* req.Method
  max,      \* the local variable max
  ctx,      \* req.Context(): "live" or "done"
  pc,       \* where ServeHTTP is
  attempt,  \* the local variable attempt
  tried,    \* how many times the sub-handler was called
  read,     \* body.n # 0
  status,   \* res.status
  buffer,   \* res.buffer is not empty
  out       \* what w got: how many headers, the status, whose bytes

reqVars == <<method, max>>
vars == <<reqVars, ctx, pc, attempt, tried, read, status, buffer, out>>

(* In the sub-handler, after it, in sleep, writing the last 5xx, returned. *)
Pc == {"handler", "decide", "sleep", "answer", "done", "panicked"}

Init ==
  /\ method \in Methods /\ max \in {MaxAttempts(m) : m \in Limits}
  /\ ctx = "live" /\ pc = "handler" /\ attempt = 0 /\ tried = 1
  /\ read = FALSE /\ status = 0 /\ buffer = FALSE
  /\ out = [headers |-> 0, status |-> 0, from |-> {}]

Cancel ==
  /\ ctx = "live" /\ ctx' = "done"
  /\ UNCHANGED <<reqVars, pc, attempt, tried, read, status, buffer, out>>

-----------------------------------------------------------------------------
(* The sub-handler and the retryResponseWriter. *)

ReadBody ==
  /\ pc = "handler" /\ ~read /\ read' = TRUE
  /\ UNCHANGED <<reqVars, ctx, pc, attempt, tried, status, buffer, out>>

Header(o, st) == [headers |-> o.headers + 1, status |-> st, from |-> o.from]
Bytes(o) == [headers |-> o.headers, status |-> o.status, from |-> o.from \cup {tried}]

(* Mutant: a 5xx goes to the client at once. *)
HeaderPassedAlways(o, st) == Header(o, st)

(* A status below 500 is passed on, a 5xx is only remembered. *)
HeaderPassed(o, st) == IF st < 500 THEN Header(o, st) ELSE o

WriteHeader(st) ==
  /\ pc = "handler" /\ status = 0
  /\ status' = st /\ out' = HeaderPassed(out, st)
  /\ UNCHANGED <<reqVars, ctx, pc, attempt, tried, read, buffer>>

(* Write implies a status of 200 when none was written. *)
Write ==
  /\ pc = "handler"
  /\ status' = IF status = 0 THEN 200 ELSE status
  /\ LET o == IF status = 0 THEN HeaderPassed(out, 200) ELSE out
     IN  IF status' >= 500 THEN buffer' = TRUE /\ out' = o
                           ELSE UNCHANGED buffer /\ out' = Bytes(o)
  /\ UNCHANGED <<reqVars, ctx, pc, attempt, tried, read>>

Return ==
  /\ pc = "handler" /\ pc' = "decide"
  /\ UNCHANGED <<reqVars, ctx, attempt, tried, read, status, buffer, out>>

(* Nothing recovers here: the panic leaves ServeHTTP. *)
Panic ==
  /\ pc = "handler" /\ pc' = "panicked"
  /\ UNCHANGED <<reqVars, ctx, attempt, tried, read, status, buffer, out>>

-----------------------------------------------------------------------------
(* The loop of ServeHTTP. *)

Succeed ==
  /\ pc = "decide" /\ status < 500 /\ pc' = "done"
  /\ UNCHANGED <<reqVars, ctx, attempt, tried, read, status, buffer, out>>

(* Mutant: the bytes already read from the body are forgotten. *)
MayRetryAnyBody == isRetriable(status) /\ isIdempotent(method)

MayRetry == ~read /\ isRetriable(status) /\ isIdempotent(method)

GiveUp ==
  /\ pc = "decide" /\ status >= 500 /\ ~MayRetry /\ pc' = "answer"
  /\ UNCHANGED <<reqVars, ctx, attempt, tried, read, status, buffer, out>>

CountAttempt ==
  /\ pc = "decide" /\ status >= 500 /\ MayRetry
  /\ attempt' = attempt + 1
  /\ pc' = IF attempt' >= max THEN "answer" ELSE "sleep"
  /\ UNCHANGED <<reqVars, ctx, tried, read, status, buffer, out>>

(* The timer of sleep fires: the next attempt starts from a clean slate. *)
TryAgain ==
  /\ pc = "sleep" /\ pc' = "handler"
  /\ tried' = tried + 1 /\ status' = 0 /\ buffer' = FALSE
  /\ UNCHANGED <<reqVars, ctx, attempt, read, out>>

SleepCanceled ==
  /\ pc = "sleep" /\ ctx = "done" /\ pc' = "answer"
  /\ UNCHANGED <<reqVars, ctx, attempt, tried, read, status, buffer, out>>

(* The 5xx that was held back is written. *)
Answer ==
  /\ pc = "answer" /\ pc' = "done"
  /\ LET o == Header(out, status) IN out' = IF buffer THEN Bytes(o) ELSE o
  /\ UNCHANGED <<reqVars, ctx, attempt, tried, read, status, buffer>>

Done == pc \in {"done", "panicked"} /\ UNCHANGED vars

-----------------------------------------------------------------------------
HandlerNext ==
  ReadBody \/ (\E st \in Statuses : WriteHeader(st)) \/ Write \/ Return \/ Panic

LoopNext ==
  \/ Succeed \/ GiveUp \/ CountAttempt \/ TryAgain \/ SleepCanceled \/ Answer

Next == Cancel \/ HandlerNext \/ LoopNext \/ Done

Spec == Init /\ [][Next]_vars

-----------------------------------------------------------------------------
(* The header is sent once at most, and the client only gets bytes of      *)
(* attempts that were made (retry.go:159-189).  A sub-handler may answer   *)
(* with a status of its own, with the 200 of Write or with the 502 of a    *)
(* ReverseProxy.                                                           *)
TypeOK ==
  /\ method \in Methods /\ max \in Int /\ ctx \in {"live", "done"}
  /\ pc \in Pc /\ attempt \in Nat /\ tried \in Nat /\ read \in BOOLEAN
  /\ status \in Statuses \cup {0, 200, 502} /\ buffer \in BOOLEAN
  /\ out \in [headers : 0..1, status : Statuses \cup {0, 200, 502},
              from : SUBSET (1..tried)]

(* The client gets the answer of one attempt only: never the bytes of a    *)
(* failed attempt before, or mixed with, those of a later one, and the     *)
(* status it sees is the one of that attempt (retry.go:50-52, 172-189).    *)
OneAttemptAnswers ==
  /\ \A i, j \in out.from : i = j
  /\ out.headers = 1 => out.status = status /\ out.from \subseteq {tried}

(* The client has got nothing while the status of the attempt is unknown   *)
(* or a failure that is held back, and else the answer of this attempt     *)
(* (retry.go:50-58, 85-88, 159-189).                                       *)
HeldBack ==
  /\ IF status = 0 \/ (status >= 500 /\ pc # "done")
     THEN out.headers = 0 /\ out.from = {}
     ELSE out.headers = 1 /\ out.status = status /\ out.from \subseteq {tried}
  /\ pc \in {"sleep", "answer"} => status >= 500

(* The counter is the one of the attempts, which go beyond the first only  *)
(* for a method that is idempotent, with no byte of the body read          *)
(* (retry.go:49, 60-78).                                                   *)
AttemptsCount ==
  /\ tried >= 1 /\ (tried = 1 \/ (isIdempotent(method) /\ tried <= max))
  /\ pc \in {"handler", "decide"} => tried = attempt + 1
  /\ pc = "sleep" => /\ tried = attempt /\ tried < max
                     /\ ~read /\ isIdempotent(method)

(* The answer is of one attempt, and its header was sent once              *)
(* (retry.go:49-88, 159-189).                                              *)
AnswerInv == TypeOK /\ OneAttemptAnswers /\ HeldBack /\ AttemptsCount

(* A failed request is answered with its last failure, whatever made the   *)
(* handler give up (retry.go:60-88).                                       *)
FailureIsAnswered ==
  pc = "done" /\ status # 0 => out.headers = 1 /\ out.status = status
=============================================================================
