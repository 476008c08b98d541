--------------------------- MODULE WrapperProofs ----------------------------
(***************************************************************************)
(* Proofs about what wraps a handler or a transport.                       *)
(*                                                                         *)
(* RetryHandler and RetryTransport, alone and one within the other, are    *)
(* safe for every method, every set of statuses and all values of          *)
(* MaxAttempts, negative ones too.  The inductive invariant is AnswerInv   *)
(* and OutcomeInv together: what the handler may answer depends on how the *)
(* RoundTrip within it ended.                                              *)
(*                                                                         *)
(* The choice of a media type and of a coding, a body that is coded and    *)
(* decoded, and the header of a request that passes proxies are right for  *)
(* all fields, offers, bodies, wrappers and hosts.  What is inductive of   *)
(* Negotiation is its type invariant; CodingInv needs CodingIsAccepted as  *)
(* well, since a transport decodes only what it asked for, and             *)
(* HopsAreListed the line of the client that it leaves implicit.  What a   *)
(* parameter is read back as follows, by induction over texts, from what   *)
(* the three loops over one make of an escaped character.                  *)
(***************************************************************************)
EXTENDS RetryChain, Negotiation, SequenceTheorems, FiniteSetTheorems, WellFoundedInduction,
        TLAPS

-----------------------------------------------------------------------------
(* Arithmetic. *)

(* A product grows with its factor. *)
LEMMA TimesMonotonic ==
  ASSUME NEW a \in Nat, NEW b \in Nat, NEW m \in Nat, a <= b
  PROVE  a * m <= b * m
OBVIOUS

(* One more attempt of the outer loop is one more factor of the inner. *)
LEMMA TimesPrevious ==
  ASSUME NEW a \in Nat, NEW m \in Nat
  PROVE  (a - 1) * m + m = a * m /\ (a + 1 - 1) * m = a * m /\ a * m \in Nat
OBVIOUS

(* A loop tries at least once, and no maximum allows more. *)
LEMMA AttemptsFacts ==
  ASSUME NEW m \in Int
  PROVE  Attempts(m) \in Nat /\ Attempts(m) >= 1 /\ Attempts(m) >= m
BY DEF Attempts

(* Each instance has the helpers of module Retry. *)
LEMMA Helpers ==
  /\ \A m : H!isIdempotent(m) = isIdempotent(m) /\ T!isIdempotent(m) = isIdempotent(m)
  /\ \A st : H!isRetriable(st) = isRetriable(st) /\ T!isRetriable(st) = isRetriable(st)
  /\ \A m : T!Attempts(m) = Attempts(m)
BY DEF H!isIdempotent, T!isIdempotent, isIdempotent, H!isRetriable, T!isRetriable,
       isRetriable, T!Attempts, Attempts

-----------------------------------------------------------------------------
(* The RetryHandler. *)

HInv == H!TypeOK /\ H!HeldBack /\ H!AttemptsCount

(* What is held back is all that an attempt may leave behind: the client   *)
(* gets bytes of one attempt.                                              *)
LEMMA HeldBackIsEnough ==
  ASSUME HInv
  PROVE  H!OneAttemptAnswers /\ H!FailureIsAnswered
<1>1. out.from = {} \/ out.from = {htried}
  BY DEF HInv, H!HeldBack
<1>2. \A i, j \in out.from : i = j
  BY <1>1
<1>3. status \in Nat
  BY RetryAssumption DEF HInv, H!TypeOK
<1>4. H!OneAttemptAnswers
  BY <1>2, <1>3 DEF HInv, H!HeldBack, H!OneAttemptAnswers
<1>5. H!FailureIsAnswered
  BY <1>3 DEF HInv, H!HeldBack, H!FailureIsAnswered
<1> QED
  BY <1>4, <1>5

Answers(n) ==
  [headers : 0..1, status : Statuses \cup {0, 200, 502}, from : SUBSET (1..n)]

(* The sub-handler answers: a status below 500 goes to the client. *)
LEMMA WriteHeaderKeeps ==
  ASSUME HInv, NEW st \in Statuses \cup {502}, H!WriteHeader(st)
  PROVE  HInv'
<1> USE RetryAssumption
<1>1. out.headers = 0 /\ out.from = {} /\ status = 0 /\ st \in Nat \ {0} /\ hpc = "handler"
  <2>1. st \in Nat \ {0}
    OBVIOUS
  <2>2. status = 0 /\ hpc = "handler"
    BY DEF H!WriteHeader
  <2>3. out.headers = 0 /\ out.from = {}
    BY <2>2 DEF HInv, H!HeldBack
  <2> QED
    BY <2>1, <2>2, <2>3
<1>2. /\ status' = st /\ UNCHANGED <<method, hmax, ctx, hpc, hattempt, htried, hread, buffer>>
      /\ out' = IF st < 500 THEN [headers |-> 1, status |-> st, from |-> {}] ELSE out
  BY <1>1 DEF H!WriteHeader, H!HeaderPassed, H!Header, H!reqVars
<1>3. H!TypeOK'
  <2>1. out' \in Answers(htried)
    BY <1>1, <1>2 DEF HInv, H!TypeOK, Answers
  <2> QED
    BY <1>2, <2>1 DEF HInv, H!TypeOK, Answers
<1>4. H!HeldBack'
  BY <1>1, <1>2 DEF HInv, H!TypeOK, H!HeldBack
<1> QED
  BY <1>2, <1>3, <1>4 DEF HInv, H!AttemptsCount

(* Bytes follow the header of this attempt, or are held back with it. *)
LEMMA WriteKeeps ==
  ASSUME HInv, H!Write
  PROVE  HInv' /\ (status # 0 => status' = status)
<1> USE RetryAssumption
<1>1. UNCHANGED <<method, hmax, ctx, hpc, hattempt, htried, hread>> /\ hpc = "handler"
  BY DEF H!Write, H!reqVars
<1>2. htried \in Nat /\ htried >= 1 /\ status \in Nat
  BY DEF HInv, H!TypeOK, H!AttemptsCount
<1>3. CASE status = 0
  <2>1. out.headers = 0 /\ out.from = {}
    BY <1>3 DEF HInv, H!HeldBack
  <2>2. /\ status' = 200 /\ buffer' = buffer
        /\ out' = [headers |-> 1, status |-> 200, from |-> {htried}]
    BY <1>3, <2>1 DEF H!Write, H!HeaderPassed, H!Header, H!Bytes
  <2>3. out' \in Answers(htried)
    BY <1>2, <2>2 DEF Answers
  <2> QED
    BY <1>1, <1>3, <2>2, <2>3 DEF HInv, H!TypeOK, H!HeldBack, H!AttemptsCount, Answers
<1>4. CASE status # 0 /\ status < 500
  <2>1. out.headers = 1 /\ out.status = status /\ out.from \subseteq {htried}
    BY <1>2, <1>4 DEF HInv, H!HeldBack
  <2>2. /\ status' = status /\ buffer' = buffer
        /\ out' = [headers |-> 1, status |-> status, from |-> {htried}]
    BY <1>2, <1>4, <2>1 DEF H!Write, H!Bytes
  <2>3. out' \in Answers(htried)
    BY <1>2, <2>2 DEF HInv, H!TypeOK, Answers
  <2> QED
    BY <1>1, <1>4, <2>2, <2>3 DEF HInv, H!TypeOK, H!HeldBack, H!AttemptsCount, Answers
<1>5. CASE status >= 500
  <2>1. status' = status /\ buffer' = TRUE /\ out' = out
    BY <1>2, <1>5 DEF H!Write
  <2> QED
    BY <1>1, <1>5, <2>1 DEF HInv, H!TypeOK, H!HeldBack, H!AttemptsCount
<1> QED
  BY <1>2, <1>3, <1>4, <1>5

(* The rest of what a sub-handler does. *)
LEMMA SubHandlerKeeps ==
  ASSUME HInv, H!ReadBody \/ H!Return \/ H!Panic \/ H!Cancel
  PROVE  HInv'
<1> USE RetryAssumption
<1> USE DEF HInv, H!TypeOK, H!HeldBack, H!AttemptsCount, H!reqVars, H!Pc
<1>1. CASE H!ReadBody
  BY <1>1 DEF H!ReadBody
<1>2. CASE H!Return
  BY <1>2 DEF H!Return
<1>3. CASE H!Panic
  BY <1>3 DEF H!Panic
<1>4. CASE H!Cancel
  BY <1>4 DEF H!Cancel
<1> QED
  BY <1>1, <1>2, <1>3, <1>4

(* The loop of ServeHTTP. *)
LEMMA HandlerLoopKeeps ==
  ASSUME HInv, H!LoopNext
  PROVE  HInv'
<1> USE RetryAssumption
<1>1. /\ status \in Nat /\ htried \in Nat /\ hattempt \in Nat /\ hmax \in Int
      /\ out \in Answers(htried)
  BY DEF HInv, H!TypeOK, Answers
<1>2. CASE H!Succeed \/ H!GiveUp \/ H!SleepCanceled
  BY <1>1, <1>2 DEF H!Succeed, H!GiveUp, H!SleepCanceled, HInv, H!TypeOK, H!HeldBack,
                    H!AttemptsCount, H!reqVars, H!Pc
<1>3. CASE H!CountAttempt
  <2>1. /\ hpc = "decide" /\ status >= 500 /\ ~hread /\ H!isIdempotent(method)
        /\ hattempt' = hattempt + 1
        /\ hpc' = IF hattempt' >= hmax THEN "answer" ELSE "sleep"
        /\ UNCHANGED <<method, hmax, ctx, htried, hread, status, buffer, out>>
    BY <1>3 DEF H!CountAttempt, H!MayRetry, H!reqVars
  <2>2. H!TypeOK' /\ H!HeldBack'
    BY <1>1, <2>1 DEF HInv, H!TypeOK, H!HeldBack, H!Pc
  <2>3. htried = hattempt + 1
    BY <2>1 DEF HInv, H!AttemptsCount
  <2>4. H!AttemptsCount'
    BY <1>1, <2>1, <2>3 DEF HInv, H!AttemptsCount
  <2> QED
    BY <2>2, <2>4 DEF HInv
<1>4. CASE H!TryAgain
  <2>1. /\ hpc = "sleep" /\ hpc' = "handler" /\ htried' = htried + 1
        /\ status' = 0 /\ buffer' = FALSE
        /\ UNCHANGED <<method, hmax, ctx, hattempt, hread, out>>
    BY <1>4 DEF H!TryAgain, H!reqVars
  <2>2. out.headers = 0 /\ out.from = {}
    BY <1>1, <2>1 DEF HInv, H!HeldBack
  <2>3. out' \in Answers(htried')
    BY <1>1, <2>1, <2>2 DEF Answers
  <2>4. H!TypeOK'
    <3>1. htried' \in Nat
      BY <1>1, <2>1
    <3>2. out' \in [headers : 0..1, status : Statuses \cup {0, 200, 502},
                    from : SUBSET (1..htried')]
      BY <2>3 DEF Answers
    <3>3. status' \in Statuses \cup {0, 200, 502} /\ hpc' \in H!Pc /\ buffer' \in BOOLEAN
      BY <2>1 DEF H!Pc
    <3> QED
      BY <2>1, <3>1, <3>2, <3>3 DEF HInv, H!TypeOK
  <2>5. H!HeldBack'
    BY <2>1, <2>2 DEF H!HeldBack
  <2>6. H!AttemptsCount'
    BY <1>1, <2>1 DEF HInv, H!AttemptsCount
  <2> QED
    BY <2>4, <2>5, <2>6 DEF HInv
<1>5. CASE H!Answer
  <2>1. /\ hpc = "answer" /\ hpc' = "done"
        /\ UNCHANGED <<method, hmax, ctx, hattempt, htried, hread, status, buffer>>
    BY <1>5 DEF H!Answer, H!reqVars
  <2>2. out.headers = 0 /\ out.from = {} /\ status >= 500
    BY <1>1, <2>1 DEF HInv, H!HeldBack
  <2>3. \/ out' = [headers |-> 1, status |-> status, from |-> {}]
        \/ out' = [headers |-> 1, status |-> status, from |-> {htried}]
    BY <1>5, <2>2 DEF H!Answer, H!Header, H!Bytes
  <2>4. htried >= 1 /\ status \in Statuses \cup {0, 200, 502}
    BY DEF HInv, H!AttemptsCount, H!TypeOK
  <2>5. out' \in Answers(htried)
    BY <1>1, <2>3, <2>4 DEF Answers
  <2>6. H!TypeOK' /\ H!HeldBack'
    BY <1>1, <2>1, <2>2, <2>3, <2>5 DEF HInv, H!TypeOK, H!HeldBack, H!Pc, Answers
  <2>7. H!AttemptsCount'
    BY <2>1 DEF HInv, H!AttemptsCount
  <2> QED
    BY <2>6, <2>7 DEF HInv
<1> QED
  BY <1>2, <1>3, <1>4, <1>5 DEF H!LoopNext

-----------------------------------------------------------------------------
(* The RetryTransport. *)

(* The sub-transport is called: the attempt has an outcome. *)
LEMMA SubTransportKeeps ==
  ASSUME T!OutcomeInv, T!TransportNext
  PROVE  T!OutcomeInv'
<1> USE RetryAssumption
<1>1. PICK st \in Statuses \cup {0} :
        /\ tpc = "call" /\ tpc' = "decide"
        /\ ttried' = ttried + 1 /\ tread' \in {tread, TRUE}
        /\ res' = st /\ err' = (IF st = 0 THEN "transport" ELSE "nil")
        /\ UNCHANGED <<method, tmax, ctx, tattempt>>
  <2>1. CASE T!Fail
    BY <2>1 DEF T!Fail, T!reqVars
  <2>2. CASE \E st \in Statuses : T!Respond(st)
    BY <2>2 DEF T!Respond, T!reqVars
  <2> QED
    BY <2>1, <2>2 DEF T!TransportNext
<1>2. ttried \in Nat /\ tattempt \in 0..ttried /\ tmax \in Int /\ ttried = tattempt
  BY <1>1 DEF T!OutcomeInv, T!TypeOK, T!AttemptsCount
<1>3. T!TypeOK'
  <2>1. tread' \in BOOLEAN
    BY <1>1 DEF T!OutcomeInv, T!TypeOK
  <2>2. ttried' \in Nat /\ tattempt' \in 0..ttried'
    BY <1>1, <1>2
  <2> QED
    BY <1>1, <2>1, <2>2 DEF T!OutcomeInv, T!TypeOK, T!Pc, T!Errors
<1>4. T!ErrorIffFailure' /\ T!LastAttempt'
  BY <1>1 DEF T!ErrorIffFailure, T!LastAttempt
<1>5. ttried + 1 <= T!Attempts(tmax)
  BY <1>1, <1>2 DEF T!OutcomeInv, T!AttemptsCount, T!Attempts
<1>6. T!AttemptsCount'
  BY <1>1, <1>2, <1>5 DEF T!OutcomeInv, T!AttemptsCount
<1> QED
  BY <1>3, <1>4, <1>6 DEF T!OutcomeInv

(* The loop of RoundTrip. *)
LEMMA TransportLoopKeeps ==
  ASSUME T!OutcomeInv, T!LoopNext
  PROVE  T!OutcomeInv'
<1> USE RetryAssumption
<1>1. /\ ttried \in Nat /\ tattempt \in 0..ttried /\ tmax \in Int
      /\ res \in Nat /\ tpc \in T!Pc
  BY DEF T!OutcomeInv, T!TypeOK
<1>2. T!isRetriable(res) => res >= 500
  BY DEF T!isRetriable
<1>3. tpc = "decide" /\ ~T!Success => res = 0 \/ T!isRetriable(res)
  BY DEF T!OutcomeInv, T!LastAttempt, T!Success
<1>4. CASE T!Succeed
  <2>1. err = "nil" /\ res # 0 /\ ~T!isRetriable(res)
    BY <1>2, <1>4 DEF T!Succeed, T!Success, T!OutcomeInv, T!LastAttempt
  <2> QED
    BY <1>1, <1>4, <2>1 DEF T!Succeed, T!OutcomeInv, T!TypeOK, T!ErrorIffFailure,
       T!LastAttempt, T!AttemptsCount, T!reqVars, T!Pc
<1>5. ASSUME err' \in T!Errors \ {"nil"}, res = 0 \/ T!isRetriable(res), tpc' = "done",
             tattempt' \in 0..ttried, UNCHANGED <<method, tmax, ctx, ttried, tread, res>>
      PROVE  T!OutcomeInv'
  <2>1. T!TypeOK' /\ T!ErrorIffFailure' /\ T!LastAttempt'
    BY <1>1, <1>5 DEF T!OutcomeInv, T!TypeOK, T!ErrorIffFailure, T!LastAttempt, T!Pc
  <2>2. T!AttemptsCount'
    BY <1>1, <1>5 DEF T!OutcomeInv, T!AttemptsCount
  <2> QED
    BY <2>1, <2>2 DEF T!OutcomeInv
<1>6. CASE T!BodySent
  BY <1>1, <1>3, <1>5, <1>6 DEF T!BodySent, T!Errors, T!reqVars
<1>7. CASE T!NotIdempotent
  BY <1>1, <1>3, <1>5, <1>7 DEF T!NotIdempotent, T!Errors, T!reqVars
<1>8. CASE T!SleepCanceled
  <2>1. res = 0 \/ T!isRetriable(res)
    BY <1>8 DEF T!SleepCanceled, T!OutcomeInv, T!LastAttempt
  <2> QED
    BY <1>1, <1>5, <1>8, <2>1 DEF T!SleepCanceled, T!Errors, T!reqVars
<1>9. CASE T!CountAttempt
  <2>1. /\ tpc = "decide" /\ ~T!Success /\ ~tread /\ T!isIdempotent(method)
        /\ tattempt' = tattempt + 1
        /\ IF tattempt' >= tmax THEN err' = "exhausted" /\ tpc' = "done"
                                ELSE err' = err /\ tpc' = "sleep"
        /\ UNCHANGED <<method, tmax, ctx, ttried, tread, res>>
    BY <1>9 DEF T!CountAttempt, T!reqVars
  <2>2. ttried = tattempt + 1 /\ tattempt + 1 \in 0..ttried
    BY <1>1, <2>1 DEF T!OutcomeInv, T!AttemptsCount
  <2>3. CASE tattempt' >= tmax
    BY <1>3, <1>5, <2>1, <2>2, <2>3 DEF T!Errors
  <2>4. CASE ~(tattempt' >= tmax)
    <3>1. T!TypeOK' /\ T!ErrorIffFailure' /\ T!LastAttempt'
      BY <1>1, <1>3, <2>1, <2>2, <2>4 DEF T!OutcomeInv, T!TypeOK, T!ErrorIffFailure,
         T!LastAttempt, T!Pc
    <3>2. T!AttemptsCount'
      BY <1>1, <2>1, <2>2, <2>4 DEF T!OutcomeInv, T!AttemptsCount
    <3> QED
      BY <3>1, <3>2 DEF T!OutcomeInv
  <2> QED
    BY <2>3, <2>4
<1>10. CASE T!TryAgain
  <2>1. T!TypeOK' /\ T!ErrorIffFailure' /\ T!LastAttempt'
    BY <1>1, <1>10 DEF T!TryAgain, T!OutcomeInv, T!TypeOK, T!ErrorIffFailure,
       T!LastAttempt, T!Pc, T!Errors, T!reqVars
  <2>2. T!AttemptsCount'
    BY <1>1, <1>10 DEF T!TryAgain, T!OutcomeInv, T!AttemptsCount, T!reqVars
  <2> QED
    BY <2>1, <2>2 DEF T!OutcomeInv
<1> QED
  BY <1>4, <1>6, <1>7, <1>8, <1>9, <1>10 DEF T!LoopNext

-----------------------------------------------------------------------------
(* One within the other. *)

ChainInv == HInv /\ T!OutcomeInv /\ Nested /\ SendsCount

(* What each loop leaves to the other. *)
LEMMA HandlerFrame ==
  ASSUME H!HandlerNext \/ H!LoopNext
  PROVE  UNCHANGED <<method, hmax, ctx>>
<1>1. CASE H!HandlerNext
  BY <1>1 DEF H!HandlerNext, H!ReadBody, H!WriteHeader, H!Write, H!Return, H!Panic, H!reqVars
<1>2. CASE H!LoopNext
  BY <1>2 DEF H!LoopNext, H!Succeed, H!GiveUp, H!CountAttempt, H!TryAgain,
              H!SleepCanceled, H!Answer, H!reqVars
<1> QED
  BY <1>1, <1>2

(* A call of the sub-transport is one attempt; the loop around it makes    *)
(* none.                                                                   *)
LEMMA TransportFrame ==
  ASSUME T!TransportNext \/ T!LoopNext
  PROVE  /\ UNCHANGED <<method, tmax, ctx>>
         /\ T!TransportNext => tpc = "call" /\ ttried' = ttried + 1 /\ tread' \in {tread, TRUE}
         /\ T!LoopNext => UNCHANGED <<ttried, tread>>
<1>1. CASE T!TransportNext
  <2>1. /\ UNCHANGED <<method, tmax, ctx>> /\ tpc = "call" /\ tpc' = "decide"
        /\ ttried' = ttried + 1 /\ tread' \in {tread, TRUE}
    BY <1>1 DEF T!TransportNext, T!Respond, T!Fail, T!reqVars
  <2>2. ~T!LoopNext
    BY <2>1 DEF T!LoopNext, T!Succeed, T!BodySent, T!NotIdempotent, T!CountAttempt,
                T!TryAgain, T!SleepCanceled
  <2> QED
    BY <2>1, <2>2
<1>2. CASE T!LoopNext
  <2>1. UNCHANGED <<method, tmax, ctx, ttried, tread>> /\ tpc # "call"
    BY <1>2 DEF T!LoopNext, T!Succeed, T!BodySent, T!NotIdempotent, T!CountAttempt,
                T!TryAgain, T!SleepCanceled, T!reqVars
  <2>2. ~T!TransportNext
    BY <2>1 DEF T!TransportNext, T!Respond, T!Fail
  <2> QED
    BY <2>1, <2>2
<1> QED
  BY <1>1, <1>2

(* What the proxy answers with is what RoundTrip returned. *)
LEMMA AnswerIsOutcome ==
  ASSUME T!OutcomeInv, tpc = "done"
  PROVE  /\ (IF err # "nil" THEN 502 ELSE res) = Outcome
         /\ Outcome \in Statuses \cup {502} /\ Outcome # 0
<1>1. err = "nil" <=> res # 0 /\ ~isRetriable(res)
  BY Helpers DEF T!OutcomeInv, T!ErrorIffFailure
<1>2. res \in Statuses \cup {0} /\ 0 \notin Statuses
  BY RetryAssumption DEF T!OutcomeInv, T!TypeOK
<1> QED
  BY <1>1, <1>2 DEF Outcome

(* Every step keeps the invariant of the handler. *)
LEMMA HandlerStep ==
  ASSUME ChainInv, [Next]_vars
  PROVE  HInv'
<1> USE DEF ChainInv
<1>1. ASSUME UNCHANGED <<method, hmax, ctx, hVars>>
      PROVE  HInv'
  BY <1>1 DEF HInv, H!TypeOK, H!HeldBack, H!AttemptsCount, hVars
<1>2. CASE Cancel
  BY <1>2, SubHandlerKeeps DEF Cancel
<1>3. CASE OwnHandler
  BY <1>3, SubHandlerKeeps, WriteHeaderKeeps, WriteKeeps DEF OwnHandler, H!HandlerNext
<1>4. CASE HandlerLoop
  BY <1>4, HandlerLoopKeeps DEF HandlerLoop
<1>5. CASE CallRoundTrip
  BY <1>1, <1>5 DEF CallRoundTrip, reqVars
<1>6. CASE SubTransport
  <2>1. /\ UNCHANGED <<method, hmax, ctx, hpc, hattempt, htried, status, buffer, out>>
        /\ hread' = (hread \/ tread') /\ at = "in"
    BY <1>6, TransportFrame DEF SubTransport, reqVars
  <2>2. hread' \in BOOLEAN /\ hpc = "handler"
    BY <2>1 DEF Nested
  <2> QED
    BY <2>1, <2>2 DEF HInv, H!TypeOK, H!HeldBack, H!AttemptsCount
<1>7. CASE TransportLoop
  BY <1>1, <1>7, TransportFrame DEF TransportLoop
<1>8. CASE Answer
  <2>1. H!WriteHeader(Outcome) /\ Outcome \in Statuses \cup {502}
    BY <1>8, AnswerIsOutcome DEF Answer
  <2> QED
    BY <2>1, WriteHeaderKeeps
<1>9. CASE CopyBody
  BY <1>1, <1>9, WriteKeeps DEF CopyBody
<1>10. CASE ProxyReturns
  BY <1>10, SubHandlerKeeps DEF ProxyReturns
<1>11. CASE Done \/ UNCHANGED vars
  BY <1>1, <1>11 DEF Done, vars, reqVars
<1> QED
  BY <1>2, <1>3, <1>4, <1>5, <1>6, <1>7, <1>8, <1>9, <1>10, <1>11 DEF Next, ProxyNext

(* Every step keeps the invariant of the transport. *)
LEMMA TransportStep ==
  ASSUME ChainInv, [Next]_vars
  PROVE  T!OutcomeInv' /\ tmax' = tmax /\ proxy' = proxy
<1> USE DEF ChainInv
<1>1. ASSUME UNCHANGED <<method, tmax, tVars>>, ctx' \in {"live", "done"}
      PROVE  T!OutcomeInv'
  BY <1>1 DEF T!OutcomeInv, T!TypeOK, T!ErrorIffFailure, T!LastAttempt, T!AttemptsCount, tVars
<1>2. ctx \in {"live", "done"}
  BY DEF T!OutcomeInv, T!TypeOK
<1>3. CASE Cancel
  BY <1>1, <1>3 DEF Cancel, H!Cancel, H!reqVars
<1>4. CASE OwnHandler \/ HandlerLoop
  BY <1>1, <1>2, <1>4, HandlerFrame DEF OwnHandler, HandlerLoop
<1>5. CASE CallRoundTrip
  <2>1. /\ tpc' = "call" /\ tattempt' = 0 /\ ttried' = 0 /\ tread' = FALSE
        /\ res' = 0 /\ err' = "nil" /\ UNCHANGED <<proxy, method, tmax, ctx>>
    BY <1>5 DEF CallRoundTrip, reqVars
  <2>2. T!TypeOK' /\ T!ErrorIffFailure' /\ T!LastAttempt'
    <3>1. ttried' \in Nat /\ tattempt' \in 0..ttried'
      BY <2>1
    <3>2. T!TypeOK'
      BY <2>1, <3>1 DEF T!OutcomeInv, T!TypeOK, T!Pc, T!Errors
    <3> QED
      BY <2>1, <3>2 DEF T!ErrorIffFailure, T!LastAttempt
  <2>3. T!AttemptsCount'
    BY <2>1 DEF T!OutcomeInv, T!TypeOK, T!AttemptsCount, T!Attempts
  <2> QED
    BY <2>1, <2>2, <2>3 DEF T!OutcomeInv
<1>6. CASE SubTransport
  BY <1>6, SubTransportKeeps DEF SubTransport, reqVars
<1>7. CASE TransportLoop
  BY <1>7, TransportLoopKeeps, TransportFrame DEF TransportLoop
<1>8. CASE Answer
  BY <1>1, <1>2, <1>8 DEF Answer, H!WriteHeader, H!reqVars
<1>9. CASE CopyBody
  BY <1>1, <1>2, <1>9 DEF CopyBody, H!Write, H!reqVars
<1>10. CASE ProxyReturns
  BY <1>1, <1>2, <1>10 DEF ProxyReturns, H!Return, H!reqVars
<1>11. CASE Done \/ UNCHANGED vars
  BY <1>1, <1>2, <1>11 DEF Done, vars, reqVars
<1> QED
  BY <1>3, <1>4, <1>5, <1>6, <1>7, <1>8, <1>9, <1>10, <1>11 DEF Next, ProxyNext

(* The proxy and the loops take turns. *)
LEMMA NestedStep ==
  ASSUME ChainInv, [Next]_vars
  PROVE  Nested'
<1> USE DEF ChainInv
<1>1. hread \in BOOLEAN
  BY DEF HInv, H!TypeOK
<1>2. ASSUME UNCHANGED <<proxy, at, hpc, hread, status, tpc, tread, res>>
      PROVE  Nested'
  BY <1>2 DEF Nested, Outcome
<1>3. CASE Cancel
  BY <1>2, <1>3 DEF Cancel, H!Cancel, tVars
<1>4. CASE OwnHandler
  BY <1>4 DEF OwnHandler, Nested
<1>5. CASE HandlerLoop
  <2>1. at = "before" /\ UNCHANGED <<proxy, at, tVars>> /\ hpc # "handler"
    BY <1>5 DEF HandlerLoop, Nested, H!LoopNext, H!Succeed, H!GiveUp, H!CountAttempt,
                H!TryAgain, H!SleepCanceled, H!Answer
  <2>2. CASE H!TryAgain
    BY <2>1, <2>2 DEF H!TryAgain, HInv, H!AttemptsCount, Nested
  <2>3. CASE H!Succeed \/ H!GiveUp \/ H!CountAttempt \/ H!SleepCanceled \/ H!Answer
    <3>1. status' = status /\ hpc' \in {"done", "answer", "sleep"}
      BY <2>3 DEF H!Succeed, H!GiveUp, H!CountAttempt, H!SleepCanceled, H!Answer
    <3> QED
      BY <2>1, <3>1 DEF Nested, Outcome, tVars
  <2> QED
    BY <1>5, <2>2, <2>3 DEF HandlerLoop, H!LoopNext
<1>6. CASE CallRoundTrip
  BY <1>1, <1>6 DEF CallRoundTrip, Nested, reqVars, hVars
<1>7. CASE SubTransport
  <2>1. /\ at = "in" /\ at' = "in" /\ UNCHANGED <<proxy, hpc, status>>
        /\ tread' \in {tread, TRUE} /\ hread' = (hread \/ tread')
    BY <1>7, TransportFrame DEF SubTransport, reqVars
  <2>2. hread = tread /\ status = 0 /\ proxy /\ hpc = "handler"
    BY <2>1 DEF Nested
  <2>3. hread' = tread'
    BY <1>1, <2>1, <2>2
  <2> QED
    BY <2>1, <2>2, <2>3 DEF Nested
<1>8. CASE TransportLoop
  <2>1. at = "in" /\ UNCHANGED <<proxy, at, hpc, hread, status, tread>>
    BY <1>8, TransportFrame DEF TransportLoop, hVars
  <2> QED
    BY <2>1 DEF Nested
<1>9. CASE Answer
  <2>1. H!WriteHeader(Outcome) /\ tpc = "done" /\ at = "in"
    BY <1>9, AnswerIsOutcome DEF Answer
  <2>2. /\ status' = Outcome /\ hpc' = hpc /\ UNCHANGED <<proxy, tVars>>
        /\ at' \in {"copy", "after"}
    BY <1>9, <2>1 DEF Answer, H!WriteHeader
  <2> QED
    BY <2>1, <2>2 DEF Nested, Outcome, tVars
<1>10. CASE CopyBody
  <2>1. at = "copy" /\ at' = "after" /\ UNCHANGED <<proxy, tVars>>
    BY <1>10 DEF CopyBody
  <2>2. status # 0
    BY <2>1, AnswerIsOutcome DEF Nested
  <2>3. UNCHANGED <<status, hpc>>
    BY <1>10, <2>2 DEF CopyBody, H!Write, hVars
  <2> QED
    BY <2>1, <2>3 DEF Nested, Outcome, tVars
<1>11. CASE ProxyReturns
  <2>1. at = "after" /\ at' = "before" /\ hpc' = "decide" /\ UNCHANGED <<proxy, tVars, status>>
    BY <1>11 DEF ProxyReturns, H!Return
  <2> QED
    BY <2>1 DEF Nested, Outcome, tVars
<1>12. CASE Done \/ UNCHANGED vars
  BY <1>2, <1>12 DEF Done, vars, reqVars, hVars, tVars
<1> QED
  BY <1>3, <1>4, <1>5, <1>6, <1>7, <1>8, <1>9, <1>10, <1>11, <1>12 DEF Next, ProxyNext

(* The request is sent no more often than the attempts of both loops. *)
LEMMA SendsStep ==
  ASSUME ChainInv, [Next]_vars
  PROVE  SendsCount'
<1> DEFINE m == Attempts(tmax)
<1>1. m' = m /\ proxy' = proxy
  BY TransportStep
<1>2. m \in Nat /\ m >= 1
  BY AttemptsFacts DEF ChainInv, T!OutcomeInv, T!TypeOK
<1>3. htried \in Nat /\ ttried \in Nat /\ ttried <= m /\ sent \in Nat
  BY Helpers DEF ChainInv, HInv, H!TypeOK, T!OutcomeInv, T!TypeOK, T!AttemptsCount, SendsCount
<1>4. /\ (htried - 1) * m + m = htried * m /\ (htried + 1 - 1) * m = htried * m
      /\ htried * m <= (htried + 1) * m /\ htried * m \in Nat
  BY <1>2, <1>3, TimesPrevious, TimesMonotonic
<1>5. /\ IF proxy THEN sent <= htried * m ELSE sent = 0
      /\ at = "in" => sent <= (htried - 1) * m + ttried
      /\ proxy /\ at = "before" /\ hpc = "handler" => sent <= (htried - 1) * m
      /\ at # "before" => proxy /\ hpc = "handler"
  BY DEF ChainInv, SendsCount, Nested
<1> SUFFICES /\ sent' \in Nat
             /\ IF proxy THEN sent' <= htried' * m ELSE sent' = 0
             /\ at' = "in" => sent' <= (htried' - 1) * m + ttried'
             /\ proxy /\ at' = "before" /\ hpc' = "handler" => sent' <= (htried' - 1) * m
  BY <1>1 DEF SendsCount
<1> HIDE DEF m
<1>6. ASSUME UNCHANGED <<htried, sent>>, at' = "in" => at = "in" /\ ttried' = ttried,
             proxy /\ at' = "before" /\ hpc' = "handler" => at = "before" /\ hpc = "handler"
      PROVE  /\ sent' \in Nat
             /\ IF proxy THEN sent' <= htried' * m ELSE sent' = 0
             /\ at' = "in" => sent' <= (htried' - 1) * m + ttried'
             /\ proxy /\ at' = "before" /\ hpc' = "handler" => sent' <= (htried' - 1) * m
  BY <1>3, <1>5, <1>6
<1>7. CASE Cancel
  BY <1>6, <1>7 DEF Cancel, H!Cancel, tVars
<1>8. CASE OwnHandler
  BY <1>3, <1>5, <1>8 DEF OwnHandler
<1>9. CASE HandlerLoop
  <2>1. hpc # "handler" /\ UNCHANGED <<at, sent, tVars>>
    BY <1>9 DEF HandlerLoop, H!LoopNext, H!Succeed, H!GiveUp, H!CountAttempt,
                H!TryAgain, H!SleepCanceled, H!Answer
  <2>2. CASE H!TryAgain
    <3>1. htried' = htried + 1 /\ at' = "before"
      BY <1>5, <2>1, <2>2 DEF H!TryAgain
    <3>2. CASE proxy
      <4>1. sent <= htried * m
        BY <1>5, <3>2
      <4>2. htried' * m \in Nat
        BY <1>2, <1>3, <3>1, TimesPrevious
      <4>3. sent <= htried' * m /\ sent <= (htried' - 1) * m
        BY <1>3, <1>4, <3>1, <4>1, <4>2
      <4> QED
        BY <1>3, <2>1, <3>1, <3>2, <4>3
    <3>3. CASE ~proxy
      BY <1>3, <1>5, <2>1, <3>1, <3>3
    <3> QED
      BY <3>2, <3>3
  <2>3. CASE H!Succeed \/ H!GiveUp \/ H!CountAttempt \/ H!SleepCanceled \/ H!Answer
    <3>1. hpc' # "handler" /\ htried' = htried
      BY <2>3 DEF H!Succeed, H!GiveUp, H!CountAttempt, H!SleepCanceled, H!Answer
    <3> QED
      BY <1>6, <2>1, <3>1 DEF tVars
  <2> QED
    BY <1>9, <2>2, <2>3 DEF HandlerLoop, H!LoopNext
<1>10. CASE CallRoundTrip
  <2>1. /\ proxy /\ at = "before" /\ hpc = "handler" /\ at' = "in" /\ ttried' = 0
        /\ UNCHANGED <<htried, sent>>
    BY <1>10 DEF CallRoundTrip, hVars
  <2>2. sent <= htried * m /\ sent <= (htried - 1) * m
    BY <1>5, <2>1
  <2>3. (htried - 1) * m + 0 = (htried - 1) * m
    BY <1>2, <1>3
  <2> QED
    BY <1>3, <2>1, <2>2, <2>3
<1>11. CASE SubTransport
  <2>1. at = "in" /\ at' = "in" /\ htried' = htried /\ sent' = sent + 1 /\ ttried' = ttried + 1
    BY <1>11, TransportFrame DEF SubTransport
  <2>2. ttried' <= m
    BY <1>1, TransportStep, Helpers DEF T!OutcomeInv, T!AttemptsCount, m
  <2>3. (htried - 1) * m \in Int
    BY <1>2, <1>3
  <2>4. sent' <= (htried - 1) * m + ttried'
    BY <1>3, <1>5, <2>1, <2>3
  <2>5. sent' <= htried * m
    BY <1>2, <1>3, <1>4, <2>1, <2>2, <2>3, <2>4
  <2> QED
    BY <1>3, <1>5, <2>1, <2>4, <2>5
<1>12. CASE TransportLoop
  BY <1>6, <1>12, TransportFrame DEF TransportLoop, hVars
<1>13. CASE Answer
  BY <1>6, <1>13 DEF Answer, H!WriteHeader
<1>14. CASE CopyBody
  BY <1>6, <1>14 DEF CopyBody, H!Write, hVars
<1>15. CASE ProxyReturns
  BY <1>6, <1>15 DEF ProxyReturns, H!Return
<1>16. CASE Done \/ UNCHANGED vars
  BY <1>6, <1>16 DEF Done, vars, hVars, tVars
<1> QED
  BY <1>7, <1>8, <1>9, <1>10, <1>11, <1>12, <1>13, <1>14, <1>15, <1>16 DEF Next, ProxyNext

-----------------------------------------------------------------------------
(* The theorems. *)

(* The inductive invariant of the two loops. *)
LEMMA ChainInvariance == Spec => []ChainInv
<1>1. Init => ChainInv
  <2> SUFFICES ASSUME Init PROVE ChainInv
    OBVIOUS
  <2> USE RetryAssumption
  <2>1. hmax \in Int /\ tmax \in Int
    BY DEF Init, H!Init, T!Init, H!MaxAttempts, T!MaxAttempts, H!DefaultMaxAttempts, T!DefaultMaxAttempts
  <2>2. HInv
    <3>1. out \in Answers(1) /\ out.headers = 0 /\ out.from = {}
      BY DEF Init, H!Init, Answers
    <3>2. htried = 1 /\ 1 \in Nat /\ 0 \in Nat /\ hattempt = 0 /\ 1 = 0 + 1
      BY DEF Init, H!Init
    <3>3. H!TypeOK
      <4>1. out \in [headers : 0..1, status : Statuses \cup {0, 200, 502},
                     from : SUBSET (1..htried)]
        BY <3>1, <3>2 DEF Answers
      <4>2. /\ hattempt \in Nat /\ htried \in Nat /\ hpc \in H!Pc /\ method \in Methods
            /\ ctx \in {"live", "done"} /\ status \in Statuses \cup {0, 200, 502}
        BY <3>2 DEF Init, H!Init, H!Pc
      <4>3. hread \in BOOLEAN /\ buffer \in BOOLEAN
        BY DEF Init, H!Init
      <4> QED
        BY <2>1, <4>1, <4>2, <4>3 DEF H!TypeOK
    <3> QED
      BY <3>1, <3>2, <3>3 DEF Init, H!Init, HInv, H!HeldBack, H!AttemptsCount
  <2>3. T!OutcomeInv
    <3>1. T!TypeOK
      <4>1. ttried \in Nat /\ tattempt \in 0..ttried
        BY DEF Init, T!Init
      <4> QED
        BY <2>1, <4>1 DEF Init, T!Init, T!TypeOK, T!Pc, T!Errors
    <3>2. T!AttemptsCount
      BY <2>1 DEF Init, T!Init, T!AttemptsCount, T!Attempts
    <3> QED
      BY <3>1, <3>2 DEF Init, T!Init, T!OutcomeInv, T!ErrorIffFailure, T!LastAttempt
  <2>4. Nested
    BY DEF Init, H!Init, T!Init, Nested
  <2>5. SendsCount
    <3>1. Attempts(tmax) \in Nat
      BY <2>1, AttemptsFacts
    <3>2. 0 <= 1 * Attempts(tmax) /\ 0 <= (1 - 1) * Attempts(tmax)
      BY <3>1
    <3> QED
      BY <3>2 DEF Init, H!Init, SendsCount
  <2> QED
    BY <2>2, <2>3, <2>4, <2>5 DEF ChainInv
<1>2. ChainInv /\ [Next]_vars => ChainInv'
  BY HandlerStep, TransportStep, NestedStep, SendsStep DEF ChainInv
<1> QED
  BY <1>1, <1>2, PTL DEF Spec

(* However often the sub-handler fails, and whatever it has written by     *)
(* then, the client gets the header and the bytes of one attempt, and a    *)
(* failure that was held back is answered in the end (retry.go:50-88,      *)
(* 159-189).                                                               *)
THEOREM AnswerIsOfOneAttempt == Spec => []AnswerInv
<1>1. ChainInv => AnswerInv
  BY HeldBackIsEnough DEF ChainInv, HInv, AnswerInv, H!AnswerInv
<1> QED
  BY <1>1, ChainInvariance, PTL

(* RoundTrip returns an error exactly when its last attempt is a failure   *)
(* worth retrying, and the client of the proxy gets that outcome through   *)
(* both loops (retry.go:129-153, proxy.go:135-146).                        *)
THEOREM OutcomeIsReported == Spec => []OutcomeInv
<1>1. ChainInv => OutcomeInv
  <2> SUFFICES ASSUME ChainInv PROVE OutcomeInv
    OBVIOUS
  <2>1. proxy /\ hpc = "done" => status = Outcome
    BY DEF ChainInv, Nested
  <2>2. Outcome # 0
    BY DEF Outcome
  <2>3. proxy /\ hpc = "done" => out.status = Outcome
    BY <2>1, <2>2 DEF ChainInv, HInv, H!HeldBack
  <2> QED
    BY <2>3 DEF ChainInv, OutcomeInv
<1> QED
  BY <1>1, ChainInvariance, PTL

(* Nothing is sent again after a byte of the body was read by any attempt  *)
(* of any loop, nor for a method that is not idempotent, nor more often    *)
(* than the product of the two maxima (retry.go:23-34, 60-74, 97-110,      *)
(* 145).                                                                   *)
THEOREM RetriesAreSafe == Spec => NoUnsafeRetry
<1> DEFINE Sends == sent' # sent /\ sent # 0 =>
               ~hread /\ isIdempotent(method) /\ sent < Attempts(hmax) * Attempts(tmax)
           Tries == htried' # htried => ~hread /\ isIdempotent(method) /\ htried < hmax
<1>1. ChainInv /\ [Next]_vars => Sends
  <2> SUFFICES ASSUME ChainInv, Next, sent' # sent, sent # 0
               PROVE  /\ ~hread /\ isIdempotent(method)
                      /\ sent < Attempts(hmax) * Attempts(tmax)
    BY DEF vars
  <2>1. SubTransport
    BY DEF Next, ProxyNext, Cancel, OwnHandler, HandlerLoop, CallRoundTrip, TransportLoop,
           Answer, CopyBody, ProxyReturns, Done, vars
  <2>2. at = "in" /\ tpc = "call"
    BY <2>1, TransportFrame DEF SubTransport
  <2> DEFINE k == Attempts(hmax)
             m == Attempts(tmax)
  <2>3. /\ k \in Nat /\ k >= 1 /\ k >= hmax /\ hmax \in Int
        /\ m \in Nat /\ m >= 1 /\ m >= tmax /\ tmax \in Int
    BY AttemptsFacts DEF ChainInv, HInv, H!TypeOK, T!OutcomeInv, T!TypeOK
  <2>4. /\ htried \in Nat /\ htried >= 1 /\ ttried \in Nat /\ sent \in Nat
        /\ htried = 1 \/ (isIdempotent(method) /\ htried <= hmax)
        /\ ttried = 0 \/ (isIdempotent(method) /\ ttried < tmax)
    BY <2>2, Helpers DEF ChainInv, HInv, H!TypeOK, H!AttemptsCount, T!OutcomeInv, T!TypeOK,
                         T!AttemptsCount, SendsCount
  <2>5. ~hread
    BY <2>2 DEF ChainInv, Nested, T!OutcomeInv, T!AttemptsCount
  <2>6. sent <= (htried - 1) * m + ttried
    BY <2>2 DEF ChainInv, SendsCount
  <2> HIDE DEF k, m
  <2>7. ~(htried = 1 /\ ttried = 0)
    BY <2>3, <2>4, <2>6
  <2>8. isIdempotent(method)
    BY <2>4, <2>7
  <2>9. ttried <= m - 1 /\ htried <= k
    BY <2>3, <2>4
  <2>10. (htried - 1) * m + m = htried * m /\ htried * m <= k * m
    BY <2>3, <2>4, <2>9, TimesPrevious, TimesMonotonic
  <2>11. (htried - 1) * m \in Int /\ htried * m \in Int /\ k * m \in Int
    BY <2>3, <2>4
  <2>12. sent < k * m
    BY <2>3, <2>4, <2>6, <2>9, <2>10, <2>11
  <2> QED
    BY <2>5, <2>8, <2>12 DEF k, m
<1>2. ChainInv /\ [Next]_vars => Tries
  <2> SUFFICES ASSUME ChainInv, Next, htried' # htried
               PROVE  ~hread /\ isIdempotent(method) /\ htried < hmax
    BY DEF vars, hVars
  <2>1. H!TryAgain
    BY DEF Next, ProxyNext, Cancel, OwnHandler, HandlerLoop, CallRoundTrip, SubTransport,
           TransportLoop, Answer, CopyBody, ProxyReturns, Done, vars, hVars,
           H!Cancel, H!HandlerNext, H!ReadBody, H!WriteHeader, H!Write, H!Return, H!Panic,
           H!LoopNext, H!Succeed, H!GiveUp, H!CountAttempt, H!SleepCanceled, H!Answer
  <2> QED
    BY <2>1, Helpers DEF H!TryAgain, ChainInv, HInv, H!AttemptsCount
<1> QED
  BY <1>1, <1>2, ChainInvariance, PTL DEF Spec, NoUnsafeRetry

-----------------------------------------------------------------------------
(* Numbers and sets, for what follows. *)

(* A set of natural numbers that is not empty has a least one. *)
LEMMA LeastOf ==
  ASSUME NEW K \in SUBSET Nat, K # {}
  PROVE  Min(K) \in K /\ \A k \in K : Min(K) <= k
<1> DEFINE R == {ss \in Nat \X Nat : ss[1] < ss[2]}
<1>1. IsWellFoundedOn(R, Nat)
  BY NatLessThanWellFounded DEF OpToRel
<1>2. \A x, y \in Nat : <<y, x>> \in R <=> y < x
  OBVIOUS
<1> HIDE DEF R
<1>3. PICK x \in K : \A y \in K : ~(<<y, x>> \in R)
  BY <1>1, WFMin
<1>4. ASSUME NEW y \in K PROVE x =< y
  <2>1. x \in Nat /\ y \in Nat
    OBVIOUS
  <2>2. ~(y < x)
    BY <1>2, <1>3, <2>1
  <2> QED
    BY <2>1, <2>2
<1>5. \E m \in K : \A y \in K : m =< y
  BY <1>4
<1> QED
  BY <1>5 DEF Min

(* The least of a set is known when it is seen. *)
LEMMA LeastIs ==
  ASSUME NEW K \in SUBSET Nat, NEW m \in K, \A k \in K : m <= k
  PROVE  Min(K) = m
<1>1. Min(K) \in K /\ \A k \in K : Min(K) <= k
  BY LeastOf, Zenon
<1>2. Min(K) \in Nat /\ m \in Nat
  BY <1>1
<1> QED
  BY <1>1, <1>2

(* A function of a finite interval into itself that takes no value twice   *)
(* takes all of them.                                                      *)
LEMMA Pigeons ==
  ASSUME NEW m \in Nat, NEW g \in [1..m -> 1..m],
         \A i, j \in 1..m : g[i] = g[j] => i = j
  PROVE  \A j \in 1..m : \E i \in 1..m : g[i] = j
<1>1. IsFiniteSet(1..m)
  BY FS_Interval
<1>2. g \in Injection(1..m, 1..m)
  BY DEF Injection, IsInjective
<1>3. g \in Surjection(1..m, 1..m)
  BY <1>1, <1>2, FS_Injection
<1> QED
  BY <1>3 DEF Surjection

(* An item is typed. *)
LEMMA ItemType ==
  ASSUME NEW raw \in RawItems
  PROVE  /\ ParseAcceptItem(raw) \in Items
         /\ ParseAcceptItem(raw).typ = raw.typ /\ ParseAcceptItem(raw).sub = raw.sub
<1> DEFINE i == SelectInSeq(raw.params, LAMBDA p : p \in Qs)
           qq == IF i = 0 THEN 10 ELSE q(raw.params[i])
           nn == Len(raw.params) - (IF i = 0 THEN 0 ELSE 1)
<1>1. ParseAcceptItem(raw) = [typ |-> raw.typ, sub |-> raw.sub, q |-> qq, n |-> nn]
  BY DEF ParseAcceptItem
<1>2. raw.typ \in Nat /\ raw.sub \in Nat /\ Len(raw.params) \in Nat
  BY LenProperties DEF RawItems
<1>3. qq \in {0, 5, 10, Inf, NaN}
  BY DEF q
<1>4. nn \in Int
  BY <1>2
<1> HIDE DEF qq, nn
<1> QED
  BY <1>1, <1>2, <1>3, <1>4 DEF Items

(* The orders of a sequence have its elements. *)
LEMMA OrderFacts ==
  ASSUME NEW S, NEW s \in Seq(S), NEW t \in Orders(s)
  PROVE  /\ t \in Seq(S) /\ DOMAIN t = DOMAIN s
         /\ \A i \in DOMAIN t : \E j \in DOMAIN s : t[i] = s[j]
         /\ \A j \in DOMAIN s : \E i \in DOMAIN t : t[i] = s[j]
<1> DEFINE m == Len(s)
<1>1. m \in Nat /\ DOMAIN s = 1..m /\ \A j \in 1..m : s[j] \in S
  OBVIOUS
<1>2. PICK g \in [1..m -> 1..m] :
        /\ \A i, j \in 1..m : g[i] = g[j] => i = j
        /\ t = [i \in 1..m |-> s[g[i]]]
  BY <1>1 DEF Orders
<1> HIDE DEF m
<1>3. DOMAIN t = 1..m /\ \A i \in 1..m : t[i] = s[g[i]] /\ g[i] \in 1..m
  BY <1>2
<1>4. t \in Seq(S)
  BY <1>1, <1>3, <1>2
<1>5. \A j \in 1..m : \E i \in 1..m : g[i] = j
  BY <1>1, <1>2, Pigeons
<1>6. \A i \in 1..m : \E j \in 1..m : t[i] = s[j]
  BY <1>3
<1>7. ASSUME NEW j \in 1..m PROVE \E i \in 1..m : t[i] = s[j]
  <2>1. PICK i \in 1..m : g[i] = j
    BY <1>5
  <2> QED
    BY <1>3, <2>1
<1> QED
  BY <1>1, <1>3, <1>4, <1>6, <1>7, Zenon

(* The items that the loop of both parsers has in the end. *)
LEMMA ItemsFacts ==
  ASSUME NEW raws \in Seq(RawItems), NEW bad \in SUBSET (DOMAIN raws)
  PROVE  LET s == ItemsBefore(raws, bad)
         IN  /\ s \in Seq(Items) /\ (bad = {} => DOMAIN s = DOMAIN raws)
             /\ \A i \in DOMAIN s : /\ i \in DOMAIN raws /\ s[i] = ParseAcceptItem(raws[i])
                                   /\ \A b \in bad : i < b
<1> DEFINE s == ItemsBefore(raws, bad)
           m == (IF bad = {} THEN Len(raws) + 1 ELSE Min(bad)) - 1
<1>1. DOMAIN raws = 1..Len(raws) /\ Len(raws) \in Nat /\ \A i \in DOMAIN raws : raws[i] \in RawItems
  OBVIOUS
<1>2. s = [i \in 1..m |-> ParseAcceptItem(raws[i])]
  BY Zenon DEF ItemsBefore
<1>3. /\ m \in 0..Len(raws) /\ (bad = {} => m = Len(raws))
      /\ \A i \in 1..m : \A b \in bad : i < b
  <2>1. CASE bad = {}
    BY <1>1, <2>1
  <2>2. CASE bad # {}
    <3>1. bad \in SUBSET Nat
      BY <1>1
    <3>2. Min(bad) \in bad /\ \A k \in bad : Min(bad) <= k
      BY <2>2, <3>1, LeastOf
    <3>3. Min(bad) \in 1..Len(raws) /\ m = Min(bad) - 1
      BY <1>1, <2>2, <3>2
    <3> QED
      BY <1>1, <2>2, <3>1, <3>2, <3>3
  <2> QED
    BY <2>1, <2>2
<1> HIDE DEF s, m
<1>4. ASSUME NEW i \in 1..m PROVE i \in DOMAIN raws /\ ParseAcceptItem(raws[i]) \in Items
  <2>1. i \in DOMAIN raws
    <3>1. m \in 0..Len(raws) /\ DOMAIN raws = 1..Len(raws)
      BY <1>1, <1>3, Zenon
    <3> QED
      BY <3>1
  <2>2. raws[i] \in RawItems
    BY <1>1, <2>1
  <2> QED
    BY <2>1, <2>2, ItemType
<1>5. DOMAIN s = 1..m /\ \A i \in 1..m : s[i] = ParseAcceptItem(raws[i])
  BY <1>2
<1>6. s \in Seq(Items)
  BY <1>2, <1>3, <1>4
<1> QED
  BY <1>1, <1>3, <1>4, <1>5, <1>6 DEF s

(* What the parsers of both fields give, in whatever order. *)
LEMMA ParsedFacts ==
  ASSUME NEW raws \in Seq(RawItems), NEW bad \in SUBSET (DOMAIN raws), NEW t,
         IF bad = {} THEN t \in Orders(ItemsBefore(raws, bad)) ELSE t = ItemsBefore(raws, bad)
  PROVE  /\ t \in Seq(Items)
         /\ \A i \in DOMAIN t : \E j \in DOMAIN raws :
              t[i] = ParseAcceptItem(raws[j]) /\ \A b \in bad : j < b
         /\ bad = {} => \A j \in DOMAIN raws : \E i \in DOMAIN t :
                            t[i] = ParseAcceptItem(raws[j])
<1> DEFINE s == ItemsBefore(raws, bad)
<1>1. /\ s \in Seq(Items) /\ (bad = {} => DOMAIN s = DOMAIN raws)
      /\ \A i \in DOMAIN s : /\ i \in DOMAIN raws /\ s[i] = ParseAcceptItem(raws[i])
                            /\ \A b \in bad : i < b
  BY ItemsFacts
<1>2. IF bad = {} THEN t \in Orders(s) ELSE t = s
  OBVIOUS
<1> HIDE DEF s
<1>3. CASE bad = {}
  <2>1. /\ t \in Seq(Items) /\ DOMAIN t = DOMAIN s
        /\ \A i \in DOMAIN t : \E j \in DOMAIN s : t[i] = s[j]
        /\ \A j \in DOMAIN s : \E i \in DOMAIN t : t[i] = s[j]
    BY <1>1, <1>2, <1>3, OrderFacts
  <2> QED
    BY <1>1, <1>3, <2>1
<1>4. CASE bad # {}
  BY <1>1, <1>2, <1>4
<1> QED
  BY <1>3, <1>4

(* Items without a NaN. *)
LEMMA NoNaN ==
  ASSUME NEW raws \in Seq(RawItems), \A j \in DOMAIN raws : ParseAcceptItem(raws[j]).q # NaN
  PROVE  ~HasNaN(ItemsBefore(raws, {}))
<1>1. {} \in SUBSET (DOMAIN raws)
  OBVIOUS
<1>2. \A i \in DOMAIN ItemsBefore(raws, {}) :
        i \in DOMAIN raws /\ ItemsBefore(raws, {})[i] = ParseAcceptItem(raws[i])
  BY <1>1, ItemsFacts
<1> QED
  BY <1>2 DEF HasNaN

(* An order has as many items as what was ordered. *)
LEMMA OrderDomain ==
  ASSUME NEW s, NEW t \in Orders(s)
  PROVE  DOMAIN t = DOMAIN s
BY DEF Orders

(* The first item that has a match, and its first match. *)
LEMMA FirstMatchFacts ==
  ASSUME NEW hits \in SUBSET (Nat \X Nat), hits # {}
  PROVE  \E h \in hits :
           /\ \A offers, default : FirstMatch(hits, offers, default) = offers[h[2]]
           /\ \A g \in hits : h[1] <= g[1] /\ (g[1] = h[1] => h[2] <= g[2])
<1> DEFINE A == {h[1] : h \in hits}
           i == Min(A)
           B == {h[2] : h \in {g \in hits : g[1] = i}}
           k == Min(B)
<1>1. A \in SUBSET Nat /\ A # {}
  OBVIOUS
<1>2. i \in A /\ \A a \in A : i <= a
  BY <1>1, LeastOf
<1> HIDE DEF i
<1>3. \A l : l \in B <=> <<i, l>> \in hits
  OBVIOUS
<1>4. B \in SUBSET Nat /\ B # {}
  BY <1>2
<1>5. k \in B /\ \A l \in B : k <= l
  BY <1>4, LeastOf
<1>6. \A offers, default : FirstMatch(hits, offers, default) = offers[k]
  BY DEF FirstMatch, i
<1> HIDE DEF k
<1>7. <<i, k>> \in hits
  BY <1>3, <1>5
<1>8. \A g \in hits : i <= g[1] /\ (g[1] = i => k <= g[2])
  BY <1>2, <1>5
<1> HIDE DEF A, B
<1> QED
  BY <1>6, <1>7, <1>8

(* AcceptEncoding.Negotiate gives no coding, or the type of the first item *)
(* whose type is offered.                                                  *)
LEMMA NegotiateEncodingFacts ==
  ASSUME NEW items \in Seq(Items), NEW codings \in Seq(Nat)
  PROVE  LET c == NegotiateEncoding(items, codings)
         IN  \/ c = NoCoding
             \/ \E i \in DOMAIN items :
                  /\ items[i].typ = c /\ c \in Range(codings)
                  /\ \A j \in DOMAIN items : items[j].typ \in Range(codings) => i <= j
<1> DEFINE p == Len(items)
           r == Len(codings)
           hits == {h \in (1..p) \X (1..r) : items[h[1]].typ = codings[h[2]]}
           c == NegotiateEncoding(items, codings)
<1>1. DOMAIN items = 1..p /\ DOMAIN codings = 1..r /\ p \in Nat /\ r \in Nat
  OBVIOUS
<1>2. c = FirstMatch(hits, codings, NoCoding)
  BY <1>1, Zenon DEF NegotiateEncoding
<1> HIDE DEF p, r
<1>3. CASE hits = {}
  BY <1>2, <1>3 DEF FirstMatch
<1>4. CASE hits # {}
  <2>1. hits \in SUBSET (Nat \X Nat)
    OBVIOUS
  <2>2. \A i, k : <<i, k>> \in hits <=> i \in 1..p /\ k \in 1..r /\ items[i].typ = codings[k]
    OBVIOUS
  <2>3. \A h \in hits : h = <<h[1], h[2]>>
    OBVIOUS
  <2> HIDE DEF hits, c
  <2>4. PICK h \in hits :
          /\ \A offers, default : FirstMatch(hits, offers, default) = offers[h[2]]
          /\ \A g \in hits : h[1] <= g[1] /\ (g[1] = h[1] => h[2] <= g[2])
    BY <1>4, <2>1, FirstMatchFacts
  <2> DEFINE i == h[1]
             k == h[2]
  <2>5. ASSUME NEW j \in 1..p, items[j].typ \in Range(codings)
        PROVE  i <= j
    <3>1. PICK l \in 1..r : items[j].typ = codings[l]
      BY <1>1, <2>5 DEF Range
    <3>2. <<j, l>> \in hits
      BY <2>2, <3>1
    <3> QED
      BY <2>4, <3>2
  <2>6. i \in 1..p /\ k \in 1..r /\ items[i].typ = codings[k]
    BY <2>2, <2>3
  <2>7. c = codings[k]
    BY <1>2, <2>4
  <2>8. c \in Range(codings)
    BY <1>1, <2>6, <2>7 DEF Range
  <2> QED
    BY <1>1, <2>5, <2>6, <2>7, <2>8 DEF c
<1> QED
  BY <1>3, <1>4

(* A coding that is negotiated is accepted. *)
LEMMA NegotiatedIsAccepted ==
  ASSUME NEW raws \in Seq(RawItems), NEW codings \in Seq(Nat),
         NEW t \in ParseAcceptEncoding(raws),
         NegotiateEncoding(t, codings) # NoCoding
  PROVE  Accepted(raws, codings, NegotiateEncoding(t, codings))
<1> DEFINE c == NegotiateEncoding(t, codings)
           bad == {i \in DOMAIN raws : ~CodingOK(raws[i])}
           known == {k \in DOMAIN raws : \A j \in 1..k : CodingOK(raws[j])}
           item(k) == ParseAcceptItem(raws[k])
           common == {k \in known : item(k).typ \in Range(codings)}
<1>1. DOMAIN raws = 1..Len(raws) /\ Len(raws) \in Nat
  OBVIOUS
<1>2. /\ t \in Seq(Items)
      /\ \A i \in DOMAIN t : \E j \in DOMAIN raws : t[i] = item(j) /\ \A b \in bad : j < b
      /\ bad = {} => \A j \in DOMAIN raws : \E i \in DOMAIN t : t[i] = item(j)
  <2>1. bad \in SUBSET (DOMAIN raws)
    OBVIOUS
  <2>2. IF bad = {} THEN t \in Orders(ItemsBefore(raws, bad)) ELSE t = ItemsBefore(raws, bad)
    BY DEF ParseAcceptEncoding, SortedCodings
  <2> HIDE DEF bad
  <2> QED
    BY <2>1, <2>2, ParsedFacts
<1>3. PICK i \in DOMAIN t :
        /\ t[i].typ = c /\ c \in Range(codings)
        /\ \A j \in DOMAIN t : t[j].typ \in Range(codings) => i <= j
  BY <1>2, NegotiateEncodingFacts
<1>4. PICK k \in DOMAIN raws : t[i] = item(k) /\ \A b \in bad : k < b
  BY <1>2
<1>5. k \in known
  <2> SUFFICES ASSUME NEW j \in 1..k PROVE CodingOK(raws[j])
    OBVIOUS
  <2>1. j \in DOMAIN raws /\ ~(k < j)
    BY <1>1
  <2> QED
    BY <1>4, <2>1
<1>6. k \in common
  BY <1>3, <1>4, <1>5
<1>7. ASSUME known = DOMAIN raws, \A j \in known : item(j).q # NaN, NEW j \in common
      PROVE  item(j).q <= item(k).q
  <2>1. bad = {}
    <3> SUFFICES ASSUME NEW b \in bad PROVE FALSE
      OBVIOUS
    <3>1. b \in known /\ b \in 1..b
      BY <1>1, <1>7
    <3> QED
      BY <3>1
  <2>2. PICK l \in DOMAIN t : t[l] = item(j)
    BY <1>2, <2>1
  <2>3. i <= l
    BY <1>3, <2>2
  <2>4. t[i] \in Items /\ t[l] \in Items /\ i \in Int /\ l \in Int
    BY <1>2
  <2>5. t[i].q \in Int /\ t[l].q \in Int
    BY <2>4 DEF Items, Inf, NaN
  <2>6. CASE i = l
    BY <1>4, <2>2, <2>5, <2>6
  <2>7. CASE i # l
    <3>1. i < l
      BY <2>3, <2>4, <2>7
    <3>2. ~LessCoding(t[l], t[i])
      <4>1. ~HasNaN(ItemsBefore(raws, {}))
        BY <1>7, NoNaN
      <4>2. t \in SortedCodings(ItemsBefore(raws, {}))
        BY <2>1 DEF ParseAcceptEncoding
      <4>3. DOMAIN t = DOMAIN ItemsBefore(raws, {})
        BY <4>2, OrderDomain DEF SortedCodings
      <4> QED
        BY <3>1, <4>1, <4>2, <4>3 DEF SortedCodings
    <3>3. ~(t[l].q > t[i].q)
      BY <1>4, <1>5, <1>7, <2>2, <3>2 DEF LessCoding, Above
    <3> QED
      BY <1>4, <2>2, <2>5, <3>3
  <2> QED
    BY <2>6, <2>7
<1>8. item(k).typ = c
  BY <1>3, <1>4
<1> QED
  BY <1>6, <1>7, <1>8 DEF Accepted

(* Less puts any two items that differ in an order, if none has a NaN. *)
LEMMA LessIsTotal ==
  ASSUME NEW a \in Items, NEW b \in Items, a.q # NaN, b.q # NaN, ~Less(a, b), ~Less(b, a)
  PROVE  a = b
<1>1. /\ a = [typ |-> a.typ, sub |-> a.sub, q |-> a.q, n |-> a.n]
      /\ b = [typ |-> b.typ, sub |-> b.sub, q |-> b.q, n |-> b.n]
      /\ a.typ \in Nat /\ a.sub \in Nat /\ a.q \in Int /\ a.n \in Int
      /\ b.typ \in Nat /\ b.sub \in Nat /\ b.q \in Int /\ b.n \in Int
  BY DEF Items, Inf, NaN
<1>2. a.q = b.q
  BY <1>1 DEF Less, Above
<1>6. ~Narrower(a, b) /\ ~Narrower(b, a)
  BY <1>1, <1>2 DEF Less, Above
<1>3. a.typ = b.typ
  BY <1>1, <1>6 DEF Narrower, mediaTypeLess, Star
<1>4. a.sub = b.sub
  BY <1>1, <1>3, <1>6 DEF Narrower, mediaTypeLess, Star
<1>5. a.n = b.n
  BY <1>1, <1>3, <1>4, <1>6 DEF Narrower
<1> QED
  BY <1>1, <1>2, <1>3, <1>4, <1>5

InOrder(t) == \A i, j \in DOMAIN t : i < j => ~Less(t[j], t[i])

(* Accept.Negotiate gives the first offer of the first good item. *)
LEMMA NegotiateFacts ==
  ASSUME NEW t \in Seq(Items), NEW offers \in Seq(MediaTypes)
  PROVE  LET good == Good(Range(t), offers)
         IN  /\ good = {} => Negotiate(t, offers) = IF offers = <<>> THEN NoType ELSE offers[1]
             /\ good # {} => \E a \in good :
                  /\ InOrder(t) => \A b \in good : ~Less(b, a)
                  /\ Negotiate(t, offers) = offers[Min(Hits(a, offers))]
<1> DEFINE p == Len(t)
           r == Len(offers)
           good == Good(Range(t), offers)
           hits == {h \in (1..p) \X (1..r) :
                      offers[h[2]].ok /\ MediaContains(t[h[1]], offers[h[2]])}
           default == IF offers = <<>> THEN NoType ELSE offers[1]
<1>1. DOMAIN t = 1..p /\ DOMAIN offers = 1..r /\ p \in Nat /\ r \in Nat
  OBVIOUS
<1>2. Negotiate(t, offers) = FirstMatch(hits, offers, default)
  BY <1>1, Zenon DEF Negotiate
<1> HIDE DEF p, r, default
<1>3. \A i, k : <<i, k>> \in hits <=> i \in 1..p /\ k \in Hits(t[i], offers)
  BY <1>1 DEF Hits
<1>4. hits \in SUBSET (Nat \X Nat) /\ \A h \in hits : h = <<h[1], h[2]>>
  OBVIOUS
<1> HIDE DEF hits
<1>5. \A a : a \in good <=> (\E i \in 1..p : a = t[i]) /\ Hits(a, offers) # {}
  BY <1>1 DEF Good, Range
<1>6. CASE hits = {}
  <2>1. good = {}
    <3> SUFFICES ASSUME NEW a \in good PROVE FALSE
      OBVIOUS
    <3>1. PICK i \in 1..p : a = t[i]
      BY <1>5
    <3>2. PICK k : k \in Hits(a, offers)
      BY <1>5
    <3> QED
      BY <1>3, <1>6, <3>1, <3>2
  <2>2. Negotiate(t, offers) = default
    BY <1>2, <1>6 DEF FirstMatch
  <2> QED
    BY <2>1, <2>2 DEF default
<1>7. CASE hits # {}
  <2>1. PICK h \in hits :
          /\ \A os, d : FirstMatch(hits, os, d) = os[h[2]]
          /\ \A g \in hits : h[1] <= g[1] /\ (g[1] = h[1] => h[2] <= g[2])
    BY <1>4, <1>7, FirstMatchFacts
  <2> DEFINE i == h[1]
             k == h[2]
  <2>2. i \in 1..p /\ k \in Hits(t[i], offers)
    BY <1>3, <1>4
  <2>3. k = Min(Hits(t[i], offers))
    <3>1. Hits(t[i], offers) \in SUBSET Nat
      BY <1>1 DEF Hits
    <3>2. ASSUME NEW l \in Hits(t[i], offers) PROVE k <= l
      <4>1. <<i, l>> \in hits
        BY <1>3, <2>2, <3>2
      <4> QED
        BY <2>1, <4>1
    <3> QED
      BY <2>2, <3>1, <3>2, LeastIs
  <2>4. t[i] \in good
    BY <1>5, <2>2
  <2>5. ASSUME InOrder(t), NEW b \in good PROVE ~Less(b, t[i])
    <3>1. PICK j \in 1..p : b = t[j]
      BY <1>5
    <3>2. PICK l : l \in Hits(b, offers)
      BY <1>5
    <3>3. <<j, l>> \in hits
      BY <1>3, <3>1, <3>2
    <3>4. i <= j /\ i \in 1..p
      BY <2>1, <2>2, <3>3
    <3>5. CASE i < j
      BY <1>1, <2>5, <3>1, <3>4, <3>5 DEF InOrder
    <3>6. CASE i = j
      <4>1. b = t[j] /\ b = t[i] /\ t[j] \in Items
        BY <1>1, <3>1, <3>6
      <4>2. b.q \in Int /\ b.n \in Int
        BY <4>1 DEF Items, Inf, NaN
      <4> QED
        BY <4>1, <4>2 DEF Less, Above, Narrower
    <3> QED
      BY <1>1, <3>4, <3>5, <3>6
  <2>6. Negotiate(t, offers) = offers[Min(Hits(t[i], offers))]
    BY <1>2, <2>1, <2>3
  <2> HIDE DEF i, k, good
  <2> QED
    BY <2>4, <2>5, <2>6 DEF good
<1> QED
  BY <1>6, <1>7

(* ParseAccept of a field without a malformed item gives its items, sorted *)
(* if none has a NaN.                                                      *)
LEMMA ParseAcceptFacts ==
  ASSUME NEW raws \in Seq(RawItems), \A i \in DOMAIN raws : raws[i].ok,
         NEW t \in ParseAccept(raws)
  PROVE  /\ t \in Seq(Items) /\ Range(t) = {ParseAcceptItem(raws[i]) : i \in DOMAIN raws}
         /\ (\A j \in DOMAIN raws : ParseAcceptItem(raws[j]).q # NaN) => InOrder(t)
<1>1. t \in Sorted(ItemsBefore(raws, {}))
  <2>1. {i \in DOMAIN raws : ~raws[i].ok} = {}
    OBVIOUS
  <2> QED
    BY <2>1 DEF ParseAccept
<1>2. t \in Orders(ItemsBefore(raws, {})) /\ {} \in SUBSET (DOMAIN raws)
  BY <1>1 DEF Sorted
<1>3. /\ t \in Seq(Items)
      /\ \A i \in DOMAIN t : \E j \in DOMAIN raws : t[i] = ParseAcceptItem(raws[j])
      /\ \A j \in DOMAIN raws : \E i \in DOMAIN t : t[i] = ParseAcceptItem(raws[j])
  BY <1>2, ParsedFacts
<1>4. ASSUME \A j \in DOMAIN raws : ParseAcceptItem(raws[j]).q # NaN PROVE InOrder(t)
  <2>1. ~HasNaN(ItemsBefore(raws, {}))
    BY <1>4, NoNaN
  <2>2. DOMAIN t = DOMAIN ItemsBefore(raws, {})
    BY <1>2, OrderDomain
  <2> QED
    BY <1>1, <2>1, <2>2 DEF Sorted, InOrder
<1> QED
  BY <1>3, <1>4 DEF Range

(* The best of a set of items is one only. *)
LEMMA BestIsOne ==
  ASSUME NEW G \in SUBSET Items, \A c \in G : c.q # NaN, NEW a \in G, NEW b \in G,
         \A c \in G : ~Less(c, a), \A c \in G : ~Less(c, b)
  PROVE  a = b
BY LessIsTotal

(* What the best item is like. *)
LEMMA BestFacts ==
  ASSUME NEW G \in SUBSET Items, \A c \in G : c.q # NaN, NEW a \in G,
         \A c \in G : ~Less(c, a)
  PROVE  LET top == {c \in G : \A b \in G : b.q <= c.q}
         IN  /\ a \in top
             /\ a.typ = Star => \A b \in top : b.typ = Star
             /\ a.sub = Star => \A b \in top : b.typ = a.typ => b.sub = Star
<1> DEFINE top == {c \in G : \A b \in G : b.q <= c.q}
<1>1. \A c \in G : c.q \in Int /\ c.typ \in Nat /\ c.sub \in Nat
  BY DEF Items, Inf, NaN
<1>2. \A c \in G : ~(c.q > a.q)
  BY DEF Less, Above
<1>3. a \in top
  BY <1>1, <1>2
<1>4. ASSUME NEW b \in top PROVE b.q = a.q /\ ~Less(b, a) /\ b \in G
  <2>1. a.q <= b.q /\ b.q <= a.q
    BY <1>3
  <2> QED
    BY <1>1, <2>1
<1>7. ASSUME NEW b \in top PROVE ~Narrower(b, a)
  BY <1>1, <1>4 DEF Less, Above
<1>5. ASSUME a.typ = Star, NEW b \in top PROVE b.typ = Star
  BY <1>1, <1>4, <1>5, <1>7 DEF Narrower, mediaTypeLess, Star
<1>6. ASSUME a.sub = Star, NEW b \in top, b.typ = a.typ PROVE b.sub = Star
  BY <1>1, <1>4, <1>6, <1>7 DEF Narrower, mediaTypeLess, Star
<1> QED
  BY <1>3, <1>5, <1>6

(* What Negotiate picks is the best, whatever order the items come in. *)
LEMMA NegotiatedIsBest ==
  ASSUME NEW raws \in Seq(RawItems), \A i \in DOMAIN raws : raws[i].ok,
         NEW offers \in Seq(MediaTypes), NEW t \in ParseAccept(raws)
  PROVE  Best(raws, offers, Negotiate(t, offers))
<1> DEFINE items == {ParseAcceptItem(raws[i]) : i \in DOMAIN raws}
           good == Good(items, offers)
           top == {a \in good : \A b \in good : b.q <= a.q}
           c == Negotiate(t, offers)
<1>1. good \in SUBSET Items
  BY ItemType DEF Good
<1> DEFINE ordered == \A a \in items : a.q # NaN
<1>2. ASSUME NEW f \in Orders(raws), NEW s \in ParseAccept(f)
      PROVE  s \in Seq(Items) /\ Range(s) = items /\ (ordered => InOrder(s))
  <2>1. /\ f \in Seq(RawItems)
        /\ \A i \in DOMAIN f : \E j \in DOMAIN raws : f[i] = raws[j]
        /\ \A j \in DOMAIN raws : \E i \in DOMAIN f : f[i] = raws[j]
    BY OrderFacts
  <2>2. \A i \in DOMAIN f : f[i].ok
    BY <2>1
  <2>3. {ParseAcceptItem(f[i]) : i \in DOMAIN f} = items
    BY <2>1
  <2>4. ordered => \A j \in DOMAIN f : ParseAcceptItem(f[j]).q # NaN
    BY <2>3
  <2> HIDE DEF items, ordered
  <2> QED
    BY <2>1, <2>2, <2>3, <2>4, ParseAcceptFacts
<1>3. t \in Seq(Items) /\ Range(t) = items /\ (ordered => InOrder(t))
  <2>1. ordered => \A j \in DOMAIN raws : ParseAcceptItem(raws[j]).q # NaN
    OBVIOUS
  <2> HIDE DEF ordered
  <2> QED
    BY <2>1, ParseAcceptFacts
<1>8. ordered => \A a \in good : a.q # NaN
  BY DEF Good
<1> HIDE DEF items, ordered
<1>4. /\ good = {} => c = IF offers = <<>> THEN NoType ELSE offers[1]
      /\ good # {} => \E a \in good : /\ ordered => \A b \in good : ~Less(b, a)
                                     /\ c = offers[Min(Hits(a, offers))]
  BY <1>3, NegotiateFacts
<1>5. ASSUME ordered, NEW f \in Orders(raws), NEW s \in ParseAccept(f)
      PROVE  Negotiate(s, offers) = c
  <2> DEFINE d == Negotiate(s, offers)
  <2>1. s \in Seq(Items) /\ Range(s) = items /\ InOrder(s)
    BY <1>2, <1>5
  <2>2. /\ good = {} => d = IF offers = <<>> THEN NoType ELSE offers[1]
        /\ good # {} => \E a \in good :
             (\A b \in good : ~Less(b, a)) /\ d = offers[Min(Hits(a, offers))]
    BY <2>1, NegotiateFacts
  <2> HIDE DEF d, c, good
  <2>3. CASE good = {}
    BY <1>4, <2>2, <2>3 DEF d
  <2>4. CASE good # {}
    <3>1. PICK a \in good : (\A b \in good : ~Less(b, a)) /\ c = offers[Min(Hits(a, offers))]
      BY <1>4, <1>5, <2>4
    <3>2. PICK b \in good : (\A e \in good : ~Less(e, b)) /\ d = offers[Min(Hits(b, offers))]
      BY <2>2, <2>4
    <3>3. a = b
      BY <1>1, <1>5, <1>8, <3>1, <3>2, BestIsOne
    <3> QED
      BY <3>1, <3>2, <3>3 DEF d
  <2> QED
    BY <2>3, <2>4
<1>6. ASSUME ordered, good # {}
      PROVE  \E a \in top :
               /\ c = offers[Min(Hits(a, offers))]
               /\ a.typ = Star => \A b \in top : b.typ = Star
               /\ a.sub = Star => \A b \in top : b.typ = a.typ => b.sub = Star
  <2> HIDE DEF good, c
  <2>1. PICK a \in good : (\A b \in good : ~Less(b, a)) /\ c = offers[Min(Hits(a, offers))]
    BY <1>4, <1>6
  <2>2. /\ a \in top
        /\ a.typ = Star => \A b \in top : b.typ = Star
        /\ a.sub = Star => \A b \in top : b.typ = a.typ => b.sub = Star
    BY <1>1, <1>6, <1>8, <2>1, BestFacts
  <2> QED
    BY <2>1, <2>2
<1>7. good # {} => \E a \in good : c = offers[Min(Hits(a, offers))]
  BY <1>4
<1> QED
  BY <1>4, <1>5, <1>6, <1>7 DEF Best, items, ordered

(* A bounded set of natural numbers that is not empty has a greatest one. *)
LEMMA GreatestOf ==
  ASSUME NEW m \in Nat, NEW K \in SUBSET (0..m), K # {}
  PROVE  Max(K) \in K /\ \A k \in K : Max(K) >= k
<1> DEFINE U == {k \in Nat : \A x \in K : x <= k}
<1>1. U \in SUBSET Nat /\ m \in U
  OBVIOUS
<1>2. Min(U) \in U /\ \A k \in U : Min(U) <= k
  BY <1>1, LeastOf
<1> DEFINE u == Min(U)
<1>3. u \in Nat /\ (\A x \in K : x <= u) /\ \A k \in Nat : (\A x \in K : x <= k) => u <= k
  BY <1>2
<1> HIDE DEF u, U
<1>4. u \in K
  <2> SUFFICES ASSUME u \notin K PROVE FALSE
    OBVIOUS
  <2>1. PICK x \in K : TRUE
    OBVIOUS
  <2>2. \A y \in K : y \in Nat /\ y < u
    BY <1>3
  <2>3. u - 1 \in Nat /\ \A y \in K : y <= u - 1
    BY <1>3, <2>1, <2>2
  <2>4. u <= u - 1
    BY <1>3, <2>3
  <2> QED
    BY <1>3, <2>4
<1>5. \E x \in K : \A y \in K : x >= y
  BY <1>3, <1>4
<1> QED
  BY <1>5 DEF Max

(* The writer of a layer writes further out. *)
LEMMA SinkFacts ==
  ASSUME NEW i \in Nat \ {0}
  PROVE  /\ Sink(i) \in 0..(i - 1) /\ (Sink(i) # 0 => writer[Sink(i)] # NoCoding)
         /\ \A j \in 1..(i - 1) : writer[j] # NoCoding => j <= Sink(i)
<1> DEFINE K == {0} \cup {j \in 1..(i - 1) : writer[j] # NoCoding}
<1>1. i - 1 \in Nat /\ K \in SUBSET (0..(i - 1)) /\ K # {}
  OBVIOUS
<1>2. Max(K) \in K /\ \A k \in K : Max(K) >= k
  BY <1>1, GreatestOf
<1>3. Sink(i) = Max(K)
  BY DEF Sink
<1>4. Sink(i) \in K /\ \A k \in K : Sink(i) >= k
  BY <1>2, <1>3
<1> QED
  BY <1>4

-----------------------------------------------------------------------------
(* The types. *)

USE DEF askVars, typeVars, quoteVars, codingVars, bodyVars, hopVars

(* They hold of every request. *)
LEMMA NegotiationInitTypes == NegotiationInit => NegotiationTypeOK
<1> SUFFICES ASSUME NegotiationInit PROVE NegotiationTypeOK
  OBVIOUS
<1>0. /\ TypeFields \subseteq Seq(RawItems) /\ TypeOffers \subseteq Seq(MediaTypes)
      /\ CodingFields \subseteq Seq(RawItems)
      /\ Decoders \in Seq(Nat) /\ Layers \subseteq Seq(Seq(Nat)) /\ MaxParts \in Nat
      /\ (\A h \in Headers : IsHeader(h)) /\ Hosts \in Seq(STRING) /\ Hosts # <<>>
  BY NegotiationAssumption
<1>1. mode \in {"type", "coding", "quote", "hops"} /\ pc = "request"
  BY DEF NegotiationInit
<1>2. Join(Decoders) \in Seq(RawItems)
  <2>1. \A i \in DOMAIN Decoders : RawItem(Decoders[i], NoSub, <<>>) \in RawItems
    BY <1>0 DEF RawItem, RawItems, NoSub
  <2> QED
    BY <1>0, <2>1 DEF Join
<1>3. field \in Seq(RawItems) /\ transport \in BOOLEAN /\ (transport => field = Join(Decoders))
  <2>1. transport \in BOOLEAN /\ (transport => mode = "coding")
    BY DEF NegotiationInit
  <2>2. field \in TypeFields \/ field \in CodingFields \/ field = Join(Decoders) \/ field = <<>>
    BY DEF NegotiationInit
  <2>3. transport => field = Join(Decoders)
    BY <2>1 DEF NegotiationInit
  <2>4. <<>> \in Seq(RawItems)
    OBVIOUS
  <2> QED
    BY <1>0, <1>2, <2>1, <2>2, <2>3, <2>4, Zenon
<1>4. types \in Seq(MediaTypes)
  <2>1. types \in TypeOffers \/ types = <<>>
    BY DEF NegotiationInit
  <2>2. <<>> \in Seq(MediaTypes)
    OBVIOUS
  <2> QED
    BY <1>0, <2>1, <2>2, Zenon
<1>5. layers \in Seq(Seq(Nat)) /\ (mode # "coding" => layers = <<>>)
  <2>1. (layers \in Layers \/ layers = <<>>) /\ (mode # "coding" => layers = <<>>)
    BY DEF NegotiationInit
  <2>2. <<>> \in Seq(Seq(Nat))
    OBVIOUS
  <2> QED
    BY <1>0, <2>1, <2>2, Zenon
<1>6. IsHeader(first)
  <2> DEFINE e == [f \in Fields |-> <<>>]
  <2>1. e = [f \in Fields |-> e[f]]
    OBVIOUS
  <2>2. \A f \in Fields : e[f] = <<>> /\ <<>> \in Lines(f)
    BY DEF Lines
  <2>3. IsHeader(e)
    BY <2>1, <2>2 DEF IsHeader
  <2>4. first \in Headers \/ first = e
    BY DEF NegotiationInit
  <2> QED
    BY <1>0, <2>3, <2>4
<1>7. hops \in 0..(Len(Hosts) - 1)
  <2>1. Len(Hosts) \in Nat /\ Len(Hosts) > 0
    BY <1>0
  <2> QED
    BY <2>1 DEF NegotiationInit
<1>8. /\ layer = 1 /\ wrote = 0 /\ length = FALSE /\ panicked = FALSE /\ header = field
      /\ bodiless \in BOOLEAN
  BY DEF NegotiationInit
<1>9. writer = [i \in DOMAIN layers |-> NoCoding] /\ stream = [i \in 0..Len(layers) |-> <<>>]
  BY DEF NegotiationInit
<1>10. stream \in [0..Len(layers) -> Seq(Int)]
  BY <1>9
<1>11. /\ writer = [i \in DOMAIN layers |-> writer[i]]
       /\ \A i \in DOMAIN layers : writer[i] \in Range(layers[i]) \cup {NoCoding}
  BY <1>9
<1>12. layer \in 0..(Len(layers) + 1) /\ wrote \in 0..MaxParts
  <2>1. Len(layers) \in Nat
    BY <1>5
  <2> QED
    BY <1>0, <1>8, <2>1
<1>13. (pc \in {"request", "layer"} => layer > 0) /\ (pc = "close" => layer <= Len(layers))
  BY <1>1, <1>8
<1> QED
  BY <1>1, <1>3, <1>4, <1>5, <1>6, <1>7, <1>8, <1>10, <1>11, <1>12, <1>13, Zenon
  DEF NegotiationTypeOK

(* What the types of the state say of the layers. *)
LEMMA LayerFacts ==
  ASSUME NegotiationTypeOK
  PROVE  /\ layers \in Seq(Seq(Nat)) /\ Len(layers) \in Nat /\ DOMAIN layers = 1..Len(layers)
         /\ DOMAIN writer = 1..Len(layers) /\ layer \in 0..(Len(layers) + 1)
         /\ stream \in [0..Len(layers) -> Seq(Int)]
         /\ \A i \in 1..Len(layers) : layers[i] \in Seq(Nat)
         /\ \A i \in 1..Len(layers) : writer[i] \in Range(layers[i]) \cup {NoCoding}
         /\ wrote \in Nat
<1>1. layers \in Seq(Seq(Nat)) /\ layer \in 0..(Len(layers) + 1)
  BY DEF NegotiationTypeOK
<1>2. Len(layers) \in Nat /\ DOMAIN layers = 1..Len(layers)
  BY <1>1
<1>3. writer = [i \in DOMAIN layers |-> writer[i]]
  BY DEF NegotiationTypeOK
<1>4. DOMAIN writer = DOMAIN layers
  BY <1>3
<1>5. \A i \in 1..Len(layers) : layers[i] \in Seq(Nat)
  BY <1>1
<1>6. stream \in [0..Len(layers) -> Seq(Int)] /\ wrote \in 0..MaxParts
  BY DEF NegotiationTypeOK
<1>7. \A i \in DOMAIN layers : writer[i] \in Range(layers[i]) \cup {NoCoding}
  BY DEF NegotiationTypeOK
<1>8. wrote \in Nat
  BY <1>6
<1> QED
  BY <1>1, <1>2, <1>4, <1>5, <1>6, <1>7, <1>8, Zenon

(* What two writers hold may change at once. *)
LEMMA Moved ==
  ASSUME NEW m \in Nat, NEW s \in [0..m -> Seq(Int)], NEW a \in 0..m, NEW b \in 0..m,
         NEW x \in Seq(Int)
  PROVE  [s EXCEPT ![a] = x, ![b] = <<>>] \in [0..m -> Seq(Int)]
OBVIOUS

(* A step that leaves the types alone. *)
LEMMA TypesKept ==
  ASSUME NegotiationTypeOK,
         UNCHANGED <<mode, field, types, transport, header, layers, writer, first>>,
         pc' \in IF mode = "coding" THEN {"request", "layer", "handler", "close", "done"}
                 ELSE {"request", "done"},
         layer' \in 0..(Len(layers) + 1), pc' \in {"request", "layer"} => layer' > 0,
         pc' = "close" => layer' <= Len(layers),
         stream' \in [0..Len(layers) -> Seq(Int)],
         wrote' \in 0..MaxParts, length' \in BOOLEAN, bodiless' \in BOOLEAN,
         panicked' \in BOOLEAN, hops' \in 0..(Len(Hosts) - 1)
  PROVE  NegotiationTypeOK'
BY Zenon DEF NegotiationTypeOK, IsHeader, Join, RawItem

(* A layer that codes uses one of its codings. *)
LEMMA LayerCodedFacts ==
  ASSUME NegotiationTypeOK, LayerCoded
  PROVE  \E c \in Nat :
           /\ c \in Range(layers[layer]) /\ Accepted(field, layers[layer], c)
           /\ writer' = [writer EXCEPT ![layer] = c] /\ declared' = c
           /\ layer \in 1..Len(layers) /\ layer' = layer + 1 /\ header' = Absent
           /\ header # Absent
           /\ length' = FALSE /\ pc = "layer"
           /\ UNCHANGED <<mode, field, types, transport, layers, pc, stream, wrote, bodiless,
                          panicked, got, first, fields, hops, choice, param, parsed>>
<1>1. field \in Seq(RawItems) /\ header = field /\ header # Absent
  BY DEF NegotiationTypeOK, LayerCoded
<1>2. layer \in 1..Len(layers)
  BY LayerFacts DEF NegotiationTypeOK, LayerCoded
<1>3. layers[layer] \in Seq(Nat)
  BY <1>2, LayerFacts
<1>4. PICK t \in ParseAcceptEncoding(field) :
        /\ NegotiateEncoding(t, layers[layer]) # NoCoding
        /\ writer' = [writer EXCEPT ![layer] = NegotiateEncoding(t, layers[layer])]
        /\ declared' = NegotiateEncoding(t, layers[layer])
  BY <1>1 DEF LayerCoded
<1> DEFINE c == NegotiateEncoding(t, layers[layer])
<1>5. Accepted(field, layers[layer], c)
  BY <1>1, <1>3, <1>4, NegotiatedIsAccepted
<1>6. t \in Seq(Items)
  <2> DEFINE bad == {i \in DOMAIN field : ~CodingOK(field[i])}
  <2>1. bad \in SUBSET (DOMAIN field)
    OBVIOUS
  <2>2. IF bad = {} THEN t \in Orders(ItemsBefore(field, bad)) ELSE t = ItemsBefore(field, bad)
    BY DEF ParseAcceptEncoding, SortedCodings
  <2> HIDE DEF bad
  <2> QED
    BY <1>1, <2>1, <2>2, ParsedFacts
<1>7. c \in Range(layers[layer])
  BY <1>3, <1>4, <1>6, NegotiateEncodingFacts
<1>8. c \in Nat
  BY <1>3, <1>7 DEF Range
<1>9. /\ layer' = layer + 1 /\ header' = Absent /\ length' = FALSE /\ pc = "layer"
      /\ UNCHANGED <<mode, field, types, transport, layers, pc, stream, wrote, bodiless,
                     panicked, got, first, fields, hops, choice, param, parsed>>
  BY DEF LayerCoded, HeaderDeleted
<1> HIDE DEF c
<1> QED
  BY <1>1, <1>2, <1>4, <1>5, <1>7, <1>8, <1>9 DEF c

(* Every step keeps the types. *)
LEMMA TypeStep ==
  ASSUME NegotiationTypeOK, [NegotiationNext]_negotiationVars
  PROVE  NegotiationTypeOK'
<1>0. /\ Len(layers) \in Nat /\ DOMAIN layers = 1..Len(layers)
      /\ DOMAIN writer = 1..Len(layers) /\ layer \in 0..(Len(layers) + 1)
      /\ stream \in [0..Len(layers) -> Seq(Int)]
  BY LayerFacts
<1>1. /\ wrote \in 0..MaxParts /\ length \in BOOLEAN /\ panicked \in BOOLEAN
      /\ bodiless \in BOOLEAN /\ hops \in 0..(Len(Hosts) - 1) /\ MaxParts \in Nat
      /\ (pc \in {"request", "layer"} => layer > 0) /\ (pc = "close" => layer <= Len(layers))
      /\ pc \in IF mode = "coding" THEN {"request", "layer", "handler", "close", "done"}
                ELSE {"request", "done"}
  BY NegotiationAssumption DEF NegotiationTypeOK
<1>2. CASE NegotiateType \/ WriteAndParse \/ Settled \/ UNCHANGED negotiationVars
  BY <1>0, <1>1, <1>2, TypesKept DEF NegotiateType, WriteAndParse, Settled, negotiationVars
<1>3. CASE PassOn
  <2>1. Len(Hosts) \in Nat
    BY NegotiationAssumption
  <2>2. hops' \in 0..(Len(Hosts) - 1)
    BY <1>1, <1>3, <2>1 DEF PassOn
  <2> QED
    BY <1>0, <1>1, <1>3, <2>2, TypesKept DEF PassOn
<1>4. CASE Start
  BY <1>0, <1>1, <1>4, TypesKept DEF Start
<1>5. CASE LayerPlain
  BY <1>0, <1>1, <1>5, TypesKept DEF LayerPlain
<1>6. CASE LayerCoded
  <2>1. PICK c \in Nat :
          /\ c \in Range(layers[layer]) /\ writer' = [writer EXCEPT ![layer] = c]
          /\ layer \in 1..Len(layers) /\ layer' = layer + 1 /\ header' = Absent
          /\ length' = FALSE /\ pc = "layer"
          /\ UNCHANGED <<mode, field, types, transport, layers, pc, stream, wrote, bodiless,
                         panicked, first, hops>>
    BY <1>6, LayerCodedFacts
  <2>2. /\ layer' \in 0..(Len(layers) + 1) /\ (pc' \in {"request", "layer"} => layer' > 0)
        /\ (pc' = "close" => layer' <= Len(layers))
    BY <1>0, <2>1
  <2>3. writer = [i \in DOMAIN layers |-> writer[i]]
    BY DEF NegotiationTypeOK
  <2>4. writer' = [i \in DOMAIN layers |-> writer'[i]]
    BY <1>0, <2>1, <2>3
  <2>5. ASSUME NEW i \in DOMAIN layers
        PROVE  writer'[i] \in Range(layers[i]) \cup {NoCoding}
    <3>1. writer[i] \in Range(layers[i]) \cup {NoCoding}
      BY DEF NegotiationTypeOK
    <3>2. writer'[i] = IF i = layer THEN c ELSE writer[i]
      BY <1>0, <2>1, <2>3
    <3> QED
      BY <2>1, <3>1, <3>2
  <2> QED
    BY <1>1, <2>1, <2>2, <2>4, <2>5, Zenon DEF NegotiationTypeOK, IsHeader, Join, RawItem
<1>7. CASE LayersDone
  BY <1>0, <1>1, <1>7, TypesKept DEF LayersDone
<1>8. CASE HandlerSetsLength
  BY <1>0, <1>1, <1>8, TypesKept DEF HandlerSetsLength
<1>14. CASE HandlerHasNoBody
  BY <1>0, <1>1, <1>14, TypesKept DEF HandlerHasNoBody
<1>9. CASE HandlerWrites
  <2>1. wrote' = wrote + 1 /\ wrote' \in 0..MaxParts /\ wrote' \in Int
    BY <1>1, <1>9 DEF HandlerWrites
  <2>2. Sink(Len(layers) + 1) \in 0..Len(layers)
    BY <1>0, SinkFacts
  <2>3. stream' = [stream EXCEPT ![Sink(Len(layers) + 1)] = Append(@, wrote')]
    BY <1>9 DEF HandlerWrites
  <2>4. stream' \in [0..Len(layers) -> Seq(Int)]
    BY <1>0, <2>1, <2>2, <2>3
  <2> QED
    BY <1>0, <1>1, <1>9, <2>1, <2>4, TypesKept DEF HandlerWrites
<1>10. CASE HandlerEnds
  BY <1>0, <1>1, <1>10, TypesKept DEF HandlerEnds
<1>11. CASE DeferClose
  <2>1. layer \in 1..Len(layers) /\ layer' = layer - 1
    <3>1. layer <= Len(layers)
      BY <1>11 DEF DeferClose, NegotiationTypeOK
    <3> QED
      BY <1>0, <1>11, <3>1 DEF DeferClose
  <2>2. Sink(layer) \in 0..Len(layers) /\ Sink(layer) # layer
    BY <1>0, <2>1, SinkFacts
  <2>3. \/ stream' = stream
        \/ stream' = [stream EXCEPT ![Sink(layer)] = @ \o stream[layer] \o <<End(layer)>>,
                                    ![layer] = <<>>]
    BY <1>11 DEF DeferClose
  <2>4. End(layer) \in Int
    BY <1>0, <2>1 DEF End
  <2>5. stream' \in [0..Len(layers) -> Seq(Int)]
    <3>1. stream[Sink(layer)] \in Seq(Int) /\ stream[layer] \in Seq(Int) /\ layer \in 0..Len(layers)
      BY <1>0, <2>1, <2>2
    <3>2. stream[Sink(layer)] \o stream[layer] \o <<End(layer)>> \in Seq(Int)
      BY <2>4, <3>1
    <3> DEFINE x == stream[Sink(layer)] \o stream[layer] \o <<End(layer)>>
    <3>3. [stream EXCEPT ![Sink(layer)] = x, ![layer] = <<>>] \in [0..Len(layers) -> Seq(Int)]
      <4> HIDE DEF x
      <4> QED
        BY <1>0, <2>2, <3>1, <3>2, Moved DEF x
    <3> QED
      BY <1>0, <2>3, <3>3, Zenon
  <2>6. layer' \in 0..(Len(layers) + 1) /\ layer' <= Len(layers) /\ pc' = "close"
    BY <1>0, <1>11, <2>1 DEF DeferClose
  <2> QED
    BY <1>0, <1>1, <1>11, <2>5, <2>6, TypesKept DEF DeferClose
<1>12. CASE ClientReads
  BY <1>0, <1>1, <1>12, TypesKept DEF ClientReads
<1>13. ASSUME NEW i \in DOMAIN writer, Flush(i) PROVE NegotiationTypeOK'
  <2>1. Sink(i) \in 0..Len(layers) /\ i \in 1..Len(layers)
    BY <1>0, SinkFacts
  <2>2. stream' = [stream EXCEPT ![Sink(i)] = @ \o stream[i], ![i] = <<>>]
    BY <1>13 DEF Flush
  <2>3. stream' \in [0..Len(layers) -> Seq(Int)]
    <3>1. stream[Sink(i)] \in Seq(Int) /\ stream[i] \in Seq(Int) /\ i \in 0..Len(layers)
      BY <1>0, <2>1
    <3>2. stream[Sink(i)] \o stream[i] \in Seq(Int)
      BY <3>1
    <3> QED
      BY <1>0, <2>1, <2>2, <3>1, <3>2, Moved
  <2> QED
    BY <1>0, <1>1, <1>13, <2>3, TypesKept DEF Flush
<1> QED
  BY <1>2, <1>3, <1>4, <1>5, <1>6, <1>7, <1>8, <1>9, <1>10, <1>11, <1>12, <1>13,
     <1>14 DEF NegotiationNext

(* The types hold in every reachable state. *)
LEMMA TypeInvariance == NegotiationSpec => []NegotiationTypeOK
<1>1. NegotiationInit => NegotiationTypeOK
  BY NegotiationInitTypes
<1>2. NegotiationTypeOK /\ [NegotiationNext]_negotiationVars => NegotiationTypeOK'
  BY TypeStep
<1> QED
  BY <1>1, <1>2, PTL DEF NegotiationSpec

(* Only a layer that codes changes the coding of a writer. *)
LEMMA CodingKept ==
  ASSUME [NegotiationNext]_negotiationVars, ~LayerCoded
  PROVE  UNCHANGED <<mode, field, types, transport, layers, header, writer, declared, first>>
BY DEF NegotiationNext, negotiationVars, NegotiateType, WriteAndParse, PassOn, Start, LayerPlain,
       LayersDone, HandlerSetsLength, HandlerHasNoBody, HandlerWrites, HandlerEnds, DeferClose,
       ClientReads, Flush, Settled

-----------------------------------------------------------------------------
(* The coding. *)

(* For every field, every coding on offer and any number of wrappers: what *)
(* is coded with was listed by the client, before any malformed item, and  *)
(* offered, and, in a well-formed field without a NaN, nothing that was    *)
(* has a higher quality (accept.go:268-326).                               *)
THEOREM CodingAccepted == NegotiationSpec => []CodingIsAccepted
<1>1. NegotiationInit => CodingIsAccepted
  BY DEF NegotiationInit, CodingIsAccepted, Coded
<1>2. /\ NegotiationTypeOK /\ CodingIsAccepted /\ [NegotiationNext]_negotiationVars
      => CodingIsAccepted'
  <2> SUFFICES ASSUME NegotiationTypeOK, CodingIsAccepted, [NegotiationNext]_negotiationVars
               PROVE  CodingIsAccepted'
    OBVIOUS
  <2>1. CASE ~LayerCoded
    <3>1. UNCHANGED <<field, layers, writer>>
      BY <2>1, CodingKept
    <3> QED
      BY <3>1 DEF CodingIsAccepted, Coded
  <2>2. CASE LayerCoded
    <3>1. PICK c \in Nat :
            /\ Accepted(field, layers[layer], c)
            /\ writer' = [writer EXCEPT ![layer] = c] /\ UNCHANGED <<field, layers>>
      BY <2>2, LayerCodedFacts
    <3>2. ASSUME NEW i \in DOMAIN writer', writer'[i] # NoCoding
          PROVE  Accepted(field', layers'[i], writer'[i])
      <4>1. i \in DOMAIN writer /\ writer'[i] = IF i = layer THEN c ELSE writer[i]
        BY <3>1, <3>2, LayerFacts
      <4>2. CASE i = layer
        BY <3>1, <4>1, <4>2
      <4>3. CASE i # layer
        <5>1. writer[i] # NoCoding /\ writer'[i] = writer[i]
          BY <3>2, <4>1, <4>3
        <5>2. Accepted(field, layers[i], writer[i])
          BY <4>1, <5>1 DEF CodingIsAccepted, Coded
        <5> QED
          BY <3>1, <5>1, <5>2
      <4> QED
        BY <4>2, <4>3
    <3> QED
      BY <3>2 DEF CodingIsAccepted, Coded
  <2> QED
    BY <2>1, <2>2
<1> QED
  BY <1>1, <1>2, TypeInvariance, PTL DEF NegotiationSpec

(* Where a layer writes, when one at most has a coding. *)
LEMMA SinkIs ==
  ASSUME NegotiationTypeOK, CodedOnce, NEW i \in 1..(Len(layers) + 1)
  PROVE  /\ Coded = {} => Sink(i) = 0
         /\ \A c \in Coded : Sink(i) = IF c < i THEN c ELSE 0
<1>1. DOMAIN writer = 1..Len(layers) /\ Len(layers) \in Nat
  BY LayerFacts
<1>2. /\ Sink(i) \in 0..(i - 1) /\ (Sink(i) # 0 => writer[Sink(i)] # NoCoding)
      /\ \A j \in 1..(i - 1) : writer[j] # NoCoding => j <= Sink(i)
  BY <1>1, SinkFacts
<1>3. Sink(i) # 0 => Sink(i) \in Coded
  BY <1>1, <1>2 DEF Coded
<1>4. ASSUME NEW c \in Coded PROVE Sink(i) = IF c < i THEN c ELSE 0
  <2>1. c \in 1..Len(layers) /\ writer[c] # NoCoding /\ Coded = {c}
    BY <1>1 DEF Coded, CodedOnce
  <2>2. CASE c < i
    <3>1. c <= Sink(i)
      BY <1>1, <1>2, <2>1, <2>2
    <3> QED
      BY <1>2, <1>3, <2>1, <2>2, <3>1
  <2>3. CASE ~(c < i)
    BY <1>1, <1>2, <1>3, <2>1, <2>3
  <2> QED
    BY <2>2, <2>3
<1> QED
  BY <1>3, <1>4

(* What the handler has written is a sequence. *)
LEMMA WrittenFacts ==
  ASSUME NegotiationTypeOK
  PROVE  Written \in Seq(Int) /\ Len(Written) = wrote /\ \A k \in 1..wrote : Written[k] = k
<1>1. wrote \in Nat
  BY LayerFacts
<1> QED
  BY <1>1 DEF Written

(* One coding at most. *)
LEMMA CodedOnceStep ==
  ASSUME NegotiationTypeOK, CodedOnce, [NegotiationNext]_negotiationVars
  PROVE  CodedOnce'
<1>1. CASE ~LayerCoded
  <2>1. UNCHANGED <<header, writer, declared>>
    BY <1>1, CodingKept
  <2> QED
    BY <2>1 DEF CodedOnce, Coded
<1>2. CASE LayerCoded
  <2>1. PICK c \in Nat :
          /\ writer' = [writer EXCEPT ![layer] = c] /\ declared' = c
          /\ header # Absent /\ header' = Absent /\ layer \in 1..Len(layers)
    BY <1>2, LayerCodedFacts
  <2>2. Coded = {}
    BY <2>1 DEF CodedOnce
  <2>3. \A i \in DOMAIN writer : writer[i] = NoCoding
    BY <2>2 DEF Coded
  <2>4. DOMAIN writer' = DOMAIN writer /\ layer \in DOMAIN writer
    BY <2>1, LayerFacts
  <2>5. c # NoCoding
    BY DEF NoCoding
  <2>6. \A i \in DOMAIN writer : writer'[i] = IF i = layer THEN c ELSE NoCoding
    BY <2>1, <2>3
  <2>7. Coded' = {layer} /\ writer'[layer] = c
    BY <2>4, <2>5, <2>6 DEF Coded
  <2> QED
    BY <2>1, <2>7 DEF CodedOnce
<1> QED
  BY <1>1, <1>2

(* The body, while nobody moves it. *)
LEMMA BodyKept ==
  ASSUME NegotiationTypeOK, BodyIsWhole, UNCHANGED <<writer, stream, wrote>>,
         pc' \in {"request", "layer"} => pc \in {"request", "layer"},
         \A i \in Coded : /\ pc' \in {"close", "done"} /\ layer' < i
                          <=> pc \in {"close", "done"} /\ layer < i
  PROVE  BodyIsWhole'
<1>1. Written' = Written /\ Coded' = Coded
  BY DEF Written, Coded
<1> QED
  BY <1>1 DEF BodyIsWhole, End

(* What is appended to the second half is appended to the whole. *)
LEMMA AppendBehind ==
  ASSUME NEW s \in Seq(Int), NEW t \in Seq(Int), NEW b \in Int
  PROVE  s \o Append(t, b) = Append(s \o t, b)
<1>1. Append(t, b) = t \o <<b>> /\ Append(s \o t, b) = (s \o t) \o <<b>>
  BY AppendIsConcat
<1> QED
  BY <1>1, ConcatAssociative

(* The first writer gets what the second held. *)
LEMMA MovedFacts ==
  ASSUME NEW m \in Nat, NEW s \in [0..m -> Seq(Int)], NEW b \in 1..m, NEW x \in Seq(Int)
  PROVE  LET t == [s EXCEPT ![0] = x, ![b] = <<>>]
         IN  t[0] = x /\ t[b] = <<>> /\ \A i \in (1..m) \ {b} : t[i] = s[i]
OBVIOUS

(* A part that the handler writes goes to the one coding, or out. *)
LEMMA BodyWritten ==
  ASSUME NegotiationTypeOK, BodyIsWhole, CodedOnce, HandlerWrites
  PROVE  BodyIsWhole'
<1>1. /\ DOMAIN writer = 1..Len(layers) /\ Len(layers) \in Nat /\ wrote \in Nat
      /\ stream \in [0..Len(layers) -> Seq(Int)]
  BY LayerFacts
<1> DEFINE s == Sink(Len(layers) + 1)
<1>2. /\ pc = "handler" /\ pc' = "handler" /\ wrote' = wrote + 1 /\ UNCHANGED writer
      /\ stream' = [stream EXCEPT ![s] = Append(@, wrote')]
  BY DEF HandlerWrites
<1>3. Coded' = Coded
  BY <1>2 DEF Coded
<1>4. Written \in Seq(Int) /\ wrote' \in Int /\ Written' = Append(Written, wrote')
  <2>1. Written \in Seq(Int) /\ Len(Written) = wrote /\ \A k \in 1..wrote : Written[k] = k
    BY WrittenFacts
  <2>2. Written' = [k \in 1..(wrote + 1) |-> k]
    BY <1>2 DEF Written
  <2> QED
    BY <1>1, <1>2, <2>1, <2>2
<1>5. CASE Coded = {}
  <2>1. s = 0
    BY <1>1, <1>5, SinkIs
  <2>2. stream'[0] = Append(stream[0], wrote') /\ \A i \in DOMAIN writer : stream'[i] = stream[i]
    BY <1>1, <1>2, <2>1
  <2> QED
    BY <1>2, <1>3, <1>4, <1>5, <2>2 DEF BodyIsWhole
<1>6. ASSUME NEW c \in Coded PROVE BodyIsWhole'
  <2>1. c \in 1..Len(layers) /\ Coded = {c}
    BY <1>1 DEF Coded, CodedOnce
  <2>2. s = c
    BY <1>1, <2>1, SinkIs
  <2>3. /\ stream'[c] = Append(stream[c], wrote') /\ stream'[0] = stream[0]
        /\ \A i \in DOMAIN writer \ {c} : stream'[i] = stream[i]
    BY <1>1, <1>2, <2>1, <2>2
  <2>4. stream[0] \o stream[c] = Written
    BY <1>2 DEF BodyIsWhole
  <2>5. stream[0] \in Seq(Int) /\ stream[c] \in Seq(Int)
    BY <1>1, <2>1
  <2>6. stream[0] \o Append(stream[c], wrote') = Append(stream[0] \o stream[c], wrote')
    BY <1>4, <2>5, AppendBehind
  <2>7. stream'[0] \o stream'[c] = Written'
    BY <1>4, <2>3, <2>4, <2>6
  <2>8. /\ pc' = "handler" /\ Coded' = {c}
        /\ \A i \in DOMAIN writer' \ {c} : stream'[i] = <<>>
    BY <1>2, <1>3, <2>1, <2>3 DEF BodyIsWhole
  <2> QED
    BY <2>1, <2>7, <2>8 DEF BodyIsWhole
<1> QED
  BY <1>5, <1>6

(* What a writer passes on keeps its place. *)
LEMMA BodyFlushed ==
  ASSUME NegotiationTypeOK, BodyIsWhole, CodedOnce, NEW c \in DOMAIN writer, Flush(c)
  PROVE  BodyIsWhole'
<1>1. /\ DOMAIN writer = 1..Len(layers) /\ Len(layers) \in Nat
      /\ stream \in [0..Len(layers) -> Seq(Int)]
  BY LayerFacts
<1>2. /\ pc = "handler" /\ pc' = "handler" /\ UNCHANGED <<writer, wrote>> /\ stream[c] # <<>>
      /\ stream' = [stream EXCEPT ![Sink(c)] = @ \o stream[c], ![c] = <<>>]
  BY DEF Flush
<1>3. c \in Coded /\ Coded = {c}
  BY <1>2 DEF BodyIsWhole, CodedOnce
<1>4. Sink(c) = 0
  BY <1>1, <1>3, SinkIs
<1>5. /\ stream'[0] = stream[0] \o stream[c] /\ stream'[c] = <<>>
      /\ \A i \in DOMAIN writer \ {c} : stream'[i] = stream[i]
  BY <1>1, <1>2, <1>4
<1>6. stream[0] \o stream[c] = Written
  BY <1>2, <1>3 DEF BodyIsWhole
<1>7. stream'[0] \o stream'[c] = Written
  BY <1>5, <1>6, WrittenFacts
<1>8. Coded' = {c} /\ Written' = Written
  BY <1>2, <1>3 DEF Coded, Written
<1>9. \A i \in DOMAIN writer' \ {c} : stream'[i] = <<>>
  BY <1>2, <1>3, <1>5 DEF BodyIsWhole
<1> QED
  BY <1>2, <1>7, <1>8, <1>9 DEF BodyIsWhole

(* Closing the writer that codes ends the body behind the last part. *)
LEMMA BodyClosed ==
  ASSUME NegotiationTypeOK, BodyIsWhole, CodedOnce, DeferClose
  PROVE  BodyIsWhole'
<1>1. /\ DOMAIN writer = 1..Len(layers) /\ Len(layers) \in Nat
      /\ stream \in [0..Len(layers) -> Seq(Int)]
  BY LayerFacts
<1>2. /\ pc = "close" /\ pc' = "close" /\ UNCHANGED <<writer, wrote>>
      /\ layer \in 1..Len(layers) /\ layer' = layer - 1
  BY <1>1, LayerFacts DEF DeferClose, NegotiationTypeOK
<1>3. CASE writer[layer] = NoCoding
  <2>1. stream' = stream
    BY <1>3 DEF DeferClose
  <2>2. ASSUME NEW i \in Coded PROVE layer' < i <=> layer < i
    <3>1. i \in 1..Len(layers) /\ i # layer
      BY <1>1, <1>3 DEF Coded
    <3> QED
      BY <1>2, <3>1
  <2> QED
    BY <1>2, <2>1, <2>2, BodyKept
<1>4. CASE writer[layer] # NoCoding
  <2>1. layer \in Coded /\ Coded = {layer}
    BY <1>1, <1>2, <1>4 DEF Coded, CodedOnce
  <2>2. Sink(layer) = 0
    BY <1>1, <1>2, <2>1, SinkIs
  <2>3. stream' = [stream EXCEPT ![0] = @ \o stream[layer] \o <<End(layer)>>, ![layer] = <<>>]
    BY <1>4, <2>2 DEF DeferClose
  <2>4. /\ stream'[0] = (stream[0] \o stream[layer]) \o <<End(layer)>> /\ stream'[layer] = <<>>
        /\ \A i \in DOMAIN writer \ {layer} : stream'[i] = stream[i]
    <3> DEFINE x == (stream[0] \o stream[layer]) \o <<End(layer)>>
    <3>1. stream[0] \in Seq(Int) /\ stream[layer] \in Seq(Int) /\ End(layer) \in Int
      BY <1>1, <1>2 DEF End
    <3>2. x \in Seq(Int)
      BY <3>1
    <3>3. stream' = [stream EXCEPT ![0] = x, ![layer] = <<>>]
      BY <2>3
    <3> HIDE DEF x
    <3>4. /\ stream'[0] = x /\ stream'[layer] = <<>>
          /\ \A i \in DOMAIN writer \ {layer} : stream'[i] = stream[i]
      BY <1>1, <1>2, <3>2, <3>3, MovedFacts
    <3> QED
      BY <3>4 DEF x
  <2>5. stream[0] \o stream[layer] = Written
    <3>1. ~(layer < layer)
      BY <1>2
    <3> QED
      BY <2>1, <3>1 DEF BodyIsWhole
  <2>6. Written \o <<End(layer)>> = Append(Written, End(layer))
    BY <1>2, WrittenFacts DEF End
  <2>7. Coded' = {layer} /\ Written' = Written
    BY <1>2, <2>1 DEF Coded, Written
  <2>8. \A i \in DOMAIN writer' \ {layer} : stream'[i] = <<>>
    BY <1>2, <2>1, <2>4 DEF BodyIsWhole
  <2>9. layer' < layer /\ stream'[0] = Append(Written, End(layer))
    <3>1. layer' < layer
      BY <1>1, <1>2
    <3>2. stream'[0] = Append(Written, End(layer))
      BY <2>4, <2>5, <2>6, Zenon
    <3> QED
      BY <3>1, <3>2
  <2> QED
    BY <1>2, <2>4, <2>7, <2>8, <2>9 DEF BodyIsWhole, End
<1> QED
  BY <1>3, <1>4

(* A layer that codes does so before anything is written. *)
LEMMA BodyCoded ==
  ASSUME NegotiationTypeOK, BodyIsWhole, CodedOnce, LayerCoded
  PROVE  BodyIsWhole'
<1>1. PICK c \in Nat :
        /\ writer' = [writer EXCEPT ![layer] = c] /\ pc = "layer" /\ header # Absent
        /\ layer \in 1..Len(layers) /\ UNCHANGED <<pc, stream, wrote>>
  BY LayerCodedFacts
<1>2. Coded = {}
  BY <1>1 DEF CodedOnce
<1>3. DOMAIN writer' = 1..Len(layers) /\ DOMAIN writer = 1..Len(layers)
  BY <1>1, LayerFacts
<1>4. \A i \in 1..Len(layers) : stream[i] = <<>>
  BY <1>2, <1>3 DEF BodyIsWhole
<1>5. wrote = 0 /\ stream[0] = Written /\ Written' = Written
  BY <1>1, <1>2 DEF BodyIsWhole, Written
<1>6. Written = <<>>
  BY <1>5, WrittenFacts
<1>7. \A i \in Coded' : i \in 1..Len(layers)
  BY <1>3 DEF Coded
<1>8. <<>> \o <<>> = <<>>
  OBVIOUS
<1> QED
  BY <1>1, <1>2, <1>3, <1>4, <1>5, <1>6, <1>7, <1>8 DEF BodyIsWhole
(* The body stays whole in every step. *)
LEMMA BodyStep ==
  ASSUME NegotiationTypeOK, BodyIsWhole, CodedOnce, [NegotiationNext]_negotiationVars
  PROVE  BodyIsWhole'
<1>1. Len(layers) \in Nat /\ \A i \in Coded : i \in 1..Len(layers)
  BY LayerFacts DEF Coded
<1>2. CASE \/ NegotiateType \/ WriteAndParse \/ PassOn \/ Start \/ LayerPlain \/ LayersDone
           \/ HandlerSetsLength \/ HandlerHasNoBody
  <2>1. UNCHANGED <<writer, stream, wrote>>
    BY <1>2 DEF NegotiateType, WriteAndParse, PassOn, Start, LayerPlain, LayersDone,
                HandlerSetsLength, HandlerHasNoBody
  <2>2. pc' \in {"request", "layer"} => pc \in {"request", "layer"}
    BY <1>2 DEF NegotiateType, WriteAndParse, PassOn, Start, LayerPlain, LayersDone,
                HandlerSetsLength, HandlerHasNoBody, NegotiationTypeOK
  <2>3. mode # "coding" => Coded = {}
    <3>1. mode # "coding" => Len(layers) = 0
      BY DEF NegotiationTypeOK
    <3> QED
      BY <1>1, <3>1
  <2>4. mode = "coding" => pc' \notin {"close", "done"} /\ pc \notin {"close", "done"}
    BY <1>2 DEF NegotiateType, WriteAndParse, PassOn, Start, LayerPlain, LayersDone,
                HandlerSetsLength, HandlerHasNoBody
  <2> QED
    BY <2>1, <2>2, <2>3, <2>4, BodyKept
<1>3. CASE HandlerEnds
  <2>1. /\ UNCHANGED <<writer, stream, wrote>> /\ pc = "handler" /\ pc' = "close"
        /\ layer' = Len(layers)
    BY <1>3 DEF HandlerEnds
  <2>2. \A i \in Coded : ~(layer' < i)
    BY <1>1, <2>1
  <2> QED
    BY <2>1, <2>2, BodyKept
<1>4. CASE ClientReads
  BY <1>4, BodyKept DEF ClientReads
<1>5. CASE Settled \/ UNCHANGED negotiationVars
  BY <1>5, BodyKept DEF Settled, negotiationVars
<1> QED
  BY <1>2, <1>3, <1>4, <1>5, BodyWritten, BodyFlushed, BodyClosed, BodyCoded DEF NegotiationNext

(* The client finds the parts before the first end of a coding. *)
LEMMA PartsFacts ==
  ASSUME NegotiationTypeOK,
         ~bodiless, \/ stream[0] = Written
                    \/ \E c \in Nat \ {0} : stream[0] = Append(Written, End(c))
  PROVE  Parts = Written
<1>1. /\ Written \in Seq(Int) /\ Len(Written) = wrote /\ \A k \in 1..wrote : Written[k] = k
      /\ wrote \in Nat
  BY WrittenFacts, LayerFacts
<1> DEFINE ends == {k \in 1..Len(stream[0]) : stream[0][k] < 0}
           all  == ends \cup {Len(stream[0]) + 1}
<1>2. Min(all) = wrote + 1
  <2>1. CASE stream[0] = Written
    <3>1. all = {wrote + 1}
      BY <1>1, <2>1
    <3> QED
      BY <1>1, <3>1, LeastIs
  <2>2. ASSUME NEW c \in Nat \ {0}, stream[0] = Append(Written, End(c))
        PROVE  Min(all) = wrote + 1
    <3>1. End(c) \in Int /\ End(c) < 0
      BY DEF End
    <3>2. /\ Len(stream[0]) = wrote + 1 /\ stream[0][wrote + 1] = End(c)
          /\ \A k \in 1..wrote : stream[0][k] = k
      BY <1>1, <2>2, <3>1
    <3>3. ends = {wrote + 1}
      BY <1>1, <3>1, <3>2
    <3>4. all = {wrote + 1, wrote + 2}
      BY <1>1, <3>2, <3>3
    <3> QED
      BY <1>1, <3>4, LeastIs
  <2> QED
    BY <2>1, <2>2
<1>3. SubSeq(stream[0], 1, wrote) = Written
  <2>1. CASE stream[0] = Written
    BY <1>1, <2>1
  <2>2. ASSUME NEW c \in Nat \ {0}, stream[0] = Append(Written, End(c))
        PROVE  SubSeq(stream[0], 1, wrote) = Written
    <3>1. End(c) \in Int
      BY DEF End
    <3> QED
      BY <1>1, <2>2, <3>1
  <2> QED
    BY <2>1, <2>2
<1>4. Parts = SubSeq(stream[0], 1, Min(all) - 1)
  BY DEF Parts, Body
<1> HIDE DEF all
<1> QED
  BY <1>1, <1>2, <1>3, <1>4

(* It finds none where there is no body. *)
LEMMA NoParts == ASSUME bodiless PROVE Parts = <<>>
<1> DEFINE ends == {k \in 1..Len(Body) : Body[k] < 0}
           all  == ends \cup {Len(Body) + 1}
<1>1. Body = <<>>
  BY DEF Body
<1>2. all = {1}
  BY <1>1
<1>3. Min(all) = 1
  BY <1>2, LeastIs
<1>4. Parts = SubSeq(Body, 1, Min(all) - 1)
  BY DEF Parts
<1> HIDE DEF all
<1>5. SubSeq(<<>>, 1, 0) = <<>>
  OBVIOUS
<1> QED
  BY <1>1, <1>3, <1>4, <1>5

(* A coding that the client accepted is one that an EncodingTransport      *)
(* decodes.                                                                *)
LEMMA TransportDecodes ==
  ASSUME NegotiationTypeOK, CodingIsAccepted, transport, NEW c \in Coded
  PROVE  writer[c] \in Range(Decoders)
<1>1. Accepted(Join(Decoders), layers[c], writer[c])
  BY DEF CodingIsAccepted, NegotiationTypeOK
<1>2. PICK k \in DOMAIN Join(Decoders) : ParseAcceptItem(Join(Decoders)[k]).typ = writer[c]
  BY <1>1 DEF Accepted
<1>3. k \in DOMAIN Decoders /\ Join(Decoders)[k] = RawItem(Decoders[k], NoSub, <<>>)
  BY <1>2 DEF Join
<1>4. ParseAcceptItem(Join(Decoders)[k]).typ = Decoders[k]
  BY <1>3 DEF ParseAcceptItem, RawItem
<1> QED
  BY <1>2, <1>3, <1>4 DEF Range

(* What the client reads of a body that is whole, or of none. *)
LEMMA ReadOnce ==
  ASSUME NegotiationTypeOK, BodyIsWhole, CodedOnce, CodingIsAccepted, ClientReads
  PROVE  ReadBack'
<1> DEFINE decode == transport /\ declared \in Range(Decoders)
           outer  == IF Coded = {} THEN {} ELSE {Min(Coded)}
           amiss  == decode /\ (Coded = {} \/ \E i \in outer :
                                  writer[i] # declared \/ ~Ended(i))
<1>1. PICK fails \in IF bodiless /\ panicked THEN BOOLEAN ELSE {Broken} :
        got' = [parts |-> Parts, coded |-> IF decode THEN Coded # outer ELSE Coded # {},
                err |-> fails \/ amiss]
  BY DEF ClientReads
<1>2. /\ pc = "close" /\ layer = 0
      /\ UNCHANGED <<wrote, bodiless, panicked, length, writer, transport>>
  BY DEF ClientReads
<1>3. Written' = Written /\ (Broken' <=> Broken) /\ Coded' = Coded
  BY <1>2 DEF Written, Broken, Coded
<1>4. /\ got'.parts = Parts /\ (got'.err <=> fails \/ amiss)
      /\ (got'.coded <=> IF decode THEN Coded # outer ELSE Coded # {})
  BY <1>1
<1>5. (Broken => fails) /\ (fails => Broken \/ (bodiless /\ panicked))
  BY <1>1 DEF Broken
<1>6. /\ Coded = {} => ~decode
      /\ \A c \in Coded : outer = {c} /\ Coded = {c} /\ declared = writer[c]
      /\ \A c \in Coded : c \in Nat \ {0} /\ (transport => decode)
  <2>1. ASSUME Coded = {} PROVE ~decode
    <3>1. declared = NoCoding
      BY <2>1 DEF CodedOnce
    <3>2. NoCoding \notin Range(Decoders)
      <4>1. Decoders \in Seq(Nat)
        BY NegotiationAssumption
      <4> QED
        BY <4>1 DEF Range, NoCoding
    <3> QED
      BY <3>1, <3>2
  <2>2. ASSUME NEW c \in Coded
        PROVE  /\ outer = {c} /\ Coded = {c} /\ declared = writer[c]
               /\ c \in Nat \ {0} /\ (transport => decode)
    <3>1. c \in Nat \ {0} /\ Coded = {c} /\ declared = writer[c]
      BY LayerFacts DEF Coded, CodedOnce
    <3>2. Min(Coded) = c
      BY <3>1, LeastIs
    <3>3. outer = {c}
      BY <3>1, <3>2
    <3>4. transport => decode
      BY <3>1, TransportDecodes
    <3> QED
      BY <3>1, <3>3, <3>4
  <2> QED
    BY <2>1, <2>2
<1>7. CASE bodiless
  <2>1. Parts = <<>> /\ ~Broken
    BY <1>7, NoParts DEF Broken
  <2>2. ASSUME NEW c \in Coded PROVE ~Ended(c)
    <3>1. Body = <<>>
      BY <1>7 DEF Body
    <3>2. Range(<<>>) = {}
      BY DEF Range
    <3> QED
      BY <3>1, <3>2 DEF Ended
  <2>3. transport /\ Coded # {} => amiss
    <3> HIDE DEF outer, decode
    <3> QED
      BY <1>6, <2>2
  <2>4. amiss => transport /\ Coded # {}
    BY <1>6
  <2>5. transport => ~got'.coded
    <3> HIDE DEF outer, decode, amiss
    <3> QED
      BY <1>4, <1>6
  <2> HIDE DEF decode, outer, amiss
  <2> QED
    BY <1>2, <1>3, <1>4, <1>5, <1>7, <2>1, <2>3, <2>4, <2>5 DEF ReadBack
<1>8. CASE ~bodiless
  <2>1. Parts = Written /\ ~amiss
    <3>1. CASE Coded = {}
      <4>1. stream[0] = Written
        BY <3>1 DEF BodyIsWhole
      <4> QED
        BY <1>6, <1>8, <3>1, <4>1, PartsFacts
    <3>2. ASSUME NEW c \in Coded PROVE Parts = Written /\ ~amiss
      <4>1. c \in Nat \ {0} /\ layer < c
        BY <1>2, <1>6
      <4>2. stream[0] = Append(Written, End(c))
        BY <1>2, <3>2, <4>1 DEF BodyIsWhole
      <4>3. Ended(c)
        <5>1. Written \in Seq(Int) /\ Len(Written) \in Nat /\ End(c) \in Int
          BY <4>1, WrittenFacts, LayerFacts DEF End
        <5>2. Append(Written, End(c)) \in Seq(Int)
          BY <5>1
        <5>3. /\ Len(Written) + 1 \in DOMAIN Append(Written, End(c))
              /\ Append(Written, End(c))[Len(Written) + 1] = End(c)
          BY <5>1
        <5>4. Body = Append(Written, End(c))
          BY <1>8, <4>2 DEF Body
        <5> QED
          BY <5>3, <5>4 DEF Ended, Range
      <4>4. Parts = Written
        BY <1>8, <4>1, <4>2, PartsFacts
      <4>5. ~amiss
        <5> HIDE DEF outer, decode
        <5> QED
          BY <1>6, <4>3
      <4> QED
        BY <4>4, <4>5
    <3> QED
      BY <3>1, <3>2
  <2>2. transport => ~got'.coded
    <3> HIDE DEF outer, decode, amiss
    <3> QED
      BY <1>4, <1>6
  <2> HIDE DEF decode, outer, amiss
  <2> QED
    BY <1>2, <1>3, <1>4, <1>5, <1>8, <2>1, <2>2 DEF ReadBack
<1> QED
  BY <1>7, <1>8

(* What the client has read stays. *)
LEMMA ReadBackStep ==
  ASSUME NegotiationTypeOK, BodyIsWhole, CodedOnce, CodingIsAccepted, ReadBack,
         [NegotiationNext]_negotiationVars
  PROVE  ReadBack'
<1>1. CASE ClientReads
  BY <1>1, ReadOnce
<1>2. CASE ~ClientReads
  <2>1. mode' = "coding" /\ pc' = "done" => mode = "coding" /\ pc = "done"
    BY <1>2 DEF NegotiationTypeOK, NegotiationNext, negotiationVars, NegotiateType,
         WriteAndParse, PassOn, Start, LayerPlain, LayerCoded, LayersDone, HandlerSetsLength, HandlerHasNoBody,
         HandlerWrites, HandlerEnds, DeferClose, Flush, Settled
  <2>2. mode = "coding" /\ pc = "done" =>
          UNCHANGED <<got, wrote, length, bodiless, panicked, writer, transport>>
    BY <1>2 DEF NegotiationTypeOK, NegotiationNext, negotiationVars, NegotiateType,
         WriteAndParse, PassOn, Start, LayerPlain, LayerCoded, LayersDone, HandlerSetsLength, HandlerHasNoBody,
         HandlerWrites, HandlerEnds, DeferClose, Flush, Settled
  <2> QED
    BY <2>1, <2>2 DEF ReadBack, Written, Broken, Coded
<1> QED
  BY <1>1, <1>2

(* For every field, any number of wrappers and whatever the handler and    *)
(* the writers of the codings do: the body is coded once at most, no part  *)
(* of it is lost or out of place, and a client that decodes it reads what  *)
(* the handler wrote, or fails when the handler spoilt the answer; one     *)
(* without a body that is declared as coded fails as well (encoding.go:    *)
(* 49-149).                                                                *)
THEOREM BodyReadBack == NegotiationSpec => []CodingInv
<1>1. NegotiationInit => BodyIsWhole /\ CodedOnce /\ ReadBack
  <2> SUFFICES ASSUME NegotiationInit PROVE BodyIsWhole /\ CodedOnce /\ ReadBack
    OBVIOUS
  <2>1. /\ pc = "request" /\ wrote = 0 /\ declared = NoCoding
        /\ writer = [i \in DOMAIN layers |-> NoCoding]
        /\ stream = [i \in 0..Len(layers) |-> <<>>]
    BY DEF NegotiationInit
  <2>2. NegotiationTypeOK
    BY NegotiationInitTypes
  <2>3. Coded = {}
    BY <2>1 DEF Coded
  <2>4. Written = <<>>
    BY <2>1, <2>2, WrittenFacts
  <2>5. Len(layers) \in Nat /\ DOMAIN writer = 1..Len(layers)
    BY <2>2, LayerFacts
  <2>6. stream[0] = <<>> /\ \A i \in DOMAIN writer : stream[i] = <<>>
    BY <2>1, <2>5
  <2> QED
    BY <2>1, <2>3, <2>4, <2>6 DEF BodyIsWhole, CodedOnce, ReadBack
<1>2. /\ NegotiationTypeOK /\ CodingIsAccepted /\ BodyIsWhole /\ CodedOnce /\ ReadBack
      /\ [NegotiationNext]_negotiationVars
      => BodyIsWhole' /\ CodedOnce' /\ ReadBack'
  BY BodyStep, CodedOnceStep, ReadBackStep
<1> QED
  BY <1>1, <1>2, TypeInvariance, CodingAccepted, PTL DEF NegotiationSpec, CodingInv

-----------------------------------------------------------------------------
(* The media type. *)

(* For every well-formed field, all offers and whatever sort.Sort makes of *)
(* equal items: an item that matches decides, and, if no quality is NaN,   *)
(* it is a best one and the order of the field does not matter             *)
(* (accept.go:125-200, 323-326).                                           *)
THEOREM ChoiceIsBest == NegotiationSpec => []BestIsChosen
<1>1. NegotiationInit => BestIsChosen
  BY DEF NegotiationInit, BestIsChosen
<1>2. NegotiationTypeOK /\ BestIsChosen /\ [NegotiationNext]_negotiationVars => BestIsChosen'
  <2> SUFFICES ASSUME NegotiationTypeOK, BestIsChosen, [NegotiationNext]_negotiationVars
               PROVE  BestIsChosen'
    OBVIOUS
  <2>1. CASE NegotiateType
    <3>1. PICK t \in ParseAccept(field) : choice' = Negotiate(t, types)
      BY <2>1 DEF NegotiateType
    <3>2. UNCHANGED <<field, types>>
      BY <2>1 DEF NegotiateType
    <3>3. field \in Seq(RawItems) /\ types \in Seq(MediaTypes)
      BY DEF NegotiationTypeOK
    <3>4. (\A i \in DOMAIN field : field[i].ok) => Best(field, types, choice')
      BY <3>1, <3>3, NegotiatedIsBest
    <3> QED
      BY <3>2, <3>4 DEF BestIsChosen
  <2>2. CASE ~NegotiateType
    <3>1. mode' = "type" /\ pc' = "done" => pc = "done" /\ mode = "type"
      BY <2>2 DEF NegotiationTypeOK, NegotiationNext, negotiationVars, WriteAndParse, PassOn,
           Start, LayerPlain, LayerCoded, LayersDone, HandlerSetsLength,
           HandlerHasNoBody, HandlerWrites,
           HandlerEnds, DeferClose, ClientReads, Flush, Settled
    <3>2. UNCHANGED <<field, types, choice>>
      BY <2>2 DEF NegotiationNext, negotiationVars, WriteAndParse, PassOn,
           Start, LayerPlain, LayerCoded, LayersDone, HandlerSetsLength,
           HandlerHasNoBody, HandlerWrites,
           HandlerEnds, DeferClose, ClientReads, Flush, Settled
    <3> QED
      BY <3>1, <3>2 DEF BestIsChosen
  <2> QED
    BY <2>1, <2>2
<1> QED
  BY <1>1, <1>2, TypeInvariance, PTL DEF NegotiationSpec

-----------------------------------------------------------------------------
(* The header of a request that passes proxies. *)

(* A header gives every field its lines, and no other. *)
IsMap(h) == h = [f \in Fields |-> h[f]]

(* What a proxy does not delete. *)
Left(h, f) == IF f \in Hop \cup Values(h, "Connection") THEN <<>> ELSE h[f]
LeftLine(h, f) == IF Left(h, f) = <<>> THEN <<>> ELSE Left(h, f)[1]

(* The line that the X-Forwarded fields are translated to. *)
XLine(h) ==
  LET for == Get(h, "X-Forwarded-For")
      one == Element(Text(h, "X-Forwarded-Proto"), Text(h, "X-Forwarded-For"),
                     Text(h, "X-Forwarded-Port"), Text(h, "X-Forwarded-By"))
  IN  IF Len(for) > 1 THEN [i \in DOMAIN for |-> Element("", for[i], "", "")]
      ELSE IF one = Element("", "", "", "") THEN <<>> ELSE <<one>>

(* deleteHopFields: "close" is no field. *)
LEMMA OwnFacts ==
  ASSUME NEW h
  PROVE  IsMap(deleteHopFields(h)) /\ \A f \in Fields : deleteHopFields(h)[f] = Left(h, f)
<1> DEFINE gone == Hop \cup (Values(h, "Connection") \ {"close"})
<1>1. deleteHopFields(h) = [f \in Fields |-> IF f \in gone THEN <<>> ELSE h[f]]
  BY DEF deleteHopFields, Del
<1>2. \A f \in Fields : f \in gone <=> f \in Hop \cup Values(h, "Connection")
  BY DEF Fields, Hop, XForwarded
<1> HIDE DEF gone
<1> QED
  BY <1>1, <1>2 DEF IsMap, Left

(* Header.Set. *)
LEMMA PutFacts ==
  ASSUME NEW h, IsMap(h), NEW f \in Fields, NEW line
  PROVE  /\ IsMap(Put(h, f, line)) /\ Put(h, f, line)[f] = <<line>>
         /\ \A g \in Fields \ {f} : Put(h, f, line)[g] = h[g]
BY DEF IsMap, Put

(* translateXForwarded, of a header without Forwarded. *)
LEMMA TranslateFacts ==
  ASSUME NEW h, IsMap(h), h["Forwarded"] = <<>>
  PROVE  /\ IsMap(translateXForwarded(h)) /\ Get(translateXForwarded(h), "Forwarded") = XLine(h)
         /\ \A f \in XForwarded : translateXForwarded(h)[f] = <<>>
         /\ \A f \in Fields \ (XForwarded \cup {"Forwarded"}) : translateXForwarded(h)[f] = h[f]
<1> DEFINE rest == Del(h, XForwarded)
<1>1. translateXForwarded(h) = IF XLine(h) = <<>> THEN rest ELSE Put(rest, "Forwarded", XLine(h))
  BY DEF translateXForwarded, XLine
<1>2. /\ IsMap(rest) /\ \A f \in XForwarded : rest[f] = <<>>
      /\ \A f \in Fields \ XForwarded : rest[f] = h[f]
  BY DEF IsMap, Del, Fields
<1>3. "Forwarded" \in Fields \ XForwarded
  BY DEF Fields, XForwarded, Hop
<1>4. CASE XLine(h) = <<>>
  BY <1>1, <1>2, <1>3, <1>4 DEF Get
<1>5. CASE XLine(h) # <<>>
  <2> DEFINE r == Put(rest, "Forwarded", XLine(h))
  <2>1. translateXForwarded(h) = r
    BY <1>1, <1>5
  <2>2. /\ IsMap(r) /\ r["Forwarded"] = <<XLine(h)>>
        /\ \A f \in Fields \ {"Forwarded"} : r[f] = rest[f]
    BY <1>2, <1>3, PutFacts
  <2> HIDE DEF r, rest
  <2>3. Get(r, "Forwarded") = XLine(h)
    BY <2>2 DEF Get
  <2>4. XForwarded \subseteq Fields \ {"Forwarded"}
    BY DEF XForwarded, Fields
  <2> QED
    BY <1>2, <2>1, <2>2, <2>3, <2>4
<1> QED
  BY <1>4, <1>5

(* A value that is added to a field. *)
LEMMA AddFacts ==
  ASSUME NEW h, IsMap(h), NEW f \in Fields, NEW e
  PROVE  /\ IsMap(addHeaderValue(h, f, e))
         /\ addHeaderValue(h, f, e)[f] = <<Append(Get(h, f), e)>>
         /\ \A g \in Fields \ {f} : addHeaderValue(h, f, e)[g] = h[g]
<1> DEFINE line == Append(Get(h, f), e)
<1>1. addHeaderValue(h, f, e) = Put(h, f, line)
  BY DEF addHeaderValue
<1> HIDE DEF line
<1>2. /\ IsMap(Put(h, f, line)) /\ Put(h, f, line)[f] = <<line>>
      /\ \A g \in Fields \ {f} : Put(h, f, line)[g] = h[g]
  BY PutFacts
<1>3. <<line>> = <<Append(Get(h, f), e)>>
  BY DEF line
<1> QED
  BY <1>1, <1>2, <1>3, Zenon

(* What a proxy sends on, field by field. *)
SentOn(g, h, x, y) ==
  /\ IsMap(g) /\ g["Keep-Alive"] = <<>> /\ g["Other"] = Left(h, "Other")
  /\ g["Connection"] = IF Upgrades(h) THEN <<<<"Upgrade">>>> ELSE <<>>
  /\ g["Upgrade"] = IF Upgrades(h) THEN <<Get(h, "Upgrade")>> ELSE <<>>
  /\ g["Via"] = <<Append(LeftLine(h, "Via"), y)>>
  /\ IF Left(h, "Forwarded") # <<>>
     THEN /\ g["Forwarded"] = <<Append(LeftLine(h, "Forwarded"), Element("http", x, "", y))>>
          /\ \A f \in XForwarded : g[f] = Left(h, f)
     ELSE /\ g["Forwarded"] = <<Append(XLine(deleteHopFields(h)), Element("http", x, "", y))>>
          /\ \A f \in XForwarded : g[f] = <<>>

(* That is what the handler of a proxy does to the header. *)
LEMMA OutgoingFacts ==
  ASSUME NEW h, NEW x, NEW y
  PROVE  SentOn(Outgoing(h, x, y), h, x, y)
<1> DEFINE e      == Element("http", x, "", y)
           own    == deleteHopFields(h)
           known  == IF own["Forwarded"] = <<>> THEN translateXForwarded(own) ELSE own
           listed == addHeaderValue(known, "Forwarded", e)
           marked == addHeaderValue(listed, "Via", y)
           plain  == {"Keep-Alive", "Other", "Connection", "Upgrade", "Via"}
           raised == Put(marked, "Connection", <<"Upgrade">>)
           top    == Put(raised, "Upgrade", Get(h, "Upgrade"))
<1>0. /\ plain \cup {"Forwarded"} \subseteq Fields /\ XForwarded \subseteq Fields
      /\ plain \subseteq Fields \ (XForwarded \cup {"Forwarded"})
      /\ {"Connection", "Upgrade", "Keep-Alive"} \subseteq Hop
      /\ \A f \in XForwarded : f \notin plain \cup {"Forwarded"}
  BY DEF Fields, XForwarded, Hop
<1>1. IsMap(own) /\ \A f \in Fields : own[f] = Left(h, f)
  BY OwnFacts
<1>2. \A f \in {"Connection", "Upgrade", "Keep-Alive"} : own[f] = <<>>
  BY <1>0, <1>1 DEF Left
<1>3. Outgoing(h, x, y) = IF ~Upgrades(h) THEN marked ELSE top
  BY DEF Outgoing
<1> HIDE DEF own, e
<1>4. /\ IsMap(known) /\ \A f \in plain : known[f] = own[f]
      /\ own["Forwarded"] = <<>> => /\ Get(known, "Forwarded") = XLine(own)
                                    /\ \A f \in XForwarded : known[f] = <<>>
      /\ own["Forwarded"] # <<>> => /\ Get(known, "Forwarded") = own["Forwarded"][1]
                                    /\ \A f \in XForwarded : known[f] = own[f]
  <2>1. CASE own["Forwarded"] = <<>>
    BY <1>0, <1>1, <2>1, TranslateFacts
  <2>2. CASE own["Forwarded"] # <<>>
    BY <1>1, <2>2 DEF Get
  <2> QED
    BY <2>1, <2>2
<1> HIDE DEF known
<1>5. /\ IsMap(listed) /\ listed["Forwarded"] = <<Append(Get(known, "Forwarded"), e)>>
      /\ \A f \in Fields \ {"Forwarded"} : listed[f] = known[f]
  BY <1>0, <1>4, AddFacts
<1> HIDE DEF listed
<1>6. /\ IsMap(marked) /\ marked["Via"] = <<Append(Get(listed, "Via"), y)>>
      /\ \A f \in Fields \ {"Via"} : marked[f] = listed[f]
  BY <1>0, <1>5, AddFacts
<1> HIDE DEF marked
<1>7. /\ IsMap(raised) /\ raised["Connection"] = <<<<"Upgrade">>>>
      /\ \A f \in Fields \ {"Connection"} : raised[f] = marked[f]
  BY <1>0, <1>6, PutFacts
<1> HIDE DEF raised
<1>8. /\ IsMap(top) /\ top["Upgrade"] = <<Get(h, "Upgrade")>>
      /\ \A f \in Fields \ {"Upgrade"} : top[f] = raised[f]
  BY <1>0, <1>7, PutFacts
<1> HIDE DEF top
<1> DEFINE g == Outgoing(h, x, y)
<1>9. /\ IsMap(g) /\ \A f \in Fields \ {"Connection", "Upgrade"} : g[f] = marked[f]
      /\ g["Connection"] = IF Upgrades(h) THEN <<<<"Upgrade">>>> ELSE marked["Connection"]
      /\ g["Upgrade"] = IF Upgrades(h) THEN <<Get(h, "Upgrade")>> ELSE marked["Upgrade"]
  <2>1. CASE Upgrades(h)
    BY <1>0, <1>3, <1>7, <1>8, <2>1
  <2>2. CASE ~Upgrades(h)
    BY <1>3, <1>6, <2>2
  <2> QED
    BY <2>1, <2>2
<1> HIDE DEF g
<1>10. \A f \in Fields \ {"Via", "Forwarded"} : marked[f] = known[f]
  BY <1>5, <1>6
<1>11. /\ g["Keep-Alive"] = <<>> /\ g["Other"] = Left(h, "Other")
       /\ marked["Connection"] = <<>> /\ marked["Upgrade"] = <<>>
  BY <1>0, <1>1, <1>2, <1>4, <1>9, <1>10
<1>12. g["Via"] = <<Append(LeftLine(h, "Via"), y)>>
  <2>1. listed["Via"] = Left(h, "Via")
    BY <1>0, <1>1, <1>4, <1>5
  <2>2. Get(listed, "Via") = LeftLine(h, "Via")
    BY <2>1 DEF Get, LeftLine
  <2>3. g["Via"] = marked["Via"]
    BY <1>0, <1>9
  <2> QED
    BY <1>6, <2>2, <2>3
<1>13. g["Forwarded"] = <<Append(Get(known, "Forwarded"), e)>>
  <2>1. g["Forwarded"] = marked["Forwarded"] /\ marked["Forwarded"] = listed["Forwarded"]
    BY <1>0, <1>6, <1>9
  <2> QED
    BY <1>5, <2>1
<1>14. \A f \in XForwarded : g[f] = known[f]
  BY <1>0, <1>9, <1>10
<1>15. CASE Left(h, "Forwarded") # <<>>
  <2>1. own["Forwarded"] = Left(h, "Forwarded")
    BY <1>0, <1>1
  <2>2. /\ g["Forwarded"] = <<Append(LeftLine(h, "Forwarded"), e)>>
        /\ \A f \in XForwarded : g[f] = Left(h, f)
    BY <1>0, <1>1, <1>4, <1>13, <1>14, <1>15, <2>1 DEF LeftLine
  <2> QED
    BY <1>9, <1>11, <1>12, <1>15, <2>2 DEF g, e, SentOn
<1>16. CASE Left(h, "Forwarded") = <<>>
  <2>1. own["Forwarded"] = <<>>
    BY <1>0, <1>1, <1>16
  <2>2. /\ g["Forwarded"] = <<Append(XLine(own), e)>> /\ \A f \in XForwarded : g[f] = <<>>
    BY <1>4, <1>13, <1>14, <2>1
  <2> QED
    BY <1>9, <1>11, <1>12, <1>16, <2>2 DEF g, e, own, SentOn
<1> QED
  BY <1>15, <1>16
(* The first line of a field. *)
LEMMA GetIn ==
  ASSUME NEW S, NEW h, NEW f, h[f] \in Seq(Seq(S))
  PROVE  Get(h, f) \in Seq(S)
<1>1. CASE h[f] = <<>>
  BY <1>1 DEF Get
<1>2. CASE h[f] # <<>>
  <2>1. h[f][1] \in Seq(S)
    BY <1>2
  <2> QED
    BY <1>2, <2>1 DEF Get
<1> QED
  BY <1>1, <1>2

(* The values of a sequence. *)
LEMMA SeqFacts ==
  ASSUME NEW S, NEW s \in Seq(S)
  PROVE  /\ Len(s) \in Nat /\ DOMAIN s = 1..Len(s) /\ s = [i \in 1..Len(s) |-> s[i]]
         /\ \A i \in DOMAIN s : s[i] \in S
         /\ s # <<>> => 1 \in DOMAIN s
         /\ ~(Len(s) > 1) /\ s # <<>> => s = <<s[1]>>
<1>1. /\ Len(s) \in Nat /\ DOMAIN s = 1..Len(s) /\ s = [i \in 1..Len(s) |-> s[i]]
      /\ \A i \in DOMAIN s : s[i] \in S
      /\ s # <<>> => 1 \in DOMAIN s
  OBVIOUS
<1>2. ASSUME Len(s) = 1 PROVE s = <<s[1]>>
  <2>1. s[1] \in S /\ <<s[1]>> \in Seq(S)
    BY <1>2
  <2>2. \A i \in 1..Len(s) : s[i] = <<s[1]>>[i]
    BY <1>2
  <2>3. Len(<<s[1]>>) = Len(s)
    BY <1>2
  <2> QED
    BY <2>1, <2>2, <2>3, SeqEqual
<1>3. ~(Len(s) > 1) /\ s # <<>> => Len(s) = 1
  BY <1>1
<1> QED
  BY <1>1, <1>2, <1>3

(* What the X-Forwarded fields are translated to. *)
LEMMA XLineFacts ==
  ASSUME NEW h, IsHeader(h)
  PROVE  LET o == deleteHopFields(h)
             s == LeftLine(h, "X-Forwarded-For")
         IN  /\ XLine(o) \in Seq(Elements)
             /\ s # <<>> => [k \in DOMAIN XLine(o) |-> XLine(o)[k].for[1]] = s
<1> DEFINE o == deleteHopFields(h)
           one == Element(Text(o, "X-Forwarded-Proto"), Text(o, "X-Forwarded-For"),
                          Text(o, "X-Forwarded-Port"), Text(o, "X-Forwarded-By"))
           s == Get(o, "X-Forwarded-For")
<1>1. IsMap(o) /\ \A f \in Fields : o[f] = Left(h, f)
  BY OwnFacts
<1>2. XForwarded \subseteq Fields /\ "Forwarded" \notin XForwarded
  BY DEF Fields, XForwarded
<1>3. \A f \in XForwarded : o[f] \in Seq(Seq(Words))
  <2> SUFFICES ASSUME NEW f \in XForwarded PROVE o[f] \in Seq(Seq(Words))
    OBVIOUS
  <2>1. h[f] \in Seq(Seq(Words))
    BY <1>2 DEF IsHeader, Lines
  <2>2. o[f] = <<>> \/ o[f] = h[f]
    BY <1>1, <1>2 DEF Left
  <2>3. <<>> \in Seq(Seq(Words))
    OBVIOUS
  <2> QED
    BY <2>1, <2>2, <2>3, Zenon
<1> HIDE DEF o
<1>4. \A f \in XForwarded : Get(o, f) \in Seq(Words)
  BY <1>3, GetIn
<1>5. \A f \in XForwarded : Text(o, f) \in Texts
  <2> SUFFICES ASSUME NEW f \in XForwarded PROVE Text(o, f) \in Texts
    OBVIOUS
  <2>1. Get(o, f) # <<>> => Get(o, f)[1] \in Words
    BY <1>4, SeqFacts
  <2>2. Text(o, f) = "" \/ Text(o, f) \in Words
    BY <2>1 DEF Text
  <2> QED
    BY <2>2 DEF Texts
<1>6. /\ "X-Forwarded-For" \in XForwarded /\ "X-Forwarded-Proto" \in XForwarded
      /\ "X-Forwarded-Port" \in XForwarded /\ "X-Forwarded-By" \in XForwarded
  BY DEF XForwarded
<1>7. one \in Elements /\ one.for[1] = Text(o, "X-Forwarded-For")
  BY <1>5, <1>6 DEF Element, Elements
<1>8. s \in Seq(Words) /\ s = LeftLine(h, "X-Forwarded-For")
  BY <1>1, <1>2, <1>4, <1>6 DEF Get, LeftLine
<1>9. XLine(o) = IF Len(s) > 1 THEN [i \in DOMAIN s |-> Element("", s[i], "", "")]
                 ELSE IF one = Element("", "", "", "") THEN <<>> ELSE <<one>>
  BY DEF XLine
<1>10. Element("", "", "", "").for[1] = ""
  BY DEF Element
<1>11. s # <<>> => Text(o, "X-Forwarded-For") = s[1]
  BY DEF Text
<1> HIDE DEF s, one
<1>12. /\ Len(s) \in Nat /\ DOMAIN s = 1..Len(s) /\ s = [i \in 1..Len(s) |-> s[i]]
       /\ \A i \in DOMAIN s : s[i] \in Words
       /\ s # <<>> => 1 \in DOMAIN s
       /\ ~(Len(s) > 1) /\ s # <<>> => s = <<s[1]>>
  BY <1>8, SeqFacts
<1>13. CASE Len(s) > 1
  <2>1. XLine(o) = [i \in DOMAIN s |-> Element("", s[i], "", "")]
    BY <1>9, <1>13
  <2>2. \A i \in DOMAIN s : /\ Element("", s[i], "", "") \in Elements
                            /\ Element("", s[i], "", "").for[1] = s[i]
    BY <1>12 DEF Element, Elements, Texts
  <2>3. DOMAIN XLine(o) = DOMAIN s /\ \A i \in DOMAIN s : XLine(o)[i] = Element("", s[i], "", "")
    BY <2>1
  <2>4. Len(s) \in Nat /\ DOMAIN s = 1..Len(s) /\ s = [i \in 1..Len(s) |-> s[i]]
    BY <1>12
  <2>5. XLine(o) \in Seq(Elements)
    <3>1. \A i \in 1..Len(s) : XLine(o)[i] \in Elements
      BY <2>2, <2>3, <2>4
    <3>2. XLine(o) \in [1..Len(s) -> Elements]
      BY <2>1, <2>2, <2>4
    <3> QED
      BY <2>4, <3>2
  <2>6. [k \in DOMAIN XLine(o) |-> XLine(o)[k].for[1]] = s
    BY <2>2, <2>3, <2>4
  <2> QED
    BY <1>8, <2>5, <2>6 DEF o
<1>14. CASE ~(Len(s) > 1) /\ s # <<>>
  <2>1. s = <<s[1]>> /\ s[1] # ""
    BY <1>14, <1>12 DEF Words
  <2>2. one.for[1] = s[1]
    BY <1>7, <1>11, <1>14
  <2>3. XLine(o) = <<one>>
    BY <1>9, <1>10, <1>14, <2>1, <2>2
  <2>4. XLine(o) \in Seq(Elements)
    BY <1>7, <2>3
  <2>5. [k \in DOMAIN XLine(o) |-> XLine(o)[k].for[1]] = <<one.for[1]>>
    BY <2>3
  <2> QED
    BY <1>8, <2>1, <2>2, <2>4, <2>5 DEF o
<1>15. CASE s = <<>>
  <2>1. ~(Len(s) > 1)
    BY <1>15
  <2>2. XLine(o) = <<>> \/ XLine(o) = <<one>>
    BY <1>9, <2>1
  <2>3. XLine(o) \in Seq(Elements)
    <3>1. <<>> \in Seq(Elements) /\ <<one>> \in Seq(Elements)
      BY <1>7
    <3> QED
      BY <2>2, <3>1
  <2> QED
    BY <1>8, <1>15, <2>3 DEF o
<1> QED
  BY <1>13, <1>14, <1>15
(* What HopsAreListed says of a request that was sent as o and passed n    *)
(* proxies, with the line of the client named.                             *)
Passed(n) == [k \in 1..n |-> Hosts[k + 1]]
Trail(n) == [k \in 1..n |-> Element("http", Hosts[k], "", Hosts[k + 1])]
Listed(o, g, n, line) ==
  /\ IsMap(g) /\ g["Keep-Alive"] = <<>>
  /\ g["Connection"] = IF Upgrades(o) THEN <<<<"Upgrade">>>> ELSE <<>>
  /\ g["Upgrade"] = IF Upgrades(o) THEN <<Get(o, "Upgrade")>> ELSE <<>>
  /\ g["Other"] = Left(o, "Other")
  /\ g["Via"] = <<LeftLine(o, "Via") \o Passed(n)>>
  /\ line \in Seq(Elements) /\ g["Forwarded"] = <<line \o Trail(n)>>
  /\ IF Left(o, "Forwarded") # <<>>
     THEN line = LeftLine(o, "Forwarded") /\ \A f \in XForwarded : g[f] = Left(o, f)
     ELSE /\ \A f \in XForwarded : g[f] = <<>>
          /\ LeftLine(o, "X-Forwarded-For") # <<>> =>
               [k \in DOMAIN line |-> line[k].for[1]] = LeftLine(o, "X-Forwarded-For")
Way(o, g, n) == IF n = 0 THEN g = o ELSE \E line : Listed(o, g, n, line)

(* A list with one more entry. *)
LEMMA OneMore ==
  ASSUME NEW S, NEW s \in Seq(S), NEW n \in Nat, NEW F
  PROVE  /\ Append(s \o [k \in 1..n |-> F[k]], F[n + 1]) = s \o [k \in 1..(n + 1) |-> F[k]]
         /\ SubSeq(s \o [k \in 1..n |-> F[k]], 1, Len(s)) = s
         /\ Len(s \o [k \in 1..n |-> F[k]]) = Len(s) + n
<1> DEFINE K == S \cup {F[k] : k \in 1..(n + 1)}
           t == [k \in 1..n |-> F[k]]
           u == [k \in 1..(n + 1) |-> F[k]]
<1>1. \A k \in 1..(n + 1) : F[k] \in K
  OBVIOUS
<1>2. t \in Seq(K) /\ u \in Seq(K) /\ Len(t) = n /\ Len(u) = n + 1 /\ F[n + 1] \in K
  <2>1. \A k \in 1..n : F[k] \in K
    BY <1>1
  <2> HIDE DEF K
  <2>2. t \in [1..n -> K] /\ u \in [1..(n + 1) -> K]
    BY <1>1, <2>1
  <2>3. n + 1 \in Nat /\ n + 1 \in 1..(n + 1)
    OBVIOUS
  <2>4. \A m \in Nat : \A g \in [1..m -> K] : g \in Seq(K) /\ Len(g) = m
    OBVIOUS
  <2> HIDE DEF t, u
  <2>5. F[n + 1] \in K
    BY <1>1, <2>3
  <2> QED
    BY <2>2, <2>3, <2>4, <2>5
<1>3. s \in Seq(K)
  <2>1. Len(s) \in Nat /\ s = [k \in 1..Len(s) |-> s[k]] /\ \A k \in 1..Len(s) : s[k] \in S
    BY SeqFacts
  <2>2. \A k \in 1..Len(s) : s[k] \in K
    BY <2>1
  <2> HIDE DEF K
  <2>3. s \in [1..Len(s) -> K]
    BY <2>1, <2>2
  <2> QED
    BY <2>1, <2>3
<1>4. \A k \in 1..n : t[k] = F[k] /\ u[k] = F[k]
  OBVIOUS
<1>5. u[n + 1] = F[n + 1]
  OBVIOUS
<1> HIDE DEF K, t, u
<1>6. Append(t, F[n + 1]) = u
  <2>1. Append(t, F[n + 1]) \in Seq(K) /\ Len(Append(t, F[n + 1])) = Len(u)
    BY <1>2
  <2>2. \A k \in 1..Len(u) : Append(t, F[n + 1])[k] = u[k]
    BY <1>2, <1>4, <1>5
  <2> QED
    BY <1>2, <2>1, <2>2, SeqEqual
<1>7. Append(s \o t, F[n + 1]) = s \o Append(t, F[n + 1])
  <2>1. s \o t \in Seq(K) /\ <<F[n + 1]>> \in Seq(K)
    BY <1>2, <1>3
  <2>2. Append(t, F[n + 1]) = t \o <<F[n + 1]>>
    BY <1>2, AppendIsConcat
  <2>3. Append(s \o t, F[n + 1]) = (s \o t) \o <<F[n + 1]>>
    BY <1>2, <2>1, AppendIsConcat
  <2>4. (s \o t) \o <<F[n + 1]>> = s \o (t \o <<F[n + 1]>>)
    BY <1>2, <1>3, <2>1, ConcatAssociative
  <2> QED
    BY <2>2, <2>3, <2>4, Zenon
<1>8. Len(s \o t) = Len(s) + n
  BY <1>2, <1>3
<1>9. SubSeq(s \o t, 1, Len(s)) = s
  <2>1. Len(s) \in Nat /\ s \o t \in Seq(K)
    BY <1>2, <1>3
  <2>2. /\ SubSeq(s \o t, 1, Len(s)) \in Seq(K) /\ Len(SubSeq(s \o t, 1, Len(s))) = Len(s)
        /\ \A k \in 1..Len(s) : SubSeq(s \o t, 1, Len(s))[k] = s[k]
    BY <1>2, <1>3, <1>8, <2>1
  <2> QED
    BY <1>3, <2>2, SeqEqual
<1> QED
  BY <1>6, <1>7, <1>8, <1>9 DEF t, u

(* The trails of the proxies grow by one. *)
LEMMA TrailFacts ==
  ASSUME NEW s \in Seq(Elements), NEW n \in Nat
  PROVE  /\ Append(s \o Trail(n), Element("http", Hosts[n + 1], "", Hosts[n + 2]))
              = s \o Trail(n + 1)
         /\ SubSeq(s \o Trail(n), 1, Len(s)) = s /\ Len(s \o Trail(n)) = Len(s) + n
<1> DEFINE F == [k \in Nat |-> Element("http", Hosts[k], "", Hosts[k + 1])]
<1>1. \A m \in Nat : Trail(m) = [k \in 1..m |-> F[k]]
  <2> SUFFICES ASSUME NEW m \in Nat PROVE Trail(m) = [k \in 1..m |-> F[k]]
    OBVIOUS
  <2>1. \A k \in 1..m : F[k] = Element("http", Hosts[k], "", Hosts[k + 1])
    <3>1. \A k \in 1..m : k \in Nat
      OBVIOUS
    <3> QED
      BY <3>1, Zenon
  <2> QED
    BY <2>1 DEF Trail
<1>2. n + 1 \in Nat /\ F[n + 1] = Element("http", Hosts[n + 1], "", Hosts[n + 2])
  <2>1. n + 1 \in Nat /\ (n + 1) + 1 = n + 2
    OBVIOUS
  <2> QED
    BY <2>1
<1> HIDE DEF F
<1>3. Trail(n) = [k \in 1..n |-> F[k]] /\ Trail(n + 1) = [k \in 1..(n + 1) |-> F[k]]
  BY <1>1, <1>2
<1>4. /\ Append(s \o [k \in 1..n |-> F[k]], F[n + 1]) = s \o [k \in 1..(n + 1) |-> F[k]]
      /\ SubSeq(s \o [k \in 1..n |-> F[k]], 1, Len(s)) = s
      /\ Len(s \o [k \in 1..n |-> F[k]]) = Len(s) + n
  BY OneMore, Zenon
<1> QED
  BY <1>2, <1>3, <1>4, Zenon

(* So do the hosts of Via. *)
LEMMA PassedFacts ==
  ASSUME NEW s \in Seq(Words), NEW n \in Nat
  PROVE  Append(s \o Passed(n), Hosts[n + 2]) = s \o Passed(n + 1)
<1> DEFINE F == [k \in Nat |-> Hosts[k + 1]]
<1>1. \A m \in Nat : Passed(m) = [k \in 1..m |-> F[k]]
  <2> SUFFICES ASSUME NEW m \in Nat PROVE Passed(m) = [k \in 1..m |-> F[k]]
    OBVIOUS
  <2>1. \A k \in 1..m : F[k] = Hosts[k + 1]
    OBVIOUS
  <2> QED
    BY <2>1 DEF Passed
<1>2. n + 1 \in Nat /\ F[n + 1] = Hosts[n + 2]
  <2>1. n + 1 \in Nat /\ (n + 1) + 1 = n + 2
    OBVIOUS
  <2> QED
    BY <2>1
<1> HIDE DEF F
<1>3. Passed(n) = [k \in 1..n |-> F[k]] /\ Passed(n + 1) = [k \in 1..(n + 1) |-> F[k]]
  BY <1>1, <1>2
<1>4. /\ Append(s \o [k \in 1..n |-> F[k]], F[n + 1]) = s \o [k \in 1..(n + 1) |-> F[k]]
      /\ SubSeq(s \o [k \in 1..n |-> F[k]], 1, Len(s)) = s
      /\ Len(s \o [k \in 1..n |-> F[k]]) = Len(s) + n
  BY OneMore, Zenon
<1> QED
  BY <1>2, <1>3, <1>4, Zenon

(* The line of the client is what is before the trail of the proxies. *)
LEMMA ListedIs == ASSUME hops \in Nat, Way(first, fields, hops) PROVE HopsAreListed
<1>1. CASE hops = 0
  BY <1>1 DEF HopsAreListed, Way
<1>2. CASE hops # 0
  <2> DEFINE list == Get(fields, "Forwarded")
             cut  == SubSeq(list, 1, Len(list) - hops)
  <2>1. PICK line : Listed(first, fields, hops, line)
    BY <1>2 DEF Way
  <2>2. line \in Seq(Elements) /\ fields["Forwarded"] = <<line \o Trail(hops)>>
    BY <2>1 DEF Listed
  <2>3. list = line \o Trail(hops)
    BY <2>2 DEF Get
  <2>4. /\ Len(line \o Trail(hops)) = Len(line) + hops
        /\ SubSeq(line \o Trail(hops), 1, Len(line)) = line
    BY <2>2, TrailFacts
  <2>5. Len(line) \in Nat
    BY <2>2
  <2>6. Len(list) - hops = Len(line)
    BY <2>3, <2>4, <2>5
  <2>7. line = cut
    BY <2>3, <2>4, <2>6
  <2>8. Listed(first, fields, hops, cut)
    BY <2>1, <2>7
  <2> QED
    BY <1>2, <2>8, Zenon
    DEF HopsAreListed, Listed, Passed, Trail, IsMap, Kept, KeptLine, Left, LeftLine
<1> QED
  BY <1>1, <1>2

(* The lines that the first proxy starts from. *)
LEMMA LeftFacts ==
  ASSUME NEW o, IsHeader(o)
  PROVE  LeftLine(o, "Via") \in Seq(Words) /\ LeftLine(o, "Forwarded") \in Seq(Elements)
<1>1. "Via" \in Fields /\ "Forwarded" \in Fields
  BY DEF Fields
<1>2. o["Via"] \in Seq(Seq(Words)) /\ o["Forwarded"] \in Seq(Seq(Elements))
  BY <1>1 DEF IsHeader, Lines
<1>3. Get(o, "Via") \in Seq(Words) /\ Get(o, "Forwarded") \in Seq(Elements)
  BY <1>2, GetIn
<1>4. \A f \in Fields : LeftLine(o, f) = <<>> \/ LeftLine(o, f) = Get(o, f)
  BY DEF LeftLine, Left, Get
<1>5. <<>> \in Seq(Words) /\ <<>> \in Seq(Elements)
  OBVIOUS
<1> QED
  BY <1>1, <1>3, <1>4, <1>5, Zenon

(* Nothing is listed before the first proxy. *)
LEMMA NoneListed ==
  /\ \A s \in Seq(Words) : s \o Passed(0) = s
  /\ \A s \in Seq(Elements) : s \o Trail(0) = s
<1>1. Passed(0) = <<>> /\ Trail(0) = <<>>
  BY DEF Passed, Trail
<1> QED
  BY <1>1

(* The first proxy. *)
LEMMA FirstHop ==
  ASSUME NEW o, IsHeader(o)
  PROVE  \E line : Listed(o, Outgoing(o, Hosts[1], Hosts[2]), 1, line)
<1> DEFINE g == Outgoing(o, Hosts[1], Hosts[2])
           e == Element("http", Hosts[1], "", Hosts[2])
           d == deleteHopFields(o)
           line == IF Left(o, "Forwarded") # <<>> THEN LeftLine(o, "Forwarded") ELSE XLine(d)
<1>1. /\ IsMap(g) /\ g["Keep-Alive"] = <<>> /\ g["Other"] = Left(o, "Other")
      /\ g["Connection"] = IF Upgrades(o) THEN <<<<"Upgrade">>>> ELSE <<>>
      /\ g["Upgrade"] = IF Upgrades(o) THEN <<Get(o, "Upgrade")>> ELSE <<>>
      /\ g["Via"] = <<Append(LeftLine(o, "Via"), Hosts[2])>>
      /\ g["Forwarded"] = <<Append(line, e)>>
      /\ IF Left(o, "Forwarded") # <<>> THEN \A f \in XForwarded : g[f] = Left(o, f)
         ELSE \A f \in XForwarded : g[f] = <<>>
  <2>1. /\ IsMap(g) /\ g["Keep-Alive"] = <<>> /\ g["Other"] = Left(o, "Other")
        /\ g["Connection"] = IF Upgrades(o) THEN <<<<"Upgrade">>>> ELSE <<>>
        /\ g["Upgrade"] = IF Upgrades(o) THEN <<Get(o, "Upgrade")>> ELSE <<>>
        /\ g["Via"] = <<Append(LeftLine(o, "Via"), Hosts[2])>>
        /\ IF Left(o, "Forwarded") # <<>>
           THEN /\ g["Forwarded"] = <<Append(LeftLine(o, "Forwarded"), e)>>
                /\ \A f \in XForwarded : g[f] = Left(o, f)
           ELSE /\ g["Forwarded"] = <<Append(XLine(d), e)>>
                /\ \A f \in XForwarded : g[f] = <<>>
    <3>1. SentOn(g, o, Hosts[1], Hosts[2])
      BY OutgoingFacts
    <3> QED
      BY <3>1, Zenon DEF SentOn
  <2>2. CASE Left(o, "Forwarded") # <<>>
    BY <2>1, <2>2, Zenon
  <2>3. CASE Left(o, "Forwarded") = <<>>
    BY <2>1, <2>3, Zenon
  <2> QED
    BY <2>2, <2>3, Zenon
<1>2. /\ XLine(d) \in Seq(Elements)
      /\ LeftLine(o, "X-Forwarded-For") # <<>> =>
           [k \in DOMAIN XLine(d) |-> XLine(d)[k].for[1]] = LeftLine(o, "X-Forwarded-For")
  BY XLineFacts, Zenon
<1>3. LeftLine(o, "Via") \in Seq(Words) /\ LeftLine(o, "Forwarded") \in Seq(Elements)
  BY LeftFacts
<1>4. line \in Seq(Elements)
  BY <1>2, <1>3
<1> HIDE DEF g, d, line
<1>5. Append(line, e) = line \o Trail(1)
  <2>1. Append(line \o Trail(0), Element("http", Hosts[0 + 1], "", Hosts[0 + 2])) = line \o Trail(0 + 1)
    BY <1>4, TrailFacts
  <2>2. line \o Trail(0) = line
    BY <1>4, NoneListed
  <2>3. 0 + 1 = 1 /\ 0 + 2 = 2
    OBVIOUS
  <2> QED
    BY <2>1, <2>2, <2>3, Zenon
<1>6. Append(LeftLine(o, "Via"), Hosts[2]) = LeftLine(o, "Via") \o Passed(1)
  <2>1. Append(LeftLine(o, "Via") \o Passed(0), Hosts[0 + 2]) = LeftLine(o, "Via") \o Passed(0 + 1)
    BY <1>3, PassedFacts
  <2>2. LeftLine(o, "Via") \o Passed(0) = LeftLine(o, "Via")
    BY <1>3, NoneListed
  <2> QED
    BY <2>1, <2>2
<1>7. g["Via"] = <<LeftLine(o, "Via") \o Passed(1)>> /\ g["Forwarded"] = <<line \o Trail(1)>>
  BY <1>1, <1>5, <1>6
<1>8. IF Left(o, "Forwarded") # <<>>
      THEN line = LeftLine(o, "Forwarded") /\ \A f \in XForwarded : g[f] = Left(o, f)
      ELSE /\ \A f \in XForwarded : g[f] = <<>>
           /\ LeftLine(o, "X-Forwarded-For") # <<>> =>
                [k \in DOMAIN line |-> line[k].for[1]] = LeftLine(o, "X-Forwarded-For")
  <2>1. CASE Left(o, "Forwarded") # <<>>
    BY <1>1, <2>1, Zenon DEF line
  <2>2. CASE Left(o, "Forwarded") = <<>>
    <3>1. line = XLine(d)
      BY <2>2 DEF line
    <3> QED
      BY <1>1, <1>2, <2>2, <3>1
  <2> QED
    BY <2>1, <2>2
<1>9. Listed(o, g, 1, line)
  BY <1>1, <1>4, <1>7, <1>8, Zenon DEF Listed
<1> QED
  BY <1>9 DEF g

(* The proxies behind the first. *)
LEMMA LaterHop ==
  ASSUME NEW o, IsHeader(o), NEW n \in Nat, NEW h, NEW line, Listed(o, h, n, line)
  PROVE  Listed(o, Outgoing(h, Hosts[n + 1], Hosts[n + 2]), n + 1, line)
<1> DEFINE g == Outgoing(h, Hosts[n + 1], Hosts[n + 2])
           e == Element("http", Hosts[n + 1], "", Hosts[n + 2])
<1>1. /\ h["Connection"] = IF Upgrades(o) THEN <<<<"Upgrade">>>> ELSE <<>>
      /\ h["Upgrade"] = IF Upgrades(o) THEN <<Get(o, "Upgrade")>> ELSE <<>>
      /\ h["Other"] = Left(o, "Other") /\ h["Via"] = <<LeftLine(o, "Via") \o Passed(n)>>
      /\ line \in Seq(Elements) /\ h["Forwarded"] = <<line \o Trail(n)>>
  BY DEF Listed
<1>2. IF Left(o, "Forwarded") # <<>>
      THEN line = LeftLine(o, "Forwarded") /\ \A f \in XForwarded : h[f] = Left(o, f)
      ELSE /\ \A f \in XForwarded : h[f] = <<>>
           /\ LeftLine(o, "X-Forwarded-For") # <<>> =>
                [k \in DOMAIN line |-> line[k].for[1]] = LeftLine(o, "X-Forwarded-For")
  BY Zenon DEF Listed
<1>3. Values(h, "Connection") = IF Upgrades(o) THEN {"Upgrade"} ELSE {}
  <2>1. CASE Upgrades(o)
    <3>1. h["Connection"] = <<<<"Upgrade">>>>
      BY <1>1, <2>1
    <3>2. DOMAIN h["Connection"] = {1} /\ h["Connection"][1] = <<"Upgrade">>
      BY <3>1
    <3>3. Range(<<"Upgrade">>) = {"Upgrade"}
      BY DEF Range
    <3> QED
      BY <2>1, <3>2, <3>3 DEF Values
  <2>2. CASE ~Upgrades(o)
    BY <1>1, <2>2 DEF Values
  <2> QED
    BY <2>1, <2>2
<1>4. Upgrades(h) <=> Upgrades(o)
  <2>1. CASE Upgrades(o)
    <3>1. Get(h, "Upgrade") = Get(o, "Upgrade")
      BY <1>1, <2>1 DEF Get
    <3> QED
      BY <1>3, <2>1, <3>1 DEF Upgrades
  <2>2. CASE ~Upgrades(o)
    BY <1>3, <2>2 DEF Upgrades
  <2> QED
    BY <2>1, <2>2
<1>5. Upgrades(o) => Get(h, "Upgrade") = Get(o, "Upgrade")
  BY <1>1 DEF Get
<1>6. \A f \in Fields \ Hop : Left(h, f) = h[f]
  <2>1. "Upgrade" \in Hop
    BY DEF Hop
  <2> QED
    BY <1>3, <2>1 DEF Left
<1>7. /\ {"Via", "Forwarded", "Other"} \subseteq Fields \ Hop /\ XForwarded \subseteq Fields \ Hop
  BY DEF Fields, XForwarded, Hop
<1>8. /\ Left(h, "Via") = h["Via"] /\ Left(h, "Other") = h["Other"]
      /\ Left(h, "Forwarded") = h["Forwarded"] /\ \A f \in XForwarded : Left(h, f) = h[f]
  BY <1>6, <1>7
<1>9. /\ LeftLine(h, "Via") = LeftLine(o, "Via") \o Passed(n)
      /\ LeftLine(h, "Forwarded") = line \o Trail(n) /\ Left(h, "Forwarded") # <<>>
  BY <1>1, <1>8 DEF LeftLine
<1>10. SentOn(g, h, Hosts[n + 1], Hosts[n + 2])
  BY OutgoingFacts
<1> HIDE DEF g
<1>11. /\ IsMap(g) /\ g["Keep-Alive"] = <<>> /\ g["Other"] = Left(h, "Other")
       /\ g["Connection"] = IF Upgrades(h) THEN <<<<"Upgrade">>>> ELSE <<>>
       /\ g["Upgrade"] = IF Upgrades(h) THEN <<Get(h, "Upgrade")>> ELSE <<>>
       /\ g["Via"] = <<Append(LeftLine(h, "Via"), Hosts[n + 2])>>
       /\ g["Forwarded"] = <<Append(LeftLine(h, "Forwarded"), e)>>
       /\ \A f \in XForwarded : g[f] = Left(h, f)
  BY <1>9, <1>10, Zenon DEF SentOn
<1>12. Append(LeftLine(o, "Via") \o Passed(n), Hosts[n + 2]) = LeftLine(o, "Via") \o Passed(n + 1)
  <2>1. LeftLine(o, "Via") \in Seq(Words)
    BY LeftFacts
  <2> QED
    BY <2>1, PassedFacts
<1>13. Append(line \o Trail(n), e) = line \o Trail(n + 1)
  BY <1>1, TrailFacts
<1> HIDE DEF e
<1>14. /\ g["Via"] = <<LeftLine(o, "Via") \o Passed(n + 1)>>
       /\ g["Forwarded"] = <<line \o Trail(n + 1)>>
  BY <1>9, <1>11, <1>12, <1>13, Zenon
<1>15. /\ g["Connection"] = IF Upgrades(o) THEN <<<<"Upgrade">>>> ELSE <<>>
       /\ g["Upgrade"] = IF Upgrades(o) THEN <<Get(o, "Upgrade")>> ELSE <<>>
       /\ g["Other"] = Left(o, "Other") /\ \A f \in XForwarded : g[f] = h[f]
  BY <1>1, <1>4, <1>5, <1>8, <1>11
<1>16. IF Left(o, "Forwarded") # <<>>
       THEN line = LeftLine(o, "Forwarded") /\ \A f \in XForwarded : g[f] = Left(o, f)
       ELSE /\ \A f \in XForwarded : g[f] = <<>>
            /\ LeftLine(o, "X-Forwarded-For") # <<>> =>
                 [k \in DOMAIN line |-> line[k].for[1]] = LeftLine(o, "X-Forwarded-For")
  BY <1>2, <1>15
<1>17. Listed(o, g, n + 1, line)
  BY <1>1, <1>11, <1>14, <1>15, <1>16, Zenon DEF Listed
<1> QED
  BY <1>17 DEF g

(* For every header of a request, of any client, and any number of         *)
(* proxies on its way: no field that is for one hop gets past the first,   *)
(* but for an upgrade; the others arrive as they were sent; and every host *)
(* is listed once, in order, behind what the client said of the way        *)
(* (proxy.go:56-101, proto.go:34-137).                                     *)
THEOREM HopsListed == NegotiationSpec => []HopsAreListed
<1>1. NegotiationInit => Way(first, fields, hops)
  BY DEF NegotiationInit, Way
<1>2. /\ NegotiationTypeOK /\ Way(first, fields, hops) /\ [NegotiationNext]_negotiationVars
      => Way(first, fields, hops)'
  <2> SUFFICES ASSUME NegotiationTypeOK, Way(first, fields, hops),
                      [NegotiationNext]_negotiationVars
               PROVE  Way(first', fields', hops')
    OBVIOUS
  <2>1. IsHeader(first) /\ hops \in Nat
    BY NegotiationAssumption DEF NegotiationTypeOK
  <2>2. CASE PassOn
    <3>1. /\ fields' = Outgoing(fields, Hosts[hops + 1], Hosts[hops + 2])
          /\ hops' = hops + 1 /\ first' = first
      BY <2>2 DEF PassOn
    <3>2. \E line : Listed(first, fields', hops + 1, line)
      <4>1. CASE hops = 0
        <5>1. fields = first
          BY <4>1 DEF Way
        <5>2. hops + 1 = 1 /\ hops + 2 = 2
          BY <4>1
        <5>3. \E line : Listed(first, Outgoing(first, Hosts[1], Hosts[2]), 1, line)
          BY <2>1, FirstHop
        <5> QED
          BY <3>1, <5>1, <5>2, <5>3
      <4>2. CASE hops # 0
        <5>1. PICK line : Listed(first, fields, hops, line)
          BY <4>2 DEF Way
        <5>2. Listed(first, Outgoing(fields, Hosts[hops + 1], Hosts[hops + 2]), hops + 1, line)
          BY <2>1, <5>1, LaterHop
        <5> QED
          BY <3>1, <5>2
      <4> QED
        BY <4>1, <4>2
    <3>3. hops + 1 # 0
      BY <2>1
    <3> QED
      BY <3>1, <3>2, <3>3 DEF Way
  <2>3. CASE ~PassOn
    <3>1. UNCHANGED <<first, fields, hops>>
      BY <2>3 DEF NegotiationNext, negotiationVars, NegotiateType, WriteAndParse, Start,
           LayerPlain, LayerCoded, LayersDone, HandlerSetsLength,
           HandlerHasNoBody, HandlerWrites, HandlerEnds,
           DeferClose, ClientReads, Flush, Settled
    <3> QED
      BY <3>1
  <2> QED
    BY <2>2, <2>3
<1>3. NegotiationTypeOK /\ Way(first, fields, hops) => HopsAreListed
  <2>1. NegotiationTypeOK => hops \in Nat
    BY NegotiationAssumption DEF NegotiationTypeOK
  <2> QED
    BY <2>1, ListedIs
<1> QED
  BY <1>1, <1>2, <1>3, TypeInvariance, PTL DEF NegotiationSpec

-----------------------------------------------------------------------------
(* The texts, and the loops over them. *)

(* Induction over texts: a set that has the empty text, and with a text    *)
(* the ones that are longer by a character, has all.                       *)
LEMMA TextInduction ==
  ASSUME NEW P \in SUBSET Seq(Chars), <<>> \in P,
         \A u \in P : \A c \in Chars : Append(u, c) \in P
  PROVE  \A s \in Seq(Chars) : s \in P
<1> DEFINE K == {Len(s) : s \in Seq(Chars) \ P}
<1> SUFFICES ASSUME K # {} PROVE FALSE
  OBVIOUS
<1>1. K \in SUBSET Nat
  BY LenProperties
<1>2. Min(K) \in K /\ \A k \in K : Min(K) <= k
  <2> HIDE DEF K
  <2> QED
    BY <1>1, LeastOf
<1>3. PICK s \in Seq(Chars) \ P : Min(K) = Len(s)
  BY <1>2
<1>4. s # <<>>
  OBVIOUS
<1>5. PICK u \in Seq(Chars), c \in Chars : s = Append(u, c)
  BY <1>4, SequenceEmptyOrAppend
<1>6. Len(s) = Len(u) + 1 /\ Len(u) \in Nat
  BY <1>5, AppendProperties, LenProperties
<1>7. u \in P
  <2> SUFFICES ASSUME u \notin P PROVE FALSE
    OBVIOUS
  <2>1. Len(u) \in K
    BY <1>5
  <2>2. Min(K) <= Len(u)
    BY <1>2, <2>1
  <2> HIDE DEF K
  <2> QED
    BY <1>3, <1>6, <2>2
<1> QED
  BY <1>3, <1>5, <1>7

(* The table by which Loop is defined. *)
IsTable(h, turn, start, s) ==
  h = [i \in 0..Len(s) |-> IF i = 0 THEN start ELSE turn[<<h[i - 1], s[i]>>]]

LEMMA LoopIs ==
  ASSUME NEW turn, NEW start, NEW s
  PROVE  Loop(turn, start, s) = (CHOOSE h : IsTable(h, turn, start, s))[Len(s)]
BY DEF Loop, IsTable

(* The table of a text that goes on by a character. *)
LEMMA TableGoesOn ==
  ASSUME NEW turn, NEW start, NEW s \in Seq(Chars), NEW c \in Chars, NEW h,
         IsTable(h, turn, start, s)
  PROVE  \E g : IsTable(g, turn, start, Append(s, c))
<1> DEFINE t == Append(s, c)
           m == Len(s)
           g == [i \in 0..(m + 1) |-> IF i <= m THEN h[i] ELSE turn[<<h[m], c>>]]
<1>1. /\ m \in Nat /\ Len(t) = m + 1 /\ t[m + 1] = c /\ \A i \in 1..m : t[i] = s[i]
  BY AppendProperties, LenProperties
<1>2. \A i \in 0..m : h[i] = IF i = 0 THEN start ELSE turn[<<h[i - 1], s[i]>>]
  BY DEF IsTable
<1>3. g[m + 1] = turn[<<h[m], c>>] /\ \A i \in 0..m : g[i] = h[i]
  BY <1>1
<1>4. g = [i \in 0..(m + 1) |-> g[i]]
  OBVIOUS
<1> HIDE DEF g, t, m
<1>5. ASSUME NEW i \in 0..(m + 1)
      PROVE  g[i] = IF i = 0 THEN start ELSE turn[<<g[i - 1], t[i]>>]
  <2>1. CASE i = 0
    <3>1. 0 \in 0..m
      BY <1>1
    <3>2. g[0] = h[0] /\ h[0] = start
      BY <1>2, <1>3, <3>1
    <3> QED
      BY <2>1, <3>2, Zenon
  <2>2. CASE i \in 1..m
    <3>1. i \in 0..m /\ i - 1 \in 0..m /\ i # 0
      BY <1>1, <2>2
    <3>2. g[i] = h[i] /\ g[i - 1] = h[i - 1] /\ t[i] = s[i]
      BY <1>1, <1>3, <2>2, <3>1
    <3>3. h[i] = turn[<<h[i - 1], s[i]>>]
      BY <1>2, <3>1
    <3> QED
      BY <3>1, <3>2, <3>3, Zenon
  <2>3. CASE i = m + 1
    <3>1. i # 0 /\ i - 1 = m /\ m \in 0..m
      BY <1>1, <2>3
    <3>2. g[i] = turn[<<h[m], c>>] /\ t[i] = c /\ g[i - 1] = h[m]
      BY <1>1, <1>3, <2>3, <3>1
    <3> QED
      BY <3>1, <3>2, Zenon
  <2> QED
    BY <1>1, <2>1, <2>2, <2>3
<1>6. IsTable(g, turn, start, t)
  BY <1>1, <1>4, <1>5 DEF IsTable
<1> QED
  BY <1>6 DEF t

(* Every text has a table. *)
LEMMA TableExists ==
  ASSUME NEW turn, NEW start
  PROVE  \A s \in Seq(Chars) : \E h : IsTable(h, turn, start, s)
<1> DEFINE P == {s \in Seq(Chars) : \E h : IsTable(h, turn, start, s)}
<1>1. <<>> \in P
  <2>1. IsTable([i \in 0..0 |-> start], turn, start, <<>>)
    BY DEF IsTable
  <2> QED
    BY <2>1
<1>2. \A u \in P : \A c \in Chars : Append(u, c) \in P
  <2> SUFFICES ASSUME NEW u \in P, NEW c \in Chars PROVE Append(u, c) \in P
    OBVIOUS
  <2>1. u \in Seq(Chars) /\ \E h : IsTable(h, turn, start, u)
    OBVIOUS
  <2>2. Append(u, c) \in Seq(Chars)
    BY <2>1
  <2>3. \E g : IsTable(g, turn, start, Append(u, c))
    BY <2>1, TableGoesOn
  <2> QED
    BY <2>2, <2>3
<1>3. P \in SUBSET Seq(Chars)
  OBVIOUS
<1> HIDE DEF P
<1>4. \A s \in Seq(Chars) : s \in P
  BY <1>1, <1>2, <1>3, TextInduction
<1> QED
  BY <1>4 DEF P

(* Two tables agree as far as their texts do. *)
LEMMA TablesAgree ==
  ASSUME NEW turn, NEW start, NEW s \in Seq(Chars), NEW c \in Chars,
         NEW h, IsTable(h, turn, start, s), NEW g, IsTable(g, turn, start, Append(s, c))
  PROVE  g[Len(s) + 1] = turn[<<h[Len(s)], c>>]
<1> DEFINE t == Append(s, c)
           m == Len(s)
           K == {i \in 0..m : g[i] # h[i]}
<1>1. /\ m \in Nat /\ Len(t) = m + 1 /\ t[m + 1] = c /\ \A i \in 1..m : t[i] = s[i]
  BY AppendProperties, LenProperties
<1>2. \A i \in 0..m : h[i] = IF i = 0 THEN start ELSE turn[<<h[i - 1], s[i]>>]
  BY DEF IsTable
<1>3. \A i \in 0..(m + 1) : g[i] = IF i = 0 THEN start ELSE turn[<<g[i - 1], t[i]>>]
  BY <1>1 DEF IsTable
<1> HIDE DEF t, m
<1>4. K = {}
  <2> SUFFICES ASSUME K # {} PROVE FALSE
    OBVIOUS
  <2>1. K \in SUBSET Nat
    BY <1>1
  <2>2. Min(K) \in K /\ \A k \in K : Min(K) <= k
    <3> HIDE DEF K
    <3> QED
      BY <2>1, LeastOf
  <2> DEFINE n == Min(K)
  <2>3. n \in 0..m /\ g[n] # h[n]
    BY <2>2
  <2>4. n # 0
    <3>1. 0 \in 0..m /\ 0 \in 0..(m + 1)
      BY <1>1
    <3>2. h[0] = start /\ g[0] = start
      BY <1>2, <1>3, <3>1
    <3> QED
      BY <2>3, <3>2, Zenon
  <2>5. n - 1 \in 0..m /\ n \in 1..m /\ n \in 0..(m + 1) /\ ~(n <= n - 1)
    BY <1>1, <2>3, <2>4
  <2>6. g[n - 1] = h[n - 1]
    BY <2>2, <2>5
  <2> HIDE DEF n, K
  <2>7. h[n] = turn[<<h[n - 1], s[n]>>] /\ g[n] = turn[<<g[n - 1], t[n]>>]
    BY <1>2, <1>3, <2>3, <2>4, <2>5
  <2>8. t[n] = s[n]
    BY <1>1, <2>5
  <2> QED
    BY <2>3, <2>6, <2>7, <2>8, Zenon
<1>5. g[m] = h[m] /\ m + 1 \in 0..(m + 1) /\ m + 1 # 0 /\ (m + 1) - 1 = m
  BY <1>1, <1>4
<1>6. g[m + 1] = turn[<<g[m], t[m + 1]>>]
  BY <1>3, <1>5
<1> QED
  BY <1>1, <1>5, <1>6 DEF m

(* A loop over nothing. *)
LEMMA LoopEmpty ==
  ASSUME NEW turn, NEW start
  PROVE  Loop(turn, start, <<>>) = start
<1> DEFINE h == CHOOSE f : IsTable(f, turn, start, <<>>)
<1>1. <<>> \in Seq(Chars) /\ Len(<<>>) = 0
  OBVIOUS
<1>2. IsTable(h, turn, start, <<>>)
  BY <1>1, TableExists
<1>3. Loop(turn, start, <<>>) = h[0]
  BY <1>1, LoopIs
<1> HIDE DEF h
<1> QED
  BY <1>1, <1>2, <1>3 DEF IsTable

(* A turn more. *)
LEMMA LoopAppend ==
  ASSUME NEW turn, NEW start, NEW s \in Seq(Chars), NEW c \in Chars
  PROVE  Loop(turn, start, Append(s, c)) = turn[<<Loop(turn, start, s), c>>]
<1> DEFINE h == CHOOSE f : IsTable(f, turn, start, s)
           g == CHOOSE f : IsTable(f, turn, start, Append(s, c))
<1>1. Append(s, c) \in Seq(Chars) /\ Len(Append(s, c)) = Len(s) + 1
  BY AppendProperties
<1>2. IsTable(h, turn, start, s) /\ IsTable(g, turn, start, Append(s, c))
  BY <1>1, TableExists
<1>3. Loop(turn, start, s) = h[Len(s)] /\ Loop(turn, start, Append(s, c)) = g[Len(s) + 1]
  BY <1>1, LoopIs
<1> HIDE DEF h, g
<1> QED
  BY <1>2, <1>3, TablesAgree

(* A loop over two texts in a row. *)
LEMMA LoopConcat ==
  ASSUME NEW turn, NEW start, NEW mid, NEW s \in Seq(Chars), NEW x \in Seq(Chars),
         Loop(turn, start, s) = mid
  PROVE  Loop(turn, start, s \o x) = Loop(turn, mid, x)
<1> DEFINE P == {t \in Seq(Chars) : Loop(turn, start, s \o t) = Loop(turn, mid, t)}
<1>1. <<>> \in P
  <2>1. s \o <<>> = s
    BY ConcatEmptySeq
  <2>2. Loop(turn, mid, <<>>) = mid
    BY LoopEmpty
  <2>3. <<>> \in Seq(Chars)
    OBVIOUS
  <2> QED
    BY <2>1, <2>2, <2>3, Zenon
<1>2. ASSUME NEW u \in P, NEW c \in Chars PROVE Append(u, c) \in P
  <2>1. u \in Seq(Chars) /\ Loop(turn, start, s \o u) = Loop(turn, mid, u)
    OBVIOUS
  <2> HIDE DEF P
  <2>2. Append(u, c) \in Seq(Chars) /\ s \o u \in Seq(Chars)
    BY <2>1
  <2>3. s \o Append(u, c) = Append(s \o u, c)
    <3>1. Append(u, c) = u \o <<c>> /\ <<c>> \in Seq(Chars)
      BY <2>1, AppendIsConcat
    <3>2. Append(s \o u, c) = (s \o u) \o <<c>>
      BY <2>2, AppendIsConcat
    <3>3. (s \o u) \o <<c>> = s \o (u \o <<c>>)
      BY <2>1, <3>1, ConcatAssociative
    <3> QED
      BY <3>1, <3>2, <3>3
  <2>4. Loop(turn, start, Append(s \o u, c)) = turn[<<Loop(turn, start, s \o u), c>>]
    BY <2>2, LoopAppend, Zenon
  <2>5. Loop(turn, mid, Append(u, c)) = turn[<<Loop(turn, mid, u), c>>]
    BY <2>1, LoopAppend, Zenon
  <2>6. Loop(turn, start, s \o Append(u, c)) = Loop(turn, mid, Append(u, c))
    BY <2>1, <2>3, <2>4, <2>5, Zenon
  <2> QED
    BY <2>2, <2>6 DEF P
<1>3. P \in SUBSET Seq(Chars)
  OBVIOUS
<1> HIDE DEF P
<1>4. \A t \in Seq(Chars) : t \in P
  BY <1>1, <1>2, <1>3, TextInduction
<1> QED
  BY <1>4 DEF P

(* Two characters. *)
LEMMA PairIs ==
  ASSUME NEW c \in Chars, NEW d \in Chars
  PROVE  Append(<<c>>, d) = <<c, d>> /\ <<c>> \in Seq(Chars) /\ <<c, d>> \in Seq(Chars)
<1>1. <<c>> \in Seq(Chars) /\ <<c, d>> \in Seq(Chars) /\ Len(<<c>>) = 1 /\ Len(<<c, d>>) = 2
  OBVIOUS
<1>2. Append(<<c>>, d) \in Seq(Chars) /\ Len(Append(<<c>>, d)) = 2
  BY <1>1, AppendProperties
<1>3. Append(<<c>>, d)[1] = c /\ Append(<<c>>, d)[2] = d
  BY <1>1, AppendProperties
<1>4. \A i \in 1..2 : Append(<<c>>, d)[i] = <<c, d>>[i]
  <2>1. \A i \in 1..2 : i = 1 \/ i = 2
    OBVIOUS
  <2> QED
    BY <1>3, <2>1
<1> QED
  BY <1>1, <1>2, <1>4, SeqEqual

(* A loop over one character. *)
LEMMA LoopOne ==
  ASSUME NEW turn, NEW start, NEW c \in Chars
  PROVE  Loop(turn, start, <<c>>) = turn[<<start, c>>]
<1>1. Append(<<>>, c) = <<c>> /\ <<>> \in Seq(Chars)
  OBVIOUS
<1>2. Loop(turn, start, Append(<<>>, c)) = turn[<<Loop(turn, start, <<>>), c>>]
  BY <1>1, LoopAppend, Zenon
<1>3. Loop(turn, start, <<>>) = start
  BY LoopEmpty
<1> QED
  BY <1>1, <1>2, <1>3, Zenon

(* A loop over two. *)
LEMMA LoopTwo ==
  ASSUME NEW turn, NEW start, NEW c \in Chars, NEW d \in Chars,
         NEW mid, turn[<<start, c>>] = mid
  PROVE  Loop(turn, start, <<c, d>>) = turn[<<mid, d>>]
<1>1. Append(<<c>>, d) = <<c, d>> /\ <<c>> \in Seq(Chars)
  BY PairIs
<1>2. Loop(turn, start, Append(<<c>>, d)) = turn[<<Loop(turn, start, <<c>>), d>>]
  BY <1>1, LoopAppend, Zenon
<1>3. Loop(turn, start, <<c>>) = turn[<<start, c>>]
  BY LoopOne, Zenon
<1> QED
  BY <1>1, <1>2, <1>3, Zenon

-----------------------------------------------------------------------------
(* Quoted strings. *)

(* What is written between the quotes. *)
EscapeTurn == [x \in Seq(Chars) \X Chars |-> x[1] \o Escape(x[2])]
Escaped(s) == Loop(EscapeTurn, <<>>, s)

(* A character is written as one or two. *)
LEMMA EscapeFacts ==
  ASSUME NEW c \in Chars
  PROVE  /\ Escape(c) \in Seq(Chars)
         /\ \/ c \in {"backslash", "quote"} /\ Escape(c) = <<"backslash", c>>
            \/ c = "lf" /\ Escape(c) = <<"backslash", "n">>
            \/ c \notin {"backslash", "quote", "lf"} /\ Escape(c) = <<c>>
<1>1. "backslash" \in Chars /\ "n" \in Chars
  BY DEF Chars
<1>2. CASE c \in {"backslash", "quote"}
  BY <1>1, <1>2 DEF Escape
<1>3. CASE c = "lf"
  BY <1>1, <1>3 DEF Escape
<1>4. CASE c \notin {"backslash", "quote", "lf"}
  BY <1>4 DEF Escape
<1> QED
  BY <1>2, <1>3, <1>4

(* Text by text. *)
LEMMA EscapedFacts ==
  /\ Escaped(<<>>) = <<>>
  /\ \A s \in Seq(Chars) : Escaped(s) \in Seq(Chars)
  /\ \A s \in Seq(Chars) : \A c \in Chars : Escaped(Append(s, c)) = Escaped(s) \o Escape(c)
<1> DEFINE P == {s \in Seq(Chars) : Escaped(s) \in Seq(Chars)}
<1>1. Escaped(<<>>) = <<>>
  BY LoopEmpty DEF Escaped
<1>2. ASSUME NEW u \in Seq(Chars), Escaped(u) \in Seq(Chars), NEW c \in Chars
      PROVE  Escaped(Append(u, c)) = Escaped(u) \o Escape(c)
  <2>1. Escaped(Append(u, c)) = EscapeTurn[<<Escaped(u), c>>]
    BY LoopAppend, Zenon DEF Escaped
  <2>2. EscapeTurn[<<Escaped(u), c>>] = Escaped(u) \o Escape(c)
    BY <1>2 DEF EscapeTurn
  <2> QED
    BY <2>1, <2>2
<1>3. <<>> \in P
  <2>1. <<>> \in Seq(Chars)
    OBVIOUS
  <2> QED
    BY <1>1, <2>1, Zenon
<1>4. ASSUME NEW u \in P, NEW c \in Chars PROVE Append(u, c) \in P
  <2>1. u \in Seq(Chars) /\ Escaped(u) \in Seq(Chars)
    OBVIOUS
  <2> HIDE DEF P
  <2>2. Escaped(Append(u, c)) = Escaped(u) \o Escape(c)
    BY <1>2, <2>1
  <2>3. Escape(c) \in Seq(Chars)
    BY EscapeFacts
  <2>4. Escaped(Append(u, c)) \in Seq(Chars) /\ Append(u, c) \in Seq(Chars)
    BY <2>1, <2>2, <2>3
  <2> QED
    BY <2>4 DEF P
<1>5. P \in SUBSET Seq(Chars)
  OBVIOUS
<1> HIDE DEF P
<1>6. \A s \in Seq(Chars) : s \in P
  BY <1>3, <1>4, <1>5, TextInduction
<1>7. \A s \in Seq(Chars) : Escaped(s) \in Seq(Chars)
  BY <1>6 DEF P
<1> QED
  BY <1>1, <1>2, <1>7
(* What parseQuoted reads. *)
UnescapeTurn == [x \in Parsing \X Chars |-> Unescape(x[1], x[2])]
Read(text) == [e |-> FALSE, err |-> FALSE, text |-> text]

Half(text) == [e |-> TRUE, err |-> FALSE, text |-> text]

(* A turn of the loop. *)
LEMMA UnescapeTurns ==
  ASSUME NEW u \in Seq(Chars), NEW c \in Chars
  PROVE  /\ UnescapeTurn[<<Read(u), "backslash">>] = Half(u)
         /\ c = "n" => UnescapeTurn[<<Half(u), c>>] = Read(Append(u, "lf"))
         /\ c # "n" => UnescapeTurn[<<Half(u), c>>] = Read(Append(u, Rune(c)))
         /\ c \notin {"backslash", "quote"} =>
              UnescapeTurn[<<Read(u), c>>] = Read(Append(u, Rune(c)))
<1>1. \A st \in Parsing : \A d \in Chars : UnescapeTurn[<<st, d>>] = Unescape(st, d)
  BY DEF UnescapeTurn
<1>2. Read(u) \in Parsing /\ Half(u) \in Parsing /\ "backslash" \in Chars
  BY DEF Read, Half, Parsing, Chars
<1>3. /\ Unescape(Read(u), "backslash") = Half(u)
      /\ c = "n" => Unescape(Half(u), c) = Read(Append(u, "lf"))
      /\ c # "n" => Unescape(Half(u), c) = Read(Append(u, Rune(c)))
      /\ c \notin {"backslash", "quote"} => Unescape(Read(u), c) = Read(Append(u, Rune(c)))
  BY DEF Unescape, Read, Half
<1> QED
  BY <1>1, <1>2, <1>3

(* An escaped character is read as what it was, if it was one. *)
LEMMA UnescapeFacts ==
  ASSUME NEW u \in Seq(Chars), NEW c \in Chars
  PROVE  Loop(UnescapeTurn, Read(u), Escape(c)) = Read(Append(u, Rune(c)))
<1>1. "backslash" \in Chars /\ "n" \in Chars
  BY DEF Chars
<1>2. UnescapeTurn[<<Read(u), "backslash">>] = Half(u)
  BY UnescapeTurns
<1>3. CASE c \in {"backslash", "quote"} /\ Escape(c) = <<"backslash", c>>
  <2>1. Loop(UnescapeTurn, Read(u), <<"backslash", c>>) = UnescapeTurn[<<Half(u), c>>]
    BY <1>1, <1>2, LoopTwo
  <2>2. UnescapeTurn[<<Half(u), c>>] = Read(Append(u, Rune(c)))
    BY <1>3, UnescapeTurns
  <2> QED
    BY <1>3, <2>1, <2>2, Zenon
<1>4. CASE c = "lf" /\ Escape(c) = <<"backslash", "n">>
  <2>1. Loop(UnescapeTurn, Read(u), <<"backslash", "n">>) = UnescapeTurn[<<Half(u), "n">>]
    BY <1>1, <1>2, LoopTwo
  <2>2. UnescapeTurn[<<Half(u), "n">>] = Read(Append(u, "lf"))
    BY <1>1, UnescapeTurns
  <2>3. Rune(c) = "lf"
    BY <1>4 DEF Rune
  <2> QED
    BY <1>4, <2>1, <2>2, <2>3, Zenon
<1>5. CASE c \notin {"backslash", "quote", "lf"} /\ Escape(c) = <<c>>
  <2>1. Loop(UnescapeTurn, Read(u), <<c>>) = UnescapeTurn[<<Read(u), c>>]
    BY LoopOne, Zenon
  <2>2. UnescapeTurn[<<Read(u), c>>] = Read(Append(u, Rune(c)))
    BY <1>5, UnescapeTurns
  <2> QED
    BY <1>5, <2>1, <2>2, Zenon
<1> QED
  BY <1>3, <1>4, <1>5, EscapeFacts

(* What a text is when it is read as UTF-8. *)
LEMMA DecodedFacts ==
  ASSUME NEW s \in Seq(Chars)
  PROVE  /\ Decoded(s) \in Seq(Chars) /\ Decoded(<<>>) = <<>>
         /\ \A c \in Chars : Decoded(Append(s, c)) = Append(Decoded(s), Rune(c))
         /\ isToken(s) => Decoded(s) = s
<1>1. \A c \in Chars : Rune(c) \in Chars
  BY DEF Rune, Chars
<1>2. Len(s) \in Nat /\ DOMAIN s = 1..Len(s) /\ \A i \in 1..Len(s) : s[i] \in Chars
  BY LenProperties
<1>3. Decoded(s) = [i \in 1..Len(s) |-> Rune(s[i])]
  BY <1>2 DEF Decoded
<1>4. Decoded(s) \in Seq(Chars) /\ Len(Decoded(s)) = Len(s)
  BY <1>1, <1>2, <1>3
<1>5. Decoded(<<>>) = <<>>
  BY DEF Decoded
<1>6. ASSUME NEW c \in Chars PROVE Decoded(Append(s, c)) = Append(Decoded(s), Rune(c))
  <2> DEFINE t == Append(s, c)
             d == Append(Decoded(s), Rune(c))
  <2>1. /\ t \in Seq(Chars) /\ DOMAIN t = 1..(Len(s) + 1)
        /\ \A i \in 1..(Len(s) + 1) : t[i] = IF i = Len(s) + 1 THEN c ELSE s[i]
    BY <1>2, AppendProperties
  <2>2. Decoded(t) = [i \in 1..(Len(s) + 1) |-> Rune(t[i])]
    BY <2>1 DEF Decoded
  <2>3. /\ d = [i \in 1..(Len(s) + 1) |-> d[i]] /\ d[Len(s) + 1] = Rune(c)
        /\ \A i \in 1..Len(s) : d[i] = Decoded(s)[i]
    <3> DEFINE o == Decoded(s)
    <3>1. o \in Seq(Chars) /\ Rune(c) \in Chars /\ Len(o) = Len(s) /\ Len(s) \in Nat
      BY <1>1, <1>2, <1>4
    <3> HIDE DEF o
    <3>2. /\ Append(o, Rune(c)) \in Seq(Chars) /\ Len(Append(o, Rune(c))) = Len(s) + 1
          /\ Append(o, Rune(c))[Len(s) + 1] = Rune(c)
          /\ \A i \in 1..Len(s) : Append(o, Rune(c))[i] = o[i]
      BY <3>1, AppendProperties
    <3>3. d \in Seq(Chars) /\ Len(d) = Len(s) + 1
      BY <3>2 DEF o
    <3>4. d = [i \in 1..(Len(s) + 1) |-> d[i]]
      <4> HIDE DEF d
      <4> QED
        BY <3>3
    <3> QED
      BY <3>2, <3>4 DEF o
  <2>4. \A i \in 1..(Len(s) + 1) : d[i] = Rune(t[i])
    <3>1. \A i \in 1..Len(s) : Decoded(s)[i] = Rune(s[i])
      BY <1>3
    <3> HIDE DEF d, t
    <3>2. t[Len(s) + 1] = c
      BY <1>2, <2>1
    <3>3. ASSUME NEW i \in 1..Len(s) PROVE d[i] = Rune(t[i])
      <4>1. i \in 1..(Len(s) + 1) /\ i # Len(s) + 1
        BY <1>2
      <4>2. t[i] = s[i]
        BY <2>1, <4>1, Zenon
      <4> QED
        BY <2>3, <3>1, <4>2, Zenon
    <3>4. \A i \in 1..(Len(s) + 1) : i = Len(s) + 1 \/ i \in 1..Len(s)
      BY <1>2
    <3> QED
      BY <2>3, <3>2, <3>3, <3>4, Zenon
  <2> HIDE DEF d, t
  <2>5. Decoded(t) = d
    BY <2>2, <2>3, <2>4
  <2> QED
    BY <2>5 DEF d, t
<1>7. ASSUME isToken(s) PROVE Decoded(s) = s
  <2>1. \A i \in 1..Len(s) : Rune(s[i]) = s[i]
    BY <1>2, <1>7 DEF isToken, Range, Rune
  <2> QED
    BY <1>2, <1>3, <2>1
<1> QED
  BY <1>4, <1>5, <1>6, <1>7

(* An escaped text is read as what it was, as UTF-8. *)
LEMMA ReadAgain ==
  \A s \in Seq(Chars) : Loop(UnescapeTurn, Read(<<>>), Escaped(s)) = Read(Decoded(s))
<1> DEFINE P == {s \in Seq(Chars) : Loop(UnescapeTurn, Read(<<>>), Escaped(s)) = Read(Decoded(s))}
<1>1. <<>> \in P
  <2>1. <<>> \in Seq(Chars)
    OBVIOUS
  <2>2. Loop(UnescapeTurn, Read(<<>>), <<>>) = Read(<<>>)
    BY LoopEmpty
  <2> QED
    BY <2>1, <2>2, EscapedFacts, DecodedFacts, Zenon
<1>2. ASSUME NEW u \in P, NEW c \in Chars PROVE Append(u, c) \in P
  <2>1. u \in Seq(Chars) /\ Loop(UnescapeTurn, Read(<<>>), Escaped(u)) = Read(Decoded(u))
    OBVIOUS
  <2> HIDE DEF P
  <2>2. /\ Escaped(Append(u, c)) = Escaped(u) \o Escape(c) /\ Escaped(u) \in Seq(Chars)
        /\ Escape(c) \in Seq(Chars) /\ Append(u, c) \in Seq(Chars)
    BY <2>1, EscapedFacts, EscapeFacts
  <2>3. Loop(UnescapeTurn, Read(<<>>), Escaped(u) \o Escape(c))
          = Loop(UnescapeTurn, Read(Decoded(u)), Escape(c))
    BY <2>1, <2>2, LoopConcat
  <2>4. /\ Decoded(u) \in Seq(Chars)
        /\ Decoded(Append(u, c)) = Append(Decoded(u), Rune(c))
    BY <2>1, DecodedFacts
  <2>5. Loop(UnescapeTurn, Read(Decoded(u)), Escape(c)) = Read(Append(Decoded(u), Rune(c)))
    BY <2>4, UnescapeFacts
  <2>6. Loop(UnescapeTurn, Read(<<>>), Escaped(Append(u, c))) = Read(Decoded(Append(u, c)))
    BY <2>1, <2>2, <2>3, <2>4, <2>5, Zenon
  <2> QED
    BY <2>2, <2>6 DEF P
<1>3. P \in SUBSET Seq(Chars)
  OBVIOUS
<1> HIDE DEF P
<1>4. \A s \in Seq(Chars) : s \in P
  BY <1>1, <1>2, <1>3, TextInduction
<1> QED
  BY <1>4 DEF P

(* What split makes of a quoted string. *)
ScanTurn == [x \in Splitting \X Chars |-> Scan(x[1], x[2])]
Out == [q |-> FALSE, e |-> FALSE]
In  == [q |-> TRUE, e |-> FALSE]

Esc == [q |-> TRUE, e |-> TRUE]

(* A turn of the loop. *)
LEMMA ScanTurns ==
  ASSUME NEW c \in Chars
  PROVE  /\ ScanTurn[<<In, "backslash">>] = Esc /\ ScanTurn[<<Esc, c>>] = In
         /\ ScanTurn[<<In, "quote">>] = Out /\ ScanTurn[<<Out, "quote">>] = In
         /\ c \notin {"backslash", "quote"} => ScanTurn[<<In, c>>] = In
         /\ c # "quote" => ScanTurn[<<Out, c>>] = Out
<1>1. \A st \in Splitting : \A d \in Chars : ScanTurn[<<st, d>>] = Scan(st, d)
  BY DEF ScanTurn
<1>2. In \in Splitting /\ Esc \in Splitting /\ Out \in Splitting
  BY DEF In, Out, Esc, Splitting
<1>3. "backslash" \in Chars /\ "quote" \in Chars
  BY DEF Chars
<1>4. /\ Scan(In, "backslash") = Esc /\ Scan(Esc, c) = In
      /\ Scan(In, "quote") = Out /\ Scan(Out, "quote") = In
      /\ c \notin {"backslash", "quote"} => Scan(In, c) = In
      /\ c # "quote" => Scan(Out, c) = Out
  BY DEF Scan, In, Out, Esc
<1> QED
  BY <1>1, <1>2, <1>3, <1>4

(* No escaped character ends it. *)
LEMMA ScanFacts ==
  ASSUME NEW c \in Chars
  PROVE  Loop(ScanTurn, In, Escape(c)) = In
<1>1. "backslash" \in Chars /\ "n" \in Chars
  BY DEF Chars
<1>2. ScanTurn[<<In, "backslash">>] = Esc /\ \A d \in Chars : ScanTurn[<<Esc, d>>] = In
  BY ScanTurns
<1>3. CASE c \in {"backslash", "quote"} /\ Escape(c) = <<"backslash", c>>
  <2>1. Loop(ScanTurn, In, <<"backslash", c>>) = ScanTurn[<<Esc, c>>]
    BY <1>1, <1>2, LoopTwo
  <2> QED
    BY <1>2, <1>3, <2>1, Zenon
<1>4. CASE c = "lf" /\ Escape(c) = <<"backslash", "n">>
  <2>1. Loop(ScanTurn, In, <<"backslash", "n">>) = ScanTurn[<<Esc, "n">>]
    BY <1>1, <1>2, LoopTwo
  <2> QED
    BY <1>1, <1>2, <1>4, <2>1, Zenon
<1>5. CASE c \notin {"backslash", "quote", "lf"} /\ Escape(c) = <<c>>
  <2>1. Loop(ScanTurn, In, <<c>>) = ScanTurn[<<In, c>>]
    BY LoopOne, Zenon
  <2>2. ScanTurn[<<In, c>>] = In
    BY <1>5, ScanTurns
  <2> QED
    BY <1>5, <2>1, <2>2, Zenon
<1> QED
  BY <1>3, <1>4, <1>5, EscapeFacts

(* Two texts, and three. *)
LEMMA TwoTexts ==
  ASSUME NEW a \in Seq(Chars), NEW b \in Seq(Chars)
  PROVE  /\ a \o b \in Seq(Chars) /\ Len(a \o b) = Len(a) + Len(b)
         /\ Len(a) \in Nat /\ Len(b) \in Nat
         /\ \A i \in 1..(Len(a) + Len(b)) :
              (a \o b)[i] = IF i <= Len(a) THEN a[i] ELSE b[i - Len(a)]
BY ConcatProperties, LenProperties

LEMMA ThreeTexts ==
  ASSUME NEW a \in Seq(Chars), NEW b \in Seq(Chars), NEW c \in Seq(Chars)
  PROVE  (a \o b) \o c = a \o (b \o c)
BY ConcatAssociative

(* A text in parts. *)
LEMMA PrefixFacts ==
  ASSUME NEW a \in Seq(Chars), NEW b \in Seq(Chars)
  PROVE  /\ \A k \in 0..Len(a) : SubSeq(a \o b, 1, k) = SubSeq(a, 1, k)
         /\ \A k \in 0..Len(b) : SubSeq(a \o b, 1, Len(a) + k) = a \o SubSeq(b, 1, k)
         /\ SubSeq(a \o b, 1, Len(a)) = a
         /\ SubSeq(a \o b, Len(a) + 1, Len(a) + Len(b)) = b
<1> DEFINE t == a \o b
           m == Len(a)
           n == Len(b)
<1>1. /\ m \in Nat /\ n \in Nat /\ t \in Seq(Chars) /\ Len(t) = m + n
      /\ \A i \in 1..m : t[i] = a[i] /\ a[i] \in Chars
      /\ \A i \in 1..n : t[m + i] = b[i] /\ b[i] \in Chars
      /\ \A i \in 1..(m + n) : t[i] \in Chars
  BY ConcatProperties, LenProperties
<1> HIDE DEF t, m, n
<1>2. ASSUME NEW k \in 0..m PROVE SubSeq(t, 1, k) = SubSeq(a, 1, k)
  <2>1. \A i \in 1..k : t[i] \in Chars /\ a[i] \in Chars /\ t[i] = a[i]
    BY <1>1
  <2>2. /\ SubSeq(t, 1, k) \in Seq(Chars) /\ Len(SubSeq(t, 1, k)) = k
        /\ \A i \in 1..k : SubSeq(t, 1, k)[i] = t[i]
    BY <1>1, <2>1, SubSeqProperties
  <2>3. /\ SubSeq(a, 1, k) \in Seq(Chars) /\ Len(SubSeq(a, 1, k)) = k
        /\ \A i \in 1..k : SubSeq(a, 1, k)[i] = a[i]
    BY <1>1, <2>1, SubSeqProperties
  <2> QED
    BY <2>1, <2>2, <2>3, SeqEqual
<1>3. ASSUME NEW k \in 0..n PROVE SubSeq(t, 1, m + k) = a \o SubSeq(b, 1, k)
  <2>1. \A i \in 1..(m + k) : t[i] \in Chars
    BY <1>1
  <2>2. /\ SubSeq(t, 1, m + k) \in Seq(Chars) /\ Len(SubSeq(t, 1, m + k)) = m + k
        /\ \A i \in 1..(m + k) : SubSeq(t, 1, m + k)[i] = t[i]
    BY <1>1, <2>1, SubSeqProperties
  <2>3. /\ SubSeq(b, 1, k) \in Seq(Chars) /\ Len(SubSeq(b, 1, k)) = k
        /\ \A i \in 1..k : SubSeq(b, 1, k)[i] = b[i]
    <3>1. \A i \in 1..k : b[i] \in Chars
      BY <1>1
    <3> QED
      BY <1>1, <3>1, SubSeqProperties
  <2> DEFINE r == a \o SubSeq(b, 1, k)
  <2>4. /\ r \in Seq(Chars) /\ Len(r) = m + k
        /\ \A i \in 1..(m + k) : r[i] = IF i <= m THEN a[i] ELSE SubSeq(b, 1, k)[i - m]
    BY <2>3, ConcatProperties DEF m
  <2>5. ASSUME NEW i \in 1..(m + k) PROVE SubSeq(t, 1, m + k)[i] = r[i]
    <3>1. CASE i <= m
      BY <1>1, <2>2, <2>4, <3>1
    <3>2. CASE ~(i <= m)
      <4>1. i - m \in 1..k /\ i - m \in 1..n /\ m + (i - m) = i
        BY <1>1, <3>2
      <4>2. t[i] = b[i - m]
        BY <1>1, <4>1
      <4> QED
        BY <2>2, <2>3, <2>4, <3>2, <4>1, <4>2
    <3> QED
      BY <3>1, <3>2
  <2> HIDE DEF r
  <2>6. SubSeq(t, 1, m + k) = r
    BY <2>2, <2>4, <2>5, SeqEqual
  <2> QED
    BY <2>6 DEF r
<1>4. SubSeq(t, 1, m) = a
  <2>1. SubSeq(a, 1, m) = a
    BY SubSeqFull DEF m
  <2>2. m \in 0..m
    BY <1>1
  <2> QED
    BY <1>2, <2>1, <2>2
<1>5. SubSeq(t, m + 1, m + n) = b
  <2>1. \A i \in (m + 1)..(m + n) : t[i] \in Chars
    BY <1>1
  <2>2. /\ SubSeq(t, m + 1, m + n) \in Seq(Chars) /\ Len(SubSeq(t, m + 1, m + n)) = n
        /\ \A i \in 1..n : SubSeq(t, m + 1, m + n)[i] = t[m + i]
    <3> DEFINE lo == m + 1
               hi == m + n
    <3>1. lo \in Int /\ hi \in Int /\ hi - lo + 1 = n /\ (lo <= hi \/ n = 0)
      BY <1>1
    <3>2. \A i \in lo..hi : t[i] \in Chars
      BY <2>1
    <3>3. \A i \in 1..n : lo + i - 1 = m + i
      BY <1>1
    <3> HIDE DEF lo, hi
    <3>4. /\ SubSeq(t, lo, hi) \in Seq(Chars)
          /\ Len(SubSeq(t, lo, hi)) = IF lo <= hi THEN hi - lo + 1 ELSE 0
          /\ \A i \in 1..(hi - lo + 1) : SubSeq(t, lo, hi)[i] = t[lo + i - 1]
      BY <3>1, <3>2, SubSeqProperties
    <3>5. Len(SubSeq(t, lo, hi)) = n
      BY <1>1, <3>1, <3>4
    <3>6. \A i \in 1..n : SubSeq(t, lo, hi)[i] = t[m + i]
      BY <3>1, <3>3, <3>4
    <3> QED
      BY <3>4, <3>5, <3>6 DEF lo, hi
  <2>3. \A i \in 1..n : SubSeq(t, m + 1, m + n)[i] = b[i]
    BY <1>1, <2>2
  <2> QED
    BY <2>2, <2>3, SeqEqual DEF n
<1> QED
  BY <1>2, <1>3, <1>4, <1>5 DEF t, m, n

LEMMA MiddleFacts ==
  ASSUME NEW a \in Seq(Chars), NEW b \in Seq(Chars), NEW c \in Seq(Chars)
  PROVE  SubSeq((a \o b) \o c, Len(a) + 1, Len(a) + Len(b)) = b
<1> DEFINE t == a \o b
           m == Len(a) + 1
           n == Len(a) + Len(b)
<1>1. t \in Seq(Chars) /\ Len(t) = n /\ m \in Nat /\ n \in Nat /\ m >= 1
  BY TwoTexts
<1>2. SubSeq(t, m, n) = b
  BY PrefixFacts
<1> HIDE DEF t, m, n
<1>3. SubSeq(t \o c, m, n) = SubSeq(t, m, n)
  <2>1. CASE n >= m
    <3>1. m \in 1..Len(t) /\ n \in 1..Len(t)
      BY <1>1, <2>1
    <3> QED
      BY <1>1, <3>1, SubSeqOfConcat1
  <2>2. CASE ~(n >= m)
    <3>1. n < m /\ m \in Int /\ n \in Int
      BY <1>1, <2>2
    <3>2. SubSeq(t, m, n) = <<>> /\ SubSeq(t \o c, m, n) = <<>>
      BY <3>1, SubSeqEmpty
    <3> QED
      BY <3>2
  <2> QED
    BY <2>1, <2>2
<1> QED
  BY <1>2, <1>3 DEF t, m, n

(* All that a loop has on its way through a text is in S. *)
Keeps(turn, start, s, S) == \A k \in 0..Len(s) : Loop(turn, start, SubSeq(s, 1, k)) \in S

LEMMA KeepsConcat ==
  ASSUME NEW turn, NEW start, NEW mid, NEW S, NEW a \in Seq(Chars), NEW b \in Seq(Chars),
         Keeps(turn, start, a, S), Loop(turn, start, a) = mid, Keeps(turn, mid, b, S)
  PROVE  Keeps(turn, start, a \o b, S)
<1>1. Len(a \o b) = Len(a) + Len(b) /\ Len(a) \in Nat /\ Len(b) \in Nat
  BY ConcatProperties, LenProperties
<1> SUFFICES ASSUME NEW k \in 0..(Len(a) + Len(b))
             PROVE  Loop(turn, start, SubSeq(a \o b, 1, k)) \in S
  BY <1>1 DEF Keeps
<1>2. CASE k \in 0..Len(a)
  <2>1. SubSeq(a \o b, 1, k) = SubSeq(a, 1, k)
    BY <1>2, PrefixFacts
  <2> QED
    BY <1>2, <2>1 DEF Keeps
<1>3. CASE k \notin 0..Len(a)
  <2> DEFINE j == k - Len(a)
  <2>1. j \in 0..Len(b) /\ k = Len(a) + j
    BY <1>1, <1>3
  <2> HIDE DEF j
  <2> DEFINE w == SubSeq(b, 1, j)
  <2>2. SubSeq(a \o b, 1, k) = a \o w
    BY <2>1, PrefixFacts
  <2>3. w \in Seq(Chars)
    <3>1. \A i \in 1..j : b[i] \in Chars
      BY <1>1, <2>1
    <3> QED
      BY <2>1, <3>1, SubSeqProperties
  <2>4. Loop(turn, mid, w) \in S
    BY <2>1 DEF Keeps
  <2> HIDE DEF w
  <2>5. Loop(turn, start, a \o w) = Loop(turn, mid, w)
    BY <2>3, LoopConcat
  <2> QED
    BY <2>2, <2>4, <2>5
<1> QED
  BY <1>2, <1>3

(* A character. *)
LEMMA KeepsOne ==
  ASSUME NEW turn, NEW start, NEW c \in Chars, NEW S, start \in S, turn[<<start, c>>] \in S
  PROVE  Keeps(turn, start, <<c>>, S)
<1> SUFFICES ASSUME NEW k \in 0..Len(<<c>>)
             PROVE  Loop(turn, start, SubSeq(<<c>>, 1, k)) \in S
  BY DEF Keeps
<1>1. <<c>> \in Seq(Chars) /\ Len(<<c>>) = 1
  OBVIOUS
<1>2. CASE k = 0
  <2>1. SubSeq(<<c>>, 1, 0) = <<>>
    BY SubSeqEmpty
  <2>2. Loop(turn, start, <<>>) = start
    BY LoopEmpty
  <2> QED
    BY <1>2, <2>1, <2>2
<1>3. CASE k = 1
  <2>1. SubSeq(<<c>>, 1, 1) = <<c>>
    BY <1>1, SubSeqFull
  <2>2. Loop(turn, start, <<c>>) = turn[<<start, c>>]
    BY LoopOne, Zenon
  <2> QED
    BY <1>3, <2>1, <2>2
<1> QED
  BY <1>1, <1>2, <1>3

(* Nor is it left on the way through one. *)
LEMMA KeepsEscape ==
  ASSUME NEW c \in Chars
  PROVE  Keeps(ScanTurn, In, Escape(c), {In, Esc})
<1>1. "backslash" \in Chars /\ "n" \in Chars
  BY DEF Chars
<1>2. /\ ScanTurn[<<In, "backslash">>] = Esc /\ \A d \in Chars : ScanTurn[<<Esc, d>>] = In
      /\ c \notin {"backslash", "quote"} => ScanTurn[<<In, c>>] = In
  BY ScanTurns
<1>3. ASSUME NEW b \in Chars, NEW d \in Chars, ScanTurn[<<In, b>>] = Esc
      PROVE  Keeps(ScanTurn, In, <<b, d>>, {In, Esc})
  <2>1. Keeps(ScanTurn, In, <<b>>, {In, Esc})
    BY <1>3, KeepsOne
  <2>2. Keeps(ScanTurn, Esc, <<d>>, {In, Esc})
    BY <1>2, KeepsOne
  <2>3. Loop(ScanTurn, In, <<b>>) = Esc
    BY <1>3, LoopOne
  <2>4. <<b>> \in Seq(Chars) /\ <<d>> \in Seq(Chars)
    OBVIOUS
  <2>5. <<b>> \o <<d>> = <<b, d>>
    BY PairIs, AppendIsConcat
  <2>6. Keeps(ScanTurn, In, <<b>> \o <<d>>, {In, Esc})
    BY <2>1, <2>2, <2>3, <2>4, KeepsConcat
  <2> QED
    BY <2>5, <2>6
<1>4. CASE c \in {"backslash", "quote"} /\ Escape(c) = <<"backslash", c>>
  <2>1. Keeps(ScanTurn, In, <<"backslash", c>>, {In, Esc})
    BY <1>1, <1>2, <1>3
  <2> QED
    BY <1>4, <2>1, Zenon
<1>5. CASE c = "lf" /\ Escape(c) = <<"backslash", "n">>
  <2>1. Keeps(ScanTurn, In, <<"backslash", "n">>, {In, Esc})
    BY <1>1, <1>2, <1>3
  <2> QED
    BY <1>5, <2>1, Zenon
<1>6. CASE c \notin {"backslash", "quote", "lf"} /\ Escape(c) = <<c>>
  <2>1. Keeps(ScanTurn, In, <<c>>, {In, Esc})
    BY <1>2, <1>6, KeepsOne
  <2> QED
    BY <1>6, <2>1, Zenon
<1> QED
  BY <1>4, <1>5, <1>6, EscapeFacts

(* Text by text. *)
LEMMA EscapedIsInside ==
  \A s \in Seq(Chars) : /\ Loop(ScanTurn, In, Escaped(s)) = In
                        /\ Keeps(ScanTurn, In, Escaped(s), {In, Esc})
<1> DEFINE P == {s \in Seq(Chars) : /\ Loop(ScanTurn, In, Escaped(s)) = In
                                    /\ Keeps(ScanTurn, In, Escaped(s), {In, Esc})}
<1>1. <<>> \in P
  <2>1. <<>> \in Seq(Chars) /\ Len(<<>>) = 0
    OBVIOUS
  <2>2. Loop(ScanTurn, In, <<>>) = In
    BY LoopEmpty
  <2>3. Keeps(ScanTurn, In, <<>>, {In, Esc})
    <3>1. SubSeq(<<>>, 1, 0) = <<>>
      BY SubSeqEmpty
    <3>2. \A k \in 0..0 : k = 0
      OBVIOUS
    <3> QED
      BY <2>1, <2>2, <3>1, <3>2 DEF Keeps
  <2> QED
    BY <2>1, <2>2, <2>3, EscapedFacts, Zenon
<1>2. ASSUME NEW u \in P, NEW c \in Chars PROVE Append(u, c) \in P
  <2>1. /\ u \in Seq(Chars) /\ Loop(ScanTurn, In, Escaped(u)) = In
        /\ Keeps(ScanTurn, In, Escaped(u), {In, Esc})
    OBVIOUS
  <2> HIDE DEF P
  <2>2. /\ Escaped(Append(u, c)) = Escaped(u) \o Escape(c) /\ Escaped(u) \in Seq(Chars)
        /\ Escape(c) \in Seq(Chars) /\ Append(u, c) \in Seq(Chars)
    BY <2>1, EscapedFacts, EscapeFacts
  <2>3. Loop(ScanTurn, In, Escaped(u) \o Escape(c)) = Loop(ScanTurn, In, Escape(c))
    BY <2>1, <2>2, LoopConcat
  <2>4. Loop(ScanTurn, In, Escaped(u) \o Escape(c)) = In
    BY <2>3, ScanFacts
  <2>5. Keeps(ScanTurn, In, Escape(c), {In, Esc})
    BY KeepsEscape
  <2>6. Keeps(ScanTurn, In, Escaped(u) \o Escape(c), {In, Esc})
    BY <2>1, <2>2, <2>5, KeepsConcat
  <2> QED
    BY <2>2, <2>4, <2>6 DEF P
<1>3. P \in SUBSET Seq(Chars)
  OBVIOUS
<1> HIDE DEF P
<1>4. \A s \in Seq(Chars) : s \in P
  BY <1>1, <1>2, <1>3, TextInduction
<1> QED
  BY <1>4 DEF P

(* A quoted string without its last quote, and with it. *)
Opened(s) == <<"quote">> \o Escaped(s)

LEMMA BodyFacts ==
  ASSUME NEW s \in Seq(Chars)
  PROVE  /\ Opened(s) \in Seq(Chars) /\ Len(Opened(s)) = Len(Escaped(s)) + 1
         /\ Len(Escaped(s)) \in Nat /\ Opened(s)[1] = "quote"
         /\ writeQuoted(s) = Opened(s) \o <<"quote">>
         /\ writeQuoted(s) \in Seq(Chars) /\ Len(writeQuoted(s)) = Len(Opened(s)) + 1
         /\ writeQuoted(s)[1] = "quote" /\ writeQuoted(s)[Len(writeQuoted(s))] = "quote"
         /\ \A i \in 1..Len(Opened(s)) : writeQuoted(s)[i] = Opened(s)[i]
<1>1. "quote" \in Chars /\ Escaped(s) \in Seq(Chars)
  BY EscapedFacts DEF Chars
<1>2. <<"quote">> \in Seq(Chars) /\ Len(<<"quote">>) = 1 /\ <<"quote">>[1] = "quote"
  BY <1>1
<1>3. /\ Opened(s) \in Seq(Chars) /\ Len(Opened(s)) = Len(Escaped(s)) + 1
      /\ Len(Escaped(s)) \in Nat /\ Opened(s)[1] = "quote"
  <2>1. /\ Opened(s) \in Seq(Chars) /\ Len(Opened(s)) = 1 + Len(Escaped(s))
        /\ \A i \in 1..(1 + Len(Escaped(s))) :
             Opened(s)[i] = IF i <= 1 THEN <<"quote">>[i] ELSE Escaped(s)[i - 1]
    BY <1>1, <1>2, ConcatProperties DEF Opened
  <2>2. Len(Escaped(s)) \in Nat
    BY <1>1, LenProperties
  <2> QED
    BY <1>2, <2>1, <2>2
<1>4. writeQuoted(s) = Opened(s) \o <<"quote">>
  BY DEF writeQuoted, Opened, Escaped, EscapeTurn
<1>5. /\ writeQuoted(s) \in Seq(Chars) /\ Len(writeQuoted(s)) = Len(Opened(s)) + 1
      /\ \A i \in 1..(Len(Opened(s)) + 1) :
           writeQuoted(s)[i] =
             IF i <= Len(Opened(s)) THEN Opened(s)[i] ELSE <<"quote">>[i - Len(Opened(s))]
  BY <1>2, <1>3, <1>4, ConcatProperties
<1> QED
  BY <1>2, <1>3, <1>4, <1>5

LEMMA BodyEmpty == Opened(<<>>) = <<"quote">>
<1>1. <<"quote">> \in Seq(Chars)
  BY DEF Chars
<1>2. <<"quote">> \o <<>> = <<"quote">>
  BY <1>1, ConcatEmptySeq
<1> QED
  BY <1>2, EscapedFacts, Zenon DEF Opened

LEMMA BodyIsInside ==
  ASSUME NEW s \in Seq(Chars)
  PROVE  /\ \A k \in 1..Len(Opened(s)) : Inside(SubSeq(Opened(s), 1, k))
         /\ ~Inside(writeQuoted(s))
<1> DEFINE mark == <<"quote">>
<1>1. "quote" \in Chars /\ Escaped(s) \in Seq(Chars) /\ Len(Escaped(s)) \in Nat
  BY EscapedFacts, BodyFacts DEF Chars
<1>2. mark \in Seq(Chars) /\ Len(mark) = 1
  BY <1>1
<1>0. Opened(s) = mark \o Escaped(s) /\ writeQuoted(s) = Opened(s) \o mark
  BY BodyFacts DEF Opened
<1>3. \A t : Inside(t) = Loop(ScanTurn, Out, t).q
  BY DEF Inside, ScanTurn, Out
<1>4. Loop(ScanTurn, Out, mark) = In /\ Loop(ScanTurn, In, mark) = Out
  BY <1>1, LoopOne, ScanTurns
<1> HIDE DEF mark
<1>5. ASSUME NEW k \in 1..Len(Opened(s)) PROVE Inside(SubSeq(Opened(s), 1, k))
  <2> DEFINE j == k - 1
             w == SubSeq(Escaped(s), 1, j)
  <2>1. j \in 0..Len(Escaped(s)) /\ k = Len(mark) + j
    BY <1>1, <1>2, BodyFacts
  <2> HIDE DEF j
  <2>2. SubSeq(Opened(s), 1, k) = mark \o w
    <3>1. \A i \in 0..Len(Escaped(s)) :
            SubSeq(mark \o Escaped(s), 1, Len(mark) + i) = mark \o SubSeq(Escaped(s), 1, i)
      BY <1>1, <1>2, PrefixFacts, Zenon
    <3> QED
      BY <1>0, <2>1, <3>1, Zenon
  <2>3. w \in Seq(Chars)
    <3>1. \A i \in 1..j : Escaped(s)[i] \in Chars
      BY <1>1, <2>1
    <3> QED
      BY <2>1, <3>1, SubSeqProperties
  <2>4. Loop(ScanTurn, In, w) \in {In, Esc}
    BY <2>1, EscapedIsInside DEF Keeps
  <2> HIDE DEF w
  <2>5. Loop(ScanTurn, Out, mark \o w) = Loop(ScanTurn, In, w)
    BY <1>2, <1>4, <2>3, LoopConcat
  <2>6. In.q /\ Esc.q
    BY DEF In, Esc
  <2> QED
    BY <1>3, <2>2, <2>4, <2>5, <2>6
<1>6. Loop(ScanTurn, Out, Opened(s)) = In
  <2>1. Loop(ScanTurn, Out, mark \o Escaped(s)) = Loop(ScanTurn, In, Escaped(s))
    BY <1>1, <1>2, <1>4, LoopConcat
  <2> QED
    BY <1>0, <2>1, EscapedIsInside
<1>7. Loop(ScanTurn, Out, writeQuoted(s)) = Out
  <2>1. Opened(s) \in Seq(Chars) /\ writeQuoted(s) = Opened(s) \o mark
    BY <1>0, BodyFacts
  <2>2. Loop(ScanTurn, Out, Opened(s) \o mark) = Loop(ScanTurn, In, mark)
    BY <1>2, <1>6, <2>1, LoopConcat
  <2> QED
    BY <1>4, <2>1, <2>2
<1>8. ~Out.q
  BY DEF Out
<1> QED
  BY <1>3, <1>5, <1>7, <1>8

(* A token never is. *)
LEMMA TokenIsOutside ==
  \A s \in Seq(Chars) :
    (\A i \in 1..Len(s) : s[i] \in {"a", "n"}) => Loop(ScanTurn, Out, s) = Out
<1> DEFINE Token(s) == \A i \in 1..Len(s) : s[i] \in {"a", "n"}
           P == {s \in Seq(Chars) : Token(s) => Loop(ScanTurn, Out, s) = Out}
<1>1. <<>> \in P
  <2>1. <<>> \in Seq(Chars)
    OBVIOUS
  <2>2. Loop(ScanTurn, Out, <<>>) = Out
    BY LoopEmpty
  <2> HIDE DEF Token
  <2> QED
    BY <2>1, <2>2, Zenon
<1>2. ASSUME NEW u \in P, NEW c \in Chars PROVE Append(u, c) \in P
  <2>1. u \in Seq(Chars) /\ (Token(u) => Loop(ScanTurn, Out, u) = Out)
    OBVIOUS
  <2>2. Append(u, c) \in Seq(Chars)
    BY <2>1
  <2>3. ASSUME Token(Append(u, c)) PROVE Loop(ScanTurn, Out, Append(u, c)) = Out
    <3>1. /\ Len(Append(u, c)) = Len(u) + 1 /\ Append(u, c)[Len(u) + 1] = c /\ Len(u) \in Nat
          /\ \A i \in 1..Len(u) : Append(u, c)[i] = u[i]
      BY <2>1, AppendProperties, LenProperties
    <3>2. Token(u) /\ c \in {"a", "n"}
      BY <2>3, <3>1
    <3>3. Loop(ScanTurn, Out, u) = Out
      BY <2>1, <3>2
    <3>4. Loop(ScanTurn, Out, Append(u, c)) = ScanTurn[<<Loop(ScanTurn, Out, u), c>>]
      BY <2>1, LoopAppend, Zenon
    <3>5. ScanTurn[<<Out, c>>] = Out
      BY <3>2, ScanTurns
    <3> QED
      BY <3>3, <3>4, <3>5
  <2> HIDE DEF Token
  <2> QED
    BY <2>2, <2>3
<1>3. P \in SUBSET Seq(Chars)
  OBVIOUS
<1> HIDE DEF P
<1>4. \A s \in Seq(Chars) : s \in P
  BY <1>1, <1>2, <1>3, TextInduction
<1> QED
  BY <1>4 DEF P

LEMMA TokenFacts ==
  ASSUME NEW s \in Seq(Chars)
  PROVE  isToken(s) <=> s # <<>> /\ \A i \in 1..Len(s) : s[i] \in {"a", "n"}
<1>1. DOMAIN s = 1..Len(s)
  BY LenProperties
<1> QED
  BY <1>1 DEF isToken, Range

(* What Format writes begins and ends with ink, and no comma in it is one  *)
(* that split cuts at.                                                     *)
LEMMA FormatFacts ==
  ASSUME NEW p \in Seq(Chars), NEW w, w = Format(p)
  PROVE  /\ w \in Seq(Chars) /\ Len(w) \in Nat /\ Len(w) >= 1
         /\ w[1] # "space" /\ w[Len(w)] # "space" /\ ~Inside(w)
         /\ \A i \in 1..Len(w) : w[i] = "comma" => Inside(SubSeq(w, 1, i - 1))
<1>1. CASE isToken(p)
  <2>1. w = p /\ p # <<>> /\ \A i \in 1..Len(p) : p[i] \in {"a", "n"}
    BY <1>1, TokenFacts DEF Format
  <2>2. Len(p) \in Nat /\ Len(p) >= 1
    BY <2>1
  <2>3. p[1] # "space" /\ p[Len(p)] # "space" /\ \A i \in 1..Len(p) : p[i] # "comma"
    BY <2>1, <2>2
  <2>4. ~Inside(p)
    <3>1. Loop(ScanTurn, Out, p) = Out
      BY <2>1, TokenIsOutside
    <3>2. Inside(p) = Loop(ScanTurn, Out, p).q /\ ~Out.q
      BY DEF Inside, ScanTurn, Out
    <3> QED
      BY <3>1, <3>2
  <2> QED
    BY <2>1, <2>2, <2>3, <2>4
<1>2. CASE ~isToken(p)
  <2>1. w = writeQuoted(p)
    BY <1>2 DEF Format
  <2> DEFINE m == Len(Opened(p))
  <2>2. /\ w \in Seq(Chars) /\ Len(w) = m + 1 /\ m \in Nat /\ m >= 1 /\ Opened(p) \in Seq(Chars)
        /\ w[1] = "quote" /\ w[m + 1] = "quote" /\ w = Opened(p) \o <<"quote">>
    BY <2>1, BodyFacts
  <2>3. ~Inside(w)
    BY <2>1, BodyIsInside
  <2>4. ASSUME NEW i \in 1..(m + 1), w[i] = "comma" PROVE Inside(SubSeq(w, 1, i - 1))
    <3>1. i - 1 \in 1..m /\ i - 1 \in 0..m
      BY <2>2, <2>4
    <3>2. <<"quote">> \in Seq(Chars)
      BY DEF Chars
    <3>3. SubSeq(w, 1, i - 1) = SubSeq(Opened(p), 1, i - 1)
      BY <2>2, <3>1, <3>2, PrefixFacts
    <3> QED
      BY <3>1, <3>3, BodyIsInside
  <2> QED
    BY <2>2, <2>3, <2>4
<1> QED
  BY <1>1, <1>2

(* Where the ink begins and where it ends. *)
LEMMA TrimFacts ==
  ASSUME NEW s \in Seq(Chars), NEW i \in 1..Len(s), NEW j \in 1..Len(s),
         s[i] # "space", s[j] # "space",
         \A k \in 1..Len(s) : s[k] # "space" => i <= k /\ k <= j
  PROVE  trimOWS(s) = SubSeq(s, i, j)
<1> DEFINE ink == {k \in 1..Len(s) : s[k] # "space"}
<1>1. Len(s) \in Nat
  OBVIOUS
<1>2. i \in ink /\ j \in ink /\ ink \in SUBSET Nat /\ ink \in SUBSET (0..Len(s)) /\ ink # {}
  BY <1>1
<1>3. \A k \in ink : i <= k /\ k <= j
  OBVIOUS
<1>4. trimOWS(s) = SubSeq(s, Min(ink), Max(ink))
  BY <1>2 DEF trimOWS
<1> HIDE DEF ink
<1>5. Min(ink) = i
  BY <1>2, <1>3, LeastIs
<1>6. Max(ink) \in ink /\ \A k \in ink : Max(ink) >= k
  BY <1>1, <1>2, GreatestOf
<1>7. Max(ink) = j
  <2>1. Max(ink) \in Nat /\ j \in Nat /\ Max(ink) >= j /\ Max(ink) <= j
    BY <1>2, <1>3, <1>6
  <2> QED
    BY <2>1
<1> QED
  BY <1>4, <1>5, <1>7, Zenon

LEMMA TrimNothing ==
  ASSUME NEW s \in Seq(Chars), s # <<>>, s[1] # "space", s[Len(s)] # "space"
  PROVE  trimOWS(s) = s
<1>1. /\ 1 \in 1..Len(s) /\ Len(s) \in 1..Len(s)
      /\ \A k \in 1..Len(s) : s[k] # "space" => 1 <= k /\ k <= Len(s)
  OBVIOUS
<1>2. trimOWS(s) = SubSeq(s, 1, Len(s))
  BY <1>1, TrimFacts
<1> QED
  BY <1>2, SubSeqFull

(* One space before a text, and one behind it. *)
LEMMA TrimOne ==
  ASSUME NEW s \in Seq(Chars), s # <<>>, s[1] # "space"
  PROVE  /\ s[Len(s)] # "space" => trimOWS(<<"space">> \o s) = s
         /\ trimOWS(Append(s, "space")) = trimOWS(s)
<1>1. "space" \in Chars /\ Len(s) \in Nat /\ Len(s) >= 1
  BY DEF Chars
<1>2. ASSUME s[Len(s)] # "space" PROVE trimOWS(<<"space">> \o s) = s
  <2> DEFINE b == <<"space">>
             t == b \o s
             n == 1 + Len(s)
  <2>1. b \in Seq(Chars) /\ Len(b) = 1 /\ b[1] = "space"
    BY <1>1
  <2>2. /\ t \in Seq(Chars) /\ Len(t) = n
        /\ \A k \in 1..n : t[k] = IF k <= 1 THEN b[k] ELSE s[k - 1]
    BY <2>1, ConcatProperties
  <2>3. SubSeq(t, 2, n) = s
    <3>1. SubSeq(t, Len(b) + 1, Len(b) + Len(s)) = s
      BY <2>1, PrefixFacts
    <3> QED
      BY <2>1, <3>1
  <2> HIDE DEF b, t
  <2>4. 2 \in 1..n /\ n \in 1..n /\ n \in Nat
    BY <1>1
  <2>5. t[1] = "space" /\ t[2] = s[1] /\ t[n] = s[Len(s)]
    <3>1. 2 - 1 = 1 /\ n - 1 = Len(s) /\ 1 \in 1..n /\ ~(n <= 1)
      BY <1>1
    <3> QED
      BY <2>1, <2>2, <2>4, <3>1
  <2> HIDE DEF n
  <2>6. \A k \in 1..Len(t) : t[k] # "space" => 2 <= k /\ k <= n
    BY <2>2, <2>4, <2>5
  <2>7. trimOWS(t) = SubSeq(t, 2, n)
    BY <1>2, <2>2, <2>4, <2>5, <2>6, TrimFacts
  <2> QED
    BY <2>3, <2>7 DEF t, b
<1>3. trimOWS(Append(s, "space")) = trimOWS(s)
  <2> DEFINE t == Append(s, "space")
             ink == {k \in 1..Len(s) : s[k] # "space"}
  <2>1. /\ t \in Seq(Chars) /\ Len(t) = Len(s) + 1 /\ t[Len(s) + 1] = "space"
        /\ \A k \in 1..Len(s) : t[k] = s[k]
    BY <1>1, AppendProperties
  <2>2. t = s \o <<"space">> /\ <<"space">> \in Seq(Chars)
    BY <1>1, AppendIsConcat
  <2> HIDE DEF t
  <2>3. {k \in 1..Len(t) : t[k] # "space"} = ink
    BY <1>1, <2>1
  <2>4. 1 \in ink /\ ink # {} /\ ink \in SUBSET (0..Len(s))
    BY <1>1
  <2>5. /\ trimOWS(s) = SubSeq(s, Min(ink), Max(ink))
        /\ trimOWS(t) = SubSeq(t, Min(ink), Max(ink))
    BY <2>3, <2>4 DEF trimOWS
  <2> HIDE DEF ink
  <2>6. Max(ink) \in ink
    BY <1>1, <2>4, GreatestOf
  <2>7. Min(ink) = 1
    <3>1. ink \in SUBSET Nat /\ \A k \in ink : 1 <= k
      BY <2>4 DEF ink
    <3> QED
      BY <2>4, <3>1, LeastIs
  <2>8. SubSeq(t, 1, Max(ink)) = SubSeq(s, 1, Max(ink))
    <3>1. Max(ink) \in 0..Len(s)
      BY <2>4, <2>6
    <3> QED
      BY <2>2, <3>1, PrefixFacts
  <2> QED
    BY <2>5, <2>7, <2>8 DEF t
<1> QED
  BY <1>2, <1>3

(* The item behind a parameter. *)
LEMMA BehindFacts ==
  /\ Behind \in Seq(Chars) /\ Behind # <<>>
  /\ Behind[1] # "space" /\ Behind[Len(Behind)] # "space"
<1> DEFINE s == <<"comma">>
<1>1. s \in Seq(Chars)
  BY DEF Chars
<1>2. Behind = writeQuoted(s)
  BY DEF Behind
<1> HIDE DEF s
<1>3. /\ Behind \in Seq(Chars) /\ Len(Behind) \in Nat /\ Len(Behind) >= 1
      /\ Behind[1] = "quote" /\ Behind[Len(Behind)] = "quote"
  BY <1>1, <1>2, BodyFacts
<1> QED
  BY <1>3

(* split cuts between the two. *)
LEMMA CutsBehind ==
  ASSUME NEW p \in Seq(Chars), NEW w, w = Format(p)
  PROVE  splitTrimOWS(w \o <<"comma", "space">> \o Behind, "comma") = <<w, Behind>>
<1> DEFINE sep == <<"comma", "space">>
           x == <<"comma">>
           y == <<"space">>
           r == y \o Behind
           t == w \o sep \o Behind
           m == Len(w)
<1>1. /\ w \in Seq(Chars) /\ m \in Nat /\ m >= 1 /\ w # <<>>
      /\ w[1] # "space" /\ w[Len(w)] # "space" /\ ~Inside(w)
      /\ \A i \in 1..m : w[i] = "comma" => Inside(SubSeq(w, 1, i - 1))
  BY FormatFacts
<1>2. /\ x \in Seq(Chars) /\ y \in Seq(Chars) /\ sep \in Seq(Chars)
      /\ Len(x) = 1 /\ x[1] = "comma"
  BY DEF Chars
<1>3. sep = x \o y
  <2>1. "comma" \in Chars /\ "space" \in Chars
    BY DEF Chars
  <2> QED
    BY <2>1, PairIs, AppendIsConcat
<1>4. Behind \in Seq(Chars)
  BY BehindFacts
<1>5. trimOWS(r) = Behind
  BY BehindFacts, TrimOne
<1> HIDE DEF sep, x, y
<1>6. r \in Seq(Chars) /\ x \o r \in Seq(Chars)
  BY <1>2, <1>4, ConcatProperties
<1>7. t = w \o (x \o r) /\ t = (w \o x) \o r
  <2>1. t = w \o (sep \o Behind)
    BY <1>1, <1>2, <1>4, ThreeTexts, Zenon
  <2>2. sep \o Behind = x \o r
    <3>1. (x \o y) \o Behind = x \o (y \o Behind)
      BY <1>2, <1>4, ThreeTexts, Zenon
    <3> QED
      BY <1>3, <3>1, Zenon
  <2>3. (w \o x) \o r = w \o (x \o r)
    <3> HIDE DEF r
    <3> QED
      BY <1>1, <1>2, <1>6, ThreeTexts, Zenon
  <2> QED
    BY <2>1, <2>2, <2>3, Zenon
<1> HIDE DEF r, t
<1>8. /\ w \o x \in Seq(Chars) /\ Len(w \o x) = m + 1
      /\ Len(r) \in Nat /\ Len(t) = (m + 1) + Len(r) /\ t \in Seq(Chars)
  <2>1. w \o x \in Seq(Chars) /\ Len(w \o x) = m + 1
    <3>1. w \o x \in Seq(Chars) /\ Len(w \o x) = Len(w) + Len(x)
      BY <1>1, <1>2, TwoTexts, Zenon
    <3> QED
      BY <1>2, <3>1
  <2> DEFINE z == w \o x
  <2>2. z \in Seq(Chars) /\ t = z \o r /\ Len(z) = m + 1
    BY <1>7, <2>1
  <2> HIDE DEF z
  <2>3. Len(r) \in Nat /\ Len(t) = (m + 1) + Len(r) /\ t \in Seq(Chars)
    BY <1>6, <2>2, TwoTexts
  <2> QED
    BY <2>1, <2>3
<1>9. (\A i \in 1..m : t[i] = w[i]) /\ t[m + 1] = "comma"
  <2> DEFINE z == x \o r
  <2>1. /\ \A i \in 1..(m + Len(z)) : (w \o z)[i] = IF i <= m THEN w[i] ELSE z[i - m]
        /\ z \in Seq(Chars)
    BY <1>1, <1>6, ConcatProperties
  <2>2. z[1] = x[1] /\ Len(z) >= 1 /\ Len(z) \in Nat
    <3>1. /\ \A i \in 1..(1 + Len(r)) : z[i] = IF i <= 1 THEN x[i] ELSE r[i - 1]
          /\ Len(z) = 1 + Len(r)
      <4>1. /\ \A i \in 1..(Len(x) + Len(r)) :
                 (x \o r)[i] = IF i <= Len(x) THEN x[i] ELSE r[i - Len(x)]
            /\ Len(x \o r) = Len(x) + Len(r)
        BY <1>2, <1>6, TwoTexts, Zenon
      <4> QED
        BY <1>2, <4>1, Zenon
    <3> QED
      BY <1>8, <3>1
  <2>3. t = w \o z
    BY <1>7
  <2> HIDE DEF z
  <2>4. m + 1 \in 1..(m + Len(z)) /\ ~(m + 1 <= m) /\ (m + 1) - m = 1
    BY <1>1, <2>2
  <2>5. t[m + 1] = z[1]
    BY <2>1, <2>3, <2>4
  <2>6. \A i \in 1..m : i \in 1..(m + Len(z)) /\ i <= m
    BY <1>1, <2>2
  <2> QED
    BY <1>2, <2>1, <2>2, <2>3, <2>5, <2>6
<1>10. SubSeq(t, 1, m) = w /\ \A k \in 0..m : SubSeq(t, 1, k) = SubSeq(w, 1, k)
  <2> DEFINE z == x \o r
  <2>1. z \in Seq(Chars) /\ t = w \o z
    BY <1>6, <1>7
  <2> HIDE DEF z
  <2> QED
    BY <1>1, <2>1, PrefixFacts
<1>11. SubSeq(t, m + 2, Len(t)) = r
  <2> DEFINE z == w \o x
  <2>1. z \in Seq(Chars) /\ t = z \o r /\ Len(z) = m + 1
    BY <1>7, <1>8
  <2> HIDE DEF z
  <2>2. SubSeq(z \o r, Len(z) + 1, Len(z) + Len(r)) = r
    BY <1>6, <2>1, PrefixFacts
  <2>3. Len(z) + 1 = m + 2 /\ Len(z) + Len(r) = Len(t)
    BY <1>1, <1>8, <2>1
  <2> QED
    BY <2>1, <2>2, <2>3
<1>12. Cut(t, "comma") = m + 1
  <2> DEFINE K == {i \in 1..Len(t) : t[i] = "comma" /\ ~Inside(SubSeq(t, 1, i - 1))}
  <2>1. m + 1 \in K
    <3>1. m + 1 \in 1..Len(t) /\ (m + 1) - 1 = m
      BY <1>1, <1>8
    <3> QED
      BY <1>1, <1>9, <1>10, <3>1
  <2>2. ASSUME NEW i \in K PROVE m + 1 <= i
    <3> SUFFICES ASSUME ~(m + 1 <= i) PROVE FALSE
      OBVIOUS
    <3>1. i \in 1..m /\ i - 1 \in 0..m
      BY <1>1, <1>8
    <3>2. w[i] = "comma" /\ ~Inside(SubSeq(w, 1, i - 1))
      BY <1>9, <1>10, <3>1
    <3> QED
      BY <1>1, <3>1, <3>2
  <2>3. K \in SUBSET Nat
    OBVIOUS
  <2>4. Cut(t, "comma") = IF K = {} THEN 0 ELSE Min(K)
    BY DEF Cut
  <2> HIDE DEF K
  <2>5. Min(K) = m + 1
    BY <2>1, <2>2, <2>3, LeastIs
  <2> QED
    BY <2>1, <2>4, <2>5
<1>13. trimOWS(w) = w
  BY <1>1, TrimNothing
<1>14. splitTrimOWS(t, "comma") = <<trimOWS(SubSeq(t, 1, m)), trimOWS(SubSeq(t, m + 2, Len(t)))>>
  <2>1. m + 1 # 0 /\ (m + 1) - 1 = m /\ (m + 1) + 1 = m + 2
    BY <1>1
  <2> QED
    BY <1>12, <2>1 DEF splitTrimOWS
<1>15. splitTrimOWS(t, "comma") = <<w, Behind>>
  BY <1>5, <1>10, <1>11, <1>13, <1>14, Zenon
<1> QED
  BY <1>15 DEF t, sep

(* What parseQuoted makes of a text between quotes. *)
LEMMA ParseIs ==
  ASSUME NEW s \in Seq(Chars), Len(s) >= 2, s[1] = "quote", s[Len(s)] = "quote",
         NEW st, st = Loop(UnescapeTurn, Read(<<>>), SubSeq(s, 2, Len(s) - 1))
  PROVE  parseQuoted(s) = IF st.e \/ st.err THEN Error ELSE Value(st.text)
<1>1. ~isToken(s) /\ ~(Len(s) < 2)
  <2>1. 1 \in 1..Len(s)
    OBVIOUS
  <2> QED
    BY <2>1, TokenFacts
<1>2. Last(s) = "quote"
  BY DEF Last
<1> QED
  BY <1>1, <1>2 DEF parseQuoted, UnescapeTurn, Read

(* And of one without. *)
LEMMA ParseFails ==
  ASSUME NEW s \in Seq(Chars), s # <<>>, s[1] = "quote", Len(s) < 2 \/ s[Len(s)] # "quote"
  PROVE  parseQuoted(s) = Error
<1>1. ~isToken(s)
  <2>1. 1 \in 1..Len(s)
    OBVIOUS
  <2> QED
    BY <2>1, TokenFacts
<1> QED
  BY <1>1 DEF parseQuoted, Last

(* Whatever Format writes is read back, as UTF-8. *)
LEMMA FormatIsParsed ==
  ASSUME NEW p \in Seq(Chars)
  PROVE  parseQuoted(Format(p)) = Value(Decoded(p))
<1>1. CASE isToken(p)
  <2>1. parseQuoted(Format(p)) = Value(p)
    BY <1>1 DEF Format, parseQuoted
  <2>2. Decoded(p) = p
    BY <1>1, DecodedFacts
  <2> QED
    BY <2>1, <2>2
<1>2. CASE ~isToken(p)
  <2> DEFINE w == writeQuoted(p)
             st == Loop(UnescapeTurn, Read(<<>>), SubSeq(w, 2, Len(w) - 1))
  <2>1. Format(p) = w
    BY <1>2 DEF Format
  <2>2. /\ w \in Seq(Chars) /\ Len(w) >= 2 /\ w[1] = "quote" /\ w[Len(w)] = "quote"
        /\ Len(w) - 1 = Len(Opened(p)) /\ w = Opened(p) \o <<"quote">>
        /\ Len(Opened(p)) = 1 + Len(Escaped(p)) /\ Opened(p) \in Seq(Chars)
        /\ Len(Escaped(p)) \in Nat
    BY BodyFacts
  <2>3. SubSeq(w, 2, Len(w) - 1) = Escaped(p)
    <3> DEFINE a == <<"quote">>
               b == Escaped(p)
    <3>1. a \in Seq(Chars) /\ b \in Seq(Chars) /\ Len(a) = 1
      BY EscapedFacts DEF Chars
    <3>2. w = (a \o b) \o a /\ Len(w) - 1 = 1 + Len(b) /\ Len(b) \in Nat
      BY <2>2 DEF Opened
    <3>3. Len(a) + 1 = 2 /\ Len(a) + Len(b) = Len(w) - 1
      BY <3>1, <3>2
    <3> HIDE DEF a, b, w
    <3>4. SubSeq((a \o b) \o a, Len(a) + 1, Len(a) + Len(b)) = b
      BY <3>1, MiddleFacts, Zenon
    <3>5. SubSeq(w, 2, Len(w) - 1) = b
      BY <3>2, <3>3, <3>4, Zenon
    <3> QED
      BY <3>5 DEF b
  <2>4. st = Read(Decoded(p))
    BY <2>3, ReadAgain
  <2> HIDE DEF w
  <2>5. parseQuoted(w) = IF st.e \/ st.err THEN Error ELSE Value(st.text)
    BY <2>2, ParseIs
  <2> HIDE DEF st
  <2>6. ~st.e /\ ~st.err /\ st.text = Decoded(p)
    BY <2>4 DEF Read
  <2> QED
    BY <2>1, <2>5, <2>6
<1> QED
  BY <1>1, <1>2

(* A body that goes on by a character. *)
LEMMA BodyGoesOn ==
  ASSUME NEW u \in Seq(Chars), NEW c \in Chars
  PROVE  /\ Append(u, c) \in Seq(Chars) /\ Escape(c) \in Seq(Chars) /\ Opened(u) \in Seq(Chars)
         /\ Opened(Append(u, c)) = Opened(u) \o Escape(c)
<1> DEFINE a == <<"quote">>
<1>1. a \in Seq(Chars) /\ Escaped(u) \in Seq(Chars) /\ Escape(c) \in Seq(Chars)
  <2>1. a \in Seq(Chars)
    BY DEF Chars
  <2> QED
    BY <2>1, EscapedFacts, EscapeFacts
<1>2. Escaped(Append(u, c)) = Escaped(u) \o Escape(c)
  BY EscapedFacts
<1>3. Opened(u) = a \o Escaped(u) /\ Opened(Append(u, c)) = a \o Escaped(Append(u, c))
  BY DEF Opened
<1>4. Append(u, c) \in Seq(Chars) /\ Opened(u) \in Seq(Chars)
  BY BodyFacts
<1> HIDE DEF a
<1>5. (a \o Escaped(u)) \o Escape(c) = a \o (Escaped(u) \o Escape(c))
  BY <1>1, ThreeTexts, Zenon
<1> QED
  BY <1>1, <1>2, <1>3, <1>4, <1>5, Zenon

(* A quoted string that is cut off is refused. *)
LEMMA BodyIsRefused == \A s \in Seq(Chars) : parseQuoted(trimOWS(Opened(s))) = Error
<1> DEFINE P == {s \in Seq(Chars) : parseQuoted(trimOWS(Opened(s))) = Error}
<1>1. <<>> \in P
  <2>1. <<>> \in Seq(Chars) /\ Len(<<>>) = 0
    OBVIOUS
  <2> DEFINE b == Opened(<<>>)
  <2>2. b \in Seq(Chars) /\ Len(b) = 1 /\ b[1] = "quote"
    <3>1. b = <<"quote">>
      BY BodyEmpty
    <3> HIDE DEF b
    <3> QED
      BY <3>1 DEF Chars
  <2> HIDE DEF b
  <2>3. trimOWS(b) = b
    BY <2>2, TrimNothing
  <2>4. parseQuoted(b) = Error
    BY <2>2, ParseFails
  <2> QED
    BY <2>1, <2>3, <2>4, Zenon DEF b
<1>2. ASSUME NEW u \in P, NEW c \in Chars PROVE Append(u, c) \in P
  <2>1. u \in Seq(Chars) /\ parseQuoted(trimOWS(Opened(u))) = Error
    OBVIOUS
  <2> HIDE DEF P
  <2> DEFINE a == Opened(u)
             e == Escape(c)
             b == Opened(Append(u, c))
  <2>2. /\ Append(u, c) \in Seq(Chars) /\ e \in Seq(Chars) /\ a \in Seq(Chars) /\ b = a \o e
    BY <2>1, BodyGoesOn
  <2>3. a[1] = "quote" /\ Len(a) \in Nat /\ Len(a) >= 1 /\ a # <<>>
    BY <2>1, BodyFacts
  <2>4. /\ b \in Seq(Chars) /\ Len(b) \in Nat /\ Len(b) >= 1 /\ b # <<>> /\ b[1] = "quote"
    BY <2>1, <2>2, BodyFacts
  <2>5. CASE c = "space"
    <3>1. e = <<c>>
      BY <2>5, EscapeFacts
    <3>2. b = Append(a, "space")
      BY <2>2, <2>5, <3>1, AppendIsConcat
    <3> HIDE DEF a, b, e
    <3>3. trimOWS(b) = trimOWS(a)
      BY <2>2, <2>3, <3>2, TrimOne
    <3> QED
      BY <2>1, <2>2, <3>3 DEF a, b, P
  <2>6. CASE c # "space"
    <3>1. /\ Len(e) \in Nat /\ Len(e) >= 1 /\ e[Len(e)] # "space"
          /\ c # "quote" => e[Len(e)] # "quote"
          /\ c = "quote" => e = <<"backslash", "quote">>
      <4>1. CASE c \in {"backslash", "quote"} /\ e = <<"backslash", c>>
        <5>1. Len(<<"backslash", c>>) = 2 /\ <<"backslash", c>>[2] = c
          OBVIOUS
        <5> HIDE DEF e
        <5> QED
          BY <2>6, <4>1, <5>1
      <4>2. CASE c = "lf" /\ e = <<"backslash", "n">>
        <5>1. Len(<<"backslash", "n">>) = 2 /\ <<"backslash", "n">>[2] = "n"
          OBVIOUS
        <5> HIDE DEF e
        <5> QED
          BY <4>2, <5>1
      <4>3. CASE c \notin {"backslash", "quote", "lf"} /\ e = <<c>>
        <5>1. Len(<<c>>) = 1 /\ <<c>>[1] = c
          OBVIOUS
        <5> HIDE DEF e
        <5> QED
          BY <2>6, <4>3, <5>1
      <4> QED
        BY <4>1, <4>2, <4>3, EscapeFacts, Zenon
    <3> HIDE DEF a, e, b
    <3>2. Len(b) = Len(a) + Len(e) /\ b[Len(b)] = e[Len(e)]
      <4>1. /\ Len(a \o e) = Len(a) + Len(e)
            /\ \A i \in 1..(Len(a) + Len(e)) :
                 (a \o e)[i] = IF i <= Len(a) THEN a[i] ELSE e[i - Len(a)]
        BY <2>2, TwoTexts, Zenon
      <4>2. /\ Len(b) \in 1..(Len(a) + Len(e)) /\ ~(Len(b) <= Len(a))
            /\ Len(b) - Len(a) = Len(e)
        BY <2>2, <2>3, <3>1, <4>1
      <4> QED
        BY <2>2, <4>1, <4>2
    <3>3. trimOWS(b) = b
      BY <2>4, <3>1, <3>2, TrimNothing
    <3>4. CASE c # "quote"
      <4>1. parseQuoted(b) = Error
        BY <2>4, <3>1, <3>2, <3>4, ParseFails
      <4> QED
        BY <2>2, <3>3, <4>1 DEF b, P
    <3>5. CASE c = "quote"
      <4> DEFINE mark == <<"quote">>
                 h == <<"backslash">>
                 v == Escaped(u)
                 st == Loop(UnescapeTurn, Read(<<>>), SubSeq(b, 2, Len(b) - 1))
      <4>1. /\ mark \in Seq(Chars) /\ h \in Seq(Chars) /\ v \in Seq(Chars)
            /\ Len(mark) = 1 /\ Len(h) = 1 /\ Len(v) \in Nat
        BY <2>1, EscapedFacts, BodyFacts DEF Chars
      <4>2. e = h \o mark
        <5>1. "backslash" \in Chars /\ "quote" \in Chars
          BY DEF Chars
        <5> QED
          BY <3>1, <3>5, <5>1, PairIs, AppendIsConcat
      <4>3. a = mark \o v
        BY DEF a, Opened
      <4>4. Len(b) = Len(v) + 3 /\ b[Len(b)] = "quote"
        <5>1. Len(a) = Len(v) + 1 /\ Len(e) = 2 /\ e[2] = "quote"
          BY <2>1, <3>1, <3>5, BodyFacts DEF a
        <5> QED
          BY <3>2, <4>1, <5>1
      <4>5. Loop(UnescapeTurn, Read(<<>>), v \o h) = Half(Decoded(u))
        <5>1. Loop(UnescapeTurn, Read(<<>>), v) = Read(Decoded(u))
          BY <2>1, ReadAgain
        <5>2. Loop(UnescapeTurn, Read(Decoded(u)), h) = Half(Decoded(u))
          <6>1. "backslash" \in Chars
            BY DEF Chars
          <6>2. UnescapeTurn[<<Read(Decoded(u)), "backslash">>] = Half(Decoded(u))
            BY <2>1, DecodedFacts, UnescapeTurns
          <6> QED
            BY <6>1, <6>2, LoopOne
        <5> HIDE DEF h, v
        <5> QED
          BY <4>1, <5>1, <5>2, LoopConcat
      <4> HIDE DEF mark, h, v
      <4>6. b = (mark \o (v \o h)) \o mark /\ v \o h \in Seq(Chars) /\ Len(v \o h) = Len(v) + 1
        <5>1. v \o h \in Seq(Chars) /\ Len(v \o h) = Len(v) + Len(h)
          BY <4>1, TwoTexts, Zenon
        <5>2. (mark \o v) \o (h \o mark) = ((mark \o v) \o h) \o mark
          <6>1. mark \o v \in Seq(Chars)
            BY <4>1, TwoTexts, Zenon
          <6> QED
            BY <4>1, <6>1, ThreeTexts, Zenon
        <5>3. (mark \o v) \o h = mark \o (v \o h)
          BY <4>1, ThreeTexts, Zenon
        <5>4. b = (mark \o (v \o h)) \o mark
          BY <2>2, <4>2, <4>3, <5>2, <5>3, Zenon
        <5> QED
          BY <4>1, <5>1, <5>4
      <4>7. SubSeq(b, 2, Len(b) - 1) = v \o h
        <5> DEFINE z == v \o h
        <5>1. z \in Seq(Chars) /\ b = (mark \o z) \o mark /\ Len(z) = Len(v) + 1
          BY <4>6
        <5> HIDE DEF z
        <5>2. SubSeq((mark \o z) \o mark, Len(mark) + 1, Len(mark) + Len(z)) = z
          BY <4>1, <5>1, MiddleFacts, Zenon
        <5>3. Len(mark) + 1 = 2 /\ Len(mark) + Len(z) = Len(b) - 1
          BY <4>1, <4>4, <5>1
        <5>4. SubSeq(b, 2, Len(b) - 1) = z
          BY <5>1, <5>2, <5>3, Zenon
        <5> QED
          BY <5>4 DEF z
      <4>8. st = Half(Decoded(u))
        BY <4>5, <4>7, Zenon
      <4>9. parseQuoted(b) = IF st.e \/ st.err THEN Error ELSE Value(st.text)
        BY <2>4, <4>1, <4>4, ParseIs
      <4> HIDE DEF st
      <4>10. st.e
        BY <4>8 DEF Half
      <4>11. parseQuoted(b) = Error
        BY <4>9, <4>10
      <4> QED
        BY <2>2, <3>3, <4>11 DEF b, P
    <3> QED
      BY <3>4, <3>5
  <2> QED
    BY <2>5, <2>6
<1>3. P \in SUBSET Seq(Chars)
  OBVIOUS
<1> HIDE DEF P
<1>4. \A s \in Seq(Chars) : s \in P
  BY <1>1, <1>2, <1>3, TextInduction
<1> QED
  BY <1>4 DEF P

(* A text without a semicolon. *)
Plain(s) == \A i \in 1..Len(s) : s[i] # "semicolon"

LEMMA PlainFacts ==
  ASSUME NEW a \in Seq(Chars), NEW b \in Seq(Chars)
  PROVE  Plain(a \o b) <=> Plain(a) /\ Plain(b)
<1> DEFINE m == Len(a)
           n == Len(b)
<1>1. /\ m \in Nat /\ n \in Nat /\ Len(a \o b) = m + n
      /\ \A i \in 1..(m + n) : (a \o b)[i] = IF i <= m THEN a[i] ELSE b[i - m]
  BY TwoTexts
<1> HIDE DEF m, n
<1>2. ASSUME Plain(a), Plain(b) PROVE Plain(a \o b)
  <2> SUFFICES ASSUME NEW i \in 1..(m + n) PROVE (a \o b)[i] # "semicolon"
    BY <1>1 DEF Plain
  <2>1. i \in 1..m \/ (~(i <= m) /\ i - m \in 1..n)
    BY <1>1
  <2> QED
    BY <1>1, <1>2, <2>1 DEF Plain, m, n
<1>3. ASSUME Plain(a \o b) PROVE Plain(a) /\ Plain(b)
  <2>1. ASSUME NEW i \in 1..m PROVE a[i] # "semicolon"
    <3>1. i \in 1..(m + n) /\ i <= m
      BY <1>1
    <3> QED
      BY <1>1, <1>3, <3>1 DEF Plain
  <2>2. ASSUME NEW i \in 1..n PROVE b[i] # "semicolon"
    <3>1. m + i \in 1..(m + n) /\ ~(m + i <= m) /\ (m + i) - m = i
      BY <1>1
    <3>2. (a \o b)[m + i] = b[i]
      BY <1>1, <3>1
    <3> QED
      BY <1>1, <1>3, <3>1, <3>2 DEF Plain
  <2> QED
    BY <2>1, <2>2 DEF Plain, m, n
<1> QED
  BY <1>2, <1>3

LEMMA PlainEscape ==
  ASSUME NEW c \in Chars
  PROVE  (Plain(Escape(c)) <=> c # "semicolon") /\ (Plain(<<c>>) <=> c # "semicolon")
<1>1. Plain(<<c>>) <=> c # "semicolon"
  BY DEF Plain
<1>2. c # "semicolon" => Plain(<<"backslash", c>>) /\ Plain(<<"backslash", "n">>)
  BY DEF Plain
<1>3. c = "semicolon" => Escape(c) = <<c>>
  BY EscapeFacts
<1> QED
  BY <1>1, <1>2, <1>3, EscapeFacts

(* What is written up to the first semicolon. *)
LEMMA Semicolons ==
  \A s \in Seq(Chars) :
    /\ Plain(s) => Plain(Opened(s))
    /\ ~Plain(s) => \E u, r \in Seq(Chars) :
                      Plain(Opened(u)) /\ Opened(s) = Opened(u) \o (<<"semicolon">> \o r)
<1> DEFINE mark == <<"semicolon">>
           Parted(s) == \E u, r \in Seq(Chars) :
                          Plain(Opened(u)) /\ Opened(s) = Opened(u) \o (mark \o r)
           P == {s \in Seq(Chars) : (Plain(s) => Plain(Opened(s))) /\ (~Plain(s) => Parted(s))}
<1>1. <<>> \in P
  <2>1. <<>> \in Seq(Chars) /\ Plain(<<>>)
    BY DEF Plain
  <2>2. Plain(Opened(<<>>))
    <3>1. Plain(<<"quote">>)
      BY DEF Plain
    <3> QED
      BY <3>1, BodyEmpty, Zenon
  <2> HIDE DEF Parted
  <2> QED
    BY <2>1, <2>2, Zenon
<1>2. ASSUME NEW u \in P, NEW c \in Chars PROVE Append(u, c) \in P
  <2> DEFINE s == Append(u, c)
             e == Escape(c)
  <2>1. u \in Seq(Chars) /\ (Plain(u) => Plain(Opened(u))) /\ (~Plain(u) => Parted(u))
    OBVIOUS
  <2> HIDE DEF P
  <2>2. /\ s \in Seq(Chars) /\ e \in Seq(Chars) /\ Opened(u) \in Seq(Chars)
        /\ Opened(s) = Opened(u) \o e
    BY <2>1, BodyGoesOn
  <2>3. Plain(s) <=> Plain(u) /\ c # "semicolon"
    <3>1. s = u \o <<c>> /\ <<c>> \in Seq(Chars)
      BY <2>1, AppendIsConcat
    <3> QED
      <4>1. Plain(u \o <<c>>) <=> Plain(u) /\ Plain(<<c>>)
        BY <2>1, <3>1, PlainFacts, Zenon
      <4>2. Plain(<<c>>) <=> c # "semicolon"
        BY PlainEscape
      <4> QED
        BY <3>1, <4>1, <4>2, Zenon
  <2>4. mark \in Seq(Chars) /\ <<>> \in Seq(Chars)
    BY DEF Chars
  <2> HIDE DEF s, mark
  <2>5. ASSUME Plain(s) PROVE Plain(Opened(s))
    <3>1. Plain(Opened(u)) /\ Plain(e)
      BY <2>1, <2>3, <2>5, PlainEscape
    <3> HIDE DEF e
    <3> QED
      BY <2>2, <3>1, PlainFacts
  <2>6. ASSUME ~Plain(u) PROVE Parted(s)
    <3>1. PICK v \in Seq(Chars), r \in Seq(Chars) :
            Plain(Opened(v)) /\ Opened(u) = Opened(v) \o (mark \o r)
      BY <2>1, <2>6
    <3> HIDE DEF e
    <3>2. Opened(v) \in Seq(Chars) /\ mark \o r \in Seq(Chars) /\ r \o e \in Seq(Chars)
      BY <2>2, <2>4, BodyFacts, TwoTexts
    <3>3. Opened(u) \o e = Opened(v) \o (mark \o (r \o e))
      <4>1. e \in Seq(Chars)
        BY <2>2
      <4>2. ASSUME NEW x, NEW y, x \in Seq(Chars), y \in Seq(Chars)
            PROVE  (x \o y) \o e = x \o (y \o e)
        BY <4>1, <4>2, ThreeTexts
      <4>3. /\ mark \in Seq(Chars) /\ Opened(v) \in Seq(Chars) /\ mark \o r \in Seq(Chars)
        BY <2>4, <3>2
      <4>4. (Opened(v) \o (mark \o r)) \o e = Opened(v) \o ((mark \o r) \o e)
        BY <4>2, <4>3
      <4>5. (mark \o r) \o e = mark \o (r \o e)
        BY <4>2, <4>3
      <4> QED
        BY <3>1, <4>4, <4>5, Zenon
    <3>4. Opened(s) = Opened(v) \o (mark \o (r \o e))
      BY <2>2, <3>3, Zenon
    <3> QED
      BY <3>1, <3>2, <3>4, Zenon
  <2>7. ASSUME Plain(u), c = "semicolon" PROVE Parted(s)
    <3>1. e = mark
      BY <2>7, EscapeFacts DEF mark
    <3>2. mark \o <<>> = mark
      BY <2>4, ConcatEmptySeq
    <3>3. Plain(Opened(u)) /\ Opened(s) = Opened(u) \o (mark \o <<>>)
      BY <2>1, <2>2, <2>7, <3>1, <3>2
    <3> QED
      BY <2>1, <2>4, <3>3, Zenon
  <2> HIDE DEF Parted
  <2>8. (Plain(s) => Plain(Opened(s))) /\ (~Plain(s) => Parted(s))
    BY <2>3, <2>5, <2>6, <2>7
  <2> QED
    BY <2>2, <2>8 DEF P, s
<1>3. P \in SUBSET Seq(Chars)
  OBVIOUS
<1> HIDE DEF P
<1>4. \A s \in Seq(Chars) : s \in P
  BY <1>1, <1>2, <1>3, TextInduction
<1> QED
  BY <1>4 DEF P

(* One part only. *)
LEMMA ParamsOfPlain ==
  ASSUME NEW w \in Seq(Chars), Plain(w), NEW p, parseQuoted(trimOWS(w)) = Value(p)
  PROVE  ParseParams(w) = Value(p)
<1> DEFINE n == Len(w)
           cuts == {0, n + 1} \cup {i \in 1..n : w[i] = "semicolon"}
           next(i) == Min({j \in cuts : j > i})
           values == {parseQuoted(trimOWS(SubSeq(w, i + 1, next(i) - 1))) : i \in cuts \ {n + 1}}
<1>1. n \in Nat
  OBVIOUS
<1>2. cuts = {0, n + 1}
  BY DEF Plain
<1>3. next(0) = n + 1
  <2> DEFINE K == {j \in cuts : j > 0}
  <2>1. K \in SUBSET Nat /\ n + 1 \in K /\ \A k \in K : n + 1 <= k
    BY <1>1, <1>2
  <2> HIDE DEF K
  <2>2. Min(K) = n + 1
    BY <2>1, LeastIs
  <2> QED
    BY <2>2 DEF K
<1>4. cuts \ {n + 1} = {0}
  BY <1>1, <1>2
<1>5. ParseParams(w) = IF Error \in values THEN Error ELSE CHOOSE v \in values : TRUE
  BY DEF ParseParams
<1>6. values = {Value(p)}
  <2>1. 0 + 1 = 1 /\ (n + 1) - 1 = n
    BY <1>1
  <2>2. SubSeq(w, 1, n) = w
    BY SubSeqFull
  <2> HIDE DEF cuts, next, n
  <2>3. values = {parseQuoted(trimOWS(SubSeq(w, 0 + 1, next(0) - 1)))}
    BY <1>4
  <2>4. parseQuoted(trimOWS(SubSeq(w, 0 + 1, next(0) - 1))) = Value(p)
    BY <1>3, <2>1, <2>2, Zenon
  <2> QED
    BY <2>3, <2>4, Zenon
<1> HIDE DEF values
<1>7. Error # Value(p)
  <2>1. ~Error.ok /\ Value(p).ok
    BY DEF Error, Value
  <2> QED
    BY <2>1
<1> QED
  BY <1>5, <1>6, <1>7

(* A first part that is refused. *)
LEMMA ParamsOfParts ==
  ASSUME NEW w \in Seq(Chars), NEW m \in Nat, m + 1 \in 1..Len(w), w[m + 1] = "semicolon",
         \A i \in 1..m : w[i] # "semicolon", parseQuoted(trimOWS(SubSeq(w, 1, m))) = Error
  PROVE  ParseParams(w) = Error
<1> DEFINE n == Len(w)
           cuts == {0, n + 1} \cup {i \in 1..n : w[i] = "semicolon"}
           next(i) == Min({j \in cuts : j > i})
           values == {parseQuoted(trimOWS(SubSeq(w, i + 1, next(i) - 1))) : i \in cuts \ {n + 1}}
<1>1. n \in Nat
  OBVIOUS
<1>2. next(0) = m + 1
  <2> DEFINE K == {j \in cuts : j > 0}
  <2>1. K \in SUBSET Nat /\ m + 1 \in K
    BY <1>1
  <2>2. ASSUME NEW k \in K PROVE m + 1 <= k
    <3>1. (k \in 1..n /\ w[k] = "semicolon") \/ k = n + 1
      BY <2>2
    <3> QED
      BY <1>1, <3>1
  <2> HIDE DEF K
  <2>3. Min(K) = m + 1
    BY <2>1, <2>2, LeastIs
  <2> QED
    BY <2>3 DEF K
<1>3. 0 \in cuts \ {n + 1}
  BY <1>1
<1>4. ParseParams(w) = IF Error \in values THEN Error ELSE CHOOSE v \in values : TRUE
  BY DEF ParseParams
<1>5. Error \in values
  <2>1. 0 + 1 = 1 /\ (m + 1) - 1 = m
    OBVIOUS
  <2> HIDE DEF cuts, next
  <2>2. parseQuoted(trimOWS(SubSeq(w, 0 + 1, next(0) - 1))) \in values
    BY <1>3
  <2>3. parseQuoted(trimOWS(SubSeq(w, 0 + 1, next(0) - 1))) = Error
    BY <1>2, <2>1, Zenon
  <2> QED
    BY <2>2, <2>3, Zenon
<1> QED
  BY <1>4, <1>5

LEMMA SemicolonBehind ==
  ASSUME NEW a \in Seq(Chars), Plain(a), NEW z \in Seq(Chars), z # <<>>, z[1] = "semicolon",
         parseQuoted(trimOWS(a)) = Error
  PROVE  ParseParams(a \o z) = Error
<1> DEFINE w == a \o z
           m == Len(a)
<1>1. /\ w \in Seq(Chars) /\ m \in Nat /\ Len(w) = m + Len(z) /\ Len(z) \in Nat /\ Len(z) >= 1
      /\ \A i \in 1..(m + Len(z)) : w[i] = IF i <= m THEN a[i] ELSE z[i - m]
  BY TwoTexts
<1>2. SubSeq(w, 1, m) = a
  BY PrefixFacts
<1> HIDE DEF w, m
<1>3. m + 1 \in 1..Len(w) /\ w[m + 1] = "semicolon"
  <2>1. m + 1 \in 1..(m + Len(z)) /\ ~(m + 1 <= m) /\ (m + 1) - m = 1
    BY <1>1
  <2> QED
    BY <1>1, <2>1
<1>4. \A i \in 1..m : w[i] # "semicolon"
  <2>1. \A i \in 1..m : i \in 1..(m + Len(z)) /\ i <= m
    BY <1>1
  <2> QED
    BY <1>1, <2>1 DEF Plain, m
<1>5. ParseParams(w) = Error
  BY <1>1, <1>2, <1>3, <1>4, ParamsOfParts
<1> QED
  BY <1>5 DEF w

(* What ParseMediaParam makes of what Format writes. *)
LEMMA FormatSurvives ==
  ASSUME NEW p \in Seq(Chars)
  PROVE  ParseParams(Format(p)) = IF "semicolon" \in Range(p) THEN Error ELSE Value(Decoded(p))
<1> DEFINE w == Format(p)
<1>1. Plain(p) <=> "semicolon" \notin Range(p)
  <2>1. DOMAIN p = 1..Len(p)
    BY LenProperties
  <2> QED
    BY <2>1 DEF Plain, Range
<1>2. /\ w \in Seq(Chars) /\ Len(w) \in Nat /\ Len(w) >= 1 /\ w # <<>>
      /\ w[1] # "space" /\ w[Len(w)] # "space"
  BY FormatFacts
<1>3. parseQuoted(w) = Value(Decoded(p))
  BY FormatIsParsed
<1>4. /\ <<"quote">> \in Seq(Chars) /\ Plain(<<"quote">>) /\ Opened(p) \in Seq(Chars)
      /\ writeQuoted(p) = Opened(p) \o <<"quote">>
  BY BodyFacts DEF Plain, Chars
<1>5. CASE Plain(p)
  <2>1. Plain(w)
    <3>1. CASE isToken(p)
      BY <1>5, <3>1 DEF Format
    <3>2. CASE ~isToken(p)
      <4>1. w = Opened(p) \o <<"quote">>
        BY <1>4, <3>2 DEF Format
      <4>2. Plain(Opened(p))
        BY <1>5, Semicolons
      <4> HIDE DEF w
      <4> QED
        BY <1>4, <4>1, <4>2, PlainFacts
    <3> QED
      BY <3>1, <3>2
  <2> HIDE DEF w
  <2>2. trimOWS(w) = w
    BY <1>2, TrimNothing
  <2>3. ParseParams(w) = Value(Decoded(p))
    BY <1>2, <1>3, <2>1, <2>2, ParamsOfPlain
  <2> QED
    BY <1>1, <1>5, <2>3 DEF w
<1>6. CASE ~Plain(p)
  <2>1. ~isToken(p)
    BY <1>6, TokenFacts DEF Plain
  <2>2. w = Opened(p) \o <<"quote">>
    BY <1>4, <2>1 DEF Format
  <2>3. PICK u \in Seq(Chars), r \in Seq(Chars) :
          Plain(Opened(u)) /\ Opened(p) = Opened(u) \o (<<"semicolon">> \o r)
    BY <1>6, Semicolons
  <2> DEFINE mark == <<"quote">>
             x == <<"semicolon">>
             a == Opened(u)
             y == x \o r
             z == y \o mark
  <2>4. x \in Seq(Chars) /\ mark \in Seq(Chars) /\ a \in Seq(Chars) /\ Len(x) = 1
    BY BodyFacts DEF Chars
  <2>5. parseQuoted(trimOWS(a)) = Error
    BY BodyIsRefused
  <2>6. Plain(a) /\ w = (a \o y) \o mark /\ x[1] = "semicolon"
    BY <2>2, <2>3
  <2> HIDE DEF w, mark, x, a
  <2>7. y \in Seq(Chars) /\ y # <<>> /\ y[1] = "semicolon"
    <3>1. /\ y \in Seq(Chars) /\ Len(y) = Len(x) + Len(r) /\ Len(r) \in Nat
          /\ \A i \in 1..(Len(x) + Len(r)) : y[i] = IF i <= Len(x) THEN x[i] ELSE r[i - Len(x)]
      BY <2>4, TwoTexts, Zenon
    <3> HIDE DEF y
    <3> QED
      BY <2>4, <2>6, <3>1
  <2> HIDE DEF y
  <2>8. z \in Seq(Chars) /\ z # <<>> /\ z[1] = "semicolon"
    <3>1. /\ z \in Seq(Chars) /\ Len(z) = Len(y) + Len(mark) /\ Len(mark) \in Nat
          /\ \A i \in 1..(Len(y) + Len(mark)) : z[i] = IF i <= Len(y) THEN y[i] ELSE mark[i - Len(y)]
      BY <2>4, <2>7, TwoTexts, Zenon
    <3>2. Len(y) \in Nat /\ Len(y) >= 1
      BY <2>7
    <3> HIDE DEF z
    <3> QED
      BY <2>7, <3>1, <3>2
  <2>9. w = a \o z
    <3>1. (a \o y) \o mark = a \o (y \o mark)
      <4>1. mark \in Seq(Chars) /\ a \in Seq(Chars)
        BY <2>4
      <4>2. y \in Seq(Chars)
        BY <2>7
      <4> QED
        BY <4>1, <4>2, ThreeTexts
    <3> QED
      BY <2>6, <3>1, Zenon
  <2> HIDE DEF z
  <2>10. ParseParams(w) = Error
    <3>1. ParseParams(a \o z) = Error
      BY <2>4, <2>5, <2>6, <2>8, SemicolonBehind
    <3> QED
      BY <2>9, <3>1, Zenon
  <2> QED
    BY <1>1, <1>6, <2>10 DEF w
<1> QED
  BY <1>5, <1>6

(* Whatever the characters of its value are, and however many, a parameter *)
(* that MediaParam.Format writes is read back by ParseAccept exactly, with *)
(* U+FFFD for every byte that is not UTF-8, or refused because of a        *)
(* semicolon; and the item behind it arrives whole (quote.go:16-69,        *)
(* 95-173; media.go:43-99).                                                *)
THEOREM ParamsSurvive == NegotiationSpec => []ParamIntact
<1> DEFINE Inv == param \in Seq(Chars) /\ ParamIntact
<1>1. NegotiationInit => Inv
  <2> SUFFICES ASSUME NegotiationInit PROVE Inv
    OBVIOUS
  <2>1. pc = "request" /\ (param \in BoundedSeq(Chars, MaxText) \/ param = <<>>)
    BY DEF NegotiationInit
  <2>2. param \in Seq(Chars)
    <3>1. BoundedSeq(Chars, MaxText) \subseteq Seq(Chars)
      BY NegotiationAssumption DEF BoundedSeq, SeqOf
    <3>2. <<>> \in Seq(Chars)
      OBVIOUS
    <3> QED
      BY <2>1, <3>1, <3>2
  <2> QED
    BY <2>1, <2>2 DEF ParamIntact
<1>2. NegotiationTypeOK /\ Inv /\ [NegotiationNext]_negotiationVars => Inv'
  <2> SUFFICES ASSUME NegotiationTypeOK, Inv, [NegotiationNext]_negotiationVars PROVE Inv'
    OBVIOUS
  <2>1. param' = param /\ mode' = mode
    BY DEF NegotiationNext, negotiationVars, askVars, quoteVars, NegotiateType, WriteAndParse,
           PassOn, Start, LayerPlain, LayerCoded, LayersDone, HandlerSetsLength, HandlerHasNoBody,
           HandlerWrites, HandlerEnds, DeferClose, ClientReads, Flush, Settled
  <2>2. CASE WriteAndParse
    <3> DEFINE w == Format(param)
               cut == splitTrimOWS(w \o <<"comma", "space">> \o Behind, "comma")
    <3>1. parsed' = <<ParseParams(cut[1]), cut[2]>>
      BY <2>2 DEF WriteAndParse
    <3>2. cut = <<w, Behind>>
      BY CutsBehind
    <3> HIDE DEF cut
    <3>3. parsed'[1] = ParseParams(w) /\ parsed'[2] = Behind
      BY <3>1, <3>2
    <3>4. ParseParams(w) = IF "semicolon" \in Range(param) THEN Error ELSE Value(Decoded(param))
      BY FormatSurvives
    <3> HIDE DEF w
    <3> QED
      BY <2>1, <3>3, <3>4 DEF ParamIntact, Decoded
  <2>3. CASE ~WriteAndParse
    <3> SUFFICES ASSUME mode = "quote", pc' = "done" PROVE pc = "done" /\ parsed' = parsed
      BY <2>1 DEF ParamIntact
    <3>1. pc \in {"request", "done"}
      BY DEF NegotiationTypeOK
    <3> QED
      BY <2>3, <3>1 DEF NegotiationNext, negotiationVars, askVars, quoteVars, NegotiateType,
           PassOn, Start, LayerPlain, LayerCoded, LayersDone, HandlerSetsLength, HandlerHasNoBody,
           HandlerWrites, HandlerEnds, DeferClose, ClientReads, Flush, Settled
  <2> QED
    BY <2>2, <2>3
<1>3. Inv => ParamIntact
  OBVIOUS
<1> HIDE DEF Inv
<1> QED
  BY <1>1, <1>2, <1>3, TypeInvariance, PTL DEF NegotiationSpec
=============================================================================
