--------------------------- MODULE HTTPConnProofs ---------------------------
(***************************************************************************)
(* Proofs of the safety of ServeConn on the side of the requests, for      *)
(* every limit of the header and any number of segments in flight, and of  *)
(* the PROXY header that may come before the first of them.  The inductive *)
(* invariants are LimitInv and, of ProxyProtocol, PayloadInv.              *)
(***************************************************************************)
EXTENDS HTTPConn, ProxyProtocol, SequenceTheorems, TLAPS

-----------------------------------------------------------------------------
(* The reads of the connReader. *)

(* What a read does to the counters: it takes one segment, and only under  *)
(* a limit does it count.                                                  *)
LEMMA ReadOKFacts ==
  ASSUME TypeOK, ReadOK
  PROVE  /\ buf = "none" /\ buf' \in Segments /\ buf' # "none"
         /\ net' \in Seq(Segments) /\ Len(net') = Len(net) - 1 /\ Len(net) > 0
         /\ buf' = net[1]
         /\ \A j \in 1..Len(net') : net'[j] = net[j + 1]
         /\ limit' \in -1..MaxHeader
         /\ limit' = (IF limit > 0 THEN limit - 1 ELSE limit) /\ limit # 0
         /\ reqctx' = reqctx
<1>1. net \in Seq(Segments) /\ net # <<>>
  BY DEF TypeOK, ReadOK
<1>2. /\ Head(net) \in Segments /\ Tail(net) \in Seq(Segments)
      /\ Len(Tail(net)) = Len(net) - 1 /\ Len(net) > 0
      /\ \A j \in 1..Len(Tail(net)) : Tail(net)[j] = net[j + 1]
      /\ Head(net) = net[1]
  BY <1>1
<1>3. limit \in -1..MaxHeader /\ MaxHeader \in Nat
  BY BoundsAssumption DEF TypeOK
<1>4. "none" \notin Segments
  BY DEF Segments
<1>5. (IF limit > 0 THEN limit - 1 ELSE limit) \in -1..MaxHeader
  BY <1>3
<1> QED
  BY <1>2, <1>4, <1>5 DEF ReadOK

(* A read keeps the stream in its order: what was the first segment of the *)
(* network is now in the buffer.                                           *)
LEMMA ReadKeepsStream ==
  ASSUME TypeOK, ReadOK, StreamIsAligned, UNCHANGED <<peer, sends, bodyLeft>>
  PROVE  StreamIsAligned'
<1> USE DEF StreamIsAligned
<1>1. buf = "none" /\ buf' = net[1] /\ buf' # "none"
  BY ReadOKFacts
<1>2. net' \in Seq(Segments) /\ Len(net') = Len(net) - 1 /\ Len(net) > 0
  BY ReadOKFacts
<1>3. net # <<>> /\ Len(net) \in Nat
  BY DEF ReadOK, TypeOK
<1>4. \A j \in 1..Len(net') : net'[j] = net[j + 1]
  BY ReadOKFacts
<1>5. /\ net[1] = "body" <=> bodyLeft
      /\ \A j \in 1..(Len(net) - 1) : net[j + 1] = "body" <=> net[j] = "endBody"
      /\ sends = "body" <=> net[Len(net)] = "endBody"
  BY <1>1, <1>3
<1>6. CASE net' = <<>>
  <2>1. Len(net') = 0 /\ Len(net) = 1
    BY <1>2, <1>3, <1>6
  <2>2. \A j \in 1..(Len(net') - 1) : net'[j + 1] = "body" <=> net'[j] = "endBody"
    BY <2>1
  <2>3. sends = "body" <=> buf' = "endBody"
    BY <1>1, <1>5, <2>1
  <2>4. buf' = "body" <=> bodyLeft
    BY <1>1, <1>5
  <2> QED
    BY <1>1, <1>6, <2>2, <2>3, <2>4
<1>7. CASE net' # <<>>
  <2>1. Len(net') > 0 /\ Len(net') \in Nat
    BY <1>2, <1>7
  <2>2. net'[1] = net[2] /\ net'[Len(net')] = net[Len(net)]
    BY <1>2, <1>4, <2>1
  <2>3. net'[1] = "body" <=> buf' = "endBody"
    BY <1>1, <1>2, <1>5, <2>1, <2>2
  <2>4. \A j \in 1..(Len(net') - 1) : net'[j + 1] = "body" <=> net'[j] = "endBody"
    BY <1>2, <1>3, <1>4, <1>5
  <2> QED
    BY <1>1, <1>5, <1>7, <2>2, <2>3, <2>4
<1> QED
  BY <1>6, <1>7

(* The client goes on with its stream. *)
LEMMA SendKeepsStream ==
  ASSUME TypeOK, NEW s \in Segments, Send(s), StreamIsAligned
  PROVE  StreamIsAligned'
<1> USE DEF StreamIsAligned
<1>1. net \in Seq(Segments) /\ net' = Append(net, s) /\ peer = "open"
  BY DEF Send, TypeOK
<1>2. UNCHANGED <<buf, bodyLeft, peer>> /\ (sends' = "body" <=> s = "endBody")
  BY DEF Send
<1>3. s = "body" <=> sends = "body"
  BY DEF Send, TypeOK
<1>4. /\ Len(net') = Len(net) + 1 /\ net' # <<>> /\ Len(net) \in Nat
      /\ net'[Len(net')] = s /\ \A j \in 1..Len(net) : net'[j] = net[j]
  BY <1>1
<1>5. \A j \in 1..(Len(net') - 1) : net'[j + 1] = "body" <=> net'[j] = "endBody"
  <2> SUFFICES ASSUME NEW j \in 1..Len(net)
               PROVE  net'[j + 1] = "body" <=> net'[j] = "endBody"
    BY <1>4
  <2>1. CASE j = Len(net)
    BY <1>1, <1>3, <1>4, <2>1
  <2>2. CASE j # Len(net)
    BY <1>1, <1>4, <2>2
  <2> QED
    BY <2>1, <2>2
<1>6. net'[1] = "body" <=> IF buf = "none" THEN bodyLeft ELSE buf = "endBody"
  BY <1>1, <1>3, <1>4
<1> QED
  BY <1>1, <1>2, <1>4, <1>5, <1>6

-----------------------------------------------------------------------------
(* The variables stay in their types. *)
LEMMA TypeStep ==
  ASSUME TypeOK, [Next]_vars
  PROVE  TypeOK'
<1> USE BoundsAssumption
<1>1. -1 \in -1..MaxHeader /\ MaxHeader \in -1..MaxHeader
  OBVIOUS
<1>2. size \in Nat => size + 1 \in Nat
  OBVIOUS
<1>3. ASSUME NEW s \in Segments, Send(s)
      PROVE  TypeOK'
  <2>1. net' \in Seq(Segments) /\ Len(net') <= MaxFlight
    <3>1. net \in Seq(Segments) /\ Len(net) < MaxFlight /\ net' = Append(net, s)
      BY <1>3 DEF TypeOK, Send
    <3> QED
      BY <3>1
  <2> QED
    BY <1>3, <2>1 DEF TypeOK, Send, config
<1>4. ASSUME ReadOK, UNCHANGED <<ctx, pc, others, size, bodyLeft, stray>>
      PROVE  TypeOK'
  <2>1. /\ buf' \in Segments /\ net' \in Seq(Segments) /\ Len(net') <= MaxFlight
        /\ limit' \in -1..MaxHeader /\ reqctx' = reqctx
    <3>1. /\ buf' \in Segments /\ net' \in Seq(Segments) /\ Len(net') = Len(net) - 1
          /\ limit' \in -1..MaxHeader /\ reqctx' = reqctx
      BY <1>4, ReadOKFacts
    <3>2. Len(net) <= MaxFlight /\ Len(net) \in Nat
      BY DEF TypeOK
    <3> QED
      BY <3>1, <3>2
  <2> QED
    BY <1>4, <2>1 DEF TypeOK, others, config, clientVars
<1>5. ASSUME ReadErr \/ ReadExpires
      PROVE  reqctx' \in {"live", "done"} /\ UNCHANGED <<buf, net, limit>>
  BY <1>5 DEF TypeOK, ReadErr, ReadGone, ReadLimit, ReadExpires
<1>6. ASSUME ReadErr \/ ReadExpires, pc' \in Pc, bodyLeft' \in BOOLEAN,
             UNCHANGED <<ctx, others, size, stray>>
      PROVE  TypeOK'
  BY <1>5, <1>6 DEF TypeOK, others, config, clientVars
<1>7. CASE Leave \/ Shutdown \/ Closed \/ UNCHANGED vars
  BY <1>7 DEF TypeOK, Leave, Shutdown, Closed, vars, others, config, clientVars
<1>8. CASE PeekReady
  BY <1>1, <1>8 DEF TypeOK, PeekReady, others, config, clientVars, Pc
<1>9. CASE PeekFill \/ ReadFill \/ BodyFill("handler") \/ BodyFill("discard")
  BY <1>4, <1>9 DEF PeekFill, ReadFill, BodyFill
<1>10. CASE PeekFails \/ PeekExpires \/ ReadFails \/ HandlerReadFails \/ DiscardFails
  BY <1>6, <1>10 DEF PeekFails, PeekExpires, ReadFails, HandlerReadFails, DiscardFails,
                     Pc, TypeOK
<1>11. CASE Poll \/ HandlerEndsConn \/ HandlerReturns \/ DiscardEnds
  BY <1>11 DEF TypeOK, Poll, HandlerEndsConn, HandlerReturns, DiscardEnds,
               others, config, clientVars, Pc
<1>12. CASE ParsePart
  BY <1>2, <1>12 DEF TypeOK, ParsePart, others, config, clientVars
<1>13. CASE ParseEnd
  BY <1>1, <1>2, <1>13 DEF TypeOK, ParseEnd, others, config, clientVars, Pc
<1>14. CASE ParseStray
  BY <1>1, <1>2, <1>14 DEF TypeOK, ParseStray, others, config, clientVars, Pc
<1>15. CASE BodyRead("handler") \/ BodyRead("discard")
  BY <1>15 DEF TypeOK, BodyRead, others, config, clientVars
<1> QED
  BY <1>3, <1>7, <1>8, <1>9, <1>10, <1>11, <1>12, <1>13, <1>14, <1>15
  DEF Next, Serving, HandlerReads, HandlerEnds

-----------------------------------------------------------------------------
(* The header and its limit. *)

HeaderInv == HeaderIsBounded /\ LimitIsForHeaders /\ HeaderIsCounted

(* The limit starts with the header, counts down with every read of it and *)
(* is dropped with its last segment.                                       *)
LEMMA HeaderStep ==
  ASSUME TypeOK, HeaderInv, [Next]_vars
  PROVE  HeaderInv'
<1> USE BoundsAssumption
<1> USE DEF HeaderInv, HeaderIsBounded, LimitIsForHeaders, HeaderIsCounted
<1>1. limit \in -1..MaxHeader /\ size \in Nat /\ pc \in Pc
  BY DEF TypeOK
<1>2. ASSUME NEW s \in Segments, Send(s)
      PROVE  HeaderInv'
  BY <1>2 DEF Send
<1>3. ASSUME UNCHANGED <<pc, size, limit, buf>>
      PROVE  HeaderInv'
  BY <1>3
<1>4. ASSUME UNCHANGED <<size, limit>>, pc' = "closed" \/ (pc # "read" /\ pc' # "read"),
             pc # "closed"
      PROVE  HeaderInv'
  BY <1>1, <1>4 DEF Pc
<1>5. CASE PeekFill \/ BodyFill("handler") \/ BodyFill("discard")
  <2>1. limit = -1 /\ UNCHANGED <<pc, size>> /\ pc \in {"peek", "handler", "discard"}
    BY <1>5 DEF PeekFill, BodyFill
  <2>2. limit' = limit
    BY <1>5, <2>1, ReadOKFacts DEF PeekFill, BodyFill
  <2> QED
    BY <2>1, <2>2
<1>6. CASE ReadFill
  <2>1. /\ limit' = (IF limit > 0 THEN limit - 1 ELSE limit)
        /\ limit # 0 /\ buf = "none" /\ UNCHANGED <<pc, size>> /\ pc = "read"
    BY <1>6, ReadOKFacts DEF ReadFill
  <2>2. limit' = limit - 1 /\ limit' >= 0
    BY <1>1, <2>1
  <2>3. size + limit' + 1 <= MaxHeader + 1
    BY <1>1, <2>1, <2>2
  <2> QED
    BY <1>1, <2>1, <2>2, <2>3
<1>7. CASE PeekReady
  BY <1>7 DEF PeekReady
<1>8. CASE ParsePart
  BY <1>1, <1>8 DEF ParsePart
<1>9. CASE ParseEnd
  BY <1>1, <1>9 DEF ParseEnd
<1>10. CASE ParseStray
  BY <1>1, <1>10 DEF ParseStray
<1>11. CASE Leave \/ Shutdown \/ Closed \/ UNCHANGED vars
  BY <1>3, <1>11 DEF Leave, Shutdown, Closed, vars
<1>12. ASSUME ReadErr \/ ReadExpires
       PROVE  UNCHANGED <<buf, net, limit>>
  BY <1>12 DEF ReadErr, ReadGone, ReadLimit, ReadExpires
<1>13. CASE PeekFails \/ PeekExpires \/ ReadFails \/ DiscardFails
  BY <1>4, <1>12, <1>13 DEF PeekFails, PeekExpires, ReadFails, DiscardFails
<1>14. CASE HandlerReadFails
  BY <1>3, <1>12, <1>14 DEF HandlerReadFails
<1>15. CASE Poll \/ HandlerEndsConn \/ HandlerReturns \/ DiscardEnds
  BY <1>4, <1>15 DEF Poll, HandlerEndsConn, HandlerReturns, DiscardEnds
<1>16. CASE BodyRead("handler") \/ BodyRead("discard")
  BY <1>1, <1>16 DEF BodyRead
<1> QED
  BY <1>2, <1>5, <1>6, <1>7, <1>8, <1>9, <1>10, <1>11, <1>13, <1>14, <1>15, <1>16
  DEF Next, Serving, HandlerReads, HandlerEnds

-----------------------------------------------------------------------------
(* The bodies. *)

(* A body is read, or given up, before the next request is awaited. *)
LEMMA PendingStep ==
  ASSUME TypeOK, BodyIsPending, [Next]_vars
  PROVE  BodyIsPending'
<1> USE DEF BodyIsPending
<1>1. ASSUME NEW s \in Segments, Send(s)
      PROVE  BodyIsPending'
  BY <1>1 DEF Send
<1>2. CASE Leave \/ Shutdown \/ Closed \/ UNCHANGED vars
  BY <1>2 DEF Leave, Shutdown, Closed, vars
<1>3. CASE PeekReady \/ PeekFill \/ PeekFails \/ PeekExpires \/ Poll
  BY <1>3 DEF PeekReady, PeekFill, PeekFails, PeekExpires, Poll
<1>4. CASE ReadFill \/ ReadFails \/ ParsePart \/ ParseEnd \/ ParseStray
  BY <1>4 DEF ReadFill, ReadFails, ParsePart, ParseEnd, ParseStray
<1>5. CASE HandlerReads \/ HandlerEnds
  BY <1>5 DEF HandlerReads, HandlerEnds, BodyFill, BodyRead, HandlerReadFails,
              HandlerEndsConn, HandlerReturns
<1>6. CASE BodyFill("discard") \/ BodyRead("discard") \/ DiscardEnds \/ DiscardFails
  BY <1>6 DEF BodyFill, BodyRead, DiscardEnds, DiscardFails
<1> QED
  BY <1>1, <1>2, <1>3, <1>4, <1>5, <1>6 DEF Next, Serving

(* Without a ReadTimeout, only the loss of the client ends the discarding  *)
(* of a body early, and then there is nothing left to be misread.          *)
LEMMA AlignStep ==
  ASSUME TypeOK, LimitIsForHeaders, BodyIsPending, ~readTimeout, StreamIsAligned,
         [Next]_vars
  PROVE  StreamIsAligned' /\ stray' = stray
<1>1. ASSUME NEW s \in Segments, Send(s)
      PROVE  StreamIsAligned' /\ stray' = stray
  BY <1>1, SendKeepsStream DEF Send
<1>2. ASSUME UNCHANGED <<peer, sends, net, buf, bodyLeft, stray>>
      PROVE  StreamIsAligned' /\ stray' = stray
  BY <1>2 DEF StreamIsAligned
<1>3. CASE Leave
  BY <1>3 DEF Leave, StreamIsAligned
<1>4. CASE Shutdown \/ Closed \/ UNCHANGED vars
  BY <1>2, <1>4 DEF Shutdown, Closed, vars, others, clientVars
<1>5. CASE PeekFill \/ ReadFill \/ BodyFill("handler") \/ BodyFill("discard")
  <2>1. ReadOK /\ UNCHANGED <<peer, sends, bodyLeft, stray>>
    BY <1>5 DEF PeekFill, ReadFill, BodyFill, others, clientVars
  <2> QED
    BY <2>1, ReadKeepsStream
<1>6. CASE PeekReady \/ Poll \/ HandlerEndsConn \/ HandlerReturns \/ DiscardEnds
  BY <1>2, <1>6 DEF PeekReady, Poll, HandlerEndsConn, HandlerReturns, DiscardEnds,
                    others, clientVars
<1>7. ASSUME ReadErr \/ ReadExpires
      PROVE  UNCHANGED <<buf, net>>
  BY <1>7 DEF ReadErr, ReadGone, ReadLimit, ReadExpires
<1>8. CASE PeekFails \/ PeekExpires \/ ReadFails \/ HandlerReadFails
  BY <1>2, <1>7, <1>8 DEF PeekFails, PeekExpires, ReadFails, HandlerReadFails,
                          others, clientVars
<1>9. CASE ParsePart \/ ParseEnd \/ ParseStray
  <2>1. /\ buf \in Segments /\ buf # "none" /\ ~bodyLeft
        /\ buf' = "none" /\ UNCHANGED <<peer, sends, net>>
    BY <1>9 DEF ParsePart, ParseEnd, ParseStray, BodyIsPending, others, clientVars,
                Segments
  <2>2. buf # "body"
    BY <2>1 DEF StreamIsAligned
  <2>3. (bodyLeft' <=> buf = "endBody") /\ stray' = stray
    <3>1. CASE ParsePart
      BY <2>1, <3>1 DEF ParsePart
    <3>2. CASE ParseEnd
      BY <3>2 DEF ParseEnd
    <3> QED
      BY <1>9, <2>2, <3>1, <3>2 DEF ParseStray
  <2> QED
    BY <2>1, <2>3 DEF StreamIsAligned
<1>10. CASE BodyRead("handler") \/ BodyRead("discard")
  <2>1. /\ buf = "body" /\ bodyLeft /\ buf' = "none" /\ ~bodyLeft'
        /\ UNCHANGED <<peer, sends, net, stray>>
    BY <1>10 DEF BodyRead, others, clientVars
  <2> QED
    BY <2>1 DEF StreamIsAligned
<1>11. CASE DiscardFails
  <2>1. limit = -1 /\ ReadErr
    BY <1>11 DEF DiscardFails, LimitIsForHeaders
  <2>2. ReadGone
    BY <2>1 DEF ReadErr, ReadLimit
  <2> QED
    BY <1>11, <2>2 DEF DiscardFails, ReadGone, StreamIsAligned, others, clientVars
<1> QED
  BY <1>1, <1>3, <1>4, <1>5, <1>6, <1>8, <1>9, <1>10, <1>11
  DEF Next, Serving, HandlerReads, HandlerEnds

(* Only a read that finds the client gone cancels the context of its       *)
(* requests.                                                               *)
LEMMA InFlightStep ==
  ASSUME TypeOK, InFlightCompletes, [Next]_vars
  PROVE  InFlightCompletes'
<1> USE DEF InFlightCompletes
<1>1. ASSUME UNCHANGED <<reqctx, peer>>
      PROVE  InFlightCompletes'
  BY <1>1
<1>2. ASSUME ReadErr \/ ReadExpires \/ ReadOK, UNCHANGED others
      PROVE  InFlightCompletes'
  BY <1>2 DEF ReadErr, ReadGone, ReadLimit, ReadExpires, ReadOK, others, clientVars
<1>3. ASSUME NEW s \in Segments, Send(s)
      PROVE  InFlightCompletes'
  BY <1>1, <1>3 DEF Send
<1>4. CASE Leave
  BY <1>4 DEF Leave
<1>5. CASE Shutdown \/ Closed \/ UNCHANGED vars
  BY <1>1, <1>5 DEF Shutdown, Closed, vars, others, clientVars
<1>6. CASE PeekReady \/ Poll \/ ParsePart \/ ParseEnd \/ ParseStray
  BY <1>1, <1>6 DEF PeekReady, Poll, ParsePart, ParseEnd, ParseStray, others, clientVars
<1>7. CASE HandlerEnds \/ DiscardEnds \/ BodyRead("handler") \/ BodyRead("discard")
  BY <1>1, <1>7 DEF HandlerEnds, HandlerEndsConn, HandlerReturns, DiscardEnds, BodyRead,
                    others, clientVars
<1>8. CASE \/ PeekFill \/ ReadFill \/ BodyFill("handler") \/ BodyFill("discard")
           \/ PeekFails \/ PeekExpires \/ ReadFails \/ HandlerReadFails \/ DiscardFails
  BY <1>2, <1>8 DEF PeekFill, ReadFill, BodyFill, PeekFails, PeekExpires, ReadFails,
                    HandlerReadFails, DiscardFails
<1> QED
  BY <1>3, <1>4, <1>5, <1>6, <1>7, <1>8 DEF Next, Serving, HandlerReads

-----------------------------------------------------------------------------
(* On every connection the limit bounds each header and cuts no body, a    *)
(* body is never taken for a request unless a ReadTimeout fired within     *)
(* one, and the context of a request is canceled only for a client that is *)
(* gone, whatever the limit and the number of segments in flight           *)
(* (server.go:75-81, 125-126, 236-275; conn.go:128-147).                   *)
THEOREM LimitInvariance == Spec => []LimitInv
<1>1. Init => LimitInv
  <2> SUFFICES ASSUME Init PROVE LimitInv
    OBVIOUS
  <2>1. -1 \in -1..MaxHeader /\ 0 <= MaxHeader + 1 /\ 0 <= MaxFlight
    BY BoundsAssumption
  <2>2. net \in Seq(Segments) /\ Len(net) = 0
    BY DEF Init
  <2>3. TypeOK
    BY <2>1, <2>2 DEF Init, TypeOK, Pc
  <2>4. StreamIsAligned
    BY <2>2 DEF Init, StreamIsAligned
  <2> QED
    BY <2>1, <2>3, <2>4 DEF Init, LimitInv, HeaderIsBounded, LimitIsForHeaders,
       HeaderIsCounted, RequestsAreAligned, BodyIsPending, InFlightCompletes
<1>2. LimitInv /\ [Next]_vars => LimitInv'
  <2> SUFFICES ASSUME LimitInv, [Next]_vars PROVE LimitInv'
    OBVIOUS
  <2>1. TypeOK' /\ HeaderInv' /\ BodyIsPending' /\ InFlightCompletes'
    BY TypeStep, HeaderStep, PendingStep, InFlightStep DEF LimitInv, HeaderInv
  <2>2. readTimeout' = readTimeout
    BY DEF Next, Serving, HandlerReads, HandlerEnds, vars, others, config, Send, Leave,
           Shutdown, PeekReady, PeekFill, PeekFails, PeekExpires, Poll, ReadFill, ReadFails,
           ParsePart, ParseEnd, ParseStray, BodyFill, BodyRead, HandlerReadFails,
           HandlerEndsConn, HandlerReturns, DiscardEnds, DiscardFails, Closed
  <2>3. ~readTimeout' => StreamIsAligned' /\ ~stray'
    BY <2>2, AlignStep DEF LimitInv, RequestsAreAligned
  <2> QED
    BY <2>1, <2>3 DEF LimitInv, HeaderInv, RequestsAreAligned
<1> QED
  BY <1>1, <1>2, PTL DEF Spec

-----------------------------------------------------------------------------
(* The header of a proxy in front of a connection (ProxyProtocol).  It is  *)
(* a component of its own, with its own constants and variables.           *)

(* The smaller of two numbers. *)
LEMMA MinOfTwo ==
  ASSUME NEW a \in Int, NEW b \in Int
  PROVE  Min({a, b}) = IF a <= b THEN a ELSE b
<1> DEFINE m == IF a <= b THEN a ELSE b
           M(x) == x \in {a, b} /\ \A y \in {a, b} : x =< y
<1>1. M(m)
  OBVIOUS
<1>2. \A x : M(x) => x = m
  OBVIOUS
<1>3. Min({a, b}) = CHOOSE x \in {a, b} : \A y \in {a, b} : x =< y
  BY DEF Min
<1>4. (CHOOSE x : M(x)) = m
  BY <1>1, <1>2, Zenon
<1>5. (CHOOSE x \in {a, b} : \A y \in {a, b} : x =< y) = CHOOSE x : M(x)
  BY Zenon
<1> QED
  BY <1>3, <1>4, <1>5

(* The destination can be written in the family of the source. *)
FitsPair(p) == (p.src.ip = 4 => p.dst.ip = 4) /\ (p.src.ip = 6 => p.dst.ip # 0)

(* What a line is worth that was made for two addresses: it is as long as  *)
(* version 1 allows, and its words are read unless there is no IP.         *)
MadeLine(h, p) ==
  /\ h.kind = "v1" /\ h.len \in 14..107 /\ p.src \in IPAddrs
  /\ p.src.ip = 0 \/ p.dst.ip = 0 => ~parseProxyProtoV1(h.words)
  /\ ~(p.src.ip = 0 \/ p.dst.ip = 0) =>
       /\ parseProxyProtoV1(h.words)
       /\ p.src = [net |-> "tcp", ip |-> IF h.words[2] = "ip4" THEN 4 ELSE 6]

(* And a header of version 2: its family and its type are those of the     *)
(* source, and its length that of the addresses.                           *)
MadeV2(h, p) ==
  /\ h.kind = "v2" /\ h.version = 2 /\ h.cmd \in {0, 1}
  /\ \/ /\ p.src \in IPAddrs /\ p.src.ip = 0
        /\ h.family = 0 /\ h.socktype \in {1, 2} /\ h.len = 18
     \/ /\ p.src \in IPAddrs /\ p.src.ip # 0
        /\ h.family = (IF p.src.ip = 4 THEN 1 ELSE 2)
        /\ h.socktype = (IF p.src.net = "tcp" THEN 1 ELSE 2)
        /\ h.len = IF FitsPair(p) THEN Preamble + AddressesLen(h.family)
                   ELSE Preamble + AddressesLen(h.family) - addrLen(h.family)
     \/ /\ p.src \in UnixAddrs /\ h.family = 3 /\ h.len = Preamble + AddressesLen(3)
        /\ h.socktype = IF p.src.net = "unix" THEN 1
                        ELSE IF p.src.net = "unixgram" THEN 2 ELSE 0
     \/ /\ p.src.net = "other" /\ p.src.ip = 0 /\ h.family = 0 /\ h.socktype = 0 /\ h.len = 14

(* The lengths of the families. *)
LEMMA Lengths ==
  /\ AddressesLen(0) = 0 /\ AddressesLen(1) = 12 /\ AddressesLen(2) = 36
  /\ AddressesLen(3) = 216 /\ AddressesLen(4) = 0
  /\ addrLen(0) = 0 /\ addrLen(1) = 4 /\ addrLen(2) = 16 /\ addrLen(3) = 108
BY DEF AddressesLen, addrLen, portLen, AF_INET, AF_INET6, AF_UNIX

(* Of a line of version 1. *)
LEMMA LineIsMade ==
  ASSUME NEW p \in Pairs, p.src.net = "tcp", NEW h \in appendProxyProtoV1(p.src, p.dst)
  PROVE  MadeLine(h, p)
<1> DEFINE a == p.src
           b == p.dst
<1>1. a \in IPAddrs /\ b \in IPAddrs /\ a.net = "tcp"
  BY DEF Pairs, Addrs, IPAddrs, UnixAddrs
<1>2. a.ip \in {0, 4, 6} /\ b.ip \in {0, 4, 6} /\ a = [net |-> "tcp", ip |-> a.ip]
  BY <1>1 DEF IPAddrs
<1> HIDE DEF a, b
<1>3. /\ h.kind = "v1"
      /\ h.len \in {18 + Shortest(a.ip) + Shortest(b.ip), 26 + Longest(a.ip) + Longest(b.ip)}
      /\ h.words = <<IF a.ip = 4 THEN "TCP4" ELSE "TCP6", Word(a.ip), Word(b.ip), "port", "port">>
  BY DEF appendProxyProtoV1, Line, a, b
<1>4. h.len \in 14..107
  BY <1>2, <1>3 DEF Shortest, Longest
<1>5. a.ip = 0 \/ b.ip = 0 => ~parseProxyProtoV1(h.words)
  BY <1>3 DEF parseProxyProtoV1, Word
<1>6. ~(a.ip = 0 \/ b.ip = 0) => parseProxyProtoV1(h.words)
  <2> SUFFICES ASSUME a.ip # 0, b.ip # 0 PROVE parseProxyProtoV1(h.words)
    OBVIOUS
  <2>1. Word(a.ip) \in {"ip4", "ip6"} /\ Word(b.ip) \in {"ip4", "ip6"}
    BY <1>2 DEF Word
  <2> QED
    BY <1>3, <2>1 DEF parseProxyProtoV1
<1>7. ~(a.ip = 0) => a = [net |-> "tcp", ip |-> IF h.words[2] = "ip4" THEN 4 ELSE 6]
  <2>1. h.words[2] = Word(a.ip)
    BY <1>3
  <2> QED
    BY <1>2, <2>1 DEF Word
<1> QED
  BY <1>1, <1>3, <1>4, <1>5, <1>6, <1>7 DEF MadeLine, a, b

(* Of a header of version 2, local or not. *)
LEMMA V2IsMade ==
  ASSUME NEW p \in Pairs, NEW local \in BOOLEAN
  PROVE  MadeV2(appendProxyProtoV2(p.src, p.dst, local), p)
<1> DEFINE a == p.src
           b == p.dst
           h == appendProxyProtoV2(a, b, local)
           socktype == IF a.net \in {"tcp", "unix"} THEN STREAM
                       ELSE IF a.net \in {"udp", "unixgram"} THEN DGRAM ELSE UNSPEC
           family   == IF a \in UnixAddrs THEN AF_UNIX
                       ELSE IF a.ip = 4 THEN AF_INET ELSE IF a.ip = 6 THEN AF_INET6 ELSE AF_UNSPEC
           to       == IF a.ip # 0 /\ (b.ip = 0 \/ (a.ip = 4 /\ b.ip = 6)) THEN 0
                       ELSE addrLen(family)
           ports    == IF a \in IPAddrs THEN 4 ELSE 0
<1> USE DEF AF_UNSPEC, AF_INET, AF_INET6, AF_UNIX, UNSPEC, STREAM, DGRAM
<1>1. /\ h.kind = "v2" /\ h.version = 2 /\ h.cmd \in {0, 1} /\ h.family = family
      /\ h.socktype = socktype /\ h.len = Preamble + (addrLen(family) + to + ports)
  BY DEF appendProxyProtoV2, V2
<1>2. /\ a \in IPAddrs \/ a \in UnixAddrs \/ a \in [net : {"other"}, ip : {0}]
      /\ a.net = b.net /\ b \in Addrs
  BY DEF Pairs, Addrs
<1>3. CASE a \in IPAddrs
  <2>1. a.net \in {"tcp", "udp"} /\ a.ip \in {0, 4, 6} /\ b.ip \in {0, 4, 6} /\ a \notin UnixAddrs
    BY <1>2, <1>3 DEF Addrs, IPAddrs, UnixAddrs
  <2>2. family = (IF a.ip = 4 THEN 1 ELSE IF a.ip = 6 THEN 2 ELSE 0)
    BY <2>1
  <2>3. socktype = (IF a.net = "tcp" THEN 1 ELSE 2) /\ ports = 4
    BY <1>3, <2>1
  <2>4. to = IF FitsPair(p) THEN addrLen(family) ELSE 0
    <3>1. a.ip # 0 /\ (b.ip = 0 \/ (a.ip = 4 /\ b.ip = 6)) <=> ~FitsPair(p)
      BY <2>1 DEF FitsPair
    <3> QED
      BY <3>1
  <2> HIDE DEF h, a, b, family, to, socktype, ports
  <2>5. CASE a.ip = 0
    <3>1. FitsPair(p) /\ family = 0 /\ to = 0
      BY <2>2, <2>4, <2>5, Lengths DEF FitsPair, a
    <3>2. h.len = 18 /\ h.family = 0 /\ h.socktype \in {1, 2}
      BY <1>1, <2>3, <3>1, Lengths DEF Preamble
    <3> QED
      BY <1>1, <1>3, <2>5, <3>2 DEF MadeV2, a, b, h
  <2>6. CASE a.ip # 0
    <3>1. family = (IF a.ip = 4 THEN 1 ELSE 2)
      BY <2>1, <2>2, <2>6
    <3>2. h.len = IF FitsPair(p) THEN Preamble + AddressesLen(family)
                  ELSE Preamble + AddressesLen(family) - addrLen(family)
      BY <1>1, <2>3, <2>4, <3>1, Lengths DEF Preamble
    <3> QED
      BY <1>1, <1>3, <2>3, <2>6, <3>1, <3>2 DEF MadeV2, a, b, h
  <2> QED
    BY <2>5, <2>6
<1>4. CASE a \in UnixAddrs
  <2>1. a.net \in {"unix", "unixgram", "unixpacket"} /\ a.ip = 0 /\ a \notin IPAddrs
    BY <1>4 DEF IPAddrs, UnixAddrs
  <2>2. family = 3 /\ ports = 0 /\ to = 108 /\ addrLen(family) = 108
    BY <1>4, <2>1, Lengths
  <2>3. socktype = IF a.net = "unix" THEN 1 ELSE IF a.net = "unixgram" THEN 2 ELSE 0
    BY <2>1
  <2> HIDE DEF h, a, b, family, to, socktype, ports
  <2>4. h.len = Preamble + AddressesLen(3)
    BY <1>1, <2>2, Lengths DEF Preamble
  <2> QED
    BY <1>1, <1>4, <2>2, <2>3, <2>4 DEF MadeV2, a, b, h
<1>5. CASE a \in [net : {"other"}, ip : {0}]
  <2>1. a.net = "other" /\ a.ip = 0 /\ a \notin IPAddrs /\ a \notin UnixAddrs
    BY <1>5 DEF IPAddrs, UnixAddrs
  <2>2. family = 0 /\ ports = 0 /\ to = 0 /\ addrLen(family) = 0 /\ socktype = 0
    BY <2>1, Lengths
  <2> HIDE DEF h, a, b, family, to, socktype, ports
  <2>3. h.len = 14
    BY <1>1, <2>2 DEF Preamble
  <2> QED
    BY <1>1, <2>1, <2>2, <2>3 DEF MadeV2, a, b, h
<1> QED
  BY <1>2, <1>3, <1>4, <1>5

(* What is known of the header of every connection. *)
Known(h, p) ==
  /\ h.kind \in {"v1", "v2", "garbage"} /\ h.len \in Nat \ {0}
  /\ h.kind = "v2" => h.family \in 0..4 /\ h.len >= 14
  /\ h.kind = "v2" /\ p = NoPair =>
       \/ h.len = Preamble + AddressesLen(h.family) + LengthField
       \/ h.version # 2 \/ h.cmd \notin {0, 1} \/ h.family = 4 \/ h.socktype = 3
       \/ h.family = 0 /\ h.socktype # 0
  /\ p # NoPair => p \in Pairs /\ (MadeLine(h, p) \/ MadeV2(h, p))

(* It is known of every header that a peer may start with. *)
LEMMA StartedFacts ==
  ASSUME NEW h, NEW p, [hdr |-> h, made |-> p] \in Started
  PROVE  Known(h, p)
<1> USE DEF AF_UNSPEC, AF_INET, AF_INET6, AF_UNIX, UNSPEC, STREAM, DGRAM
<1> DEFINE s == [hdr |-> h, made |-> p]
<1>0. s.hdr = h /\ s.made = p
  OBVIOUS
<1>1. CASE p = NoPair /\ h \in PeerLines
  <2>1. h.kind = "v1" /\ h.len \in LineLengths
    BY <1>1 DEF PeerLines, Line
  <2> QED
    BY <1>1, <2>1, ProxyProtocolAssumption DEF Known
<1>2. CASE p = NoPair /\ h \in FormatV2
  <2>1. /\ h.kind = "v2" /\ h.family \in {0, 1, 2, 3}
        /\ h.len = Preamble + (LengthField + AddressesLen(h.family))
    BY <1>2, Lengths DEF FormatV2, V2, LengthField
  <2>2. AddressesLen(h.family) \in Nat /\ LengthField \in Nat /\ Preamble = 14
    BY <2>1, Lengths DEF LengthField, Preamble
  <2> QED
    BY <1>2, <2>1, <2>2 DEF Known
<1>3. CASE p = NoPair /\ h \in Invalid
  BY <1>3 DEF Known, Invalid, Garbage, V2, Preamble
<1>4. CASE \E r \in Pairs : r.src.net = "tcp" /\ h \in appendProxyProtoV1(r.src, r.dst) /\ p = r
  <2>1. MadeLine(h, p) /\ p \in Pairs
    BY <1>4, LineIsMade
  <2>2. p # NoPair
    BY <2>1 DEF Pairs, Addrs, IPAddrs, UnixAddrs, NoPair, NoAddr
  <2> QED
    BY <2>1, <2>2 DEF Known, MadeLine
<1>5. CASE \E r \in Pairs, local \in BOOLEAN :
             h = appendProxyProtoV2(r.src, r.dst, local) /\ p = r
  <2>1. MadeV2(h, p) /\ p \in Pairs
    BY <1>5, V2IsMade
  <2>2. p # NoPair
    BY <2>1 DEF Pairs, Addrs, IPAddrs, UnixAddrs, NoPair, NoAddr
  <2>3. h.kind = "v2" /\ h.family \in 0..4 /\ h.len \in Nat \ {0} /\ h.len >= 14
    BY <2>1, Lengths DEF MadeV2, Preamble
  <2> QED
    BY <2>1, <2>2, <2>3 DEF Known
<1>6. \/ s \in [hdr : PeerLines \union FormatV2 \union Invalid, made : {NoPair}]
      \/ s \in UNION {[hdr : appendProxyProtoV1(r.src, r.dst), made : {r}] :
                        r \in {c \in Pairs : c.src.net = "tcp"}}
      \/ s \in {[hdr |-> appendProxyProtoV2(r.src, r.dst, local), made |-> r] :
                  r \in Pairs, local \in BOOLEAN}
  BY DEF Started
<1>7. ASSUME s \in UNION {[hdr : appendProxyProtoV1(r.src, r.dst), made : {r}] :
                            r \in {c \in Pairs : c.src.net = "tcp"}}
      PROVE  \E r \in Pairs : /\ r.src.net = "tcp" /\ h \in appendProxyProtoV1(r.src, r.dst)
                              /\ p = r
  <2>1. PICK r \in Pairs :
          r.src.net = "tcp" /\ s \in [hdr : appendProxyProtoV1(r.src, r.dst), made : {r}]
    BY <1>7
  <2> QED
    BY <2>1, <1>0
<1>8. ASSUME s \in {[hdr |-> appendProxyProtoV2(r.src, r.dst, local), made |-> r] :
                      r \in Pairs, local \in BOOLEAN}
      PROVE  \E r \in Pairs, local \in BOOLEAN :
               h = appendProxyProtoV2(r.src, r.dst, local) /\ p = r
  <2>1. PICK r \in Pairs, local \in BOOLEAN :
               s = [hdr |-> appendProxyProtoV2(r.src, r.dst, local), made |-> r]
    BY <1>8
  <2> QED
    BY <2>1, <1>0
<1>9. ASSUME s \in [hdr : PeerLines \union FormatV2 \union Invalid, made : {NoPair}]
      PROVE  p = NoPair /\ (h \in PeerLines \/ h \in FormatV2 \/ h \in Invalid)
  BY <1>0, <1>9
<1> HIDE DEF s
<1> QED
  BY <1>1, <1>2, <1>3, <1>4, <1>5, <1>6, <1>7, <1>8, <1>9

(* What a read of the header does: some of the bytes that are there, and   *)
(* no more than fit.                                                       *)
LEMMA ReadFacts ==
  ASSUME ProxyTypeOK, NEW upTo \in Int, Read(upTo)
  PROVE  /\ nread' \in 0..total /\ nread' <= upTo /\ nread' > nread
         /\ UNCHANGED <<hdr, made, total, ended, ahead, src, got>>
<1>1. total \in Nat /\ nread \in 0..total
  BY DEF ProxyTypeOK
<1>2. Min({upTo, total}) = IF upTo <= total THEN upTo ELSE total
  BY <1>1, MinOfTwo
<1>3. nread' \in nread + 1 .. Min({upTo, total})
  BY DEF Read
<1>4. UNCHANGED <<hdr, made, total, ended, ahead, src, got>>
  BY DEF Read, Peer
<1> HIDE DEF Read
<1> QED
  BY <1>1, <1>2, <1>3, <1>4

(* The bounds of a connection whose header is known. *)
LEMMA HeaderKnown ==
  ASSUME PayloadInv
  PROVE  /\ Known(hdr, made) /\ hdr.len \in Nat \ {0}
         /\ total \in Nat /\ nread \in 0..total /\ got \in 0..total
<1>1. [hdr |-> hdr, made |-> made] \in Started
  BY DEF PayloadInv, ProxyTypeOK
<1>2. Known(hdr, made)
  BY <1>1, StartedFacts
<1> QED
  BY <1>2 DEF Known, PayloadInv, ProxyTypeOK

(* What is said of the header stays while it does. *)
LEMMA HeaderStays ==
  ASSUME UNCHANGED <<hdr, made>>
  PROVE  /\ Fits' <=> Fits
         /\ NoIP' <=> NoIP
         /\ V2Known' <=> V2Known
         /\ PayloadStart' = PayloadStart
<1>1. Fits' <=> Fits
  BY DEF Fits
<1> QED
  BY <1>1 DEF NoIP, V2Known, PayloadStart

(* A header that is refused was not made from addresses that have an IP    *)
(* and fit, or is not all there.                                           *)
LEMMA FailFacts ==
  ASSUME PayloadInv, Fail, made # NoPair /\ total >= hdr.len => NoIP \/ ~Fits
  PROVE  PayloadInv'
<1>1. /\ stage' = "panicked"
      /\ UNCHANGED <<hdr, made, total, ended, nread, ahead, src, got>>
  BY DEF Fail, Peer
<1>2. ProxyTypeOK'
  BY <1>1 DEF PayloadInv, ProxyTypeOK, Stages
<1>3. PayloadExact' /\ Recognised'
  BY <1>1 DEF PayloadExact, Recognised
<1>4. RoundTrip'
  BY <1>1, HeaderStays DEF RoundTrip
<1> QED
  BY <1>2, <1>3, <1>4 DEF PayloadInv

(* Reading on, within the array, keeps the invariant. *)
LEMMA ReadKeeps ==
  ASSUME PayloadInv, NEW upTo \in 0..BufferSize, Read(upTo),
         stage' = stage, stage \in {"start", "line", "rest"}
  PROVE  PayloadInv'
<1>1. BufferSize = 256
  BY DEF BufferSize
<1>2. /\ nread' \in 0..total /\ nread' <= upTo
      /\ UNCHANGED <<hdr, made, total, ended, ahead, src, got>>
  BY <1>1, ReadFacts DEF PayloadInv
<1>3. ProxyTypeOK'
  BY <1>1, <1>2 DEF PayloadInv, ProxyTypeOK
<1>4. PayloadExact' /\ RoundTrip'
  BY <1>2 DEF PayloadExact, RoundTrip
<1>5. Recognised'
  BY <1>2 DEF PayloadInv, Recognised, V2Known
<1> QED
  BY <1>3, <1>4, <1>5 DEF PayloadInv

(* Where the handler starts. *)
LEMMA ServeKeeps ==
  ASSUME PayloadInv, NEW a \in Addrs \union {NoAddr, Misread}, NEW k \in Nat,
         stage \in {"line", "rest"}, k = PayloadStart, k <= nread, Serve(a, k),
         made # NoPair => /\ ~NoIP
                          /\ a = IF made.src.net \in {"unixpacket", "other"} THEN NoAddr
                                 ELSE IF Fits THEN made.src ELSE Misread
  PROVE  PayloadInv'
<1>1. /\ stage' = "serve" /\ src' = a /\ ahead' = [lo |-> k, hi |-> nread]
      /\ UNCHANGED <<hdr, made, total, ended, nread, got>>
  BY DEF Serve, Peer
<1>2. total \in Nat /\ nread \in 0..total /\ got = 0 /\ nread <= BufferSize
  BY HeaderKnown DEF PayloadInv, Recognised, ProxyTypeOK
<1>3. ahead'.lo = k /\ ahead'.hi = nread
  BY <1>1
<1>4. ahead' \in [lo : 0..nread, hi : 0..BufferSize]
  BY <1>1, <1>2 DEF BufferSize
<1>5. ProxyTypeOK'
  BY <1>1, <1>3, <1>4 DEF PayloadInv, ProxyTypeOK, Stages
<1>6. PayloadExact'
  BY <1>1, <1>2, <1>3, HeaderStays DEF PayloadExact
<1>7. RoundTrip' /\ Recognised'
  BY <1>1, HeaderStays DEF RoundTrip, Recognised
<1> QED
  BY <1>5, <1>6, <1>7 DEF PayloadInv

(* The invariant holds before the first byte is read. *)
LEMMA PayloadInit == ProxyInit => PayloadInv
<1> SUFFICES ASSUME ProxyInit PROVE PayloadInv
  OBVIOUS
<1>1. [hdr |-> hdr, made |-> made] \in Started
  <2>1. PICK s \in Started : hdr = s.hdr /\ made = s.made
    BY DEF ProxyInit
  <2>2. s = [hdr |-> s.hdr, made |-> s.made]
    BY DEF Started
  <2> QED
    BY <2>1, <2>2
<1>2. hdr.len \in Nat \ {0}
  BY <1>1, StartedFacts DEF Known
<1>3. total \in Nat
  BY <1>2, ProxyProtocolAssumption DEF ProxyInit, Preamble
<1>4. /\ ended \in BOOLEAN /\ stage = "start" /\ nread = 0 /\ ahead = [lo |-> 0, hi |-> 0]
      /\ src = NoAddr /\ got = 0
  BY DEF ProxyInit
<1>5. ProxyTypeOK
  BY <1>1, <1>3, <1>4 DEF ProxyTypeOK, Stages, BufferSize
<1> QED
  BY <1>4, <1>5 DEF PayloadInv, PayloadExact, RoundTrip, Recognised

(* So does going on to the loop of a version. *)
LEMMA MovesOn ==
  ASSUME PayloadInv, stage \in {"start", "rest"},
         \/ stage' = "line" /\ hdr.kind = "v1"
         \/ stage' = "rest" /\ hdr.kind = "v2" /\ V2Known
         \/ stage' = "local",
         UNCHANGED <<hdr, made, total, ended, nread, ahead, src, got>>
  PROVE  PayloadInv'
<1>1. ProxyTypeOK'
  BY DEF PayloadInv, ProxyTypeOK, Stages
<1>2. PayloadExact' /\ RoundTrip'
  BY DEF PayloadExact, RoundTrip
<1>3. Recognised'
  BY DEF PayloadInv, Recognised, V2Known
<1> QED
  BY <1>1, <1>2, <1>3 DEF PayloadInv

(* A header of version 2 that was found valid: where its addresses end,    *)
(* and the address it gives.                                               *)
LEMMA RestFacts ==
  ASSUME PayloadInv, stage = "rest"
  PROVE  /\ hdr.kind = "v2" /\ V2Known /\ AddressesEnd \in 14..230
         /\ made # NoPair /\ PortMissing => NoIP
         /\ made # NoPair /\ ~PortMissing => ~NoIP
         /\ made # NoPair /\ ~NoIP /\ Fits => AddressesEnd = hdr.len
         /\ ~PortMissing => PayloadStart = AddressesEnd
         /\ ~PortMissing => LET a == makeAddr(hdr.family, hdr.socktype)
                            IN  /\ a \in Addrs \union {NoAddr, Misread}
                                /\ made # NoPair =>
                                     a = IF made.src.net \in {"unixpacket", "other"} THEN NoAddr
                                         ELSE IF Fits THEN made.src ELSE Misread
<1> USE DEF AF_UNSPEC, AF_INET, AF_INET6, AF_UNIX, UNSPEC, STREAM, DGRAM
<1>1. hdr.kind = "v2" /\ V2Known /\ Known(hdr, made)
  BY HeaderKnown DEF PayloadInv, Recognised
<1>2. /\ hdr.family \in {0, 1, 2, 3} /\ hdr.socktype \in {0, 1, 2}
      /\ hdr.version = 2 /\ hdr.cmd \in {0, 1}
  BY <1>1 DEF V2Known
<1>3. AddressesEnd = 14 + AddressesLen(hdr.family) /\ AddressesEnd \in 14..230
  BY <1>2, Lengths DEF AddressesEnd, Preamble
<1>4. PortMissing <=> hdr.family = 0 /\ hdr.socktype # 0
  BY DEF PortMissing
<1> DEFINE a == makeAddr(hdr.family, hdr.socktype)
<1>5. ~PortMissing => a \in Addrs \union {NoAddr, Misread}
  BY <1>2, <1>4 DEF makeAddr, makeUnixAddr, Addrs, IPAddrs, UnixAddrs
<1>6. CASE made = NoPair
  <2>1. ~PortMissing => hdr.len = AddressesEnd + LengthField
    BY <1>1, <1>2, <1>3, <1>4, <1>6, Lengths DEF Known, Preamble, LengthField
  <2>2. ~PortMissing => PayloadStart = AddressesEnd
    BY <1>1, <1>3, <1>6, <2>1 DEF PayloadStart, LengthField
  <2> QED
    BY <1>1, <1>3, <1>5, <1>6, <2>2
<1>7. CASE made # NoPair
  <2>1. made \in Pairs /\ MadeV2(hdr, made)
    BY <1>1, <1>7 DEF Known, MadeLine
  <2>2. Fits <=> FitsPair(made)
    BY <1>1 DEF Fits, FitsPair
  <2>3. NoIP <=> made.src \in IPAddrs /\ made.src.ip = 0
    BY <1>1 DEF NoIP
  <2>4. PayloadStart = IF Fits THEN hdr.len ELSE hdr.len + addrLen(hdr.family)
    BY <1>7 DEF PayloadStart
  <2>5. CASE made.src \in IPAddrs /\ made.src.ip = 0
    <3>1. PortMissing /\ NoIP
      BY <1>4, <2>1, <2>3, <2>5 DEF MadeV2, IPAddrs, UnixAddrs
    <3> QED
      BY <1>1, <1>3, <3>1
  <2>6. CASE made.src \in IPAddrs /\ made.src.ip # 0
    <3>1. /\ made.src.ip \in {4, 6} /\ made.src.net \in {"tcp", "udp"}
          /\ made.src = [net |-> made.src.net, ip |-> made.src.ip]
      BY <2>6 DEF IPAddrs
    <3>2. /\ hdr.family = (IF made.src.ip = 4 THEN 1 ELSE 2)
          /\ hdr.socktype = (IF made.src.net = "tcp" THEN 1 ELSE 2)
          /\ hdr.len = IF Fits THEN Preamble + AddressesLen(hdr.family)
                       ELSE Preamble + AddressesLen(hdr.family) - addrLen(hdr.family)
      BY <2>1, <2>2, <2>6, <3>1 DEF MadeV2, UnixAddrs
    <3>3. ~PortMissing /\ ~NoIP
      BY <1>4, <2>3, <2>6, <3>2
    <3>4. (Fits => hdr.len = AddressesEnd) /\ (~Fits => hdr.len # AddressesEnd)
      BY <1>3, <3>1, <3>2, Lengths DEF Preamble
    <3>5. PayloadStart = AddressesEnd
      BY <1>3, <2>4, <3>1, <3>2, Lengths DEF Preamble
    <3>6. a = IF Fits THEN made.src ELSE Misread
      BY <3>1, <3>2, <3>4 DEF makeAddr
    <3> QED
      BY <1>1, <1>3, <1>5, <3>1, <3>3, <3>4, <3>5, <3>6
  <2>7. CASE made.src \in UnixAddrs
    <3>1. /\ made.src.net \in {"unix", "unixgram", "unixpacket"} /\ made.src.ip = 0
          /\ made.src = [net |-> made.src.net, ip |-> 0] /\ made.src \notin IPAddrs
      BY <2>7 DEF UnixAddrs, IPAddrs
    <3>2. /\ hdr.family = 3 /\ hdr.len = Preamble + AddressesLen(3)
          /\ hdr.socktype = IF made.src.net = "unix" THEN 1
                            ELSE IF made.src.net = "unixgram" THEN 2 ELSE 0
      BY <2>1, <3>1 DEF MadeV2
    <3>3. Fits /\ ~NoIP /\ ~PortMissing /\ hdr.len = AddressesEnd /\ PayloadStart = AddressesEnd
      BY <1>3, <1>4, <2>2, <2>3, <2>4, <3>1, <3>2 DEF FitsPair, Preamble
    <3>4. a = IF made.src.net = "unixpacket" THEN NoAddr ELSE made.src
      BY <3>1, <3>2, <3>3 DEF makeAddr, makeUnixAddr
    <3> QED
      BY <1>1, <1>3, <1>5, <3>1, <3>3, <3>4
  <2>8. CASE /\ made.src.net = "other" /\ made.src.ip = 0
             /\ hdr.family = 0 /\ hdr.socktype = 0 /\ hdr.len = 14
    <3>1. made.src \notin IPAddrs
      BY <2>8 DEF IPAddrs
    <3>2. Fits /\ ~NoIP /\ ~PortMissing /\ hdr.len = AddressesEnd /\ PayloadStart = AddressesEnd
      BY <1>3, <1>4, <2>2, <2>3, <2>4, <2>8, <3>1, Lengths DEF FitsPair
    <3>3. a = NoAddr
      BY <2>8 DEF makeAddr
    <3> QED
      BY <1>1, <1>3, <1>5, <2>8, <3>2, <3>3
  <2> QED
    BY <2>1, <2>5, <2>6, <2>7, <2>8 DEF MadeV2
<1> QED
  BY <1>6, <1>7

(* The steps of parseProxyProto keep it. *)
LEMMA ParseKeeps ==
  ASSUME PayloadInv, ParseNext
  PROVE  PayloadInv'
<1>0. /\ Known(hdr, made) /\ hdr.len \in Nat \ {0}
      /\ total \in Nat /\ nread \in 0..total /\ got \in 0..total
  BY HeaderKnown
<1>1. made # NoPair => /\ hdr.kind \in {"v1", "v2"} /\ hdr.len \in Nat /\ hdr.len >= 14
                       /\ MadeLine(hdr, made) \/ MadeV2(hdr, made)
  <2> SUFFICES ASSUME made # NoPair, MadeLine(hdr, made) \/ MadeV2(hdr, made)
               PROVE  hdr.kind \in {"v1", "v2"} /\ hdr.len >= 14
    BY <1>0 DEF Known
  <2>1. CASE MadeLine(hdr, made)
    BY <2>1 DEF MadeLine
  <2>2. CASE MadeV2(hdr, made)
    BY <2>2, Lengths DEF MadeV2, Preamble
  <2> QED
    BY <2>1, <2>2
<1>2. CASE Start
  BY <1>2, ReadKeeps DEF Start, BufferSize
<1>3. CASE StartEOF
  BY <1>0, <1>1, <1>3, FailFacts DEF StartEOF, EOF, Preamble
<1>4. CASE Switch
  <2>1. CASE hdr.kind = "v1"
    <3>1. /\ stage' = "line" /\ stage = "start"
          /\ UNCHANGED <<hdr, made, total, ended, nread, ahead, src, got>>
      BY <1>4, <2>1 DEF Switch, Peer
    <3> QED
      BY <2>1, <3>1, MovesOn
  <2>2. CASE hdr.kind = "v2" /\ V2Known
    <3>1. /\ stage' = "rest" /\ stage = "start"
          /\ UNCHANGED <<hdr, made, total, ended, nread, ahead, src, got>>
      BY <1>4, <2>2 DEF Switch, Peer
    <3> QED
      BY <2>2, <3>1, MovesOn
  <2>3. CASE hdr.kind = "v2" /\ ~V2Known
    <3>1. Fail
      BY <1>4, <2>3 DEF Switch
    <3>2. made = NoPair
      <4>1. MadeV2(hdr, made) => V2Known
        BY DEF MadeV2, V2Known, AF_UNSPEC, AF_UNIX, UNSPEC, DGRAM
      <4> QED
        BY <1>1, <2>3, <4>1 DEF MadeLine
    <3> QED
      BY <3>1, <3>2, FailFacts
  <2>4. CASE hdr.kind = "garbage"
    <3>1. Fail
      BY <1>4, <2>4 DEF Switch
    <3> QED
      BY <1>1, <2>4, <3>1, FailFacts
  <2> QED
    BY <1>0, <2>1, <2>2, <2>3, <2>4 DEF Known
<1>5. CASE LineRead
  BY <1>5, ReadKeeps DEF LineRead, BufferSize, MaxLine
<1>6. Min({nread, MaxLine}) = IF nread <= 107 THEN nread ELSE 107
  BY <1>0, MinOfTwo DEF MaxLine
<1>7. CASE LineEOF
  <2>1. hdr.len > nread /\ nread = total
    BY <1>0, <1>6, <1>7 DEF LineEOF, EOF, HasLine, MaxLine
  <2> QED
    BY <1>0, <1>7, <2>1, FailFacts DEF LineEOF
<1>8. CASE LineTooLong
  <2>1. hdr.len > 107
    BY <1>0, <1>6, <1>8 DEF LineTooLong, HasLine, MaxLine
  <2>2. hdr.kind = "v1"
    BY <1>8 DEF LineTooLong, PayloadInv, Recognised
  <2>3. made = NoPair
    BY <1>0, <1>1, <2>1, <2>2 DEF MadeLine, MadeV2
  <2> QED
    BY <1>8, <2>3, FailFacts DEF LineTooLong
<1>9. CASE LineParsed
  <2> DEFINE a == [net |-> "tcp", ip |-> IF hdr.words[2] = "ip4" THEN 4 ELSE 6]
  <2>1. stage = "line" /\ hdr.kind = "v1" /\ hdr.len <= nread
    BY <1>0, <1>6, <1>9 DEF LineParsed, HasLine, PayloadInv, Recognised
  <2>2. made # NoPair => MadeLine(hdr, made)
    BY <1>1, <2>1 DEF MadeV2
  <2>3. /\ made # NoPair => (parseProxyProtoV1(hdr.words) <=> ~NoIP)
        /\ made # NoPair /\ ~NoIP => made.src = a
    BY <2>1, <2>2 DEF MadeLine, NoIP
  <2>4. Fits /\ PayloadStart = hdr.len
    BY <2>1 DEF Fits, PayloadStart
  <2>5. CASE parseProxyProtoV1(hdr.words)
    <3>1. Serve(a, hdr.len)
      BY <1>9, <2>5 DEF LineParsed
    <3>2. a \in Addrs \union {NoAddr, Misread} /\ a.net = "tcp"
      BY DEF Addrs, IPAddrs
    <3> HIDE DEF a
    <3> QED
      BY <1>0, <2>1, <2>3, <2>4, <2>5, <3>1, <3>2, ServeKeeps
  <2>6. CASE ~parseProxyProtoV1(hdr.words)
    BY <1>9, <2>3, <2>6, FailFacts DEF LineParsed
  <2> QED
    BY <2>5, <2>6
<1>10. CASE RestRead
  BY <1>10, RestFacts, ReadKeeps DEF RestRead, BufferSize
<1>11. CASE RestEOF
  <2>1. nread = total /\ nread < AddressesEnd /\ stage = "rest" /\ Fail
    BY <1>11 DEF RestEOF, EOF
  <2>2. made # NoPair /\ total >= hdr.len => NoIP \/ ~Fits
    BY <1>0, <2>1, RestFacts
  <2> QED
    BY <2>1, <2>2, FailFacts
<1>12. CASE RestParsed
  <2>1. stage = "rest" /\ nread >= AddressesEnd
    BY <1>12 DEF RestParsed
  <2>2. CASE PortMissing
    BY <1>12, <2>1, <2>2, RestFacts, FailFacts DEF RestParsed
  <2>3. CASE ~PortMissing /\ hdr.cmd = 1
    <3> DEFINE a == makeAddr(hdr.family, hdr.socktype)
    <3>1. Serve(a, AddressesEnd)
      BY <1>12, <2>3 DEF RestParsed
    <3>2. /\ AddressesEnd \in Nat /\ AddressesEnd <= nread /\ AddressesEnd = PayloadStart
      BY <1>0, <2>1, <2>3, RestFacts
    <3>3. /\ a \in Addrs \union {NoAddr, Misread}
          /\ made # NoPair => /\ ~NoIP
                              /\ a = IF made.src.net \in {"unixpacket", "other"} THEN NoAddr
                                     ELSE IF Fits THEN made.src ELSE Misread
      BY <2>1, <2>3, RestFacts
    <3> HIDE DEF a
    <3> QED
      BY <2>1, <3>1, <3>2, <3>3, ServeKeeps
  <2>4. CASE ~PortMissing /\ hdr.cmd # 1
    <3>1. /\ stage' = "local"
          /\ UNCHANGED <<hdr, made, total, ended, nread, ahead, src, got>>
      BY <1>12, <2>4 DEF RestParsed, Peer
    <3> QED
      BY <2>1, <3>1, MovesOn
  <2> QED
    BY <2>2, <2>3, <2>4
<1> QED
  BY <1>2, <1>3, <1>4, <1>5, <1>7, <1>8, <1>9, <1>10, <1>11, <1>12 DEF ParseNext

(* The reads of the handler keep it: what is left in the array is read     *)
(* before the connection is.                                               *)
LEMMA HandlerKeeps ==
  ASSUME PayloadInv, HandlerNext
  PROVE  PayloadInv'
<1>0. /\ PayloadStart \in Nat
      /\ total \in Nat /\ nread \in 0..total /\ got \in 0..total
      /\ ahead \in [lo : 0..ahead.hi, hi : 0..BufferSize] /\ ahead.lo \in Nat /\ ahead.hi \in Nat
  <2>1. hdr.len \in Nat /\ (hdr.kind = "v2" => addrLen(hdr.family) \in Nat /\ hdr.len >= 14)
    BY HeaderKnown DEF Known, addrLen
  <2>2. PayloadStart \in Nat
    BY <2>1 DEF PayloadStart, LengthField, Fits
  <2> QED
    BY <2>2, HeaderKnown DEF PayloadInv, ProxyTypeOK
<1>1. ASSUME NEW k \in ReadSizes, ReadBuffered(k)
      PROVE  PayloadInv'
  <2> DEFINE d == Min({k, ahead.hi - ahead.lo})
  <2>1. k \in Nat \ {0} /\ ahead.lo < ahead.hi
    BY <1>1, ProxyProtocolAssumption DEF ReadBuffered
  <2>2. d = IF k <= ahead.hi - ahead.lo THEN k ELSE ahead.hi - ahead.lo
    BY <1>0, <2>1, MinOfTwo
  <2>3. d \in 1..(ahead.hi - ahead.lo)
    BY <1>0, <2>1, <2>2
  <2>4. /\ stage = "serve" /\ got' = got + d /\ ahead' = [ahead EXCEPT !.lo = @ + d]
        /\ UNCHANGED <<hdr, made, total, ended, stage, nread, src>>
    BY <1>1 DEF ReadBuffered, Peer
  <2> HIDE DEF d
  <2>5. ahead'.lo = ahead.lo + d /\ ahead'.hi = ahead.hi
    BY <1>0, <2>4
  <2>6. ahead.lo = PayloadStart + got /\ ahead.hi = nread
    BY <2>1, <2>4 DEF PayloadInv, PayloadExact
  <2>7. ahead' \in [lo : 0..ahead'.hi, hi : 0..BufferSize]
    BY <1>0, <2>3, <2>4, <2>5
  <2>8. got' \in 0..total
    BY <1>0, <2>3, <2>4, <2>6
  <2>9. ProxyTypeOK'
    BY <2>4, <2>7, <2>8 DEF PayloadInv, ProxyTypeOK
  <2>10. PayloadExact'
    BY <1>0, <2>3, <2>4, <2>5, <2>6, HeaderStays DEF PayloadExact
  <2>11. RoundTrip' /\ Recognised'
    BY <2>4, HeaderStays DEF PayloadInv, RoundTrip, Recognised
  <2> QED
    BY <2>9, <2>10, <2>11 DEF PayloadInv
<1>2. ASSUME NEW k \in ReadSizes, ReadConn(k)
      PROVE  PayloadInv'
  <2>1. k \in Nat \ {0} /\ ahead.lo = ahead.hi
    BY <1>2, ProxyProtocolAssumption DEF ReadConn
  <2>2. Min({k, total - nread}) = IF k <= total - nread THEN k ELSE total - nread
    BY <1>0, <2>1, MinOfTwo
  <2>3. PICK d \in 1..Min({k, total - nread}) : nread' = nread + d /\ got' = got + d
    BY <1>2 DEF ReadConn
  <2>4. /\ stage = "serve"
        /\ UNCHANGED <<hdr, made, total, ended, stage, ahead, src>>
    BY <1>2 DEF ReadConn, Peer
  <2>5. nread = PayloadStart + got
    BY <1>0, <2>1, <2>4 DEF PayloadInv, PayloadExact
  <2>6. nread' \in 0..total /\ got' \in 0..total
    BY <1>0, <2>1, <2>2, <2>3, <2>5
  <2>7. ProxyTypeOK'
    BY <2>4, <2>6 DEF PayloadInv, ProxyTypeOK
  <2>8. PayloadExact'
    BY <1>0, <2>1, <2>2, <2>3, <2>4, <2>5, HeaderStays DEF PayloadExact
  <2>9. RoundTrip' /\ Recognised'
    BY <2>4, HeaderStays DEF PayloadInv, RoundTrip, Recognised
  <2> QED
    BY <2>7, <2>8, <2>9 DEF PayloadInv
<1>3. CASE Return
  <2>1. /\ stage = "serve" /\ stage' = "done"
        /\ UNCHANGED <<hdr, made, total, ended, nread, ahead, src, got>>
    BY <1>3 DEF Return, Peer
  <2>2. ProxyTypeOK'
    BY <2>1 DEF PayloadInv, ProxyTypeOK, Stages
  <2> QED
    BY <2>1, <2>2 DEF PayloadInv, PayloadExact, RoundTrip, Recognised
<1> QED
  BY <1>1, <1>2, <1>3 DEF HandlerNext

(* However the network cuts the header, for every length of a line and of  *)
(* a payload: the array is not overrun, the handler reads the payload from *)
(* its first byte on, and a header that the code made for two addresses is *)
(* not refused and gives the source back.  The exceptions are those that   *)
(* PayloadStart and RoundTrip name: a header with a length field, a nil    *)
(* IP, and a destination that the family of the source has no room for     *)
(* (proxy.go:95-136, 178-269, 272-375).                                    *)
THEOREM ProxyPayload == ProxySpec => []PayloadInv
<1>1. ProxyInit => PayloadInv
  BY PayloadInit
<1>2. PayloadInv /\ [ProxyNext]_proxyVars => PayloadInv'
  <2> SUFFICES ASSUME PayloadInv, [ProxyNext]_proxyVars
               PROVE  PayloadInv'
    OBVIOUS
  <2>1. CASE ParseNext
    BY <2>1, ParseKeeps
  <2>2. CASE HandlerNext
    BY <2>2, HandlerKeeps
  <2>3. CASE Stopped \/ UNCHANGED proxyVars
    <3>1. UNCHANGED <<hdr, made, total, ended, stage, nread, ahead, src, got>>
      BY <2>3 DEF Stopped, proxyVars
    <3> QED
      BY <3>1, HeaderStays DEF PayloadInv, ProxyTypeOK, PayloadExact, RoundTrip, Recognised
  <2> QED
    BY <2>1, <2>2, <2>3 DEF ProxyNext
<1> QED
  BY <1>1, <1>2, PTL DEF ProxySpec
=============================================================================
