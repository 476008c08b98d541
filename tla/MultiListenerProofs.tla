------------------------ MODULE MultiListenerProofs -------------------------
(***************************************************************************)
(* Proofs of the safety of Listen and MultiListener, for every number of   *)
(* listeners and for any connections and callers of Accept and Close.  The *)
(* inductive invariant is DrainInv; each of its parts has a lemma that     *)
(* says which other parts keep it.                                         *)
(***************************************************************************)
EXTENDS MultiListener, FiniteSetTheorems, TLAPS

(* The goroutines that have ended, as Close counts them. *)
Exited == {l \in Listeners : g[l] = "exited"}

-----------------------------------------------------------------------------
(* Counting. *)

(* The goroutines that have ended are finitely many, N at most. *)
LEMMA ExitedFinite ==
  /\ IsFiniteSet(Exited) /\ Cardinality(Exited) \in Nat
  /\ Cardinality(Exited) <= N
<1>1. IsFiniteSet(Listeners) /\ Cardinality(Listeners) = N
  BY NAssumption, FS_Interval DEF Listeners
<1>2. Exited \subseteq Listeners
  BY DEF Exited
<1> QED
  BY <1>1, <1>2, FS_Subset, FS_CardinalityType

(* When as many have ended as there are listeners, all have. *)
LEMMA AllExited ==
  ASSUME DrainCounts, i = N
  PROVE  \A l \in Listeners : g[l] = "exited"
<1>1. IsFiniteSet(Listeners) /\ Cardinality(Listeners) = N
  BY NAssumption, FS_Interval DEF Listeners
<1>2. Exited \subseteq Listeners /\ Cardinality(Exited) = Cardinality(Listeners)
  BY <1>1 DEF Exited, DrainCounts
<1>3. Exited = Listeners
  BY <1>1, <1>2, FS_Subset
<1> QED
  BY <1>3 DEF Exited

(* A step that ends no goroutine leaves the count alone. *)
LEMMA SameCount ==
  ASSUME DrainCounts, i' = i, Exited' = Exited
  PROVE  DrainCounts'
BY DEF DrainCounts, Exited

(* Every step keeps the counter of the drain loop equal to the number of   *)
(* goroutines that have ended.                                             *)
LEMMA CountStep ==
  ASSUME TypeOK, DrainCounts, Listening, [Next]_vars
  PROVE  DrainCounts' /\ i' \in 0..N
<1>0. i \in 0..N /\ i = Cardinality(Exited)
  BY DEF TypeOK, DrainCounts, Exited
<1> DEFINE Same == i' = i /\ Exited' = Exited
<1>same. ASSUME Same PROVE DrainCounts' /\ i' \in 0..N
  BY <1>same, <1>0, SameCount
<1> USE DEF TypeOK, Exited
<1>1. CASE UNCHANGED vars
  BY <1>1, <1>same DEF vars
<1>2. CASE ListenNext
  BY <1>2, <1>same DEF ListenNext, ListenOne, ListenFails, AbortOne, AbortEnds,
       StartAll, Listening
<1>3. ASSUME NEW c \in Conns, Arrive(c) PROVE Same
  BY <1>3 DEF Arrive
<1>4. ASSUME NEW l \in Listeners, GoroutineNext(l) PROVE Same
  BY <1>4 DEF GoroutineNext, AcceptConn, AcceptTemporary, AcceptPermanent
<1>5. ASSUME NEW a \in Acceptors, AcceptNext(a) PROVE Same
  BY <1>5 DEF AcceptNext, CallAccept, ReturnClosedPipe, ReturnConn, ReturnErr,
       ReceiveConn, ReceiveErr, AfterErr
<1>6. ASSUME NEW k \in Closers, NEW l \in Listeners, DrainDone(k, l)
      PROVE  DrainCounts' /\ i' \in 0..N
  <2>1. l \notin Exited /\ Exited' = Exited \cup {l} /\ i' = i + 1 /\ i # N
    BY <1>6 DEF DrainDone
  <2>2. Cardinality(Exited') = Cardinality(Exited) + 1
    BY <2>1, ExitedFinite, FS_AddElement
  <2>3. i' = Cardinality(Exited')
    BY <1>0, <2>1, <2>2
  <2> QED
    BY <1>0, <2>1, <2>3, NAssumption DEF DrainCounts
<1>7. ASSUME NEW k \in Closers, CloseNext(k),
             ~ \E l \in Listeners : DrainDone(k, l)
      PROVE  Same
  BY <1>7 DEF CloseNext, CallClose, OnceFirst, OnceLater, CloseListener,
       CloseLoopEnds, CloseX, OnceDone, DrainConn, DrainErr, ReceiveConn,
       ReceiveErr, AfterErr
<1> QED
  BY <1>1, <1>2, <1>3, <1>4, <1>5, <1>6, <1>7, <1>same DEF Next

-----------------------------------------------------------------------------
(* Every step keeps the other parts. *)

(* The types. *)
LEMMA TypeStep ==
  ASSUME TypeOK, Holding, i' \in 0..N, [Next]_vars
  PROVE  TypeOK'
<1> USE DEF TypeOK, ListenPc, ConnState, GoroutinePc, ClosePc
<1>1. CASE UNCHANGED vars
  BY <1>1 DEF vars
<1>2. CASE ListenNext
  <2>0. open' \in SUBSET Listeners /\ listen' \in ListenPc
    BY <1>2 DEF ListenNext, ListenOne, ListenFails, AbortOne, AbortEnds, StartAll,
         CloseNet
  <2>1. li' \in 1..(N + 1)
    <3>1. CASE ListenOne \/ AbortOne
      BY <3>1, NAssumption DEF ListenOne, AbortOne, Listeners
    <3> QED
      BY <1>2, <3>1, NAssumption DEF ListenNext, ListenFails, AbortEnds, StartAll
  <2>2. conn' \in [Conns -> ConnState] /\ g' \in [Listeners -> GoroutinePc]
    BY <1>2 DEF ListenNext, ListenOne, ListenFails, AbortOne, AbortEnds, StartAll,
         CloseNet
  <2>3. UNCHANGED <<held, accept, close, once, ci, i, x>>
    BY <1>2 DEF ListenNext, ListenOne, ListenFails, AbortOne, AbortEnds, StartAll
  <2> QED
    BY <2>0, <2>1, <2>2, <2>3
<1>3. ASSUME NEW c \in Conns, Arrive(c) PROVE TypeOK'
  BY <1>3 DEF Arrive
<1>4. ASSUME NEW l \in Listeners, NEW c \in Conns, AcceptConn(l, c) PROVE TypeOK'
  BY <1>4 DEF AcceptConn
<1>5. ASSUME NEW l \in Listeners, AcceptTemporary(l) \/ AcceptPermanent(l)
      PROVE  TypeOK'
  BY <1>5 DEF AcceptTemporary, AcceptPermanent
<1>6. ASSUME NEW l \in Listeners, NEW state \in ConnState, ReceiveConn(l, state)
      PROVE  /\ conn' \in [Conns -> ConnState] /\ g' \in [Listeners -> GoroutinePc]
             /\ held' \in [Listeners -> Conns \cup {NoConn}]
  BY <1>6 DEF ReceiveConn
<1>7. ASSUME NEW l \in Listeners, ReceiveErr(l)
      PROVE  g' \in [Listeners -> GoroutinePc]
  BY <1>7 DEF ReceiveErr, AfterErr
<1>8. ASSUME NEW a \in Acceptors, CallAccept(a) \/ ReturnClosedPipe(a) PROVE TypeOK'
  BY <1>8 DEF CallAccept, ReturnClosedPipe
<1>9. ASSUME NEW a \in Acceptors, NEW l \in Listeners,
             ReturnConn(a, l) \/ ReturnErr(a, l)
      PROVE  TypeOK'
  BY <1>6, <1>7, <1>9 DEF ReturnConn, ReturnErr
<1>10. ASSUME NEW k \in Closers,
              CallClose(k) \/ OnceFirst(k) \/ OnceLater(k) \/ CloseLoopEnds(k)
                \/ CloseX(k) \/ OnceDone(k)
       PROVE  TypeOK'
  BY <1>10 DEF CallClose, OnceFirst, OnceLater, CloseLoopEnds, CloseX, OnceDone
<1>11. ASSUME NEW k \in Closers, CloseListener(k) PROVE TypeOK'
  BY <1>11, NAssumption DEF CloseListener, CloseNet, Listeners
<1>12. ASSUME NEW k \in Closers, NEW l \in Listeners,
              DrainConn(k, l) \/ DrainErr(k, l) \/ DrainDone(k, l)
       PROVE  TypeOK'
  BY <1>6, <1>7, <1>12 DEF DrainConn, DrainErr, DrainDone
<1> QED
  BY <1>1, <1>2, <1>3, <1>4, <1>5, <1>8, <1>9, <1>10, <1>11, <1>12
  DEF Next, GoroutineNext, AcceptNext, CloseNext

(* Closing a listener resets what it had queued, and touches nothing that  *)
(* is held.                                                                *)
LEMMA CloseNetKeeps ==
  ASSUME TypeOK, Holding, Backlog, NEW l \in Listeners, CloseNet(l),
         g' = g, held' = held
  PROVE  Holding' /\ Backlog'
BY HomeAssumption DEF CloseNet, Holding, Backlog, TypeOK

(* A connection changes hands: from the goroutine to whoever receives it.  *)
LEMMA ReceiveConnKeeps ==
  ASSUME TypeOK, Holding, Backlog, NEW l \in Listeners, NEW state,
         state \notin {"held", "queued"}, ReceiveConn(l, state), open' = open
  PROVE  Holding' /\ Backlog'
BY HomeAssumption DEF ReceiveConn, Holding, Backlog, TypeOK

(* Who holds what. *)
LEMMA HoldingStep ==
  ASSUME TypeOK, Holding, Backlog, Listening, [Next]_vars
  PROVE  Holding' /\ Backlog'
<1> USE HomeAssumption DEF TypeOK, Holding, Backlog
<1>1. CASE UNCHANGED vars
  BY <1>1 DEF vars
<1>2. CASE ListenNext
  <2>1. CASE ListenOne \/ ListenFails \/ AbortEnds
    BY <2>1 DEF ListenOne, ListenFails, AbortEnds
  <2>2. CASE AbortOne
    BY <2>2, CloseNetKeeps DEF AbortOne
  <2>3. CASE StartAll
    BY <2>3 DEF StartAll, Listening
  <2> QED
    BY <1>2, <2>1, <2>2, <2>3 DEF ListenNext
<1>3. ASSUME NEW c \in Conns, Arrive(c) PROVE Holding' /\ Backlog'
  BY <1>3 DEF Arrive
<1>4. ASSUME NEW l \in Listeners, GoroutineNext(l) PROVE Holding' /\ Backlog'
  BY <1>4 DEF GoroutineNext, AcceptConn, AcceptTemporary, AcceptPermanent
<1>5. ASSUME NEW l \in Listeners, ReceiveErr(l), UNCHANGED <<open, conn, held>>
      PROVE  Holding' /\ Backlog'
  BY <1>5 DEF ReceiveErr, AfterErr
<1>6. ASSUME NEW a \in Acceptors, AcceptNext(a) PROVE Holding' /\ Backlog'
  BY <1>6, <1>5, ReceiveConnKeeps
  DEF AcceptNext, CallAccept, ReturnClosedPipe, ReturnConn, ReturnErr
<1>7. ASSUME NEW k \in Closers, CloseNext(k) PROVE Holding' /\ Backlog'
  <2>1. ASSUME NEW l \in Listeners,
               DrainConn(k, l) \/ DrainErr(k, l) \/ DrainDone(k, l)
        PROVE  Holding' /\ Backlog'
    BY <2>1, <1>5, ReceiveConnKeeps DEF DrainConn, DrainErr, DrainDone
  <2>2. CASE CloseListener(k)
    BY <2>2, CloseNetKeeps DEF CloseListener
  <2> QED
    BY <1>7, <2>1, <2>2 DEF CloseNext, CallClose, OnceFirst, OnceLater,
         CloseLoopEnds, CloseX, OnceDone
<1> QED
  BY <1>1, <1>2, <1>3, <1>4, <1>6, <1>7 DEF Next

(* What is held is held by the goroutine of its listener and no other. *)
LEMMA HoldingIsOnce ==
  ASSUME TypeOK, Holding
  PROVE  HeldOnce
BY HomeAssumption DEF TypeOK, Holding, HeldOnce

(* The loops of Listen. *)
LEMMA ListeningStep ==
  ASSUME TypeOK, Listening, [Next]_vars
  PROVE  Listening'
<1> USE DEF TypeOK, Listening
<1>1. CASE UNCHANGED vars
  BY <1>1 DEF vars
<1>2a. CASE ListenOne
  BY <1>2a, NAssumption DEF ListenOne, Listeners
<1>2b. CASE ListenFails
  BY <1>2b, NAssumption DEF ListenFails, Listeners
<1>2c. CASE AbortEnds
  BY <1>2c, NAssumption DEF AbortEnds, Listeners
<1>2d. CASE StartAll
  BY <1>2d DEF StartAll
<1>3. CASE AbortOne
  BY <1>3, NAssumption DEF AbortOne, CloseNet, Listeners
<1>4. ASSUME NEW c \in Conns, Arrive(c) PROVE Listening'
  BY <1>4 DEF Arrive
<1>5. ASSUME NEW l \in Listeners, GoroutineNext(l) PROVE Listening'
  BY <1>5 DEF GoroutineNext, AcceptConn, AcceptTemporary, AcceptPermanent
<1>6. ASSUME NEW a \in Acceptors, AcceptNext(a) PROVE Listening'
  BY <1>6 DEF AcceptNext, CallAccept, ReturnClosedPipe, ReturnConn, ReturnErr,
       ReceiveConn, ReceiveErr, AfterErr
<1>7. ASSUME NEW k \in Closers, CloseNext(k) PROVE Listening'
  BY <1>7 DEF CloseNext, CallClose, OnceFirst, OnceLater, CloseListener, CloseNet,
       CloseLoopEnds, CloseX, OnceDone, DrainConn, DrainErr, DrainDone,
       ReceiveConn, ReceiveErr, AfterErr
<1> QED
  BY <1>1, <1>2a, <1>2b, <1>2c, <1>2d, <1>3, <1>4, <1>5, <1>6, <1>7 DEF Next, ListenNext

(* The loops of Close. *)
LEMMA ClosingStep ==
  ASSUME TypeOK, Listening, Closing, [Next]_vars
  PROVE  Closing'
<1> DEFINE Same == UNCHANGED <<listen, open, close, once, ci, i, x>>
<1>same. ASSUME Same PROVE Closing'
  BY <1>same DEF Closing
<1>1. CASE UNCHANGED vars
  BY <1>1, <1>same DEF vars
<1>2. CASE ListenNext
  BY <1>2 DEF ListenNext, ListenOne, ListenFails, AbortOne, AbortEnds, StartAll,
       CloseNet, Listening, Closing, Listeners, TypeOK
<1>3. ASSUME NEW c \in Conns, Arrive(c) PROVE Same
  BY <1>3 DEF Arrive
<1>4. ASSUME NEW l \in Listeners, GoroutineNext(l) PROVE Same
  BY <1>4 DEF GoroutineNext, AcceptConn, AcceptTemporary, AcceptPermanent
<1>5. ASSUME NEW a \in Acceptors, AcceptNext(a) PROVE Same
  BY <1>5 DEF AcceptNext, CallAccept, ReturnClosedPipe, ReturnConn, ReturnErr
<1>6. ASSUME NEW k \in Closers, CloseNext(k) PROVE Closing'
  <2> USE DEF Closing, TypeOK
  <2>1. CASE CallClose(k) \/ OnceFirst(k) \/ OnceLater(k)
    BY <2>1 DEF CallClose, OnceFirst, OnceLater
  <2>2. CASE CloseListener(k)
    BY <2>2, NAssumption DEF CloseListener, CloseNet, Listeners
  <2>3. CASE CloseLoopEnds(k)
    BY <2>3 DEF CloseLoopEnds
  <2>4. CASE CloseX(k) \/ OnceDone(k)
    BY <2>4 DEF CloseX, OnceDone
  <2>5. ASSUME NEW l \in Listeners,
               DrainConn(k, l) \/ DrainErr(k, l) \/ DrainDone(k, l)
        PROVE  Closing'
    BY <2>5 DEF DrainConn, DrainErr, DrainDone
  <2> QED
    BY <1>6, <2>1, <2>2, <2>3, <2>4, <2>5 DEF CloseNext
<1> QED
  BY <1>1, <1>2, <1>3, <1>4, <1>5, <1>6, <1>same DEF Next

-----------------------------------------------------------------------------
(* The theorems. *)

(* DrainInv is an invariant of Listen and MultiListener: Close counts      *)
(* every goroutine once, every connection is held once, and the loops are  *)
(* where their counters say (listen.go:43-58, 235-309).                    *)
THEOREM Invariance == Spec => []DrainInv
<1>1. Init => DrainInv
  <2> SUFFICES ASSUME Init PROVE DrainInv
    OBVIOUS
  <2>a. li \in 1..(N + 1) /\ ci \in 1..(N + 1) /\ i \in 0..N
    BY NAssumption DEF Init
  <2>b. /\ conn \in [Conns -> ConnState] /\ g \in [Listeners -> GoroutinePc]
        /\ held \in [Listeners -> Conns \cup {NoConn}]
        /\ accept \in [Acceptors -> {"idle", "waiting"}]
        /\ close \in [Closers -> ClosePc]
    BY DEF Init, ConnState, GoroutinePc, ClosePc
  <2>0. TypeOK
    BY <2>a, <2>b DEF Init, TypeOK, ListenPc
  <2>1. Holding /\ Backlog /\ Closing
    BY NAssumption DEF Init, TypeOK, Holding, Backlog, Closing, Listeners
  <2>2. Listening
    BY DEF Init, Listening
  <2>3. Exited = {}
    BY DEF Init, Exited
  <2>4. DrainCounts
    BY <2>3, FS_EmptySet DEF Init, DrainCounts, Exited
  <2> QED
    BY <2>0, <2>1, <2>2, <2>4, HoldingIsOnce DEF DrainInv
<1>2. DrainInv /\ [Next]_vars => DrainInv'
  <2> SUFFICES ASSUME DrainInv, [Next]_vars PROVE DrainInv'
    OBVIOUS
  <2>1. DrainCounts' /\ TypeOK'
    BY CountStep, TypeStep DEF DrainInv
  <2>2. Holding' /\ Backlog' /\ Listening' /\ Closing'
    BY HoldingStep, ListeningStep, ClosingStep DEF DrainInv
  <2>3. HeldOnce'
    BY <2>1, <2>2, HomeAssumption DEF TypeOK, Holding, HeldOnce
  <2> QED
    BY <2>1, <2>2, <2>3 DEF DrainInv
<1> QED
  BY <1>1, <1>2, PTL DEF Spec

(* A state in which x is closed, or Listen has failed, has nothing left. *)
LEMMA Complete == DrainInv => CloseIsComplete
<1> SUFFICES ASSUME DrainInv PROVE CloseIsComplete
  OBVIOUS
<1> USE DEF DrainInv
<1>1. CASE x
  <2>1. listen = "up" /\ open = {}
    BY <1>1, NAssumption DEF Listening, Closing, TypeOK, Listeners
  <2>2. \A l \in Listeners : g[l] = "exited"
    BY <1>1, AllExited DEF Closing
  <2> QED
    BY <1>1, <2>1, <2>2, HomeAssumption
    DEF CloseIsComplete, NothingLeft, Holding, Backlog, TypeOK
<1>2. CASE ~x
  BY <1>2, HomeAssumption
  DEF CloseIsComplete, NothingLeft, Closing, Listening, Holding, Backlog, TypeOK
<1> QED
  BY <1>1, <1>2

(* Whoever Close returns to, and after a Listen that failed, every         *)
(* listener is closed, no goroutine runs and no connection is queued or    *)
(* held (listen.go:43-58, 283-309).                                        *)
THEOREM CloseCompletes == Spec => []CloseIsComplete
BY Invariance, Complete, PTL

(* After Close, Accept hands out no connection, and one that was handed    *)
(* out is never closed by this code (listen.go:272-280, 306).              *)
THEOREM DeliveredIsFinal == Spec => NoLateDelivery
<1> DEFINE Keep == \A c \in Conns :
                     /\ x /\ conn'[c] = "delivered" => conn[c] = "delivered"
                     /\ conn[c] = "delivered" => conn'[c] = "delivered"
<1>1. DrainInv /\ [Next]_vars => [Keep]_vars
  <2> SUFFICES ASSUME DrainInv, [Next]_vars PROVE Keep \/ UNCHANGED vars
    OBVIOUS
  <2> USE HomeAssumption DEF DrainInv, TypeOK, Holding
  <2>1. ASSUME NEW l \in Listeners, NEW state, ReceiveConn(l, state) PROVE Keep
    <3>1. ~x
      BY <2>1, AllExited DEF ReceiveConn, Closing
    <3> QED
      BY <2>1, <3>1 DEF ReceiveConn
  <2>2. ASSUME NEW l, CloseNet(l) PROVE Keep
    BY <2>2 DEF CloseNet
  <2>3. CASE conn' = conn
    BY <2>3
  <2>4. CASE ListenNext
    BY <2>2, <2>3, <2>4 DEF ListenNext, ListenOne, ListenFails, AbortOne,
         AbortEnds, StartAll
  <2>5. ASSUME NEW c \in Conns, Arrive(c) PROVE Keep
    BY <2>5 DEF Arrive
  <2>6. ASSUME NEW l \in Listeners, GoroutineNext(l) PROVE Keep
    BY <2>6 DEF GoroutineNext, AcceptConn, AcceptTemporary, AcceptPermanent
  <2>7. ASSUME NEW a \in Acceptors, AcceptNext(a) PROVE Keep
    BY <2>1, <2>3, <2>7
    DEF AcceptNext, CallAccept, ReturnClosedPipe, ReturnConn, ReturnErr
  <2>8. ASSUME NEW k \in Closers, CloseNext(k) PROVE Keep
    BY <2>1, <2>2, <2>3, <2>8
    DEF CloseNext, CallClose, OnceFirst, OnceLater, CloseListener, CloseLoopEnds,
        CloseX, OnceDone, DrainConn, DrainErr, DrainDone
  <2> QED
    BY <2>4, <2>5, <2>6, <2>7, <2>8 DEF Next
<1> QED
  BY <1>1, Invariance, PTL DEF Spec, NoLateDelivery
=============================================================================
