---------------------------- MODULE ServerProofs ----------------------------
(***************************************************************************)
(* Proofs of the safety of netx.Server, for every finite set of            *)
(* connections.  The inductive invariant Inv is the conjunction of named   *)
(* parts; each part is a fact about two goroutines that the code never     *)
(* states but relies on.                                                   *)
(***************************************************************************)
EXTENDS Server, FiniteSetTheorems, TLAPS

-----------------------------------------------------------------------------
(* The terms of the counter of the WaitGroup. *)

LiveSet == {c \in Conns : Live(c)}

AcceptUnit == IF aPc = "exited" THEN 0 ELSE 1

-----------------------------------------------------------------------------
(* Counting. *)

(* The goroutines that are counted are finitely many. *)
LEMMA LiveFinite == IsFiniteSet(LiveSet) /\ Cardinality(LiveSet) \in Nat
<1>1. LiveSet \subseteq Conns
  BY DEF LiveSet
<1>2. IsFiniteSet(LiveSet)
  BY <1>1, ConnsAssumption, FS_Subset
<1> QED
  BY <1>2, FS_CardinalityType

(* A goroutine that is counted keeps the counter positive. *)
LEMMA LiveCounted ==
  ASSUME JoinCounts, NEW c \in Conns, Live(c)
  PROVE  join \in Nat /\ join >= 1 + AcceptUnit
<1>1. LiveSet # {}
  BY DEF LiveSet
<1>2. Cardinality(LiveSet) # 0
  BY <1>1, LiveFinite, FS_EmptySet
<1>3. join = Cardinality(LiveSet) + AcceptUnit
  BY DEF JoinCounts, LiveSet, AcceptUnit
<1>4. AcceptUnit \in {0, 1}
  BY DEF AcceptUnit
<1> QED
  BY <1>2, <1>3, <1>4, LiveFinite

(* The accept goroutine is counted until it calls join.Done(). *)
LEMMA AcceptCounted ==
  ASSUME JoinCounts, aPc # "exited"
  PROVE  join \in Nat /\ join >= 1
<1>1. join = Cardinality(LiveSet) + 1
  BY DEF JoinCounts, LiveSet
<1> QED
  BY <1>1, LiveFinite

(* Every step keeps the WaitGroup equal to the number of goroutines that   *)
(* have yet to call Done.                                                  *)
LEMMA JoinStep ==
  ASSUME TypeOK, JoinCounts, Holding, [Next]_vars
  PROVE  JoinCounts' /\ join' \in Nat
<1>a. join = Cardinality(LiveSet) + AcceptUnit
  BY DEF JoinCounts, LiveSet, AcceptUnit
<1>b. Cardinality(LiveSet) \in Nat /\ IsFiniteSet(LiveSet)
  BY LiveFinite
<1>c. SUFFICES join' = Cardinality(LiveSet') + AcceptUnit' /\ join' \in Nat
  BY DEF JoinCounts, LiveSet, AcceptUnit
<1>d. AcceptUnit \in {0, 1} /\ AcceptUnit' \in {0, 1}
  BY DEF AcceptUnit
<1> DEFINE Same == LiveSet' = LiveSet /\ AcceptUnit' = AcceptUnit
                   /\ join' = join
<1>same. ASSUME Same
         PROVE  join' = Cardinality(LiveSet') + AcceptUnit' /\ join' \in Nat
  BY <1>same, <1>a, <1>b, <1>d
<1>1. CASE UNCHANGED vars
  BY <1>1, <1>same DEF LiveSet, Live, AcceptUnit, vars, acceptVars
<1>2. ASSUME NEW c \in Conns, Arrive(c) PROVE Same
  BY <1>2 DEF Arrive, LiveSet, Live, AcceptUnit, acceptVars
<1>3. CASE ParentCancel
  BY <1>3, <1>same DEF ParentCancel, LiveSet, Live, AcceptUnit, acceptVars
<1>4. ASSUME AcceptNext
      PROVE  join' = Cardinality(LiveSet') + AcceptUnit' /\ join' \in Nat
  <2>1. LiveSet' = LiveSet
    BY <1>4 DEF AcceptNext, AcceptConn, AcceptTemporary, AcceptPermanent,
         AcceptEOF, Backoff, CheckErr, CloseConns, CloseErrs, AcceptJoinDone,
         LiveSet, Live
  <2>2. CASE AcceptJoinDone
    <3>1. join' = join - 1 /\ AcceptUnit = 1 /\ AcceptUnit' = 0
      BY <2>2 DEF AcceptJoinDone, AcceptUnit
    <3> QED
      BY <2>1, <3>1, <1>a, <1>b
  <2>3. CASE ~AcceptJoinDone
    <3>1. join' = join /\ AcceptUnit' = AcceptUnit
      BY <1>4, <2>3 DEF AcceptNext, AcceptConn, AcceptTemporary,
           AcceptPermanent, AcceptEOF, Backoff, CheckErr, CloseConns,
           CloseErrs, AcceptUnit
    <3> QED
      BY <2>1, <3>1, <1>same
  <2> QED
    BY <2>2, <2>3
<1>5. ASSUME ServeNext
      PROVE  join' = Cardinality(LiveSet') + AcceptUnit' /\ join' \in Nat
  <2>1. CASE SelectConn
    <3>1. aConn \in Conns /\ h[aConn] = "none"
      BY <2>1 DEF SelectConn, Holding
    <3>2. LiveSet' = LiveSet \cup {aConn} /\ aConn \notin LiveSet
      BY <2>1, <3>1 DEF SelectConn, LiveSet, Live, TypeOK
    <3>3. Cardinality(LiveSet') = Cardinality(LiveSet) + 1
      BY <3>2, <1>b, FS_AddElement
    <3>4. join' = join + 1 /\ AcceptUnit' = AcceptUnit
      BY <2>1 DEF SelectConn, AcceptUnit
    <3> QED
      BY <3>3, <3>4, <1>a, <1>b, <1>d
  <2>2. CASE ~SelectConn
    <3>1. h' = h /\ join' = join
      BY <1>5, <2>2 DEF ServeNext, SelectDone, SelectErr, SelectErrsClosed,
           SelectConnsClosed, DropChannel, DeferCancel, DeferWait, DeferClose
    <3>2. AcceptUnit' = AcceptUnit
      BY <1>5, <2>2 DEF ServeNext, SelectDone, SelectErr, SelectErrsClosed,
           SelectConnsClosed, DropChannel, DeferCancel, DeferWait, DeferClose,
           AcceptUnit, acceptVars
    <3> QED
      BY <3>1, <3>2, <1>same DEF LiveSet, Live
  <2> QED
    BY <2>1, <2>2
<1>6. ASSUME NEW c \in Conns, HandlerNext(c)
      PROVE  join' = Cardinality(LiveSet') + AcceptUnit' /\ join' \in Nat
  <2>0. AcceptUnit' = AcceptUnit
    BY <1>6 DEF HandlerNext, HandlerCloses, HandlerEnds, ServeClose,
         ServeJoinDone, AcceptUnit, acceptVars
  <2>1. CASE ServeJoinDone(c)
    <3>1. LiveSet' = LiveSet \ {c} /\ c \in LiveSet
      BY <2>1 DEF ServeJoinDone, LiveSet, Live, TypeOK
    <3>2. Cardinality(LiveSet') = Cardinality(LiveSet) - 1
      BY <3>1, <1>b, FS_RemoveElement
    <3>3. join' = join - 1
      BY <2>1 DEF ServeJoinDone
    <3>4. Cardinality(LiveSet') \in Nat
      BY <3>1, <1>b, FS_RemoveElement, FS_CardinalityType
    <3> QED
      BY <2>0, <3>2, <3>3, <3>4, <1>a, <1>b, <1>d
  <2>2. CASE HandlerCloses(c) \/ HandlerEnds(c) \/ ServeClose(c)
    <3>1. LiveSet' = LiveSet /\ join' = join
      BY <2>2 DEF HandlerCloses, HandlerEnds, ServeClose, LiveSet, Live, TypeOK
    <3> QED
      BY <3>1, <2>0, <1>same
  <2> QED
    BY <1>6, <2>1, <2>2 DEF HandlerNext
<1>7. CASE Terminated
  BY <1>7, <1>1 DEF Terminated
<1> QED
  BY <1>1, <1>2, <1>3, <1>4, <1>5, <1>6, <1>7, <1>same DEF Next

-----------------------------------------------------------------------------
(* Every step keeps the other parts. *)

(* The types. *)
LEMMA TypeStep ==
  ASSUME TypeOK, [Next]_vars, join' \in Nat
  PROVE  TypeOK'
<1> USE DEF TypeOK, ConnState, AcceptPc, ServePc, HandlerPc, Errors
<1>1. CASE UNCHANGED vars
  BY <1>1 DEF vars, acceptVars, serveVars
<1>2. ASSUME NEW c \in Conns, Arrive(c) PROVE TypeOK'
  BY <1>2 DEF Arrive, acceptVars, serveVars
<1>3. CASE ParentCancel
  BY <1>3 DEF ParentCancel, acceptVars, serveVars
<1>4. ASSUME NEW c \in Conns, AcceptConn(c) PROVE TypeOK'
  BY <1>4 DEF AcceptConn, serveVars
<1>5. CASE AcceptTemporary
  BY <1>5 DEF AcceptTemporary, serveVars
<1>6. CASE AcceptPermanent
  BY <1>6 DEF AcceptPermanent, serveVars
<1>7. CASE AcceptEOF
  BY <1>7 DEF AcceptEOF, serveVars
<1>8. CASE Backoff
  BY <1>8 DEF Backoff, serveVars
<1>9. CASE CheckErr
  BY <1>9 DEF CheckErr, serveVars
<1>10. CASE CloseConns
  BY <1>10 DEF CloseConns, serveVars
<1>11. CASE CloseErrs
  BY <1>11 DEF CloseErrs, serveVars
<1>12. CASE AcceptJoinDone
  BY <1>12 DEF AcceptJoinDone, serveVars
<1>13. CASE SelectDone \/ DeferClose
  BY <1>13 DEF SelectDone, DeferClose, CloseListener, acceptVars
<1>14a. CASE SelectErr
  BY <1>14a DEF SelectErr, acceptVars
<1>14b. CASE SelectConn
  <2>1. conn' = conn /\ join' \in Nat /\ UNCHANGED <<lstn, ctx, aErr, serveVars>>
    BY <1>14b DEF SelectConn
  <2>2. h' \in [Conns -> HandlerPc]
    BY <1>14b DEF SelectConn
  <2>3. aPc' = "accept" /\ aConn' = NoConn
    BY <1>14b DEF SelectConn
  <2> QED
    BY <1>14b, <2>1, <2>2, <2>3 DEF serveVars, SelectConn
<1>14c. CASE DeferCancel
  BY <1>14c DEF DeferCancel, acceptVars
<1>14d. CASE DeferWait
  BY <1>14d DEF DeferWait, acceptVars
<1>15a. CASE SelectErrsClosed
  BY <1>15a DEF SelectErrsClosed, DropChannel, acceptVars
<1>15b. CASE SelectConnsClosed
  BY <1>15b DEF SelectConnsClosed, DropChannel, acceptVars
<1>16. ASSUME NEW c \in Conns, HandlerCloses(c) PROVE TypeOK'
  BY <1>16 DEF HandlerCloses, acceptVars, serveVars
<1>17. ASSUME NEW c \in Conns, HandlerEnds(c) PROVE TypeOK'
  BY <1>17 DEF HandlerEnds, acceptVars, serveVars
<1>18. ASSUME NEW c \in Conns, ServeClose(c) PROVE TypeOK'
  BY <1>18 DEF ServeClose, acceptVars, serveVars
<1>19. ASSUME NEW c \in Conns, ServeJoinDone(c) PROVE TypeOK'
  BY <1>19 DEF ServeJoinDone, acceptVars, serveVars
<1>20. CASE Terminated
  BY <1>20, <1>1 DEF Terminated
<1> QED
  BY <1>1, <1>2, <1>3, <1>4, <1>5, <1>6, <1>7, <1>8, <1>9, <1>10, <1>11,
     <1>12, <1>13, <1>14a, <1>14b, <1>14c, <1>14d, <1>15a, <1>15b,
     <1>16, <1>17, <1>18, <1>19, <1>20
  DEF Next, AcceptNext, ServeNext, HandlerNext

(* The counter stays at zero once Serve has waited for it. *)
LEMMA WaitedStep ==
  ASSUME Inv, [Next]_vars
  PROVE  Waited'
<1> USE DEF Inv, Waited
<1>1. CASE UNCHANGED vars
  BY <1>1 DEF vars, serveVars
<1>2. ASSUME NEW c \in Conns, Arrive(c) PROVE Waited'
  BY <1>2 DEF Arrive, serveVars
<1>3. CASE ParentCancel
  BY <1>3 DEF ParentCancel, serveVars
<1>4. CASE AcceptJoinDone
  BY <1>4, AcceptCounted DEF AcceptJoinDone, serveVars
<1>5. CASE AcceptNext /\ ~AcceptJoinDone
  BY <1>5 DEF AcceptNext, AcceptConn, AcceptTemporary, AcceptPermanent,
       AcceptEOF, Backoff, CheckErr, CloseConns, CloseErrs, serveVars
<1>6. CASE ServeNext
  BY <1>6 DEF ServeNext, SelectDone, SelectErr, SelectConn, SelectErrsClosed,
       SelectConnsClosed, DropChannel, DeferCancel, DeferWait, DeferClose,
       serveVars
<1>7. ASSUME NEW c \in Conns, ServeJoinDone(c) PROVE Waited'
  <2>1. join >= 1 /\ join \in Nat
    BY <1>7, LiveCounted DEF ServeJoinDone, Live, AcceptUnit
  <2> QED
    BY <2>1, <1>7 DEF ServeJoinDone, serveVars
<1>8. ASSUME NEW c \in Conns,
             HandlerCloses(c) \/ HandlerEnds(c) \/ ServeClose(c)
      PROVE  Waited'
  BY <1>8 DEF HandlerCloses, HandlerEnds, ServeClose, serveVars
<1>9. CASE Terminated
  BY <1>9, <1>1 DEF Terminated
<1> QED
  BY <1>1, <1>2, <1>3, <1>4, <1>5, <1>6, <1>7, <1>8, <1>9
  DEF Next, HandlerNext, AcceptNext

(* The facts that relate the goroutines, the sockets and the context. *)
LEMMA ControlStep ==
  ASSUME TypeOK, Control, [Next]_vars
  PROVE  Control'
<1> USE DEF TypeOK, Control, Holding, Dropped, Leaving, Owned, Shutdown,
            Backlog, Taken, connsClosed, errsClosed, ConnState, AcceptPc,
            ServePc, HandlerPc, Errors
<1> USE ConnsAssumption
<1>1. CASE UNCHANGED vars
  BY <1>1 DEF vars, acceptVars, serveVars
<1>2. ASSUME NEW c \in Conns, Arrive(c) PROVE Control'
  BY <1>2 DEF Arrive, acceptVars, serveVars
<1>3. CASE ParentCancel
  BY <1>3 DEF ParentCancel, acceptVars, serveVars
<1>4. ASSUME NEW c \in Conns, AcceptConn(c) PROVE Control'
  BY <1>4 DEF AcceptConn, serveVars
<1>5. CASE AcceptTemporary \/ AcceptPermanent \/ AcceptEOF
  BY <1>5 DEF AcceptTemporary, AcceptPermanent, AcceptEOF, serveVars
<1>6. CASE Backoff \/ CheckErr
  BY <1>6 DEF Backoff, CheckErr, serveVars
<1>7. CASE CloseConns \/ CloseErrs \/ AcceptJoinDone
  BY <1>7 DEF CloseConns, CloseErrs, AcceptJoinDone, serveVars
<1>8. CASE SelectDone
  BY <1>8 DEF SelectDone, CloseListener, acceptVars
<1>9. CASE SelectErr
  BY <1>9 DEF SelectErr
<1>10. CASE SelectConn
  BY <1>10 DEF SelectConn, serveVars
<1>11. CASE SelectErrsClosed
  BY <1>11 DEF SelectErrsClosed, DropChannel, acceptVars
<1>12. CASE SelectConnsClosed
  BY <1>12 DEF SelectConnsClosed, DropChannel, acceptVars
<1>13. CASE DeferCancel \/ DeferWait
  BY <1>13 DEF DeferCancel, DeferWait, acceptVars
<1>14. CASE DeferClose
  BY <1>14 DEF DeferClose, CloseListener, acceptVars
<1>15. ASSUME NEW c \in Conns, HandlerCloses(c) PROVE Control'
  BY <1>15 DEF HandlerCloses, acceptVars, serveVars
<1>16. ASSUME NEW c \in Conns, HandlerEnds(c) PROVE Control'
  BY <1>16 DEF HandlerEnds, acceptVars, serveVars
<1>17. ASSUME NEW c \in Conns, ServeClose(c) PROVE Control'
  BY <1>17 DEF ServeClose, acceptVars, serveVars
<1>18. ASSUME NEW c \in Conns, ServeJoinDone(c) PROVE Control'
  BY <1>18 DEF ServeJoinDone, acceptVars, serveVars
<1>19. CASE Terminated
  BY <1>19, <1>1 DEF Terminated
<1> QED
  BY <1>1, <1>2, <1>3, <1>4, <1>5, <1>6, <1>7, <1>8, <1>9, <1>10, <1>11,
     <1>12, <1>13, <1>14, <1>15, <1>16, <1>17, <1>18, <1>19
  DEF Next, AcceptNext, ServeNext, HandlerNext
-----------------------------------------------------------------------------
(* The invariant and what it gives. *)

(* Serve starts in a state that satisfies the invariant. *)
LEMMA InitInv == Init => Inv
<1> SUFFICES ASSUME Init PROVE Inv
  OBVIOUS
<1>1. TypeOK /\ Waited /\ Control
  BY ConnsAssumption
  DEF Init, TypeOK, Waited, Control, Holding, Dropped, Leaving, Owned,
      Shutdown, Backlog, ConnState, AcceptPc, ServePc, HandlerPc, Errors
<1>2. LiveSet = {}
  BY DEF Init, LiveSet, Live
<1>3. Cardinality(LiveSet) = 0
  BY <1>2, FS_EmptySet
<1>4. JoinCounts
  BY <1>3 DEF Init, JoinCounts, LiveSet
<1> QED
  BY <1>1, <1>4 DEF Inv

(* Every step of the server preserves it. *)
LEMMA NextInv == Inv /\ [Next]_vars => Inv'
<1> SUFFICES ASSUME Inv, [Next]_vars PROVE Inv'
  OBVIOUS
<1>1. JoinCounts' /\ join' \in Nat
  BY JoinStep DEF Inv, Control
<1>2. TypeOK'
  BY <1>1, TypeStep DEF Inv
<1>3. Waited'
  BY WaitedStep
<1>4. Control'
  BY ControlStep DEF Inv
<1> QED
  BY <1>1, <1>2, <1>3, <1>4 DEF Inv

(* The inductive invariant holds throughout: the WaitGroup, the two        *)
(* channels and the program counters of the goroutines of Serve agree      *)
(* (server.go:58-172).                                                     *)
THEOREM Invariance == Spec => []Inv
BY InitInv, NextInv, PTL DEF Spec

(* Every variable keeps its type; the counter of the WaitGroup in          *)
(* particular never goes below zero (server.go:76,97,106,165).             *)
THEOREM TypeCorrect == Spec => []TypeOK
<1>1. Inv => TypeOK
  BY DEF Inv
<1> QED
  BY <1>1, Invariance, PTL

(* The WaitGroup counts the goroutines that have yet to call Done.         *)
THEOREM JoinExact == Spec => []JoinCounts
<1>1. Inv => JoinCounts
  BY DEF Inv
<1> QED
  BY <1>1, Invariance, PTL

(* The accept goroutine never sends to a Serve that stopped receiving      *)
(* (server.go:146-158).                                                    *)
THEOREM SendsAreReceived == Spec => []NoAbandonedSend
<1>1. Inv => NoAbandonedSend
  BY DEF Inv, Control, Leaving, NoAbandonedSend
<1> QED
  BY <1>1, Invariance, PTL

(* A shutdown is never reported as an error (server.go:147-153).           *)
THEOREM ShutdownIsSilent == Spec => []NoShutdownError
<1>1. Inv => NoShutdownError
  BY DEF Inv, Control, Shutdown, NoShutdownError
<1> QED
  BY <1>1, Invariance, PTL

(* What the counter at zero means for the goroutines. *)
LEMMA NothingCounted ==
  ASSUME Inv, join = 0
  PROVE  aPc = "exited" /\ \A c \in Conns : h[c] \in {"none", "exited"}
<1>1. aPc = "exited"
  BY AcceptCounted DEF Inv
<1>2. ASSUME NEW c \in Conns PROVE ~Live(c)
  BY LiveCounted DEF Inv, AcceptUnit
<1> QED
  BY <1>1, <1>2 DEF Inv, TypeOK, Live, HandlerPc

(* When Serve returns the listener is closed and no goroutine and no       *)
(* connection of the server is left (server.go:56-57, 59-70).              *)
THEOREM ReturnIsGraceful == Spec => []GracefulReturn
<1>1. ASSUME Inv PROVE GracefulReturn
  <2> SUFFICES ASSUME sPc = "returned" PROVE GracefulReturn
    BY DEF GracefulReturn
  <2>1. aPc = "exited" /\ \A c \in Conns : h[c] \in {"none", "exited"}
    BY <1>1, NothingCounted DEF Inv, Waited
  <2>2. lstn = "closed"
    BY <1>1 DEF Inv, Control, Backlog
  <2>3. \A c \in Conns : conn[c] \notin {"queued", "open"}
    BY <1>1, <2>1, <2>2 DEF Inv, Control, Backlog, Owned, Taken
  <2> QED
    BY <2>1, <2>2, <2>3 DEF GracefulReturn
<1> QED
  BY <1>1, Invariance, PTL

-----------------------------------------------------------------------------
(* The server implements GracefulServer. *)

(* A step that moves no goroutine into or out of service, and leaves the   *)
(* phase alone, is a stutter of the abstract server.                       *)
Quiet == Phase' = Phase /\ Active' = Active /\ Ended' = Ended

(* Serve ends while the accept goroutine takes no more connections. *)
LEMMA RefineServe ==
  ASSUME Inv, ServeNext
  PROVE  Quiet \/ Abstract!Drain \/ Abstract!Stop
<1> USE DEF Quiet, Phase, Accepting, Active, Ended, Taken, Live
<1>1. CASE SelectDone
  <2>1. Active' = Active /\ Ended' = Ended
    BY <1>1 DEF SelectDone, acceptVars
  <2>2. Phase' = "draining" /\ Phase \in {"accepting", "draining"}
    BY <1>1 DEF SelectDone, CloseListener, acceptVars
  <2> QED
    BY <2>1, <2>2 DEF Abstract!Drain
<1>2. CASE SelectErr
  BY <1>2 DEF SelectErr
<1>3. CASE SelectConn
  <2>1. aConn \in Conns /\ h[aConn] = "none"
    BY <1>3 DEF SelectConn, Inv, Control, Holding
  <2>2. Phase' = Phase
    BY <1>3 DEF SelectConn, serveVars
  <2>3. Ended' = Ended
    BY <1>3, <2>1 DEF SelectConn, Inv, TypeOK
  <2>4. Active' = Active
    BY <1>3, <2>1 DEF SelectConn, Inv, TypeOK
  <2> QED
    BY <2>2, <2>3, <2>4
<1>4. CASE SelectErrsClosed \/ SelectConnsClosed
  BY <1>4 DEF SelectErrsClosed, SelectConnsClosed, DropChannel, acceptVars
<1>5. CASE DeferCancel \/ DeferWait
  BY <1>5 DEF DeferCancel, DeferWait, acceptVars
<1>6. CASE DeferClose
  <2>1. aPc = "exited" /\ \A c \in Conns : h[c] \in {"none", "exited"}
    BY <1>6, NothingCounted DEF DeferClose, Inv, Waited
  <2>2. Phase = "draining" /\ Phase' = "stopped"
    BY <1>6, <2>1 DEF DeferClose
  <2>3. Active = {} /\ Active' = {} /\ Ended' = Ended
    BY <1>6, <2>1 DEF DeferClose, acceptVars
  <2> QED
    BY <2>2, <2>3 DEF Abstract!Stop
<1> QED
  BY <1>1, <1>2, <1>3, <1>4, <1>5, <1>6 DEF ServeNext

(* The accept goroutine takes a connection, or stops accepting. *)
LEMMA RefineAccept ==
  ASSUME Inv, AcceptNext
  PROVE  Quiet \/ Abstract!Drain \/ \E c \in Conns : Abstract!Take(c)
<1> USE DEF Quiet, Phase, Accepting, Active, Ended, Taken, Live
<1>1. ASSUME NEW c \in Conns, AcceptConn(c) PROVE Abstract!Take(c)
  <2>1. h[c] = "none" /\ sPc = "loop"
    BY <1>1 DEF AcceptConn, Inv, Control, Owned, Leaving
  <2>2. Phase = "accepting" /\ Phase' = "accepting"
    BY <1>1, <2>1 DEF AcceptConn, serveVars
  <2>3. c \notin Active \cup Ended
    BY <1>1, <2>1 DEF AcceptConn
  <2>4. Active' = Active \cup {c} /\ Ended' = Ended
    BY <1>1 DEF AcceptConn
  <2> QED
    BY <2>2, <2>3, <2>4 DEF Abstract!Take
<1>2. ASSUME AcceptTemporary \/ AcceptPermanent \/ AcceptEOF \/ Backoff
             \/ CheckErr \/ CloseConns \/ CloseErrs \/ AcceptJoinDone
      PROVE  Quiet \/ Abstract!Drain
  <2>1. Active' = Active /\ Ended' = Ended
    BY <1>2 DEF AcceptTemporary, AcceptPermanent, AcceptEOF, Backoff, CheckErr,
         CloseConns, CloseErrs, AcceptJoinDone
  <2>2. Accepting' => Accepting
    BY <1>2 DEF AcceptTemporary, AcceptPermanent, AcceptEOF, Backoff, CheckErr,
         CloseConns, CloseErrs, AcceptJoinDone
  <2>3. sPc' = sPc
    BY <1>2 DEF AcceptTemporary, AcceptPermanent, AcceptEOF, Backoff, CheckErr,
         CloseConns, CloseErrs, AcceptJoinDone, serveVars
  <2>4. \/ Phase' = Phase
        \/ Phase = "accepting" /\ Phase' = "draining"
    BY <2>2, <2>3
  <2> QED
    BY <2>1, <2>4 DEF Abstract!Drain
<1> QED
  BY <1>1, <1>2 DEF AcceptNext

(* A serve goroutine ends the service of its connection once. *)
LEMMA RefineHandler ==
  ASSUME Inv, NEW c \in Conns, HandlerNext(c)
  PROVE  Quiet \/ Abstract!Finish(c)
<1> USE DEF Quiet, Phase, Accepting, Active, Ended, Taken, Live
<1>1. CASE HandlerCloses(c) \/ HandlerEnds(c) \/ ServeClose(c)
  BY <1>1 DEF HandlerCloses, HandlerEnds, ServeClose, Inv, TypeOK,
       acceptVars, serveVars
<1>2. CASE ServeJoinDone(c)
  <2>1. ~Taken(c)
    BY <1>2 DEF ServeJoinDone, Inv, Control, Holding
  <2>2. c \in Active /\ Active' = Active \ {c}
    BY <1>2, <2>1 DEF ServeJoinDone, Inv, TypeOK, acceptVars
  <2>3. Ended' = Ended \cup {c} /\ Phase' = Phase
    BY <1>2 DEF ServeJoinDone, Inv, TypeOK, acceptVars, serveVars
  <2> QED
    BY <2>2, <2>3 DEF Abstract!Finish
<1> QED
  BY <1>1, <1>2 DEF HandlerNext

(* Every step of the server is a step, or a stutter, of a graceful server. *)
LEMMA RefineNext ==
  Inv /\ [Next]_vars => [Abstract!Next]_(Abstract!vars)
<1> SUFFICES ASSUME Inv, [Next]_vars
             PROVE  Quiet \/ Abstract!Next
  BY DEF Quiet, Abstract!vars
<1>1. CASE UNCHANGED vars
  BY <1>1 DEF vars, acceptVars, serveVars, Quiet, Phase, Accepting, Active,
       Ended, Taken, Live
<1>2. ASSUME NEW c \in Conns, Arrive(c) PROVE Quiet
  BY <1>2 DEF Arrive, acceptVars, serveVars, Quiet, Phase, Accepting, Active,
       Ended, Taken, Live
<1>3. CASE ParentCancel
  BY <1>3 DEF ParentCancel, acceptVars, serveVars, Quiet, Phase, Accepting,
       Active, Ended, Taken, Live
<1>4. CASE Terminated
  BY <1>4, <1>1 DEF Terminated
<1> QED
  BY <1>1, <1>2, <1>3, <1>4, RefineAccept, RefineServe, RefineHandler
  DEF Next, Abstract!Next

(* Serve is a graceful server: what it accepts is served exactly once and  *)
(* to its end, and it stops only when nothing is left (server.go:58-172).  *)
THEOREM Refinement == Spec => AbstractSpec
<1>1. Init => Abstract!Init
  BY DEF Init, Abstract!Init, Phase, Accepting, Active, Ended, Taken, Live
<1> QED
  BY <1>1, RefineNext, Invariance, PTL DEF Spec, AbstractSpec, Abstract!Spec
=============================================================================
