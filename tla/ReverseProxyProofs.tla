------------------------- MODULE ReverseProxyProofs -------------------------
(***************************************************************************)
(* Proofs of the safety of ReverseProxy.ServeHTTP, for every size of the   *)
(* writer of the hijacked connection and any number of bytes.  The         *)
(* inductive invariant is TunnelInv.                                       *)
(***************************************************************************)
EXTENDS ReverseProxy, TLAPS

USE ReverseProxyAssumption

-----------------------------------------------------------------------------
(* The stages of the handler, with what is open and which copies run. *)

ByteTypes ==
  /\ sent \in [Sides -> 0..MaxBytes] /\ net \in [Sides -> 0..MaxBytes]
  /\ held \in [Sides -> 0..1] /\ wbuf \in 0..(WBuf - 1)
  /\ got \in [Sides -> 0..MaxBytes]

StateTypes ==
  /\ method \in Methods /\ upgrade \in Upgrades /\ host \in BOOLEAN
  /\ maxf \in Invalid..2
  /\ pc \in Pc /\ status \in {0, 101, 200, 400, 500, 502}
  /\ {front, back} \subseteq {"none", "open", "closed"}
  /\ ctx \in {"live", "done"} /\ {client, target} \subseteq {"here", "gone"}
  /\ copy \in [Sides -> CopyPc]

(* The type invariant is the conjunction of the two groups. *)
LEMMA TypeSplits == TypeOK <=> ByteTypes /\ StateTypes
BY DEF TypeOK, ByteTypes, StateTypes

(* The moves of a copy. *)
LEMMA CopyMoves ==
  ASSUME NEW s \in Sides, StateTypes, CopyNext(s)
  PROVE  /\ UNCHANGED Static /\ ctx' \in {"live", "done"}
         /\ copy[s] \notin {"idle", "exited"}
         /\ \E to \in CopyPc \ {"idle"} : copy' = [copy EXCEPT ![s] = to]
<1>1. CASE CopyFlush(s)
  BY <1>1 DEF CopyFlush, Step, StateTypes, CopyPc
<1>2. CASE CopyRead(s)
  BY <1>2 DEF CopyRead, Step, StateTypes, CopyPc
<1>3. CASE CopyReadEnds(s)
  BY <1>3 DEF CopyReadEnds, Step, StateTypes, CopyPc
<1>4. CASE CopyWrite(s)
  BY <1>4 DEF CopyWrite, Step, StateTypes, CopyPc
<1>5. CASE CopyWriteFails(s)
  BY <1>5 DEF CopyWriteFails, Step, StateTypes, CopyPc
<1>6. CASE CopyExits(s)
  BY <1>6 DEF CopyExits, Step, StateTypes, CopyPc
<1> QED
  BY <1>1, <1>2, <1>3, <1>4, <1>5, <1>6 DEF CopyNext

(* The state keeps its types, and each stage keeps its status, its         *)
(* connections and its copies.                                             *)
LEMMA StageStep ==
  ASSUME StateTypes, Stages, [Next]_vars
  PROVE  StateTypes' /\ Stages'
<1> USE DEF StateTypes, Stages
<1>1. ASSUME UNCHANGED <<Static, ctx, copy>>
      PROVE  StateTypes' /\ Stages'
  BY <1>1 DEF Static, Request, Peers
<1>2. ASSUME NEW s \in Sides, Speak(s)
      PROVE  StateTypes' /\ Stages'
  BY <1>1, <1>2 DEF Speak, Static, Request, Peers
<1>3. ASSUME NEW s \in Sides, Leave(s)
      PROVE  StateTypes' /\ Stages'
  BY <1>3 DEF Leave, Request
<1>4. ASSUME NEW s \in Sides, CopyNext(s)
      PROVE  StateTypes' /\ Stages'
  <2>1. /\ UNCHANGED Static /\ ctx' \in {"live", "done"}
        /\ copy[s] \notin {"idle", "exited"}
        /\ \E to \in CopyPc \ {"idle"} : copy' = [copy EXCEPT ![s] = to]
    BY <1>4, CopyMoves
  <2>2. UNCHANGED <<method, upgrade, host, maxf, pc, status, front, back, client, target>>
    BY <2>1 DEF Static, Request, Peers
  <2>3. copy' \in [Sides -> CopyPc]
    BY <2>1
  <2>4. pc \in {"wait", "join"} \/ (pc = "done" /\ method # "CONNECT")
    BY <2>1
  <2> QED
    BY <2>1, <2>2, <2>3, <2>4
<1>5. CASE SwitchNoHost \/ SwitchLocal \/ Forward \/ DialFails
  <2>1. \E st \in {200, 400, 502} : Answer(st)
    BY <1>5 DEF SwitchNoHost, SwitchLocal, Forward, DialFails
  <2>2. pc \in {"switch", "forward", "dial", "upgrade"}
    BY <1>5 DEF SwitchNoHost, SwitchLocal, Forward, DialFails
  <2> QED
    BY <2>1, <2>2 DEF Answer, Idle, Request, Peers, Pc
<1>6. CASE SwitchOn
  <2>1. \/ pc' = "dial" /\ method = "CONNECT"
        \/ pc' \in {"upgrade", "forward"} /\ method # "CONNECT"
    BY <1>6 DEF SwitchOn
  <2> QED
    BY <1>6, <2>1 DEF SwitchOn, Idle, Request, Peers, Pc
<1>7. CASE DialOK
  BY <1>7 DEF DialOK, Idle, Request, Peers, Pc
<1>8. CASE SwitchPanics \/ RoundTripFails \/ RoundTripPanics \/ RoundTripRefused
  BY <1>8 DEF SwitchPanics, RoundTripFails, RoundTripPanics, RoundTripRefused, Idle, Request, Peers, Pc
<1>9. CASE RoundTripSwitches
  BY <1>9 DEF RoundTripSwitches, Request, Peers, Pc
<1>10. CASE HijackFails
  BY <1>10 DEF HijackFails, Idle, Request, Peers, Pc
<1>11. CASE HijackOK
  BY <1>11 DEF HijackOK, Request, Peers, Pc, CopyPc
<1>12. CASE WaitDone
  BY <1>12 DEF WaitDone, Request, Peers, Pc
<1>13. CASE Join
  BY <1>13 DEF Join, Request, Peers, Pc
<1>14. CASE Ended \/ UNCHANGED vars
  BY <1>1, <1>14 DEF Ended, vars, Static, Request, Peers
<1> QED
  BY <1>2, <1>3, <1>4, <1>5, <1>6, <1>7, <1>8, <1>9, <1>10, <1>11, <1>12, <1>13, <1>14
  DEF Next, HandlerNext

-----------------------------------------------------------------------------
(* The bytes of the tunnel. *)

ByteInv == ByteTypes /\ TunnelConserves /\ CopyHolds

(* What a step of the copy of one side leaves to the other. *)
LEMMA OtherSide ==
  ASSUME NEW s \in Sides, NEW r \in Sides, r # s, StateTypes, ByteTypes, CopyNext(s)
  PROVE  /\ UNCHANGED <<sent[r], net[r], held[r], got[r], copy[r]>>
         /\ r = "target" => wbuf' = wbuf
<1> USE DEF StateTypes, ByteTypes
<1>1. CASE CopyFlush(s) \/ CopyReadEnds(s) \/ CopyWriteFails(s) \/ CopyExits(s)
  BY <1>1 DEF CopyFlush, CopyReadEnds, CopyWriteFails, CopyExits, Step, Bytes
<1>2. CASE CopyRead(s)
  BY <1>2 DEF CopyRead, Step
<1>3. CASE CopyWrite(s)
  BY <1>3 DEF CopyWrite, Step, Sides
<1> QED
  BY <1>1, <1>2, <1>3 DEF CopyNext

(* A byte that is read is held, one that is held is written once, into the *)
(* connection or into the writer of the upgraded connection.               *)
LEMMA CopyKeepsBytes ==
  ASSUME NEW s \in Sides, StateTypes, ByteInv, CopyNext(s)
  PROVE  ByteInv'
<1> USE DEF StateTypes, ByteInv, ByteTypes, CopyHolds
<1>1. method' = method /\ (Direct(s)' <=> Direct(s))
  BY CopyMoves DEF Static, Request, Direct
<1>2. /\ sent[s] \in 0..MaxBytes /\ net[s] \in 0..MaxBytes /\ held[s] \in 0..1
      /\ got[s] \in 0..MaxBytes /\ wbuf \in 0..(WBuf - 1)
      /\ Known(s) <= sent[s] /\ (Direct(s) => Known(s) = sent[s])
  BY DEF TunnelConserves
<1>3. \A r \in Sides : r # s =>
        /\ UNCHANGED <<sent[r], net[r], held[r], got[r], copy[r]>>
        /\ Known(r)' = Known(r)
  BY OtherSide DEF Known
<1>4. ASSUME UNCHANGED Bytes, copy'[s] \notin {"write", "idle", "flush"},
             copy'[s] = "read" => held[s] = 0
      PROVE  ByteInv'
  <2>1. TunnelConserves'
    BY <1>1, <1>4 DEF TunnelConserves, Known, Direct, Bytes
  <2>2. CopyHolds'
    BY <1>1, <1>3, <1>4 DEF Bytes
  <2> QED
    BY <1>4, <2>1, <2>2 DEF Bytes
<1>5. CASE CopyFlush(s) \/ CopyReadEnds(s) \/ CopyWriteFails(s) \/ CopyExits(s)
  BY <1>4, <1>5 DEF CopyFlush, CopyReadEnds, CopyWriteFails, CopyExits, Step, Static
<1>6. CASE CopyRead(s)
  <2>1. /\ held[s] = 0 /\ net[s] > 0 /\ UNCHANGED <<sent, wbuf, got>>
        /\ net' = [net EXCEPT ![s] = @ - 1] /\ held' = [held EXCEPT ![s] = @ + 1]
        /\ copy' = [copy EXCEPT ![s] = "write"]
    BY <1>6 DEF CopyRead, Step
  <2>2. net[s] - 1 \in 0..MaxBytes /\ held[s] + 1 \in 0..1
    BY <1>2, <2>1
  <2>3. ByteTypes'
    BY <2>1, <2>2
  <2>4. Known(s)' = Known(s)
    BY <1>2, <2>1 DEF Known
  <2>5. TunnelConserves'
    BY <1>1, <1>3, <2>1, <2>4 DEF TunnelConserves, Direct
  <2>6. held'[s] = 1 /\ copy'[s] = "write"
    BY <2>1
  <2>7. CopyHolds'
    BY <1>1, <1>3, <2>1, <2>6
  <2> QED
    BY <2>3, <2>5, <2>7
<1>7. CASE CopyWrite(s)
  <2>1. /\ held[s] = 1 /\ held' = [held EXCEPT ![s] = 0] /\ UNCHANGED <<sent, net>>
        /\ copy' = [copy EXCEPT ![s] = "read"]
    BY <1>7 DEF CopyWrite, Step
  <2>2. PICK k \in Nat :
          /\ got' = [got EXCEPT ![s] = @ + k]
          /\ IF s = "target" THEN k + wbuf' = wbuf + 1 ELSE k = 1
          /\ wbuf' \in 0..(WBuf - 1)
          /\ method = "CONNECT" => wbuf' = wbuf
    <3>1. CASE s = "target" /\ method # "CONNECT"
      <4>1. wbuf' = Buffered /\ got' = [got EXCEPT ![s] = @ + Flushed]
        BY <1>7, <3>1 DEF CopyWrite
      <4>2. Flushed \in Nat /\ Flushed + Buffered = wbuf + 1 /\ Buffered \in 0..(WBuf - 1)
        BY <1>2 DEF Flushed, Buffered
      <4> QED
        BY <3>1, <4>1, <4>2
    <3>2. CASE ~(s = "target" /\ method # "CONNECT")
      <4>1. wbuf' = wbuf /\ got' = [got EXCEPT ![s] = @ + 1]
        BY <1>7, <3>2 DEF CopyWrite
      <4>2. wbuf' \in 0..(WBuf - 1) /\ 1 + wbuf' = wbuf + 1
        BY <1>2, <4>1
      <4> WITNESS 1 \in Nat
      <4> QED
        BY <4>1, <4>2
    <3> QED
      BY <3>1, <3>2
  <2>3. /\ held'[s] = 0 /\ got'[s] = got[s] + k
        /\ net'[s] = net[s] /\ sent'[s] = sent[s] /\ copy'[s] = "read"
    BY <2>1, <2>2
  <2>4. Known(s)' = Known(s) /\ got[s] + k \in 0..MaxBytes
    <3>1. CASE s = "target"
      <4>1. /\ Known(s) = net[s] + held[s] + got[s] + wbuf
            /\ Known(s)' = net'[s] + held'[s] + got'[s] + wbuf'
        BY <3>1 DEF Known
      <4>2. k + wbuf' = wbuf + 1 /\ wbuf' \in 0..(WBuf - 1)
        BY <2>2, <3>1
      <4> HIDE DEF StateTypes, ByteInv, ByteTypes, CopyHolds
      <4>3. Known(s)' = Known(s)
        <5>1. Known(s) = net[s] + 1 + got[s] + wbuf
          BY <2>1, <4>1
        <5>2. Known(s)' = net[s] + 0 + (got[s] + k) + wbuf'
          BY <2>3, <4>1
        <5>3. net[s] \in Int /\ got[s] \in Int /\ wbuf \in Int /\ wbuf' \in Int
          BY <1>2, <4>2
        <5> DEFINE n == net[s] g == got[s] w == wbuf v == wbuf'
        <5>4. n \in Int /\ g \in Int /\ w \in Int /\ v \in Int /\ k + v = w + 1
          BY <4>2, <5>3
        <5>5. Known(s) = n + 1 + g + w /\ Known(s)' = n + 0 + (g + k) + v
          BY <5>1, <5>2
        <5> HIDE DEF n, g, w, v
        <5> QED
          BY <5>4, <5>5
      <4>4. got[s] + k <= sent[s]
        BY <1>2, <2>1, <4>1, <4>2
      <4> QED
        BY <1>2, <4>3, <4>4
    <3>2. CASE s # "target"
      BY <1>2, <2>1, <2>2, <2>3, <3>2 DEF Known
    <3> QED
      BY <3>1, <3>2
  <2>5. ByteTypes'
    BY <2>1, <2>2, <2>4
  <2>6. TunnelConserves'
    BY <1>1, <1>3, <2>1, <2>4 DEF TunnelConserves, Direct
  <2>7. CopyHolds'
    BY <1>1, <1>3, <2>2, <2>3
  <2> QED
    BY <2>5, <2>6, <2>7
<1> QED
  BY <1>5, <1>6, <1>7 DEF CopyNext

(* The peers add bytes, and only the reader of an upgrade drops some. *)
LEMMA ByteStep ==
  ASSUME StateTypes, Stages, ByteInv, [Next]_vars
  PROVE  ByteInv'
<1> USE DEF ByteInv
<1>1. ASSUME UNCHANGED <<method, Bytes, copy>>
      PROVE  ByteInv'
  BY <1>1 DEF ByteTypes, TunnelConserves, CopyHolds, Known, Direct, Bytes
<1>2. ASSUME NEW s \in Sides, Speak(s)
      PROVE  ByteInv'
  <2> USE DEF ByteTypes
  <2>1. /\ sent[s] \in 0..MaxBytes /\ net[s] \in 0..MaxBytes /\ held[s] \in 0..1
        /\ got[s] \in 0..MaxBytes /\ wbuf \in 0..(WBuf - 1) /\ sent[s] < MaxBytes
        /\ Known(s) <= sent[s] /\ (Direct(s) => Known(s) = sent[s])
    BY <1>2 DEF TunnelConserves, Speak
  <2>2. /\ sent' = [sent EXCEPT ![s] = @ + 1] /\ net' = [net EXCEPT ![s] = @ + 1]
        /\ UNCHANGED <<method, held, wbuf, got, copy>>
    BY <1>2 DEF Speak, Request
  <2>3. sent[s] + 1 \in 0..MaxBytes /\ net[s] + 1 \in 0..MaxBytes
    BY <2>1 DEF Known
  <2>4. Known(s)' = Known(s) + 1 /\ sent'[s] = sent[s] + 1
    BY <2>1, <2>2 DEF Known
  <2>5. \A r \in Sides : r # s => Known(r)' = Known(r) /\ sent'[r] = sent[r]
    BY <2>2 DEF Known
  <2>6. Known(s) \in Nat
    BY <2>1 DEF Known
  <2>7. Known(s)' <= sent'[s] /\ (Direct(s)' => Known(s)' = sent'[s])
    BY <2>1, <2>2, <2>4, <2>6 DEF Direct
  <2>8. TunnelConserves'
    BY <2>2, <2>5, <2>7 DEF TunnelConserves, Direct
  <2> QED
    BY <2>2, <2>3, <2>8 DEF CopyHolds
<1>3. ASSUME NEW s \in Sides, Leave(s)
      PROVE  ByteInv'
  BY <1>1, <1>3 DEF Leave, Request
<1>4. ASSUME NEW s \in Sides, CopyNext(s)
      PROVE  ByteInv'
  BY <1>4, CopyKeepsBytes
<1>5. CASE RoundTripSwitches
  <2> USE DEF ByteTypes
  <2>1. PICK k \in 0..net["target"] : net' = [net EXCEPT !["target"] = @ - k]
    BY <1>5 DEF RoundTripSwitches
  <2>2. UNCHANGED <<method, sent, held, wbuf, got, copy>> /\ method # "CONNECT"
    BY <1>5 DEF RoundTripSwitches, Request, Stages
  <2>3. "target" \in Sides /\ ~Direct("target")
    BY <2>2 DEF Sides, Direct
  <2>4. net["target"] \in 0..MaxBytes
    BY <2>3
  <2>5. net["target"] - k \in 0..MaxBytes
    BY <2>1, <2>4
  <2>6. Known("target")' <= Known("target")
    BY <2>1, <2>2, <2>3, <2>4 DEF Known
  <2>7. Known("target") <= sent["target"] /\ Known("target") \in Nat /\ Known("target")' \in Nat
    BY <2>1, <2>2, <2>3, <2>4, <2>5 DEF Known, TunnelConserves
  <2>8. \A r \in Sides : r # "target" => Known(r)' = Known(r)
    BY <2>1, <2>2 DEF Known
  <2>9. Known("target")' <= sent["target"] /\ ~Direct("target")'
    BY <2>2, <2>3, <2>6, <2>7 DEF Direct
  <2>10. TunnelConserves'
    BY <2>2, <2>8, <2>9 DEF TunnelConserves, Direct
  <2> QED
    BY <2>1, <2>2, <2>5, <2>10 DEF CopyHolds
<1>6. CASE HijackOK
  <2>1. UNCHANGED <<method, Bytes>> /\ \A s \in Sides : copy'[s] \in {"flush", "read"}
    BY <1>6 DEF HijackOK, Request
  <2>2. \A s \in Sides : held[s] = 0
    BY <1>6 DEF HijackOK, Stages, CopyHolds
  <2>3. CopyHolds'
    BY <2>1, <2>2 DEF CopyHolds, Bytes
  <2> QED
    BY <2>1, <2>3 DEF ByteTypes, TunnelConserves, Known, Direct, Bytes
<1>7. CASE SwitchNoHost \/ SwitchLocal \/ SwitchPanics \/ SwitchOn \/ Forward \/ DialFails \/ DialOK
  BY <1>1, <1>7 DEF SwitchNoHost, SwitchLocal, SwitchPanics, SwitchOn, Forward, DialFails, DialOK,
                    Answer, Idle, Request
<1>8. CASE RoundTripFails \/ RoundTripPanics \/ RoundTripRefused \/ HijackFails
  BY <1>1, <1>8 DEF RoundTripFails, RoundTripPanics, RoundTripRefused, HijackFails,
                    Idle, Request
<1>9. CASE WaitDone \/ Join \/ Ended \/ UNCHANGED vars
  BY <1>1, <1>9 DEF WaitDone, Join, Ended, vars, Request, Bytes
<1> QED
  BY <1>2, <1>3, <1>4, <1>5, <1>6, <1>7, <1>8, <1>9 DEF Next, HandlerNext

-----------------------------------------------------------------------------
(* For every size of the writer and any number of bytes: a tunnel invents  *)
(* no byte and loses none, but those of the backend in an upgrade, and     *)
(* what is open follows from the stage of the handler                      *)
(* (httpx/proxy.go:56-209, 225-301).                                       *)
THEOREM TunnelInvariance == Spec => []TunnelInv
<1>1. Init => TunnelInv
  <2> SUFFICES ASSUME Init PROVE TunnelInv
    OBVIOUS
  <2>1. maxf \in Invalid..2 /\ 0 \in 0..MaxBytes /\ 0 \in 0..1 /\ 0 \in 0..(WBuf - 1)
    BY DEF Init, Missing, Invalid
  <2>2. TypeOK
    BY <2>1 DEF Init, TypeOK, Pc, CopyPc
  <2>3. TunnelConserves
    BY DEF Init, TunnelConserves, Known
  <2>4. CopyHolds /\ Stages
    BY DEF Init, CopyHolds, Stages
  <2> QED
    BY <2>2, <2>3, <2>4 DEF TunnelInv
<1>2. TunnelInv /\ [Next]_vars => TunnelInv'
  <2> SUFFICES ASSUME TunnelInv, [Next]_vars PROVE TunnelInv'
    OBVIOUS
  <2>1. StateTypes /\ Stages /\ ByteInv
    BY TypeSplits DEF TunnelInv, ByteInv
  <2>2. StateTypes' /\ Stages' /\ ByteInv'
    BY <2>1, StageStep, ByteStep
  <2> QED
    BY <2>2 DEF TunnelInv, TypeOK, StateTypes, ByteInv, ByteTypes
<1> QED
  BY <1>1, <1>2, PTL DEF Spec

(* Whichever dial, round trip, hijack or copy fails, the handler returns   *)
(* with a status written and both connections closed, and serveCONNECT     *)
(* leaves no copy behind (httpx/proxy.go:90-93, 158-169, 179, 233-250,     *)
(* 283).                                                                   *)
THEOREM ReturnIsClean == Spec => []CleanReturn
<1>1. TunnelInv => CleanReturn
  BY DEF TunnelInv, Stages, CleanReturn
<1> QED
  BY <1>1, TunnelInvariance, PTL
=============================================================================
