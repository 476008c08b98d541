------------------------ MODULE ResponseWriterProofs ------------------------
(***************************************************************************)
(* Proofs of the safety of the response side of httpx.Server, for every    *)
(* size of the chunk buffer, any slices and any number of requests.  The   *)
(* inductive invariant is BufferInv with NeverGarbled.                     *)
(***************************************************************************)
EXTENDS ResponseWriter, TLAPS

USE BoundsAssumption

-----------------------------------------------------------------------------
(* The types, by groups of variables. *)

Clients ==
  [want : {"header", "chunks", "bytes"}, left : Nat, body : Nat,
   answered : Nat, garbled : SUBSET {"GET", "HEAD", "bigLength"}]

ReqTypes ==
  /\ proxy \in Proxies /\ r \in 0..MaxReq /\ method \in {"GET", "HEAD"}
  /\ closed \in BOOLEAN /\ pc \in Pc /\ level \in 0..2
  /\ reqClose \in BOOLEAN /\ spoke \in BOOLEAN

ResTypes ==
  /\ length \in Lengths \cup Invalid \cup {NoLength} /\ status \in Status
  /\ hasBody \in BOOLEAN /\ chunked \in BOOLEAN /\ err \in Err
  /\ remain \in 0..MaxUint64 /\ n \in 0..B

WriteTypes ==
  /\ left \in Nat /\ given \in 0..MaxBody
  /\ call \in [asked : Nat, n : Nat, err : WriteErr]

OutTypes ==
  unsent \in BOOLEAN /\ link \in {"up", "down", "failed"} /\ client \in Clients

(* The type invariant is the conjunction of the groups. *)
LEMMA TypeSplits == TypeOK <=> ReqTypes /\ ResTypes /\ WriteTypes /\ OutTypes
BY DEF TypeOK, ReqTypes, ResTypes, WriteTypes, OutTypes, Clients

(* And so it is in the next state. *)
LEMMA TypesNext ==
  ASSUME ReqTypes', ResTypes', WriteTypes', OutTypes'
  PROVE  TypeOK'
BY DEF TypeOK, ReqTypes, ResTypes, WriteTypes, OutTypes, Clients

(* What the client parses leaves it in one of its states. *)
LEMMA Parsed ==
  ASSUME ReqTypes, NEW c \in Clients
  PROVE  /\ Garbled(c) \in Clients /\ Complete(c) \in Clients /\ ParseEnd(c) \in Clients
         /\ \A k \in Nat : ParseChunk(c, k) \in Clients /\ ParseBytes(c, k) \in Clients
         /\ \A st, len : len \in Nat \/ len = NoLength => ParseHeader(c, st, len) \in Clients
<1>1. \A w \in {"header", "chunks", "bytes"}, l, b, a \in Nat, g \in SUBSET {"GET", "HEAD", "bigLength"} :
        Parser(w, l, b, a, g) \in Clients
  BY DEF Parser, Clients
<1>2. /\ c.want \in {"header", "chunks", "bytes"} /\ c.left \in Nat /\ c.body \in Nat
      /\ c.answered \in Nat /\ c.garbled \in SUBSET {"GET", "HEAD", "bigLength"}
  BY DEF Clients
<1>3. Garbled(c) \in Clients /\ Complete(c) \in Clients
  BY <1>1, <1>2 DEF Garbled, Complete, Cause, ReqTypes
<1>4. ParseEnd(c) \in Clients
  BY <1>3 DEF ParseEnd
<1>5. ASSUME NEW k \in Nat PROVE ParseChunk(c, k) \in Clients
  BY <1>1, <1>2, <1>3 DEF ParseChunk
<1>6. ASSUME NEW k \in Nat PROVE ParseBytes(c, k) \in Clients
  <2>1. CASE c.want # "bytes" \/ k > c.left
    BY <1>3, <2>1 DEF ParseBytes
  <2>2. CASE c.want = "bytes" /\ k = c.left
    <3>1. Parser("header", 0, c.body, c.answered + 1, c.garbled) \in Clients
      BY <1>1, <1>2
    <3> QED
      BY <1>2, <2>2, <3>1 DEF ParseBytes
  <2>3. CASE c.want = "bytes" /\ k < c.left
    <3>1. c.left - k \in Nat
      BY <1>2, <2>3
    <3>2. Parser("bytes", c.left - k, c.body, c.answered, c.garbled) \in Clients
      BY <1>1, <1>2, <3>1
    <3> QED
      BY <1>2, <2>3, <3>2 DEF ParseBytes
  <2> QED
    BY <1>2, <2>1, <2>2, <2>3
<1>7. ASSUME NEW st, NEW len, len \in Nat \/ len = NoLength
      PROVE  ParseHeader(c, st, len) \in Clients
  <2>1. Parser("chunks", c.left, 0, c.answered, c.garbled) \in Clients
    BY <1>1, <1>2
  <2>2. len \in Nat => Parser("bytes", len, c.body, c.answered, c.garbled) \in Clients
    BY <1>1, <1>2
  <2> QED
    BY <1>3, <1>7, <2>1, <2>2 DEF ParseHeader
<1> QED
  BY <1>3, <1>4, <1>5, <1>6, <1>7

(* The fields of what was parsed. *)
LEMMA Fields ==
  ASSUME NEW w, NEW l, NEW b, NEW a, NEW g
  PROVE  /\ Parser(w, l, b, a, g).want = w /\ Parser(w, l, b, a, g).left = l
         /\ Parser(w, l, b, a, g).body = b /\ Parser(w, l, b, a, g).answered = a
         /\ Parser(w, l, b, a, g).garbled = g
BY DEF Parser

(* A write to the bufio.Writer, in terms of the types. *)
LEMMA OutputTypes ==
  ASSUME OutTypes
  PROVE  /\ \A c \in Clients : Written(c) \/ Sent(c) => OutTypes'
         /\ Failed \/ UNCHANGED outVars => OutTypes'
BY DEF OutTypes, Written, Sent, Failed, outVars

-----------------------------------------------------------------------------
(* The header.  WriteHeader writes it when there is no status yet, and so  *)
(* to a client that has parsed nothing.                                    *)
HeaderIsOut(st) ==
  /\ ResTypes' /\ OutTypes' /\ status' = st /\ (hasBody' <=> st = "body")
  /\ err' # "hijacked" /\ (err' = "nil" => link' # "failed")
  /\ n' = 0 /\ client'.garbled = {}
  /\ IF chunked' THEN hasBody' /\ length' = NoLength ELSE hasBody' => length' # NoLength
  /\ hasBody' /\ method = "GET" =>
       IF chunked'
       THEN /\ client'.answered = 0 /\ (client'.want = "chunks" \/ link' = "failed")
            /\ client'.body = 0
       ELSE InBytes'
  /\ hasBody' /\ method = "HEAD" =>
       \/ link' = "failed" \/ length' \in Invalid
       \/ client'.want = "header" /\ client'.answered = 1
  /\ st = "empty" /\ err' = "nil" => client'.answered = 1

(* SendHeader leaves status, body, error and client as HeaderIsOut says. *)
LEMMA HeaderSent ==
  ASSUME TypeOK, OneHeader, status = "unset", NEW st \in Status \ {"unset"}, SendHeader(st)
  PROVE  HeaderIsOut(st)
<1>1. ReqTypes /\ ResTypes /\ WriteTypes /\ OutTypes
  BY TypeSplits
<1>2. client = Client0 /\ ~chunked /\ n = 0 /\ err = "nil" /\ ~hasBody
  BY DEF OneHeader, NoHeaderYet, HeaderOfBody
<1>3. /\ client.want = "header" /\ client.left = 0 /\ client.body = 0
      /\ client.answered = 0 /\ client.garbled = {} /\ client \in Clients
  BY <1>1, <1>2, Fields DEF Client0, OutTypes
<1>4. length \in 0..MaxUint64 \/ length = NoLength \/ length \in Invalid
  BY <1>1 DEF ResTypes
<1>5. st # "body" \/ length \notin Invalid =>
        \/ /\ link # "failed" /\ link' = link /\ unsent' \in BOOLEAN
           /\ client' = ParseHeader(client, st, length) /\ err' = "nil"
        \/ link' = "failed" /\ client' = client /\ unsent' = unsent /\ err' = "io"
  BY <1>2 DEF SendHeader, Written, Failed
<1>6. /\ status' = st /\ hasBody' = (st = "body") /\ n' = 0
      /\ chunked' = (st = "body" /\ length = NoLength)
      /\ length' = IF st = "body" THEN length ELSE NoLength
  BY <1>2 DEF SendHeader
<1>7. /\ chunked' \in BOOLEAN /\ (chunked' <=> st = "body" /\ length = NoLength)
       /\ hasBody' \in BOOLEAN /\ (hasBody' <=> st = "body")
  BY <1>6, Zenon
<1>8. /\ st = "body" /\ length \in Nat => remain' = length
      /\ st = "body" /\ length = BadLength => remain' = 0
      /\ remain' \in 0..MaxUint64
  <2>1. remain' = IF st = "body" /\ length # NoLength THEN ParseUint(length) ELSE remain
    BY DEF SendHeader
  <2>2. remain \in 0..MaxUint64 /\ 0 \in 0..MaxUint64 /\ MaxUint64 \in 0..MaxUint64
    BY <1>1 DEF ResTypes
  <2> QED
    BY <1>4, <2>1, <2>2 DEF ParseUint, Invalid, NoLength, BadLength, BigLength
<1>9. err' \in {"nil", "io", "badLength"} /\ (st = "body" /\ length \in Invalid => err' = "badLength")
  BY <1>2, <1>5 DEF SendHeader
<1>10. ResTypes'
  BY <1>1, <1>6, <1>8, <1>9 DEF ResTypes, Err
<1>11. CASE st = "body" /\ length \in Invalid
  <2>1. client' = client /\ link' = link /\ unsent' = unsent
    BY <1>11 DEF SendHeader, outVars
  <2>3. length' \in Invalid /\ (length' = BadLength => remain' = 0)
    BY <1>6, <1>8, <1>11
  <2>4. ~chunked'
    BY <1>7, <1>11 DEF Invalid, BadLength, BigLength, NoLength
  <2>2. OutTypes'
    BY <1>1, <2>1 DEF OutTypes
  <2> QED
    BY <1>3, <1>6, <1>9, <1>10, <1>11, <1>7, <2>1, <2>2, <2>3, <2>4
       DEF HeaderIsOut, InBytes, Invalid, NoLength, BadLength, BigLength
<1>12. CASE ~(st = "body" /\ length \in Invalid)
  <2>1. CASE link' = "failed" /\ client' = client /\ unsent' = unsent /\ err' = "io"
    <3>1. OutTypes'
      BY <1>1, <2>1 DEF OutTypes
    <3> QED
      BY <1>3, <1>6, <1>10, <2>1, <3>1 DEF HeaderIsOut, InBytes
  <2>2. CASE /\ link # "failed" /\ link' = link /\ unsent' \in BOOLEAN
             /\ client' = ParseHeader(client, st, length) /\ err' = "nil"
    <3>1. CASE st = "info"
      <4>1. client' = client
        BY <1>3, <2>2, <3>1 DEF ParseHeader
      <4>2. OutTypes'
        BY <1>1, <2>2, <4>1 DEF OutTypes
      <4> QED
        BY <1>3, <1>6, <1>10, <2>2, <3>1, <4>1, <4>2 DEF HeaderIsOut
    <3>2. CASE st # "info" /\ (method = "HEAD" \/ st = "empty" \/ length = 0)
      <4>1. client' = Complete(client)
        BY <1>3, <2>2, <3>2 DEF ParseHeader
      <4>2. client'.want = "header" /\ client'.answered = 1 /\ client'.garbled = {}
        BY <1>3, <4>1, Fields DEF Complete
      <4>3. OutTypes'
        BY <1>1, <2>2, <4>1, Parsed DEF OutTypes
      <4>4. method = "GET" /\ hasBody' => ~chunked' /\ remain' = 0
        <5> SUFFICES ASSUME method = "GET", st = "body" PROVE ~chunked' /\ remain' = 0
          BY <1>7
        <5>1. length = 0
          BY <3>2
        <5>2. remain' = 0
          BY <1>8, <5>1
        <5> QED
          BY <1>7, <5>1, <5>2 DEF NoLength
      <4> QED
        BY <1>6, <1>10, <1>7, <2>2, <4>2, <4>3, <4>4 DEF HeaderIsOut, InBytes
    <3>3. CASE st = "body" /\ method # "HEAD" /\ length = NoLength
      <4>1. client' = Parser("chunks", client.left, 0, client.answered, client.garbled)
        BY <1>3, <2>2, <3>3 DEF ParseHeader, NoLength
      <4>2. client'.want = "chunks" /\ client'.answered = 0 /\ client'.garbled = {} /\ client'.body = 0
        BY <1>3, <4>1, Fields
      <4>3. OutTypes'
        BY <1>1, <1>3, <2>2, <3>3, Parsed DEF OutTypes
      <4> QED
        BY <1>6, <1>10, <2>2, <3>3, <4>2, <4>3 DEF HeaderIsOut
    <3>4. CASE st = "body" /\ method # "HEAD" /\ length \in Nat \ {0}
      <4>1. client' = Parser("bytes", length, client.body, client.answered, client.garbled)
        BY <1>3, <2>2, <3>4 DEF ParseHeader, NoLength
      <4>2. client'.want = "bytes" /\ client'.answered = 0 /\ client'.garbled = {} /\ client'.left = length
        BY <1>3, <4>1, Fields
      <4>3. OutTypes'
        BY <1>1, <1>3, <2>2, <3>4, Parsed DEF OutTypes
      <4>4. remain' = length /\ remain' # 0 /\ ~chunked'
        <5>1. remain' = length /\ remain' # 0
          BY <1>8, <3>4
        <5> QED
          BY <1>7, <3>4, <5>1 DEF NoLength
      <4> QED
        BY <1>6, <1>7, <1>10, <2>2, <3>4, <4>2, <4>3, <4>4 DEF HeaderIsOut, InBytes, NoLength
    <3> QED
      BY <1>1, <1>4, <1>12, <3>1, <3>2, <3>3, <3>4 DEF Status
  <2> QED
    BY <1>5, <1>12, <2>1, <2>2
<1> QED
  BY <1>11, <1>12

-----------------------------------------------------------------------------
(* The steps, one by one. *)

IInv == BufferInv /\ NeverGarbled

(* What the invariant says, part by part. *)
LEMMA Holds ==
  ASSUME IInv
  PROVE  /\ TypeOK /\ ReqTypes /\ ResTypes /\ WriteTypes /\ OutTypes
         /\ WriteCounts /\ ChunksConserved /\ FlushedBeforeNext
         /\ InLoop /\ NoHeaderYet /\ HeaderOfBody /\ Stages /\ NeverGarbled
         /\ GetIsParsed /\ HeadIsParsed /\ EmptyIsParsed /\ EndIsParsed
BY TypeSplits DEF IInv, BufferInv, OneHeader, Parsing

(* What has to be shown of a step. *)
LEMMA HoldsNext ==
  ASSUME ReqTypes', ResTypes', WriteTypes', OutTypes',
         WriteCounts', ChunksConserved', FlushedBeforeNext',
         InLoop', NoHeaderYet', HeaderOfBody', Stages', NeverGarbled',
         GetIsParsed', HeadIsParsed', EmptyIsParsed', EndIsParsed'
  PROVE  IInv'
BY TypesNext DEF IInv, BufferInv, OneHeader, Parsing

(* The fields of the record of a Write. *)
LEMMA Calls ==
  ASSUME NEW a \in Nat, NEW m \in Nat, NEW e \in WriteErr
  PROVE  /\ Call(a, m, e) \in [asked : Nat, n : Nat, err : WriteErr]
         /\ Call(a, m, e).asked = a /\ Call(a, m, e).n = m /\ Call(a, m, e).err = e
BY DEF Call

(* The connection breaks: only the next write or flush notices. *)
LEMMA BreakKeeps ==
  ASSUME IInv, Break
  PROVE  IInv'
<1> USE Holds
<1>1. ReqTypes' /\ ResTypes' /\ WriteTypes' /\ OutTypes'
  BY DEF Break, reqVars, resVars, writeVars, outVars, ReqTypes, Pc, ResTypes, Err,
     WriteTypes, OutTypes
<1>2. WriteCounts' /\ ChunksConserved' /\ FlushedBeforeNext' /\ InLoop'
  BY DEF Break, reqVars, resVars, writeVars, outVars, WriteCounts,
     ChunksConserved, FlushedBeforeNext, Stages, InLoop
<1>3. NoHeaderYet' /\ HeaderOfBody' /\ Stages'
  BY DEF Break, reqVars, resVars, writeVars, outVars, NoHeaderYet, Stages, HeaderOfBody
<1>4. NeverGarbled' /\ GetIsParsed' /\ HeadIsParsed' /\ EmptyIsParsed' /\ EndIsParsed'
  BY DEF Break, reqVars, resVars, writeVars, outVars, NeverGarbled, GetIsParsed,
     InChunks, InBytes, HeadIsParsed, EmptyIsParsed, EndIsParsed
<1> QED
  BY <1>1, <1>2, <1>3, <1>4, HoldsNext

(* ServeConn leaves its loop, with nothing open. *)
LEMMA NoRequestKeeps ==
  ASSUME IInv, NoRequest
  PROVE  IInv'
<1> USE Holds
<1>1. ReqTypes' /\ ResTypes' /\ WriteTypes' /\ OutTypes'
  BY DEF NoRequest, reqVars, resVars, writeVars, outVars, ReqTypes, Pc, ResTypes,
     Err, WriteTypes, OutTypes
<1>2. WriteCounts' /\ ChunksConserved' /\ FlushedBeforeNext' /\ InLoop'
  BY DEF NoRequest, reqVars, resVars, writeVars, outVars, WriteCounts,
     ChunksConserved, FlushedBeforeNext, Stages, InLoop
<1>3. NoHeaderYet' /\ HeaderOfBody' /\ Stages'
  BY DEF NoRequest, reqVars, resVars, writeVars, outVars, NoHeaderYet, Stages, HeaderOfBody
<1>4. NeverGarbled' /\ GetIsParsed' /\ HeadIsParsed' /\ EmptyIsParsed' /\ EndIsParsed'
  BY DEF NoRequest, reqVars, resVars, writeVars, outVars, NeverGarbled,
     GetIsParsed, InChunks, InBytes, HeadIsParsed, EmptyIsParsed, EndIsParsed
<1> QED
  BY <1>1, <1>2, <1>3, <1>4, HoldsNext

(* The handler returns: what it wrote is still to be ended and flushed. *)
LEMMA ReturnKeeps ==
  ASSUME IInv, Return
  PROVE  IInv'
<1> USE Holds
<1>1. ReqTypes' /\ ResTypes' /\ WriteTypes' /\ OutTypes'
  BY DEF Return, reqVars, resVars, writeVars, outVars, ReqTypes, Pc, ResTypes,
     Err, WriteTypes, OutTypes
<1>2. WriteCounts' /\ ChunksConserved' /\ FlushedBeforeNext' /\ InLoop'
  BY DEF Return, reqVars, resVars, writeVars, outVars, WriteCounts,
     ChunksConserved, FlushedBeforeNext, Stages, InLoop
<1>3. NoHeaderYet' /\ HeaderOfBody' /\ Stages'
  BY DEF Return, reqVars, resVars, writeVars, outVars, NoHeaderYet, Stages, HeaderOfBody
<1>4. NeverGarbled' /\ GetIsParsed' /\ HeadIsParsed' /\ EmptyIsParsed' /\ EndIsParsed'
  BY DEF Return, reqVars, resVars, writeVars, outVars, NeverGarbled, GetIsParsed,
     InChunks, InBytes, HeadIsParsed, EmptyIsParsed, EndIsParsed
<1> QED
  BY <1>1, <1>2, <1>3, <1>4, HoldsNext

(* ServeConn returns after an error, a hijack or a panic. *)
LEMMA EndConnKeeps ==
  ASSUME IInv, EndConn
  PROVE  IInv'
<1> USE Holds
<1>1. ReqTypes' /\ ResTypes' /\ WriteTypes' /\ OutTypes'
  BY DEF EndConn, reqVars, resVars, writeVars, outVars, ReqTypes, Pc, ResTypes,
     Err, WriteTypes, OutTypes
<1>2. WriteCounts' /\ ChunksConserved' /\ FlushedBeforeNext' /\ InLoop'
  BY DEF EndConn, reqVars, resVars, writeVars, outVars, WriteCounts,
     ChunksConserved, FlushedBeforeNext, Stages, InLoop
<1>3. NoHeaderYet' /\ HeaderOfBody' /\ Stages'
  BY DEF EndConn, reqVars, resVars, writeVars, outVars, NoHeaderYet, Stages, HeaderOfBody
<1>4. NeverGarbled' /\ GetIsParsed' /\ HeadIsParsed' /\ EmptyIsParsed' /\ EndIsParsed'
  BY DEF EndConn, reqVars, resVars, writeVars, outVars, NeverGarbled, GetIsParsed,
     InChunks, InBytes, HeadIsParsed, EmptyIsParsed, EndIsParsed
<1> QED
  BY <1>1, <1>2, <1>3, <1>4, HoldsNext

(* The inner serveHTTP of ServeProxy returns to the outer one, which       *)
(* closes again.                                                           *)
LEMMA EndInnerKeeps ==
  ASSUME IInv, EndInner
  PROVE  IInv'
<1> USE Holds
<1>1. ReqTypes' /\ ResTypes' /\ WriteTypes' /\ OutTypes'
  BY DEF EndInner, reqVars, resVars, writeVars, outVars, ReqTypes, Pc, ResTypes,
     Err, WriteTypes, OutTypes
<1>2. WriteCounts' /\ ChunksConserved' /\ FlushedBeforeNext' /\ InLoop'
  BY DEF EndInner, reqVars, resVars, writeVars, outVars, WriteCounts,
     ChunksConserved, FlushedBeforeNext, Stages, InLoop
<1>3. NoHeaderYet' /\ HeaderOfBody' /\ Stages'
  BY DEF EndInner, reqVars, resVars, writeVars, outVars, NoHeaderYet, Stages, HeaderOfBody
<1>4. NeverGarbled' /\ HeadIsParsed' /\ EmptyIsParsed' /\ EndIsParsed'
  BY DEF EndInner, reqVars, resVars, writeVars, outVars, NeverGarbled,
     HeadIsParsed, EmptyIsParsed, EndIsParsed
<1>5. GetIsParsed'
  BY DEF EndInner, reqVars, resVars, writeVars, outVars, GetIsParsed, InChunks, InBytes, Stages
<1> QED
  BY <1>1, <1>2, <1>3, <1>4, <1>5, HoldsNext

(* reset clears everything but the status, and there is no body without a  *)
(* header.                                                                 *)
LEMMA ResetKeeps ==
  ASSUME IInv, Reset
  PROVE  IInv'
<1> USE Holds
<1>a. n' \in 0..B /\ remain' \in 0..MaxUint64 /\ length' = NoLength
  BY DEF Reset
<1>1. ReqTypes' /\ WriteTypes' /\ OutTypes'
  BY DEF Reset, reqVars, resVars, writeVars, outVars, ReqTypes, Pc, WriteTypes, OutTypes
<1>2. ResTypes'
  BY <1>a DEF Reset, reqVars, resVars, writeVars, outVars, ResTypes, Err
<1>3. WriteCounts' /\ ChunksConserved' /\ FlushedBeforeNext' /\ InLoop'
  BY DEF Reset, reqVars, resVars, writeVars, outVars, WriteCounts,
     ChunksConserved, FlushedBeforeNext, Stages, InLoop
<1>4. NoHeaderYet' /\ HeaderOfBody' /\ Stages'
  BY DEF Reset, reqVars, resVars, writeVars, outVars, NoHeaderYet, Stages, HeaderOfBody
<1>5. NeverGarbled' /\ GetIsParsed' /\ HeadIsParsed' /\ EmptyIsParsed' /\ EndIsParsed'
  BY DEF Reset, reqVars, resVars, writeVars, outVars, NeverGarbled, GetIsParsed,
     InChunks, InBytes, HeadIsParsed, EmptyIsParsed, EndIsParsed
<1> QED
  BY <1>1, <1>2, <1>3, <1>4, <1>5, HoldsNext

(* A request begins as the last reset, or the connection, left it. *)
LEMMA StartRequestKeeps ==
  ASSUME IInv, NEW m \in Methods, StartRequest(m)
  PROVE  IInv'
<1> USE Holds
<1>a. r' \in 0..MaxReq /\ level' \in 0..2
  BY DEF StartRequest, ReqTypes
<1>b. /\ call' \in [asked : Nat, n : Nat, err : WriteErr]
      /\ call'.asked = 0 /\ call'.n = 0
  BY Calls DEF StartRequest, NoCall, WriteErr, Err
<1>c. status = "unset" <=> r = 0
  BY DEF StartRequest, NoHeaderYet
<1>d. r' = r + 1 /\ r \in Nat
  BY DEF StartRequest, ReqTypes
<1>1. ResTypes' /\ OutTypes'
  BY DEF StartRequest, reqVars, resVars, writeVars, outVars, ResTypes, Err, OutTypes
<1>2. ReqTypes'
  BY <1>a DEF StartRequest, reqVars, resVars, writeVars, outVars, ReqTypes, Pc
<1>3. WriteTypes'
  BY <1>b DEF StartRequest, reqVars, resVars, writeVars, outVars, WriteTypes
<1>4. FlushedBeforeNext' /\ InLoop'
  BY DEF StartRequest, reqVars, resVars, writeVars, outVars, FlushedBeforeNext, Stages, InLoop
<1>5. WriteCounts'
  BY <1>b DEF StartRequest, reqVars, resVars, writeVars, outVars, WriteCounts
<1>6. ChunksConserved'
  BY DEF StartRequest, reqVars, resVars, writeVars, outVars, ChunksConserved, Stages
<1>7. Stages'
  BY DEF StartRequest, reqVars, resVars, writeVars, outVars, Stages, NoHeaderYet, HeaderOfBody
<1>8. NoHeaderYet'
  BY <1>c, <1>d DEF StartRequest, reqVars, resVars, writeVars, outVars, NoHeaderYet, Stages
<1>9. HeaderOfBody'
  BY <1>c, <1>d DEF StartRequest, reqVars, resVars, writeVars, outVars, HeaderOfBody, Stages
<1>10. NeverGarbled' /\ EndIsParsed'
  BY DEF StartRequest, reqVars, resVars, writeVars, outVars, NeverGarbled, EndIsParsed
<1>11. GetIsParsed'
  BY DEF StartRequest, reqVars, resVars, writeVars, outVars, GetIsParsed, InChunks, InBytes, Stages
<1>12. HeadIsParsed'
  BY DEF StartRequest, reqVars, resVars, writeVars, outVars, HeadIsParsed, Stages
<1>13. EmptyIsParsed'
  BY <1>c, <1>d DEF StartRequest, reqVars, resVars, writeVars, outVars, EmptyIsParsed
<1> QED
  BY <1>1, <1>2, <1>3, <1>4, <1>5, <1>6, <1>7, <1>8, <1>9, <1>10, <1>11, <1>12, <1>13, HoldsNext

(* The handler sets a length before there is a header. *)
LEMMA SetContentLengthKeeps ==
  ASSUME IInv, NEW len \in Lengths \cup Invalid, SetContentLength(len)
  PROVE  IInv'
<1> USE Holds
<1>1. ReqTypes' /\ ResTypes' /\ WriteTypes' /\ OutTypes'
  BY DEF SetContentLength, reqVars, resVars, writeVars, outVars, ReqTypes, Pc,
     ResTypes, Err, WriteTypes, OutTypes
<1>2. WriteCounts' /\ ChunksConserved' /\ FlushedBeforeNext' /\ InLoop'
  BY DEF SetContentLength, reqVars, resVars, writeVars, outVars, WriteCounts,
     ChunksConserved, FlushedBeforeNext, Stages, InLoop
<1>3. NoHeaderYet' /\ HeaderOfBody' /\ Stages'
  BY DEF SetContentLength, reqVars, resVars, writeVars, outVars, NoHeaderYet, Stages, HeaderOfBody
<1>4. NeverGarbled' /\ EmptyIsParsed' /\ EndIsParsed'
  BY DEF SetContentLength, reqVars, resVars, writeVars, outVars, NeverGarbled,
     EmptyIsParsed, EndIsParsed
<1>5. GetIsParsed'
  BY DEF SetContentLength, reqVars, resVars, writeVars, outVars, GetIsParsed,
     InChunks, InBytes, NoHeaderYet
<1>6. HeadIsParsed'
  BY DEF SetContentLength, reqVars, resVars, writeVars, outVars, HeadIsParsed, NoHeaderYet
<1> QED
  BY <1>1, <1>2, <1>3, <1>4, <1>5, <1>6, HoldsNext

(* A Write to the chunkWriter is over: the count is short by less than one *)
(* buffer.                                                                 *)
LEMMA ChunkDoneKeeps ==
  ASSUME IInv, ChunkDone
  PROVE  IInv'
<1> USE Holds
<1>a. call.asked \in Nat /\ call.n \in Nat /\ call.err \in WriteErr
  BY DEF WriteTypes
<1>b. /\ call' \in [asked : Nat, n : Nat, err : WriteErr]
      /\ call'.asked = call.asked /\ call'.n = call.n
  BY <1>a, Calls DEF ChunkDone, WriteReturns, WriteErr, Err
<1>c. call.n = call.asked /\ status = "body"
  BY <1>a DEF ChunkDone, InLoop, Stages
<1>1. ReqTypes' /\ ResTypes' /\ OutTypes'
  BY DEF ChunkDone, WriteReturns, reqVars, resVars, writeVars, outVars, ReqTypes,
     Pc, ResTypes, Err, OutTypes
<1>2. WriteTypes'
  BY <1>b DEF ChunkDone, WriteReturns, reqVars, resVars, writeVars, outVars, WriteTypes
<1>3. ChunksConserved' /\ FlushedBeforeNext' /\ InLoop'
  BY DEF ChunkDone, WriteReturns, reqVars, resVars, writeVars, outVars,
     ChunksConserved, FlushedBeforeNext, Stages, InLoop
<1>4. WriteCounts'
  BY <1>a, <1>b, <1>c DEF ChunkDone, WriteReturns, reqVars, resVars, writeVars, outVars, WriteCounts
<1>5. NoHeaderYet' /\ HeaderOfBody' /\ Stages'
  BY DEF ChunkDone, WriteReturns, reqVars, resVars, writeVars, outVars,
     NoHeaderYet, Stages, HeaderOfBody
<1>6. NeverGarbled' /\ HeadIsParsed' /\ EndIsParsed'
  BY DEF ChunkDone, WriteReturns, reqVars, resVars, writeVars, outVars,
     NeverGarbled, HeadIsParsed, EndIsParsed
<1>7. GetIsParsed'
  BY DEF ChunkDone, WriteReturns, reqVars, resVars, writeVars, outVars,
     GetIsParsed, InChunks, InBytes, Stages
<1>8. EmptyIsParsed'
  BY <1>c DEF ChunkDone, WriteReturns, reqVars, resVars, writeVars, outVars, EmptyIsParsed
<1> QED
  BY <1>1, <1>2, <1>3, <1>4, <1>5, <1>6, <1>7, <1>8, HoldsNext

(* A Write past the chunkWriter is over: all of the slice is counted. *)
LEMMA DirectDoneKeeps ==
  ASSUME IInv, DirectDone
  PROVE  IInv'
<1> USE Holds
<1>a. call.asked \in Nat /\ call.n \in Nat /\ call.err \in WriteErr
  BY DEF WriteTypes
<1>b. /\ call' \in [asked : Nat, n : Nat, err : WriteErr]
      /\ call'.asked = call.asked /\ call'.n = call.n
  BY <1>a, Calls DEF DirectDone, WriteReturns, WriteErr, Err
<1>c. call.n = call.asked /\ status = "body"
  BY <1>a DEF DirectDone, InLoop, Stages
<1>1. ReqTypes' /\ ResTypes' /\ OutTypes'
  BY DEF DirectDone, WriteReturns, reqVars, resVars, writeVars, outVars, ReqTypes,
     Pc, ResTypes, Err, OutTypes
<1>2. WriteTypes'
  BY <1>b DEF DirectDone, WriteReturns, reqVars, resVars, writeVars, outVars, WriteTypes
<1>3. ChunksConserved' /\ FlushedBeforeNext' /\ InLoop'
  BY DEF DirectDone, WriteReturns, reqVars, resVars, writeVars, outVars,
     ChunksConserved, FlushedBeforeNext, Stages, InLoop
<1>4. WriteCounts'
  BY <1>a, <1>b, <1>c DEF DirectDone, WriteReturns, reqVars, resVars, writeVars,
     outVars, WriteCounts
<1>5. NoHeaderYet' /\ HeaderOfBody' /\ Stages'
  BY DEF DirectDone, WriteReturns, reqVars, resVars, writeVars, outVars,
     NoHeaderYet, Stages, HeaderOfBody
<1>6. NeverGarbled' /\ HeadIsParsed' /\ EndIsParsed'
  BY DEF DirectDone, WriteReturns, reqVars, resVars, writeVars, outVars,
     NeverGarbled, HeadIsParsed, EndIsParsed
<1>7. GetIsParsed'
  BY DEF DirectDone, WriteReturns, reqVars, resVars, writeVars, outVars,
     GetIsParsed, InChunks, InBytes, Stages
<1>8. EmptyIsParsed'
  BY <1>c DEF DirectDone, WriteReturns, reqVars, resVars, writeVars, outVars, EmptyIsParsed
<1> QED
  BY <1>1, <1>2, <1>3, <1>4, <1>5, <1>6, <1>7, <1>8, HoldsNext

(* A Write fails once the bytes that were declared are out. *)
LEMMA DirectOverrunKeeps ==
  ASSUME IInv, DirectOverrun
  PROVE  IInv'
<1> USE Holds
<1>a. call.asked \in Nat /\ call.n \in Nat /\ call.err \in WriteErr
  BY DEF WriteTypes
<1>b. call' \in [asked : Nat, n : Nat, err : WriteErr] /\ call'.err = "contentLength"
  BY <1>a, Calls DEF DirectOverrun, WriteErr
<1>1. ReqTypes' /\ ResTypes' /\ OutTypes'
  BY DEF DirectOverrun, reqVars, resVars, writeVars, outVars, ReqTypes, Pc, ResTypes, Err, OutTypes
<1>2. WriteTypes'
  BY <1>b DEF DirectOverrun, reqVars, resVars, writeVars, outVars, WriteTypes
<1>3. ChunksConserved' /\ FlushedBeforeNext' /\ InLoop'
  BY DEF DirectOverrun, reqVars, resVars, writeVars, outVars, ChunksConserved,
     FlushedBeforeNext, Stages, InLoop
<1>4. WriteCounts'
  BY <1>b DEF DirectOverrun, reqVars, resVars, writeVars, outVars, WriteCounts
<1>5. NoHeaderYet' /\ HeaderOfBody' /\ Stages'
  BY DEF DirectOverrun, reqVars, resVars, writeVars, outVars, NoHeaderYet, Stages, HeaderOfBody
<1>6. NeverGarbled' /\ GetIsParsed' /\ HeadIsParsed' /\ EmptyIsParsed' /\ EndIsParsed'
  BY DEF DirectOverrun, reqVars, resVars, writeVars, outVars, NeverGarbled,
     GetIsParsed, InChunks, InBytes, HeadIsParsed, EmptyIsParsed, EndIsParsed
<1> QED
  BY <1>1, <1>2, <1>3, <1>4, <1>5, <1>6, HoldsNext

(* Nothing happens. *)
LEMMA StutterKeeps ==
  ASSUME IInv, UNCHANGED vars
  PROVE  IInv'
<1> USE Holds
<1>1. ReqTypes' /\ ResTypes' /\ WriteTypes' /\ OutTypes'
  BY DEF vars, reqVars, resVars, writeVars, outVars, ReqTypes, Pc, ResTypes, Err,
     WriteTypes, OutTypes
<1>2. WriteCounts' /\ ChunksConserved' /\ FlushedBeforeNext' /\ InLoop'
  BY DEF vars, reqVars, resVars, writeVars, outVars, WriteCounts, ChunksConserved,
     FlushedBeforeNext, Stages, InLoop
<1>3. NoHeaderYet' /\ HeaderOfBody' /\ Stages'
  BY DEF vars, reqVars, resVars, writeVars, outVars, NoHeaderYet, Stages, HeaderOfBody
<1>4. NeverGarbled' /\ GetIsParsed' /\ HeadIsParsed' /\ EmptyIsParsed' /\ EndIsParsed'
  BY DEF vars, reqVars, resVars, writeVars, outVars, NeverGarbled, GetIsParsed,
     InChunks, InBytes, HeadIsParsed, EmptyIsParsed, EndIsParsed
<1> QED
  BY <1>1, <1>2, <1>3, <1>4, HoldsNext

-----------------------------------------------------------------------------
(* What the client makes of a chunk, of the end of a body and of bytes. *)

(* The client parses a chunk. *)
LEMMA ChunkParsed ==
  ASSUME ReqTypes, NEW c \in Clients, NEW k \in Nat
  PROVE  /\ ParseChunk(c, k) \in Clients
         /\ ParseChunk(c, k).want = c.want /\ ParseChunk(c, k).answered = c.answered
         /\ c.want = "chunks" =>
              ParseChunk(c, k).body = c.body + k /\ ParseChunk(c, k).garbled = c.garbled
         /\ method = "HEAD" =>
              ("GET" \in ParseChunk(c, k).garbled => "GET" \in c.garbled)
<1>1. ParseChunk(c, k) \in Clients
  BY Parsed
<1>2. CASE c.want # "chunks"
  BY <1>1, <1>2, Fields DEF ParseChunk, Garbled, Cause
<1>3. CASE c.want = "chunks"
  BY <1>1, <1>3, Fields DEF ParseChunk
<1> QED
  BY <1>2, <1>3

(* The client parses the last chunk. *)
LEMMA EndParsed ==
  ASSUME ReqTypes, NEW c \in Clients
  PROVE  /\ ParseEnd(c) \in Clients /\ ParseEnd(c).body = c.body
         /\ IF c.want = "chunks"
            THEN /\ ParseEnd(c).want = "header" /\ ParseEnd(c).answered = c.answered + 1
                 /\ ParseEnd(c).garbled = c.garbled
            ELSE ParseEnd(c).want = c.want /\ ParseEnd(c).answered = c.answered
         /\ method = "HEAD" => ("GET" \in ParseEnd(c).garbled => "GET" \in c.garbled)
<1>1. ParseEnd(c) \in Clients
  BY Parsed
<1>2. CASE c.want # "chunks"
  BY <1>1, <1>2, Fields DEF ParseEnd, Garbled, Cause
<1>3. CASE c.want = "chunks"
  BY <1>1, <1>3, Fields DEF ParseEnd, Complete
<1> QED
  BY <1>2, <1>3

(* The client parses bytes of a body with a Content-Length. *)
LEMMA BytesParsed ==
  ASSUME ReqTypes, NEW c \in Clients, NEW k \in Nat
  PROVE  /\ ParseBytes(c, k) \in Clients
         /\ c.want = "bytes" /\ k = c.left =>
              /\ ParseBytes(c, k).want = "header" /\ ParseBytes(c, k).answered = c.answered + 1
              /\ ParseBytes(c, k).garbled = c.garbled
         /\ c.want = "bytes" /\ k < c.left =>
              /\ ParseBytes(c, k).want = "bytes" /\ ParseBytes(c, k).answered = c.answered
              /\ ParseBytes(c, k).left = c.left - k /\ ParseBytes(c, k).garbled = c.garbled
         /\ c.want = "header" =>
              ParseBytes(c, k).want = "header" /\ ParseBytes(c, k).answered = c.answered
         /\ method = "HEAD" \/ length = BigLength =>
              ("GET" \in ParseBytes(c, k).garbled => "GET" \in c.garbled)
<1>1. ParseBytes(c, k) \in Clients /\ c.left \in Nat
  BY Parsed DEF Clients
<1>2. CASE c.want # "bytes" \/ k > c.left
  BY <1>1, <1>2, Fields DEF ParseBytes, Garbled, Cause
<1>3. CASE c.want = "bytes" /\ k = c.left
  BY <1>1, <1>3, Fields DEF ParseBytes
<1>4. CASE c.want = "bytes" /\ k < c.left
  BY <1>1, <1>4, Fields DEF ParseBytes
<1> QED
  BY <1>1, <1>2, <1>3, <1>4

(* The rest of a slice that fits no buffer becomes a chunk of its own. *)
LEMMA ChunkBypassKeeps ==
  ASSUME IInv, ChunkBypass
  PROVE  IInv'
<1> USE Holds
<1>a. call.asked \in Nat /\ call.n \in Nat /\ call.err \in WriteErr
  BY DEF WriteTypes
<1>b. /\ hasBody /\ status = "body" /\ chunked /\ length = NoLength /\ pc = "chunk" /\ pc' = "handler"
      /\ left \in Nat /\ left # 0 /\ n = 0 /\ call.n + left = call.asked /\ call.n < B
      /\ given + left <= MaxBody /\ given \in Nat /\ given' \in {given, given + left}
  BY <1>a DEF ChunkBypass, Stages, HeaderOfBody, InLoop, WriteTypes, WriteReturns
<1>c. UNCHANGED <<proxy, r, method, closed, level, reqClose, spoke>>
      /\ UNCHANGED <<length, status, hasBody, chunked, remain, n, left>>
  BY DEF ChunkBypass, reqVars
<1>d. method = "GET" /\ link # "failed" => client.want = "chunks"
  BY <1>b DEF GetIsParsed, InChunks
<1>e. \/ /\ link # "failed" /\ link' = link /\ unsent' \in BOOLEAN
         /\ client' = ParseChunk(client, left)
         /\ err' = "nil" /\ call' = Call(call.asked, left, "nil") /\ given' = given + left
      \/ /\ link' = "failed" /\ UNCHANGED <<unsent, client, given>>
         /\ err' = "io" /\ call' = Call(call.asked, 0, "io")
  BY DEF ChunkBypass, Written, Failed, WriteReturns
<1>f. /\ client' \in Clients /\ client'.want = client.want /\ client'.answered = client.answered
      /\ method = "GET" => given' - given = client'.body - client.body
                           /\ client'.garbled = client.garbled
      /\ method = "HEAD" => ("GET" \in client'.garbled => "GET" \in client.garbled)
  <2>1. client \in Clients
    BY DEF OutTypes
  <2> QED
    BY <1>b, <1>d, <1>e, <2>1, ChunkParsed DEF Clients
<1>g. /\ call' \in [asked : Nat, n : Nat, err : WriteErr] /\ call'.asked = call.asked
      /\ call'.err = "nil" => call'.n = left
  <2>1. "nil" \in WriteErr /\ "io" \in WriteErr /\ 0 \in Nat
    BY DEF WriteErr, Err
  <2>2. CASE call' = Call(call.asked, left, "nil")
    BY <1>a, <1>b, <2>1, <2>2, Calls
  <2>3. CASE call' = Call(call.asked, 0, "io")
    BY <1>a, <2>1, <2>3, Calls
  <2> QED
    BY <1>e, <2>2, <2>3
<1>h. link' \in {"up", "down", "failed"} /\ unsent' \in BOOLEAN /\ err' \in {"nil", "io"}
      /\ (link = "failed" => link' = "failed")
  BY <1>e DEF OutTypes
<1>1. ReqTypes' /\ ResTypes' /\ WriteTypes' /\ OutTypes'
  BY <1>b, <1>c, <1>f, <1>g, <1>h DEF ReqTypes, Pc, ResTypes, Err, WriteTypes, OutTypes
<1>2. FlushedBeforeNext' /\ InLoop'
  BY <1>b, <1>c, <1>f, <1>g, <1>h DEF FlushedBeforeNext, Stages, InLoop
<1>3. WriteCounts'
  BY <1>a, <1>b, <1>c, <1>g DEF WriteCounts
<1>4. ChunksConserved'
  BY <1>b, <1>c, <1>f DEF ChunksConserved, OutTypes, Clients, ReqTypes
<1>5. NoHeaderYet' /\ HeaderOfBody' /\ Stages'
  BY <1>b, <1>c, <1>f, <1>g, <1>h DEF NoHeaderYet, Stages, HeaderOfBody
<1>6. GetIsParsed' /\ HeadIsParsed' /\ EmptyIsParsed' /\ EndIsParsed'
  BY <1>b, <1>c, <1>f, <1>g, <1>h DEF GetIsParsed, InChunks, InBytes,
     HeadIsParsed, EmptyIsParsed, EndIsParsed
<1>7. NeverGarbled'
  BY <1>c, <1>f DEF NeverGarbled, ReqTypes
<1> QED
  BY <1>1, <1>2, <1>3, <1>4, <1>5, <1>6, <1>7, HoldsNext

(* A slice fills the buffer, which is written as a chunk when it is full. *)
LEMMA ChunkFillKeeps ==
  ASSUME IInv, ChunkFill
  PROVE  IInv'
<1> USE Holds
<1>a. call.asked \in Nat /\ call.n \in Nat /\ call.err \in WriteErr
  BY DEF WriteTypes
<1> DEFINE m == IF left >= B - n THEN B - n ELSE left
<1>b. /\ hasBody /\ status = "body" /\ chunked /\ length = NoLength /\ pc = "chunk" /\ err # "hijacked"
      /\ left \in Nat /\ left # 0 /\ n \in 0..B /\ call.n + left = call.asked /\ call.err = "nil"
      /\ given + left <= MaxBody /\ given \in Nat /\ (call.n = 0 \/ (n = 0 /\ call.n < B))
      /\ ~(left >= B - n /\ n = 0)
  BY DEF ChunkFill, Stages, HeaderOfBody, InLoop, WriteTypes, ResTypes
<1>c. UNCHANGED <<proxy, r, method, closed, level, reqClose, spoke>>
      /\ UNCHANGED <<length, status, hasBody, chunked, remain>>
  BY DEF ChunkFill, reqVars
<1>d. method = "GET" /\ link # "failed" => client.want = "chunks"
  BY <1>b DEF GetIsParsed, InChunks
<1>e. /\ m \in Nat /\ m <= left /\ n + m <= B /\ left' = left - m /\ given' = given + m
      /\ left' \in Nat /\ (left' # 0 => m < B /\ n # 0)
  BY <1>b DEF ChunkFill
<1>f. \/ /\ left' = 0 /\ n' = n + m /\ UNCHANGED <<pc, err, unsent, link, client>>
         /\ call' = Call(call.asked, call.n + m, call.err)
      \/ /\ left' # 0 /\ link # "failed" /\ link' = link /\ unsent' \in BOOLEAN
         /\ client' = ParseChunk(client, n + m) /\ n' = 0
         /\ call' = Call(call.asked, call.n + m, call.err) /\ UNCHANGED <<pc, err>>
      \/ /\ left' # 0 /\ link' = "failed" /\ UNCHANGED <<unsent, client>> /\ n' = n + m
         /\ pc' = "handler" /\ err' = "io" /\ call' = Call(call.asked, call.n + m, "io")
  BY DEF ChunkFill, Written, Failed, WriteReturns, outVars
<1> HIDE DEF m
<1>g. /\ call' \in [asked : Nat, n : Nat, err : WriteErr] /\ call'.asked = call.asked
      /\ call'.n = call.n + m /\ (pc' = "chunk" => call'.err = "nil") /\ (pc' # "chunk" => call'.err = "io")
  <2>1. "io" \in WriteErr /\ call.n + m \in Nat
    BY <1>a, <1>e DEF WriteErr, Err
  <2> QED
    BY <1>a, <1>b, <1>f, <2>1, Calls
<1>h. /\ client' \in Clients /\ client'.want = client.want /\ client'.answered = client.answered
      /\ method = "GET" => client'.body + n' = client.body + n + m
                           /\ client'.garbled = client.garbled
      /\ method = "HEAD" => ("GET" \in client'.garbled => "GET" \in client.garbled)
  <2>1. client \in Clients /\ client.body \in Nat /\ n + m \in Nat /\ n \in Nat
    BY <1>b, <1>e DEF OutTypes, Clients
  <2>2. CASE client' = client /\ n' = n + m
    BY <1>e, <2>1, <2>2
  <2>3. CASE link # "failed" /\ client' = ParseChunk(client, n + m) /\ n' = 0
    <3> DEFINE k == n + m
    <3>1. k \in Nat /\ client' = ParseChunk(client, k)
      BY <2>1, <2>3
    <3>2. k = n + m
      OBVIOUS
    <3> HIDE DEF k
    <3>3. /\ client' \in Clients /\ client'.want = client.want /\ client'.answered = client.answered
          /\ client.want = "chunks" =>
               client'.body = client.body + k /\ client'.garbled = client.garbled
          /\ method = "HEAD" => ("GET" \in client'.garbled => "GET" \in client.garbled)
      BY <2>1, <3>1, ChunkParsed
    <3>4. client.body + k = client.body + n + m
      BY <1>e, <2>1, <3>2
    <3> QED
      BY <1>d, <1>e, <2>1, <2>3, <3>1, <3>3, <3>4
  <2> QED
    BY <1>f, <2>2, <2>3
<1>i. /\ link' \in {"up", "down", "failed"} /\ unsent' \in BOOLEAN /\ err' \in Err /\ err' # "hijacked"
      /\ (link = "failed" => link' = "failed") /\ pc' \in {"chunk", "handler"} /\ n' \in 0..B
  BY <1>b, <1>e, <1>f DEF OutTypes, ResTypes, Err
<1>j. left' # 0 => call'.n < B /\ (pc' = "chunk" => n' = 0)
  BY <1>a, <1>b, <1>e, <1>f, <1>g
<1>1. ReqTypes' /\ ResTypes' /\ OutTypes'
  BY <1>b, <1>c, <1>h, <1>i DEF ReqTypes, Pc, ResTypes, Err, OutTypes
<1>2. WriteTypes'
  BY <1>b, <1>e, <1>g DEF WriteTypes
<1>3. FlushedBeforeNext'
  BY <1>b, <1>c, <1>h, <1>i DEF FlushedBeforeNext, Stages
<1>4. WriteCounts'
  BY <1>b, <1>g, <1>i DEF WriteCounts
<1>5. ChunksConserved'
  BY <1>b, <1>c, <1>e, <1>h DEF ChunksConserved, OutTypes, Clients, ReqTypes
<1>6. InLoop'
  BY <1>a, <1>b, <1>e, <1>g, <1>i, <1>j DEF InLoop
<1>7. NoHeaderYet' /\ HeaderOfBody' /\ Stages'
  BY <1>b, <1>c, <1>h, <1>i DEF NoHeaderYet, Stages, HeaderOfBody
<1>8. GetIsParsed' /\ HeadIsParsed' /\ EmptyIsParsed' /\ EndIsParsed'
  BY <1>b, <1>c, <1>h, <1>i DEF GetIsParsed, InChunks, InBytes, HeadIsParsed,
     EmptyIsParsed, EndIsParsed
<1>9. NeverGarbled'
  BY <1>c, <1>h DEF NeverGarbled, ReqTypes
<1> QED
  BY <1>1, <1>2, <1>3, <1>4, <1>5, <1>6, <1>7, <1>8, <1>9, HoldsNext

(* Bytes are written under a Content-Length, and remain counts down with   *)
(* the client.                                                             *)
LEMMA DirectWriteKeeps ==
  ASSUME IInv, DirectWrite
  PROVE  IInv'
<1> USE Holds
<1>a. call.asked \in Nat /\ call.n \in Nat /\ call.err \in WriteErr
  BY DEF WriteTypes
<1> DEFINE m == IF left > remain THEN remain ELSE left
<1>b. /\ hasBody /\ status = "body" /\ ~chunked /\ length # NoLength /\ pc = "direct" /\ err # "hijacked"
      /\ left \in Nat /\ left # 0 /\ remain \in Nat /\ remain # 0 /\ call.err = "nil"
      /\ left = call.asked /\ n = 0
  BY DEF DirectWrite, Stages, HeaderOfBody, InLoop, WriteTypes, ResTypes
<1>c. UNCHANGED <<proxy, r, method, closed, level, reqClose, spoke, given>>
      /\ UNCHANGED <<length, status, hasBody, chunked, n>>
  BY DEF DirectWrite, reqVars
<1>d. method = "GET" /\ link # "failed" /\ length # BigLength =>
        client.want = "bytes" /\ client.left = remain /\ client.answered = 0
  BY <1>b DEF GetIsParsed, InBytes
<1>e. /\ m \in Nat /\ m <= left /\ m <= remain /\ m # 0 /\ (m = left \/ m = remain)
  BY <1>b
<1>f. \/ /\ link # "failed" /\ link' = link /\ unsent' \in BOOLEAN
         /\ client' = ParseBytes(client, m) /\ call' = Call(call.asked, m, call.err)
         /\ left' = left - m /\ remain' = remain - m /\ UNCHANGED <<pc, err>>
      \/ /\ link' = "failed" /\ UNCHANGED <<unsent, client, left, remain>>
         /\ pc' = "handler" /\ err' = "io" /\ call' = Call(call.asked, 0, "io")
  BY DEF DirectWrite, Written, Failed, WriteReturns
<1> HIDE DEF m
<1>g. /\ call' \in [asked : Nat, n : Nat, err : WriteErr] /\ call'.asked = call.asked
      /\ (pc' = "direct" => call'.err = "nil" /\ call'.n = m) /\ (pc' # "direct" => call'.err = "io")
  <2>1. "io" \in WriteErr /\ 0 \in Nat
    BY DEF WriteErr, Err
  <2> QED
    BY <1>a, <1>b, <1>e, <1>f, <2>1, Calls
<1>h. /\ client' \in Clients
      /\ client.want = "header" => client'.want = "header" /\ client'.answered = client.answered
      /\ method = "GET" /\ length # BigLength =>
           /\ client'.garbled = client.garbled
           /\ \/ link' = "failed"
              \/ remain' = 0 /\ client'.want = "header" /\ client'.answered = 1
              \/ /\ remain' # 0 /\ client'.want = "bytes" /\ client'.left = remain'
                 /\ client'.answered = 0
      /\ method = "HEAD" \/ length = BigLength =>
           ("GET" \in client'.garbled => "GET" \in client.garbled)
  <2>1. client \in Clients
    BY DEF OutTypes
  <2>2. CASE client' = client /\ link' = "failed"
    BY <2>1, <2>2
  <2>3. CASE link # "failed" /\ client' = ParseBytes(client, m) /\ remain' = remain - m
    <3>1. remain' = 0 <=> m = remain
      BY <1>b, <1>e, <2>3
    <3>4. /\ client' \in Clients
          /\ client.want = "bytes" /\ m = client.left =>
               /\ client'.want = "header" /\ client'.answered = client.answered + 1
               /\ client'.garbled = client.garbled
          /\ client.want = "bytes" /\ m < client.left =>
               /\ client'.want = "bytes" /\ client'.answered = client.answered
               /\ client'.left = client.left - m /\ client'.garbled = client.garbled
          /\ client.want = "header" =>
               client'.want = "header" /\ client'.answered = client.answered
          /\ method = "HEAD" \/ length = BigLength =>
               ("GET" \in client'.garbled => "GET" \in client.garbled)
      BY <1>e, <2>1, <2>3, BytesParsed
    <3>2. CASE m = remain
      BY <1>d, <2>3, <3>1, <3>2, <3>4
    <3>3. CASE m < remain
      BY <1>d, <2>3, <3>1, <3>3, <3>4
    <3> QED
      BY <1>b, <1>e, <3>2, <3>3
  <2> QED
    BY <1>f, <2>2, <2>3
<1>i. /\ link' \in {"up", "down", "failed"} /\ unsent' \in BOOLEAN /\ err' \in Err /\ err' # "hijacked"
      /\ (link = "failed" => link' = "failed") /\ pc' \in {"direct", "handler"}
      /\ remain' \in 0..MaxUint64 /\ left' \in Nat
  BY <1>b, <1>e, <1>f DEF OutTypes, ResTypes, Err
<1>j. pc' = "direct" => IF left' = 0 THEN m = left ELSE remain' = 0
  BY <1>b, <1>e, <1>f
<1>1. ReqTypes' /\ ResTypes' /\ OutTypes'
  BY <1>b, <1>c, <1>h, <1>i DEF ReqTypes, Pc, ResTypes, Err, OutTypes
<1>2. WriteTypes'
  BY <1>c, <1>g, <1>i DEF WriteTypes
<1>3. FlushedBeforeNext'
  BY <1>b, <1>c, <1>h, <1>i DEF FlushedBeforeNext, Stages
<1>4. WriteCounts'
  BY <1>b, <1>g, <1>i DEF WriteCounts
<1>5. ChunksConserved'
  BY <1>b, <1>c DEF ChunksConserved
<1>6. InLoop'
  BY <1>b, <1>g, <1>i, <1>j DEF InLoop
<1>7. NoHeaderYet' /\ HeaderOfBody' /\ Stages'
  BY <1>b, <1>c, <1>h, <1>i DEF NoHeaderYet, Stages, HeaderOfBody
<1>8. GetIsParsed' /\ HeadIsParsed' /\ EmptyIsParsed' /\ EndIsParsed'
  BY <1>b, <1>c, <1>h, <1>i DEF GetIsParsed, InChunks, InBytes, HeadIsParsed,
     EmptyIsParsed, EndIsParsed
<1>9. NeverGarbled'
  BY <1>c, <1>h DEF NeverGarbled, ReqTypes
<1> QED
  BY <1>1, <1>2, <1>3, <1>4, <1>5, <1>6, <1>7, <1>8, <1>9, HoldsNext

(* Hijack takes the connection, with or without a header sent before. *)
LEMMA CallHijackKeeps ==
  ASSUME IInv, CallHijack
  PROVE  IInv'
<1> USE Holds
<1>a. /\ pc = "handler" /\ err = "nil"
      /\ UNCHANGED <<pc, proxy, r, method, closed, level, reqClose, spoke>>
      /\ UNCHANGED <<length, hasBody, chunked, remain, left, call, given>>
  BY DEF CallHijack, reqVars, writeVars
<1>b. /\ method = "GET" /\ chunked /\ link # "failed" => client.want = "chunks"
      /\ n \in 0..B /\ client \in Clients /\ client.body \in Nat /\ (~chunked => n = 0)
  BY <1>a DEF GetIsParsed, InChunks, HeaderOfBody, ResTypes, OutTypes, Clients
<1>c. \/ /\ n' = (IF chunked THEN 0 ELSE n) /\ status' = "info" /\ err' = "hijacked"
         /\ \/ UNCHANGED <<unsent, link, client>> /\ n' = n
            \/ /\ chunked /\ link # "failed" /\ link' = link /\ unsent' \in BOOLEAN
               /\ client' = ParseChunk(client, n)
      \/ /\ link' = "failed" /\ err' = "io" /\ UNCHANGED <<unsent, client, n, status>> /\ chunked
  BY <1>b DEF CallHijack, ChunkWritten, Written, Failed, outVars
<1>d. /\ client' \in Clients /\ client'.want = client.want /\ client'.answered = client.answered
      /\ method = "GET" /\ chunked => client'.body + n' = client.body + n
      /\ method = "GET" => client'.garbled = client.garbled
      /\ method = "HEAD" => ("GET" \in client'.garbled => "GET" \in client.garbled)
      /\ ~chunked => UNCHANGED <<client, unsent, link>>
  <2>1. CASE UNCHANGED <<client, n>> /\ (chunked \/ UNCHANGED <<unsent, link>>)
    BY <1>b, <2>1
  <2>2. CASE chunked /\ link # "failed" /\ client' = ParseChunk(client, n) /\ n' = 0
    <3>1. n \in Nat
      BY <1>b
    <3>2. /\ client' \in Clients /\ client'.want = client.want /\ client'.answered = client.answered
          /\ client.want = "chunks" =>
               client'.body = client.body + n /\ client'.garbled = client.garbled
          /\ method = "HEAD" => ("GET" \in client'.garbled => "GET" \in client.garbled)
      BY <1>b, <2>2, <3>1, ChunkParsed
    <3> QED
      BY <1>b, <2>2, <3>1, <3>2
  <2> QED
    BY <1>c, <2>1, <2>2
<1>e. /\ link' \in {"up", "down", "failed"} /\ unsent' \in BOOLEAN /\ err' \in {"io", "hijacked"}
      /\ n' \in 0..B /\ status' = IF err' = "hijacked" THEN "info" ELSE status
      /\ (~chunked => n' = 0 /\ status' = "info") /\ (link = "failed" => link' = "failed")
  BY <1>b, <1>c DEF OutTypes
<1>1. ReqTypes' /\ OutTypes'
  BY <1>a, <1>d, <1>e DEF ReqTypes, Pc, OutTypes
<1>2. ResTypes'
  BY <1>a, <1>d, <1>e DEF ResTypes, Err, Status
<1>3. WriteTypes'
  BY <1>a DEF WriteTypes
<1>4. WriteCounts' /\ FlushedBeforeNext'
  BY <1>a, <1>d, <1>e DEF WriteCounts, FlushedBeforeNext, Stages
<1>5. ChunksConserved'
  BY <1>a, <1>b, <1>d DEF ChunksConserved
<1>6. InLoop'
  BY <1>a DEF InLoop
<1>7. HeaderOfBody' /\ Stages'
  BY <1>a, <1>d, <1>e DEF HeaderOfBody, Stages, NoHeaderYet
<1>8. NoHeaderYet'
  BY <1>a, <1>d, <1>e DEF NoHeaderYet, Stages, HeaderOfBody
<1>9. GetIsParsed' /\ HeadIsParsed' /\ EmptyIsParsed' /\ EndIsParsed'
  BY <1>a, <1>d, <1>e DEF GetIsParsed, InChunks, InBytes, HeadIsParsed, EmptyIsParsed, EndIsParsed
<1>10. NeverGarbled'
  BY <1>a, <1>d DEF NeverGarbled, ReqTypes
<1> QED
  BY <1>1, <1>2, <1>3, <1>4, <1>5, <1>6, <1>7, <1>8, <1>9, <1>10, HoldsNext

(* The deferred close ends a chunked body with its last chunk. *)
LEMMA CloseKeeps ==
  ASSUME IInv, Close
  PROVE  IInv'
<1> USE Holds
<1>a. /\ pc = "close" /\ pc' = "flush"
      /\ UNCHANGED <<proxy, r, method, closed, level, reqClose, spoke>>
      /\ UNCHANGED <<length, status, hasBody, chunked, remain, left, call, given>>
  BY DEF Close, reqVars, writeVars
<1>b. /\ n \in 0..B /\ n \in Nat /\ client \in Clients /\ client.body \in Nat
      /\ chunked => hasBody /\ length = NoLength
  BY DEF HeaderOfBody, ResTypes, OutTypes, Clients
<1>c. \/ /\ chunked /\ err = "nil" /\ link # "failed" /\ link' = link /\ unsent' \in BOOLEAN
         /\ client' = ParseEnd(IF n = 0 THEN client ELSE ParseChunk(client, n))
         /\ n' = 0 /\ err' = err
      \/ chunked /\ err = "nil" /\ link' = "failed" /\ err' = "io" /\ UNCHANGED <<unsent, client, n>>
      \/ (~chunked \/ err # "nil") /\ UNCHANGED <<unsent, link, client, n, err>>
  BY DEF Close, Written, Failed, outVars
<1>d. CASE /\ chunked /\ err = "nil" /\ link # "failed" /\ link' = link /\ unsent' \in BOOLEAN
           /\ client' = ParseEnd(IF n = 0 THEN client ELSE ParseChunk(client, n))
           /\ n' = 0 /\ err' = err
  <2> DEFINE c == IF n = 0 THEN client ELSE ParseChunk(client, n)
  <2>1. /\ c \in Clients /\ c.want = client.want /\ c.answered = client.answered
        /\ client.want = "chunks" => c.body = client.body + n /\ c.garbled = client.garbled
        /\ n = 0 => c = client
        /\ method = "HEAD" => ("GET" \in c.garbled => "GET" \in client.garbled)
    BY <1>b, ChunkParsed
  <2>2. client' = ParseEnd(c)
    BY <1>d
  <2> HIDE DEF c
  <2>3. /\ client' \in Clients /\ client'.body = c.body
        /\ IF c.want = "chunks"
           THEN /\ client'.want = "header" /\ client'.answered = c.answered + 1
                /\ client'.garbled = c.garbled
           ELSE client'.want = c.want /\ client'.answered = c.answered
        /\ method = "HEAD" => ("GET" \in client'.garbled => "GET" \in c.garbled)
    BY <2>1, <2>2, EndParsed
  <2>4. method = "GET" => \/ client.answered = 0 /\ client.want = "chunks"
                          \/ client.answered = 1 /\ client.want = "header" /\ n = 0 /\ proxy
    BY <1>a, <1>b, <1>d DEF GetIsParsed, InChunks
  <2>5. method = "HEAD" => client.want = "header" /\ client.answered = 1
    BY <1>b, <1>d DEF HeadIsParsed, Invalid, NoLength, BadLength, BigLength
  <2>6. /\ client'.want = "header" /\ client'.answered = 1
        /\ method = "GET" => client'.body = client.body + n
        /\ method = "GET" /\ ~proxy => client'.garbled = client.garbled
        /\ method = "HEAD" => ("GET" \in client'.garbled => "GET" \in client.garbled)
    BY <1>b, <2>1, <2>3, <2>4, <2>5 DEF ReqTypes
  <2>7. ReqTypes' /\ ResTypes' /\ WriteTypes' /\ OutTypes'
    BY <1>a, <1>b, <1>d, <2>3, <2>6 DEF ReqTypes, Pc, ResTypes, Err, WriteTypes, OutTypes
  <2>8. WriteCounts' /\ FlushedBeforeNext' /\ InLoop'
    BY <1>a, <1>b, <1>d, <2>3, <2>6 DEF WriteCounts, FlushedBeforeNext, Stages, InLoop
  <2>9. ChunksConserved'
    BY <1>a, <1>b, <1>d, <2>6 DEF ChunksConserved
  <2>10. NoHeaderYet' /\ HeaderOfBody' /\ Stages'
    BY <1>a, <1>b, <1>d, <2>3, <2>6 DEF NoHeaderYet, Stages, HeaderOfBody
  <2>11. HeadIsParsed' /\ EmptyIsParsed' /\ EndIsParsed'
    BY <1>a, <1>b, <1>d, <2>3, <2>6 DEF HeadIsParsed, EmptyIsParsed, EndIsParsed
  <2>12. NeverGarbled'
    BY <1>a, <2>6 DEF NeverGarbled, ReqTypes
  <2>13. GetIsParsed'
    BY <1>a, <1>b, <1>d, <2>4, <2>6 DEF GetIsParsed, InChunks, InBytes, Stages
  <2> QED
    BY <2>7, <2>8, <2>9, <2>10, <2>11, <2>12, <2>13, HoldsNext
<1>e. CASE chunked /\ err = "nil" /\ link' = "failed" /\ err' = "io" /\ UNCHANGED <<unsent, client, n>>
  <2>1. ReqTypes' /\ ResTypes' /\ WriteTypes' /\ OutTypes'
    BY <1>a, <1>b, <1>e DEF ReqTypes, Pc, ResTypes, Err, WriteTypes, OutTypes
  <2>2. WriteCounts' /\ ChunksConserved' /\ FlushedBeforeNext' /\ InLoop'
    BY <1>a, <1>b, <1>e DEF WriteCounts, ChunksConserved, FlushedBeforeNext, Stages, InLoop
  <2>3. NoHeaderYet' /\ HeaderOfBody' /\ Stages'
    BY <1>a, <1>b, <1>e DEF NoHeaderYet, Stages, HeaderOfBody
  <2>4. NeverGarbled' /\ HeadIsParsed' /\ EmptyIsParsed' /\ EndIsParsed'
    BY <1>a, <1>b, <1>e DEF NeverGarbled, HeadIsParsed, EmptyIsParsed, EndIsParsed
  <2>5. GetIsParsed'
    BY <1>a, <1>b, <1>e DEF GetIsParsed, InChunks, InBytes, Stages
  <2> QED
    BY <2>1, <2>2, <2>3, <2>4, <2>5, HoldsNext
<1>f. CASE (~chunked \/ err # "nil") /\ UNCHANGED <<unsent, link, client, n, err>>
  <2>1. ReqTypes' /\ ResTypes' /\ WriteTypes' /\ OutTypes'
    BY <1>a, <1>b, <1>f DEF ReqTypes, Pc, ResTypes, Err, WriteTypes, OutTypes
  <2>2. WriteCounts' /\ ChunksConserved' /\ FlushedBeforeNext' /\ InLoop'
    BY <1>a, <1>b, <1>f DEF WriteCounts, ChunksConserved, FlushedBeforeNext, Stages, InLoop
  <2>3. NoHeaderYet' /\ HeaderOfBody' /\ Stages'
    BY <1>a, <1>b, <1>f DEF NoHeaderYet, Stages, HeaderOfBody
  <2>4. NeverGarbled' /\ HeadIsParsed' /\ EmptyIsParsed' /\ EndIsParsed'
    BY <1>a, <1>b, <1>f DEF NeverGarbled, HeadIsParsed, EmptyIsParsed, EndIsParsed
  <2>5. GetIsParsed'
    BY <1>a, <1>b, <1>f DEF GetIsParsed, InChunks, InBytes, Stages
  <2> QED
    BY <2>1, <2>2, <2>3, <2>4, <2>5, HoldsNext
<1> QED
  BY <1>c, <1>d, <1>e, <1>f

-----------------------------------------------------------------------------
(* The steps that may write the header. *)

(* A header sent by whatever call keeps the invariant, up to what the call *)
(* does next.                                                              *)
LEMMA AfterHeader ==
  ASSUME IInv, status = "unset", pc \notin {"next", "over"}, NEW st \in Status \ {"unset"},
         SendHeader(st), UNCHANGED <<proxy, r, method, given>>
  PROVE  /\ ResTypes' /\ OutTypes' /\ ChunksConserved' /\ NoHeaderYet' /\ HeaderOfBody'
         /\ GetIsParsed' /\ HeadIsParsed' /\ EmptyIsParsed' /\ NeverGarbled'
         /\ err' # "hijacked" /\ (err' = "nil" => link' # "failed") /\ status' = st
         /\ (hasBody' <=> st = "body") /\ ~chunked /\ ~reqClose /\ ~spoke
<1> USE Holds
<1>1. HeaderIsOut(st)
  BY HeaderSent DEF OneHeader
<1>2. r = 1 /\ given = 0 /\ ~hasBody /\ ~reqClose /\ ~spoke /\ ~chunked
  BY DEF NoHeaderYet, HeaderOfBody, ReqTypes
<1>3. ResTypes' /\ OutTypes'
  BY <1>1 DEF HeaderIsOut
<1>4. ChunksConserved'
  BY <1>1, <1>2 DEF HeaderIsOut, ChunksConserved
<1>5. NoHeaderYet'
  BY <1>1, <1>2 DEF HeaderIsOut, NoHeaderYet
<1>6. HeaderOfBody'
  BY <1>1, <1>2 DEF HeaderIsOut, HeaderOfBody
<1>7. GetIsParsed'
  BY <1>1 DEF HeaderIsOut, GetIsParsed, InChunks
<1>8. HeadIsParsed'
  BY <1>1 DEF HeaderIsOut, HeadIsParsed
<1>9. EmptyIsParsed'
  BY <1>1 DEF HeaderIsOut, EmptyIsParsed
<1>10. NeverGarbled'
  BY <1>1 DEF HeaderIsOut, NeverGarbled
<1> QED
  BY <1>1, <1>2, <1>3, <1>4, <1>5, <1>6, <1>7, <1>8, <1>9, <1>10 DEF HeaderIsOut

(* The chunk in the buffer and what the bufio.Writer holds are sent. *)
LEMMA Flushed ==
  ASSUME IInv, status # "unset", err = "nil", FlushBuffers
  PROVE  /\ client' \in Clients /\ client'.want = client.want /\ client'.answered = client.answered
         /\ method = "GET" /\ chunked => client'.body + n' = client.body + n
         /\ method = "GET" => client'.garbled = client.garbled
         /\ ~chunked => client' = client
         /\ method = "HEAD" => ("GET" \in client'.garbled => "GET" \in client.garbled)
         /\ n' \in 0..B /\ (n = 0 => n' = 0) /\ err' \in {"nil", "io"}
         /\ link' \in {"up", "down", "failed"} /\ unsent' \in BOOLEAN
         /\ (err' = "nil" => ~unsent' /\ link' # "failed") /\ (link = "failed" => link' = "failed")
<1> USE Holds
<1>1. /\ n \in 0..B /\ n \in Nat /\ client \in Clients /\ client.body \in Nat
      /\ (~chunked => n = 0) /\ (chunked => hasBody)
      /\ unsent \in BOOLEAN /\ link \in {"up", "down", "failed"}
  BY DEF ResTypes, OutTypes, Clients, HeaderOfBody
<1>2. method = "GET" /\ chunked /\ n # 0 /\ link = "up" => client.want = "chunks"
  BY <1>1 DEF GetIsParsed, InChunks
<1>3. \/ /\ link = "up" /\ link' = "up" /\ unsent' = FALSE /\ err' = "nil"
         /\ client' = (IF chunked /\ n # 0 THEN ParseChunk(client, n) ELSE client)
         /\ n' = IF chunked THEN 0 ELSE n
      \/ link' = "failed" /\ err' = "io" /\ UNCHANGED <<unsent, client, n>>
  BY DEF FlushBuffers, Sent, Failed
<1>4. CASE link' = "failed" /\ err' = "io" /\ UNCHANGED <<unsent, client, n>>
  BY <1>1, <1>4
<1>5. CASE /\ link = "up" /\ link' = "up" /\ unsent' = FALSE /\ err' = "nil"
           /\ client' = (IF chunked /\ n # 0 THEN ParseChunk(client, n) ELSE client)
           /\ n' = IF chunked THEN 0 ELSE n
  <2>1. CASE chunked /\ n # 0
    <3>1. /\ client' \in Clients /\ client'.want = client.want /\ client'.answered = client.answered
          /\ client.want = "chunks" =>
               client'.body = client.body + n /\ client'.garbled = client.garbled
          /\ method = "HEAD" => ("GET" \in client'.garbled => "GET" \in client.garbled)
      BY <1>1, <1>5, <2>1, ChunkParsed
    <3>2. n' = 0
      BY <1>5, <2>1
    <3>3. n' \in 0..B
      BY <3>2
    <3>4. link = "up" /\ link' = "up" /\ unsent' = FALSE /\ err' = "nil"
      BY <1>5
    <3>5. method = "GET" => client'.body = client.body + n /\ client'.garbled = client.garbled
      BY <1>2, <2>1, <3>1, <3>4
    <3>6. method = "GET" => client'.body + n' = client.body + n
      BY <1>1, <3>2, <3>5
    <3> QED
      BY <2>1, <3>1, <3>2, <3>3, <3>4, <3>5, <3>6
  <2>2. CASE ~(chunked /\ n # 0)
    <3>1. n = 0 /\ n' = 0 /\ client' = client
      BY <1>1, <1>5, <2>2
    <3> QED
      BY <1>1, <1>5, <3>1
  <2> QED
    BY <2>1, <2>2
<1> QED
  BY <1>3, <1>4, <1>5

(* WriteHeader sends a header if there is none, and is ignored otherwise. *)
LEMMA CallWriteHeaderKeeps ==
  ASSUME IInv, NEW st \in Status \ {"unset"}, CallWriteHeader(st)
  PROVE  IInv'
<1> USE Holds
<1>a. /\ pc = "handler" /\ pc' = "handler" /\ spoke' = TRUE /\ WriteHeader(st)
      /\ UNCHANGED <<proxy, r, method, closed, level, reqClose, left, call, given>>
  BY DEF CallWriteHeader, writeVars
<1>b. status = "unset" => SendHeader(st)
  BY <1>a DEF WriteHeader
<1>c. CASE status = "unset"
  <2>a. /\ ResTypes' /\ OutTypes' /\ ChunksConserved' /\ NoHeaderYet' /\ HeaderOfBody'
        /\ GetIsParsed' /\ HeadIsParsed' /\ EmptyIsParsed' /\ NeverGarbled'
        /\ err' # "hijacked" /\ (err' = "nil" => link' # "failed") /\ status' = st
        /\ (hasBody' <=> st = "body") /\ ~chunked /\ ~reqClose /\ ~spoke
    BY <1>c, <1>a, <1>b, AfterHeader DEF Status
  <2>1. ReqTypes'
    BY <1>a, <1>b, <2>a DEF ReqTypes, Pc
  <2>2. WriteTypes'
    BY <1>a, <1>b, <2>a DEF WriteTypes
  <2>3. WriteCounts'
    BY <1>a, <1>b, <2>a DEF WriteCounts
  <2>4. FlushedBeforeNext'
    BY <1>a, <1>b, <2>a DEF FlushedBeforeNext, Stages
  <2>5. InLoop'
    BY <1>a, <1>b, <2>a DEF InLoop
  <2>6. Stages'
    BY <1>a, <1>b, <2>a DEF Stages, NoHeaderYet, HeaderOfBody
  <2>7. EndIsParsed'
    BY <1>a, <1>b, <2>a DEF EndIsParsed
  <2> QED
    BY <2>a, <2>1, <2>2, <2>3, <2>4, <2>5, <2>6, <2>7, HoldsNext
<1>d. CASE status # "unset"
  <2>a. UNCHANGED <<length, status, hasBody, chunked, remain, err, n, unsent, link, client>>
    BY <1>a, <1>d DEF WriteHeader, resVars, outVars
  <2>1. ReqTypes' /\ ResTypes' /\ WriteTypes' /\ OutTypes'
    BY <1>a, <1>d, <2>a DEF ReqTypes, Pc, ResTypes, Err, WriteTypes, OutTypes
  <2>2. WriteCounts' /\ ChunksConserved' /\ FlushedBeforeNext' /\ InLoop'
    BY <1>a, <1>d, <2>a DEF WriteCounts, ChunksConserved, FlushedBeforeNext, Stages, InLoop
  <2>3. NoHeaderYet' /\ HeaderOfBody' /\ Stages'
    BY <1>a, <1>d, <2>a DEF NoHeaderYet, Stages, HeaderOfBody
  <2>4. NeverGarbled' /\ HeadIsParsed' /\ EmptyIsParsed' /\ EndIsParsed'
    BY <1>a, <1>d, <2>a DEF NeverGarbled, HeadIsParsed, EmptyIsParsed, EndIsParsed
  <2>5. GetIsParsed'
    BY <1>a, <2>a DEF GetIsParsed, InChunks, InBytes
  <2> QED
    BY <2>1, <2>2, <2>3, <2>4, <2>5, HoldsNext
<1> QED
  BY <1>c, <1>d

(* Write sends a header if there is none, and then enters one of its loops *)
(* or fails.                                                               *)
LEMMA CallWriteKeeps ==
  ASSUME IInv, NEW k \in Sizes, CallWrite(k)
  PROVE  IInv'
<1> USE Holds
<1>a. /\ pc = "handler" /\ spoke' = TRUE /\ WriteHeader("body") /\ err = "nil" /\ left' = k
      /\ UNCHANGED <<proxy, r, method, closed, level, reqClose, given>>
      /\ k \in Nat /\ given + k <= MaxBody
      /\ pc' = IF ~hasBody' THEN "handler" ELSE IF chunked' THEN "chunk" ELSE "direct"
  BY DEF CallWrite
<1>b. status = "unset" => SendHeader("body")
  BY <1>a DEF WriteHeader
<1>c. /\ call' \in [asked : Nat, n : Nat, err : WriteErr] /\ call'.asked = k /\ call'.n = 0
      /\ call'.err = IF hasBody' THEN "nil" ELSE "bodyNotAllowed"
  <2>1. "nil" \in WriteErr /\ "bodyNotAllowed" \in WriteErr
    BY DEF WriteErr, Err
  <2>2. call' = Call(k, 0, IF hasBody' THEN "nil" ELSE "bodyNotAllowed")
    BY DEF CallWrite
  <2> QED
    BY <1>a, <2>1, <2>2, Calls
<1>d. CASE status = "unset"
  <2>a. /\ ResTypes' /\ OutTypes' /\ ChunksConserved' /\ NoHeaderYet' /\ HeaderOfBody'
        /\ GetIsParsed' /\ HeadIsParsed' /\ EmptyIsParsed' /\ NeverGarbled'
        /\ err' # "hijacked" /\ (err' = "nil" => link' # "failed") /\ status' = "body"
        /\ (hasBody' <=> "body" = "body") /\ ~chunked /\ ~reqClose /\ ~spoke
    BY <1>d, <1>a, <1>b, AfterHeader DEF Status
  <2>1. ReqTypes'
    BY <1>a, <1>b, <2>a DEF ReqTypes, Pc
  <2>2. WriteTypes'
    BY <1>a, <1>c DEF WriteTypes
  <2>3. WriteCounts'
    BY <1>a, <1>c DEF WriteCounts
  <2>4. FlushedBeforeNext'
    BY <1>a, <1>b, <2>a DEF FlushedBeforeNext, Stages
  <2>5. InLoop'
    BY <1>a, <1>c DEF InLoop
  <2>6. Stages'
    BY <1>a, <1>b, <2>a DEF Stages, NoHeaderYet, HeaderOfBody
  <2>7. EndIsParsed'
    BY <1>a, <1>b, <2>a DEF EndIsParsed
  <2> QED
    BY <2>a, <2>1, <2>2, <2>3, <2>4, <2>5, <2>6, <2>7, HoldsNext
<1>e. CASE status # "unset"
  <2>a. UNCHANGED <<length, status, hasBody, chunked, remain, err, n, unsent, link, client>>
    BY <1>a, <1>e DEF WriteHeader, resVars, outVars
  <2>1. ReqTypes' /\ ResTypes' /\ OutTypes'
    BY <1>a, <1>e, <2>a DEF ReqTypes, Pc, ResTypes, Err, OutTypes
  <2>2. WriteTypes'
    BY <1>a, <1>c DEF WriteTypes
  <2>3. ChunksConserved' /\ FlushedBeforeNext'
    BY <1>a, <1>e, <2>a DEF ChunksConserved, FlushedBeforeNext, Stages
  <2>4. WriteCounts'
    BY <1>a, <1>c DEF WriteCounts
  <2>5. InLoop'
    BY <1>a, <1>c DEF InLoop
  <2>6. NoHeaderYet' /\ HeaderOfBody'
    BY <1>a, <1>e, <2>a DEF NoHeaderYet, Stages, HeaderOfBody
  <2>7. Stages'
    BY <1>a, <1>e, <2>a DEF Stages, NoHeaderYet, HeaderOfBody, HeaderOfBody
  <2>8. NeverGarbled' /\ GetIsParsed' /\ HeadIsParsed' /\ EmptyIsParsed' /\ EndIsParsed'
    BY <1>a, <1>e, <2>a DEF NeverGarbled, GetIsParsed, InChunks, InBytes,
       HeadIsParsed, EmptyIsParsed, EndIsParsed
  <2> QED
    BY <2>1, <2>2, <2>3, <2>4, <2>5, <2>6, <2>7, <2>8, HoldsNext
<1> QED
  BY <1>d, <1>e

(* Flush sends a header if there is none, the buffered chunk, and what     *)
(* bufio holds.                                                            *)
LEMMA CallFlushKeeps ==
  ASSUME IInv, CallFlush
  PROVE  IInv'
<1> USE Holds
<1>a. /\ pc = "handler" /\ pc' = "handler" /\ spoke' = TRUE /\ err = "nil"
      /\ UNCHANGED <<proxy, r, method, closed, level, reqClose, left, call, given>>
  BY DEF CallFlush, writeVars
<1>b. status = "unset" => SendHeader("body")
  BY DEF CallFlush
<1>c. CASE status = "unset"
  <2>a. /\ ResTypes' /\ OutTypes' /\ ChunksConserved' /\ NoHeaderYet' /\ HeaderOfBody'
        /\ GetIsParsed' /\ HeadIsParsed' /\ EmptyIsParsed' /\ NeverGarbled'
        /\ err' # "hijacked" /\ (err' = "nil" => link' # "failed") /\ status' = "body"
        /\ (hasBody' <=> "body" = "body") /\ ~chunked /\ ~reqClose /\ ~spoke
    BY <1>c, <1>a, <1>b, AfterHeader DEF Status
  <2>1. ReqTypes'
    BY <1>a, <1>b, <2>a DEF ReqTypes, Pc
  <2>2. WriteTypes'
    BY <1>a, <1>b, <2>a DEF WriteTypes
  <2>3. WriteCounts'
    BY <1>a, <1>b, <2>a DEF WriteCounts
  <2>4. FlushedBeforeNext'
    BY <1>a, <1>b, <2>a DEF FlushedBeforeNext, Stages
  <2>5. InLoop'
    BY <1>a, <1>b, <2>a DEF InLoop
  <2>6. Stages'
    BY <1>a, <1>b, <2>a DEF Stages, NoHeaderYet, HeaderOfBody
  <2>7. EndIsParsed'
    BY <1>a, <1>b, <2>a DEF EndIsParsed
  <2> QED
    BY <2>a, <2>1, <2>2, <2>3, <2>4, <2>5, <2>6, <2>7, HoldsNext
<1>d. CASE status # "unset"
  <2>a. UNCHANGED <<length, status, hasBody, chunked, remain>> /\ FlushBuffers
    BY <1>d DEF CallFlush
  <2>b. /\ client' \in Clients /\ client'.want = client.want /\ client'.answered = client.answered
        /\ method = "GET" /\ chunked => client'.body + n' = client.body + n
        /\ method = "GET" => client'.garbled = client.garbled
        /\ ~chunked => client' = client
        /\ method = "HEAD" => ("GET" \in client'.garbled => "GET" \in client.garbled)
        /\ n' \in 0..B /\ (n = 0 => n' = 0) /\ err' \in {"nil", "io"}
        /\ link' \in {"up", "down", "failed"} /\ unsent' \in BOOLEAN
        /\ (err' = "nil" => ~unsent' /\ link' # "failed") /\ (link = "failed" => link' = "failed")
    BY <1>a, <1>d, <2>a, Flushed
  <2>1. ReqTypes' /\ ResTypes' /\ OutTypes'
    BY <1>a, <1>d, <2>a, <2>b DEF ReqTypes, Pc, ResTypes, Err, OutTypes
  <2>2. WriteTypes'
    BY <1>a DEF WriteTypes
  <2>3. FlushedBeforeNext'
    BY <1>a, <1>d, <2>a, <2>b DEF FlushedBeforeNext, Stages
  <2>4. WriteCounts'
    BY <1>a, <2>a DEF WriteCounts
  <2>5. ChunksConserved'
    BY <1>a, <2>a, <2>b DEF ChunksConserved
  <2>6. InLoop'
    BY <1>a DEF InLoop
  <2>7. NoHeaderYet' /\ HeaderOfBody' /\ Stages'
    BY <1>a, <1>d, <2>a, <2>b DEF NoHeaderYet, Stages, HeaderOfBody
  <2>8. GetIsParsed' /\ HeadIsParsed' /\ EmptyIsParsed' /\ EndIsParsed'
    BY <1>a, <1>d, <2>a, <2>b DEF GetIsParsed, InChunks, InBytes, HeadIsParsed,
       EmptyIsParsed, EndIsParsed
  <2>9. NeverGarbled'
    BY <1>a, <2>b DEF NeverGarbled, ReqTypes
  <2> QED
    BY <2>1, <2>2, <2>3, <2>4, <2>5, <2>6, <2>7, <2>8, <2>9, HoldsNext
<1> QED
  BY <1>c, <1>d

(* A panic after a header is remembered in reqClose, before one it is      *)
(* answered with a 500.                                                    *)
LEMMA PanicKeeps ==
  ASSUME IInv, Panic
  PROVE  IInv'
<1> USE Holds
<1>a. /\ pc = "handler" /\ pc' = (IF status = "unset" THEN "close" ELSE "after")
      /\ reqClose' = (IF status = "unset" THEN reqClose ELSE TRUE)
      /\ UNCHANGED <<proxy, r, method, closed, level, spoke, left, call, given>>
  BY DEF Panic, writeVars
<1>b. status = "unset" => SendHeader("body")
  BY DEF Panic
<1>c. CASE status = "unset"
  <2>a. /\ ResTypes' /\ OutTypes' /\ ChunksConserved' /\ NoHeaderYet' /\ HeaderOfBody'
        /\ GetIsParsed' /\ HeadIsParsed' /\ EmptyIsParsed' /\ NeverGarbled'
        /\ err' # "hijacked" /\ (err' = "nil" => link' # "failed") /\ status' = "body"
        /\ (hasBody' <=> "body" = "body") /\ ~chunked /\ ~reqClose /\ ~spoke
    BY <1>c, <1>a, <1>b, <1>c, AfterHeader DEF Status
  <2>1. ReqTypes'
    BY <1>a, <1>c DEF ReqTypes, Pc
  <2>2. WriteTypes'
    BY <1>a, <1>b, <1>c, <2>a DEF WriteTypes
  <2>3. WriteCounts'
    BY <1>a, <1>b, <1>c, <2>a DEF WriteCounts
  <2>4. FlushedBeforeNext'
    BY <1>a, <1>b, <1>c, <2>a DEF FlushedBeforeNext, Stages
  <2>5. InLoop'
    BY <1>a, <1>b, <1>c, <2>a DEF InLoop
  <2>6. Stages'
    BY <1>a, <1>b, <1>c, <2>a DEF Stages, NoHeaderYet, HeaderOfBody
  <2>7. EndIsParsed'
    BY <1>a, <1>b, <1>c, <2>a DEF EndIsParsed
  <2> QED
    BY <2>a, <2>1, <2>2, <2>3, <2>4, <2>5, <2>6, <2>7, HoldsNext
<1>d. CASE status # "unset"
  <2>a. UNCHANGED <<length, status, hasBody, chunked, remain, err, n, unsent, link, client>>
    BY <1>d DEF Panic, resVars, outVars
  <2>1. ReqTypes' /\ ResTypes' /\ WriteTypes' /\ OutTypes'
    BY <1>a, <1>d, <2>a DEF ReqTypes, Pc, ResTypes, Err, WriteTypes, OutTypes
  <2>2. WriteCounts' /\ ChunksConserved' /\ FlushedBeforeNext' /\ InLoop'
    BY <1>a, <1>d, <2>a DEF WriteCounts, ChunksConserved, FlushedBeforeNext, Stages, InLoop
  <2>3. NoHeaderYet' /\ HeaderOfBody' /\ Stages'
    BY <1>a, <1>d, <2>a DEF NoHeaderYet, Stages, HeaderOfBody
  <2>4. NeverGarbled' /\ GetIsParsed' /\ HeadIsParsed' /\ EmptyIsParsed' /\ EndIsParsed'
    BY <1>a, <1>d, <2>a DEF NeverGarbled, GetIsParsed, InChunks, InBytes,
       HeadIsParsed, EmptyIsParsed, EndIsParsed
  <2> QED
    BY <2>1, <2>2, <2>3, <2>4, HoldsNext
<1> QED
  BY <1>c, <1>d

(* The deferred Flush: everything is sent, or the error is kept. *)
LEMMA EndFlushKeeps ==
  ASSUME IInv, EndFlush
  PROVE  IInv'
<1> USE Holds
<1>a. /\ pc = "flush" /\ pc' = "after"
      /\ UNCHANGED <<proxy, r, method, closed, level, reqClose, spoke, left, call, given>>
  BY DEF EndFlush, reqVars, writeVars
<1>b. status = "unset" => err = "nil" /\ SendHeader("body") /\ (err' = "nil" => unsent' = FALSE)
  BY DEF EndFlush, NoHeaderYet
<1>c. CASE status = "unset"
  <2>a. /\ ResTypes' /\ OutTypes' /\ ChunksConserved' /\ NoHeaderYet' /\ HeaderOfBody'
        /\ GetIsParsed' /\ HeadIsParsed' /\ EmptyIsParsed' /\ NeverGarbled'
        /\ err' # "hijacked" /\ (err' = "nil" => link' # "failed") /\ status' = "body"
        /\ (hasBody' <=> "body" = "body") /\ ~chunked /\ ~reqClose /\ ~spoke
    BY <1>c, <1>a, <1>b, <1>c, AfterHeader DEF Status
  <2>1. ReqTypes'
    BY <1>a, <1>b, <1>c, <2>a DEF ReqTypes, Pc
  <2>2. WriteTypes'
    BY <1>a, <1>b, <1>c, <2>a DEF WriteTypes
  <2>3. WriteCounts'
    BY <1>a, <1>b, <1>c, <2>a DEF WriteCounts
  <2>4. FlushedBeforeNext'
    BY <1>a, <1>b, <1>c, <2>a DEF FlushedBeforeNext, Stages
  <2>5. InLoop'
    BY <1>a, <1>b, <1>c, <2>a DEF InLoop
  <2>6. Stages'
    BY <1>a, <1>b, <1>c, <2>a DEF Stages, NoHeaderYet, HeaderOfBody
  <2>7. EndIsParsed'
    BY <1>a, <1>b, <1>c, <2>a DEF EndIsParsed
  <2> QED
    BY <2>a, <2>1, <2>2, <2>3, <2>4, <2>5, <2>6, <2>7, HoldsNext
<1>d. CASE status # "unset" /\ err = "nil"
  <2>a. UNCHANGED <<length, status, hasBody, chunked, remain>> /\ FlushBuffers
    BY <1>d DEF EndFlush
  <2>b. /\ client' \in Clients /\ client'.want = client.want /\ client'.answered = client.answered
        /\ method = "GET" /\ chunked => client'.body + n' = client.body + n
        /\ method = "GET" => client'.garbled = client.garbled
        /\ ~chunked => client' = client
        /\ method = "HEAD" => ("GET" \in client'.garbled => "GET" \in client.garbled)
        /\ n' \in 0..B /\ (n = 0 => n' = 0) /\ err' \in {"nil", "io"}
        /\ link' \in {"up", "down", "failed"} /\ unsent' \in BOOLEAN
        /\ (err' = "nil" => ~unsent' /\ link' # "failed") /\ (link = "failed" => link' = "failed")
    BY <1>d, <2>a, Flushed
  <2>1. ReqTypes' /\ ResTypes' /\ OutTypes'
    BY <1>a, <1>d, <2>a, <2>b DEF ReqTypes, Pc, ResTypes, Err, OutTypes
  <2>2. WriteTypes'
    BY <1>a DEF WriteTypes
  <2>3. WriteCounts' /\ FlushedBeforeNext' /\ InLoop'
    BY <1>a, <1>d, <2>a, <2>b DEF WriteCounts, FlushedBeforeNext, Stages, InLoop
  <2>4. ChunksConserved'
    BY <1>a, <2>a, <2>b DEF ChunksConserved
  <2>5. NoHeaderYet' /\ HeaderOfBody' /\ Stages'
    BY <1>a, <1>d, <2>a, <2>b DEF NoHeaderYet, Stages, HeaderOfBody
  <2>6. HeadIsParsed' /\ EmptyIsParsed' /\ EndIsParsed'
    BY <1>a, <1>d, <2>a, <2>b DEF HeadIsParsed, EmptyIsParsed, EndIsParsed
  <2>7. NeverGarbled'
    BY <1>a, <2>b DEF NeverGarbled, ReqTypes
  <2>8. GetIsParsed'
    BY <1>a, <2>a, <2>b DEF GetIsParsed, InChunks, InBytes, Stages
  <2> QED
    BY <2>1, <2>2, <2>3, <2>4, <2>5, <2>6, <2>7, <2>8, HoldsNext
<1>e. CASE err # "nil"
  <2>a. UNCHANGED <<length, status, hasBody, chunked, remain, err, n, unsent, link, client>>
    BY <1>e DEF EndFlush, resVars, outVars
  <2>1. ReqTypes' /\ ResTypes' /\ WriteTypes' /\ OutTypes'
    BY <1>a, <1>e, <2>a DEF ReqTypes, Pc, ResTypes, Err, WriteTypes, OutTypes
  <2>2. WriteCounts' /\ ChunksConserved' /\ FlushedBeforeNext' /\ InLoop'
    BY <1>a, <1>e, <2>a DEF WriteCounts, ChunksConserved, FlushedBeforeNext, Stages, InLoop
  <2>3. NoHeaderYet' /\ HeaderOfBody' /\ Stages'
    BY <1>a, <1>e, <2>a DEF NoHeaderYet, Stages, HeaderOfBody
  <2>4. NeverGarbled' /\ HeadIsParsed' /\ EmptyIsParsed' /\ EndIsParsed'
    BY <1>a, <1>e, <2>a DEF NeverGarbled, HeadIsParsed, EmptyIsParsed, EndIsParsed
  <2>5. GetIsParsed'
    BY <1>a, <1>e, <2>a DEF GetIsParsed, InChunks, InBytes, Stages
  <2> QED
    BY <2>1, <2>2, <2>3, <2>4, <2>5, HoldsNext
<1> QED
  BY <1>c, <1>d, <1>e

-----------------------------------------------------------------------------
(* The connection is new. *)
LEMMA InitHolds == Init => IInv
<1> SUFFICES ASSUME Init PROVE IInv
  OBVIOUS
<1>1. call = NoCall /\ call \in [asked : Nat, n : Nat, err : WriteErr] /\ call.asked = 0 /\ call.n = 0
  BY Calls DEF Init, NoCall, WriteErr, Err
<1>2. client = Client0 /\ client \in Clients /\ client.garbled = {}
  BY Fields DEF Init, Client0, Parser, Clients
<1>3. TypeOK
  <2>1. ReqTypes
    <3>1. r \in 0..MaxReq /\ level \in 0..2
      BY DEF Init
    <3> QED
      BY <3>1 DEF Init, ReqTypes, Pc
  <2>2. ResTypes
    <3>1. n \in 0..B /\ remain \in 0..MaxUint64
      BY DEF Init
    <3> QED
      BY <3>1 DEF Init, ResTypes, Status, Err
  <2>3. WriteTypes
    BY <1>1 DEF Init, WriteTypes
  <2>4. OutTypes
    BY <1>2 DEF Init, OutTypes
  <2> QED
    BY <2>1, <2>2, <2>3, <2>4, TypeSplits
<1>4. WriteCounts /\ ChunksConserved /\ FlushedBeforeNext /\ InLoop
  BY DEF Init, WriteCounts, ChunksConserved, FlushedBeforeNext, InLoop
<1>5. OneHeader
  BY <1>2 DEF Init, OneHeader, NoHeaderYet, HeaderOfBody
<1>6. Stages
  BY DEF Init, Stages
<1>7. Parsing
  BY DEF Init, Parsing, GetIsParsed, HeadIsParsed, EmptyIsParsed, EndIsParsed
<1>8. NeverGarbled
  BY <1>2 DEF NeverGarbled
<1> QED
  BY <1>3, <1>4, <1>5, <1>6, <1>7, <1>8 DEF IInv, BufferInv

(* The inductive invariant of a connection, over all of its requests. *)
LEMMA Invariance == Spec => []IInv
<1>1. IInv /\ [Next]_vars => IInv'
  <2> SUFFICES ASSUME IInv, [Next]_vars PROVE IInv'
    OBVIOUS
  <2>1. CASE HandlerNext
    BY <2>1, SetContentLengthKeeps, CallWriteHeaderKeeps, CallWriteKeeps, CallFlushKeeps,
       CallHijackKeeps, ReturnKeeps, PanicKeeps DEF HandlerNext
  <2>2. CASE WriteNext
    BY <2>2, ChunkDoneKeeps, ChunkBypassKeeps, ChunkFillKeeps, DirectDoneKeeps,
       DirectOverrunKeeps, DirectWriteKeeps DEF WriteNext
  <2>3. CASE ServeNext
    BY <2>3, StartRequestKeeps, NoRequestKeeps, CloseKeeps, EndFlushKeeps, EndInnerKeeps,
       EndConnKeeps, ResetKeeps DEF ServeNext
  <2>4. CASE Break
    BY <2>4, BreakKeeps
  <2>5. CASE UNCHANGED vars
    BY <2>5, StutterKeeps
  <2> QED
    BY <2>1, <2>2, <2>3, <2>4, <2>5 DEF Next, Over
<1> QED
  BY <1>1, InitHolds, PTL DEF Spec

(* The chunk buffer is never overfilled, remain never underflows, a Write  *)
(* is counted, every byte given to the chunkWriter is in a chunk or in the *)
(* buffer, once, and nothing waits there while the next request is awaited *)
(* (server.go:187, 394-548).                                               *)
THEOREM BuffersAgree == Spec => []BufferInv
<1>1. IInv => BufferInv
  BY DEF IInv
<1> QED
  BY <1>1, Invariance, PTL

(* Whatever a handler calls, the client of a GET can parse what it gets,   *)
(* unless the length it declared is no uint64 (server.go:326-548).         *)
THEOREM GetIsNeverGarbled == Spec => []NeverGarbled
<1>1. IInv => NeverGarbled
  BY DEF IInv
<1> QED
  BY <1>1, Invariance, PTL

(* A chunked response to a GET that a panic cuts short is not ended        *)
(* (server.go:175-183).                                                    *)
THEOREM AbortIsSeen == Spec => []AbortIsVisible
<1>1. IInv => AbortIsVisible
  <2> SUFFICES ASSUME IInv, reqClose, chunked, method = "GET", ~proxy
               PROVE  client.answered < r
    BY DEF AbortIsVisible
  <2>1. hasBody /\ r = 1
    BY Holds DEF HeaderOfBody
  <2>2. client.answered = 0
    BY <2>1, Holds DEF GetIsParsed, InChunks
  <2> QED
    BY <2>1, <2>2
<1> QED
  BY <1>1, Invariance, PTL

(* The first request that a handler responded to has a whole response      *)
(* (server.go:186-187, 450-458).                                           *)
THEOREM FirstHasAnswer == Spec => []FirstIsAnswered
<1>1. IInv => FirstIsAnswered
  <2> SUFFICES ASSUME IInv, Responded, r = 1
               PROVE  client.answered = 1
    BY DEF FirstIsAnswered
  <2> USE Holds
  <2>1. /\ pc = "after" /\ err = "nil" /\ ~reqClose /\ spoke /\ status # "info"
        /\ length \notin Invalid /\ remain = 0
    BY DEF Responded, Invalid
  <2>2. status \in {"empty", "body"}
    BY <2>1 DEF NoHeaderYet, ResTypes, Status
  <2>3. link # "failed"
    BY <2>1 DEF Stages
  <2>4. CASE status = "empty"
    BY <2>1, <2>4 DEF EmptyIsParsed
  <2>5. CASE status = "body"
    <3>1. hasBody
      BY <2>1, <2>5 DEF HeaderOfBody
    <3>2. CASE method = "HEAD"
      BY <2>1, <2>3, <3>1, <3>2 DEF HeadIsParsed
    <3>3. CASE method = "GET" /\ chunked
      BY <2>1, <3>3 DEF EndIsParsed
    <3>4. CASE method = "GET" /\ ~chunked
      BY <2>1, <2>3, <3>1, <3>4 DEF GetIsParsed, InBytes, Invalid
    <3> QED
      BY <3>2, <3>3, <3>4 DEF ReqTypes
  <2> QED
    BY <2>2, <2>4, <2>5
<1> QED
  BY <1>1, Invariance, PTL

(* After Hijack the server writes nothing to the connection                *)
(* (server.go:298-319).                                                    *)
THEOREM HijackSilences == Spec => HijackIsSilent
<1>1. IInv /\ [Next]_vars => [err = "hijacked" => UNCHANGED <<err, client, unsent>>]_vars
  <2> SUFFICES ASSUME IInv, Next, err = "hijacked"
               PROVE  UNCHANGED <<err, client, unsent>>
    BY DEF vars
  <2> USE Holds
  <2>1. status = "info" /\ pc \notin {"chunk", "direct", "next"}
    BY DEF Stages
  <2>2. CASE HandlerNext
    BY <2>1, <2>2 DEF HandlerNext, SetContentLength, CallWriteHeader, WriteHeader, CallWrite,
         CallFlush, CallHijack, Return, Panic, resVars, outVars
  <2>3. CASE ServeNext
    BY <2>1, <2>3 DEF ServeNext, StartRequest, NoRequest, Close, EndFlush, EndInner, EndConn,
         Reset, resVars, outVars
  <2>4. CASE Break \/ Over
    BY <2>4 DEF Break, Over, vars, resVars, outVars
  <2>5. ~WriteNext
    BY <2>1 DEF WriteNext, ChunkDone, ChunkBypass, ChunkFill, DirectDone, DirectOverrun, DirectWrite
  <2> QED
    BY <2>2, <2>3, <2>4, <2>5 DEF Next
<1> QED
  BY <1>1, Invariance, PTL DEF Spec, HijackIsSilent
=============================================================================
