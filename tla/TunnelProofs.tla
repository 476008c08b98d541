---------------------------- MODULE TunnelProofs ----------------------------
(***************************************************************************)
(* Proofs of the safety of Tunnel, TunnelRaw, TunnelLine, Echo and         *)
(* EchoLine, for every size of a reader's buffer and any number of bytes.  *)
(* The inductive invariant is SocketInv, and with it BytesConserved.       *)
(***************************************************************************)
EXTENDS Tunnel, SequenceTheorems, WellFoundedInduction, TLAPS

USE TunnelAssumption

-----------------------------------------------------------------------------
(* The bytes of a sequence that somebody sent.  Facts about all sequences  *)
(* are shown of the shortest one for which they would fail.                *)

All == Bytes \cup {Stale}

(* A set of natural numbers that is not empty has a least one. *)
LEMMA Least ==
  ASSUME NEW T \in SUBSET Nat, T # {}
  PROVE  \E n \in T : \A k \in T : n <= k
<1> DEFINE Less == {ss \in Nat \X Nat : ss[1] < ss[2]}
<1>1. IsWellFoundedOn(Less, Nat)
  BY NatLessThanWellFounded DEF OpToRel
<1>2. \A x, y \in Nat : <<y, x>> \in Less <=> y < x
  OBVIOUS
<1> HIDE DEF Less
<1>3. PICK x \in T : \A y \in T : ~(<<y, x>> \in Less)
  BY <1>1, WFMin
<1>4. ASSUME NEW y \in T PROVE x <= y
  <2>1. x \in Nat /\ y \in Nat
    OBVIOUS
  <2>2. ~(y < x)
    BY <1>2, <1>3, <2>1
  <2> QED
    BY <2>1, <2>2
<1> QED
  BY <1>4

(* One of a set of sequences is shortest. *)
LEMMA Shortest ==
  ASSUME NEW S, NEW T \in SUBSET Seq(S), T # {}
  PROVE  \E s \in T : \A t \in T : Len(s) <= Len(t)
<1> DEFINE L == {Len(s) : s \in T}
<1>1. L \in SUBSET Nat /\ L # {}
  BY LenProperties
<1>2. PICK n \in L : \A k \in L : n <= k
  BY <1>1, Least
<1> QED
  BY <1>2

(* A sequence is its last element behind the others. *)
LEMMA FrontLast ==
  ASSUME NEW S, NEW s \in Seq(S), s # <<>>
  PROVE  \E f \in Seq(S), b \in S : s = Append(f, b) /\ Len(f) < Len(s)
<1>1. PICK f \in Seq(S), b \in S : s = Append(f, b)
  BY SequenceEmptyOrAppend
<1>2. Len(s) = Len(f) + 1 /\ Len(f) \in Nat
  BY <1>1, AppendProperties, LenProperties
<1> QED
  BY <1>1, <1>2

(* What is appended to a concatenation is appended to its second part. *)
LEMMA AppendConcat ==
  ASSUME NEW S, NEW s \in Seq(S), NEW t \in Seq(S), NEW b \in S,
         NEW u, u = Append(t, b)
  PROVE  s \o t \in Seq(S) /\ s \o u = Append(s \o t, b)
<1>1. s \o t \in Seq(S) /\ <<b>> \in Seq(S)
  BY ConcatProperties
<1>2. Append(s \o t, b) = (s \o t) \o <<b>> /\ Append(t, b) = t \o <<b>>
  BY <1>1, AppendIsConcat
<1> QED
  BY <1>1, <1>2, ConcatAssociative

(* Bytes behind bytes are bytes, in whatever groups they are taken. *)
LEMMA Grouping ==
  /\ \A a, b \in Seq(Bytes) : a \o b \in Seq(Bytes)
  /\ \A a, b, c \in Seq(Bytes) : (a \o b) \o c = a \o (b \o c)
<1>1. \A a, b \in Seq(Bytes) : a \o b \in Seq(Bytes)
  BY ConcatProperties
<1>2. \A a, b, c \in Seq(Bytes) : (a \o b) \o c = a \o (b \o c)
  BY ConcatAssociative
<1> QED
  BY <1>1, <1>2

(* Nothing is before or after the empty sequence. *)
LEMMA Nothing ==
  ASSUME NEW S, NEW a \in Seq(S)
  PROVE  a \o <<>> = a /\ <<>> \o a = a
BY ConcatEmptySeq

(* The table by which Sent is defined. *)
IsSent(f, s) ==
  f = [i \in 0..Len(s) |->
         IF i = 0 THEN <<>>
         ELSE IF s[i] = Stale THEN f[i - 1] ELSE Append(f[i - 1], s[i])]

(* Sent(s) is the last entry of the table of s. *)
LEMMA SentIs ==
  ASSUME NEW s PROVE Sent(s) = (CHOOSE f : IsSent(f, s))[Len(s)]
BY DEF Sent, IsSent

(* Every sequence has a table: the shortest one without would have the    *)
(* table of its front, and one entry more.                                 *)
LEMMA SentExists ==
  ASSUME NEW s \in Seq(All)
  PROVE  \E f : IsSent(f, s)
<1> DEFINE T == {t \in Seq(All) : ~\E f : IsSent(f, t)}
<1> SUFFICES ASSUME T # {} PROVE FALSE
  OBVIOUS
<1>1. PICK t \in T : \A u \in T : Len(t) <= Len(u)
  BY Shortest
<1>2. t \in Seq(All) /\ ~\E f : IsSent(f, t)
  BY <1>1
<1>3. t # <<>>
  <2> SUFFICES ASSUME t = <<>> PROVE FALSE
    OBVIOUS
  <2>1. IsSent([i \in 0..0 |-> <<>>], t)
    BY DEF IsSent
  <2> QED
    BY <1>2, <2>1
<1>4. PICK u \in Seq(All), b \in All : t = Append(u, b) /\ Len(u) < Len(t)
  BY <1>2, <1>3, FrontLast
<1>5. Len(u) \in Nat /\ Len(t) = Len(u) + 1 /\ \A i \in 1..Len(u) : t[i] = u[i]
  BY <1>4, AppendProperties, LenProperties
<1>6. u \notin T
  BY <1>1, <1>4, <1>5
<1>7. PICK f : IsSent(f, u)
  BY <1>6
<1> DEFINE m == Len(u)
           g == [i \in 0..(m + 1) |->
                   IF i <= m THEN f[i] ELSE IF b = Stale THEN f[m] ELSE Append(f[m], b)]
<1>8. /\ \A i \in 0..m : f[i] = IF i = 0 THEN <<>>
                      ELSE IF u[i] = Stale THEN f[i - 1] ELSE Append(f[i - 1], u[i])
  BY <1>7 DEF IsSent
<1>9. t[m + 1] = b /\ m \in Nat /\ Len(t) = m + 1
  BY <1>4, <1>5, AppendProperties
<1>10. ASSUME NEW i \in 0..(m + 1)
       PROVE  g[i] = IF i = 0 THEN <<>>
                     ELSE IF t[i] = Stale THEN g[i - 1] ELSE Append(g[i - 1], t[i])
  <2>1. \A j \in 0..m : g[j] = f[j]
    BY <1>9
  <2>2. g[m + 1] = IF b = Stale THEN f[m] ELSE Append(f[m], b)
    BY <1>9
  <2>3. \A j \in 1..m : t[j] = u[j]
    BY <1>5
  <2> HIDE DEF g, m
  <2>4. CASE i = 0
    BY <1>8, <1>9, <2>1, <2>4
  <2>5. CASE i \in 1..m
    <3>1. i \in 0..m /\ i - 1 \in 0..m /\ i # 0
      BY <1>9, <2>5
    <3>2. g[i] = f[i] /\ g[i - 1] = f[i - 1] /\ t[i] = u[i]
      BY <2>1, <2>3, <2>5, <3>1
    <3>3. f[i] = IF u[i] = Stale THEN f[i - 1] ELSE Append(f[i - 1], u[i])
      BY <1>8, <3>1
    <3> QED
      BY <3>1, <3>2, <3>3
  <2>6. CASE i = m + 1
    <3>1. i # 0 /\ i - 1 = m /\ m \in 0..m
      BY <1>9, <2>6
    <3>2. t[i] = b /\ g[i] = IF b = Stale THEN f[m] ELSE Append(f[m], b)
      BY <1>9, <2>2, <2>6
    <3>3. g[m] = f[m]
      BY <2>1, <3>1
    <3> QED
      BY <3>1, <3>2, <3>3, Zenon
  <2> QED
    BY <1>9, <2>4, <2>5, <2>6
<1>11. g = [i \in 0..(m + 1) |-> IF i = 0 THEN <<>>
                     ELSE IF t[i] = Stale THEN g[i - 1] ELSE Append(g[i - 1], t[i])]
  <2> HIDE DEF g
  <2>1. g = [i \in 0..(m + 1) |-> g[i]]
    BY DEF g
  <2> QED
    BY <1>10, <2>1
<1>12. IsSent(g, t)
  <2> HIDE DEF g
  <2> QED
    BY <1>9, <1>11 DEF IsSent
<1> QED
  BY <1>2, <1>12

(* What the table of a sequence holds: sequences of bytes, and the same as *)
(* the one of the sequence that goes on by one.                            *)
LEMMA SentTable ==
  ASSUME NEW s \in Seq(All), NEW b \in All, NEW f, IsSent(f, s),
         NEW g, IsSent(g, Append(s, b))
  PROVE  /\ \A i \in 0..Len(s) : f[i] \in Seq(Bytes) /\ g[i] = f[i]
         /\ g[Len(s) + 1] = IF b = Stale THEN f[Len(s)] ELSE Append(f[Len(s)], b)
<1> DEFINE m == Len(s)
           T == {i \in 0..m : ~(f[i] \in Seq(Bytes) /\ g[i] = f[i])}
<1>1. /\ m \in Nat /\ Len(Append(s, b)) = m + 1 /\ Append(s, b)[m + 1] = b
      /\ \A i \in 1..m : Append(s, b)[i] = s[i] /\ s[i] \in All
  BY AppendProperties, LenProperties
<1>2. \A i \in 0..m : f[i] = IF i = 0 THEN <<>>
                 ELSE IF s[i] = Stale THEN f[i - 1] ELSE Append(f[i - 1], s[i])
  BY <1>1 DEF IsSent
<1>3. \A i \in 0..(m + 1) : g[i] = IF i = 0 THEN <<>>
                 ELSE IF Append(s, b)[i] = Stale THEN g[i - 1]
                      ELSE Append(g[i - 1], Append(s, b)[i])
  BY <1>1 DEF IsSent
<1>4. T = {}
  <2> SUFFICES ASSUME T # {} PROVE FALSE
    OBVIOUS
  <2>1. T \in SUBSET Nat
    BY <1>1
  <2>2. PICK n \in T : \A k \in T : n <= k
    BY <2>1, Least
  <2>3. n \in 0..m /\ ~(f[n] \in Seq(Bytes) /\ g[n] = f[n])
    BY <2>2
  <2>4. n # 0
    <3>1. 0 \in 0..m /\ 0 \in 0..(m + 1)
      BY <1>1
    <3>2. f[0] = <<>> /\ g[0] = <<>> /\ <<>> \in Seq(Bytes)
      BY <1>2, <1>3, <3>1
    <3> QED
      BY <2>3, <3>2
  <2>5. n - 1 \in 0..m /\ n - 1 \notin T
    BY <1>1, <2>2, <2>3, <2>4
  <2>6. f[n - 1] \in Seq(Bytes) /\ g[n - 1] = f[n - 1]
    BY <2>5
  <2>7. /\ f[n] = IF s[n] = Stale THEN f[n - 1] ELSE Append(f[n - 1], s[n])
        /\ g[n] = IF s[n] = Stale THEN f[n - 1] ELSE Append(f[n - 1], s[n])
    BY <1>1, <1>2, <1>3, <2>3, <2>4, <2>6
  <2>8. s[n] = Stale \/ s[n] \in Bytes
    BY <1>1, <2>3, <2>4 DEF All
  <2>9. f[n] \in Seq(Bytes)
    BY <2>6, <2>7, <2>8, AppendProperties
  <2> QED
    BY <2>3, <2>7, <2>9
<1>5. g[m + 1] = IF b = Stale THEN f[m] ELSE Append(f[m], b)
  <2>1. m + 1 \in 0..(m + 1) /\ m + 1 # 0 /\ (m + 1) - 1 = m /\ m \in 0..m
    BY <1>1
  <2>2. g[m] = f[m]
    BY <1>4, <2>1
  <2>3. g[m + 1] = IF Append(s, b)[m + 1] = Stale THEN g[(m + 1) - 1]
                   ELSE Append(g[(m + 1) - 1], Append(s, b)[m + 1])
    BY <1>3, <2>1
  <2> QED
    BY <1>1, <2>1, <2>2, <2>3
<1> QED
  BY <1>4, <1>5

(* Sent, step by step. *)
LEMMA SentAppend ==
  ASSUME NEW s \in Seq(All), NEW b \in All
  PROVE  /\ Sent(s) \in Seq(Bytes)
         /\ Sent(Append(s, b)) = IF b = Stale THEN Sent(s) ELSE Append(Sent(s), b)
<1> DEFINE f == CHOOSE h : IsSent(h, s)
           g == CHOOSE h : IsSent(h, Append(s, b))
<1>1. Append(s, b) \in Seq(All) /\ Len(Append(s, b)) = Len(s) + 1 /\ Len(s) \in Nat
  BY AppendProperties, LenProperties
<1>2. IsSent(f, s) /\ IsSent(g, Append(s, b))
  BY <1>1, SentExists
<1>3. Sent(s) = f[Len(s)] /\ Sent(Append(s, b)) = g[Len(s) + 1]
  BY <1>1, SentIs
<1> HIDE DEF f, g
<1>4. /\ \A i \in 0..Len(s) : f[i] \in Seq(Bytes) /\ g[i] = f[i]
      /\ g[Len(s) + 1] = IF b = Stale THEN f[Len(s)] ELSE Append(f[Len(s)], b)
  BY <1>2, SentTable
<1> QED
  BY <1>1, <1>3, <1>4

(* Nobody sent anything of nothing. *)
LEMMA SentEmpty == Sent(<<>>) = <<>>
<1> DEFINE f == CHOOSE h : IsSent(h, <<>>)
<1>1. <<>> \in Seq(All) /\ Len(<<>>) = 0
  OBVIOUS
<1>2. IsSent(f, <<>>)
  BY <1>1, SentExists
<1>3. Sent(<<>>) = f[0]
  BY <1>1, SentIs
<1> HIDE DEF f
<1> QED
  BY <1>1, <1>2, <1>3 DEF IsSent

(* What was sent of two sequences in a row. *)
LEMMA SentConcat ==
  ASSUME NEW s \in Seq(All), NEW t \in Seq(All)
  PROVE  Sent(s \o t) = Sent(s) \o Sent(t)
<1> DEFINE T == {u \in Seq(All) : Sent(s \o u) # Sent(s) \o Sent(u)}
<1> SUFFICES ASSUME T # {} PROVE FALSE
  OBVIOUS
<1>1. PICK u \in T : \A v \in T : Len(u) <= Len(v)
  BY Shortest
<1>2. u \in Seq(All) /\ Sent(s \o u) # Sent(s) \o Sent(u)
  BY <1>1
<1>3. Sent(s) \in Seq(Bytes)
  BY SentAppend DEF All
<1>4. u # <<>>
  <2>1. s \o <<>> = s /\ Sent(s) \o <<>> = Sent(s)
    BY <1>3, ConcatEmptySeq
  <2> QED
    BY <1>2, <2>1, SentEmpty
<1>5. PICK v \in Seq(All), b \in All : u = Append(v, b) /\ Len(v) < Len(u)
  BY <1>2, <1>4, FrontLast
<1>6. Sent(s \o v) = Sent(s) \o Sent(v)
  <2>1. Len(v) \in Nat /\ Len(u) \in Nat
    BY <1>2, LenProperties
  <2>2. v \notin T
    <3> HIDE DEF T
    <3> QED
      BY <1>1, <1>5, <2>1
  <2> QED
    BY <2>2
<1> HIDE DEF T
<1>7. s \o v \in Seq(All) /\ s \o u = Append(s \o v, b)
  <2>1. s \o v \in Seq(All)
    BY ConcatProperties
  <2>2. s \o u = Append(s \o v, b)
    BY <1>5, AppendConcat
  <2> QED
    BY <2>1, <2>2
<1>8. Sent(v) \in Seq(Bytes) /\ Sent(u) = IF b = Stale THEN Sent(v) ELSE Append(Sent(v), b)
  BY <1>5, SentAppend
<1>9. Sent(s \o u) = IF b = Stale THEN Sent(s) \o Sent(v) ELSE Append(Sent(s) \o Sent(v), b)
  BY <1>6, <1>7, SentAppend
<1>10. CASE b = Stale
  BY <1>2, <1>8, <1>9, <1>10
<1>11. CASE b # Stale
  <2>1. b \in Bytes
    BY <1>11 DEF All
  <2>2. Sent(u) = Append(Sent(v), b)
    BY <1>8, <1>11
  <2>3. Sent(s) \o Sent(u) = Append(Sent(s) \o Sent(v), b)
    BY <1>3, <1>8, <2>1, <2>2, AppendConcat
  <2> QED
    BY <1>2, <1>9, <1>11, <2>3
<1> QED
  BY <1>10, <1>11

(* All of a sequence without stale bytes was sent. *)
LEMMA SentBytes ==
  ASSUME NEW s \in Seq(Bytes)
  PROVE  Sent(s) = s
<1> DEFINE T == {u \in Seq(Bytes) : Sent(u) # u}
<1> SUFFICES ASSUME T # {} PROVE FALSE
  OBVIOUS
<1>1. PICK u \in T : \A v \in T : Len(u) <= Len(v)
  BY Shortest
<1>2. u \in Seq(Bytes) /\ Sent(u) # u
  BY <1>1
<1>3. u # <<>>
  BY <1>2, SentEmpty
<1>4. PICK v \in Seq(Bytes), b \in Bytes : u = Append(v, b) /\ Len(v) < Len(u)
  BY <1>2, <1>3, FrontLast
<1>5. Sent(v) = v
  <2>1. Len(v) \in Nat /\ Len(u) \in Nat
    BY <1>2, LenProperties
  <2> QED
    BY <1>1, <1>4, <2>1
<1>6. v \in Seq(All) /\ b \in All /\ b # Stale
  BY SeqMonotonic DEF All, Bytes, Stale
<1>7. Sent(u) = Append(Sent(v), b)
  BY <1>4, <1>6, SentAppend
<1> QED
  BY <1>2, <1>4, <1>5, <1>7

(* The stale bytes of a partial line do not count. *)
LEMMA SentStale ==
  ASSUME NEW s \in Seq(All), NEW k \in 1..2
  PROVE  /\ s \o [i \in 1..k |-> Stale] \in Seq(All)
         /\ Sent(s \o [i \in 1..k |-> Stale]) = Sent(s)
<1>1. Stale \in All
  BY DEF All
<1>2. Append(s, Stale) \in Seq(All) /\ Append(Append(s, Stale), Stale) \in Seq(All)
  BY <1>1, AppendProperties
<1>3. Sent(Append(s, Stale)) = Sent(s) /\ Sent(Append(Append(s, Stale), Stale)) = Sent(s)
  BY <1>1, <1>2, SentAppend
<1>4. CASE k = 1
  <2>1. [i \in 1..k |-> Stale] = <<Stale>>
    BY <1>4
  <2>2. s \o <<Stale>> = Append(s, Stale)
    BY <1>1, AppendIsConcat
  <2> QED
    BY <1>2, <1>3, <2>1, <2>2
<1>5. CASE k = 2
  <2>1. [i \in 1..k |-> Stale] = <<Stale, Stale>>
    BY <1>5
  <2>2. s \o <<Stale, Stale>> = Append(Append(s, Stale), Stale)
    BY <1>1
  <2> QED
    BY <1>2, <1>3, <2>1, <2>2
<1> QED
  BY <1>4, <1>5

-----------------------------------------------------------------------------
(* The steps. *)

(* Where the bytes of an end go. *)
LEMMA OtherIs ==
  /\ kind \in Tunnels => Other("from") = "to" /\ Other("to") = "from"
  /\ kind \notin Tunnels => \A e \in Ends : Other(e) = e
BY DEF Other, Ends

(* A sequence cut in two. *)
LEMMA Cut ==
  ASSUME NEW S, NEW s \in Seq(S), NEW k \in 0..Len(s)
  PROVE  /\ SubSeq(s, 1, k) \in Seq(S) /\ Len(SubSeq(s, 1, k)) = k
         /\ SubSeq(s, k + 1, Len(s)) \in Seq(S)
         /\ SubSeq(s, 1, k) \o SubSeq(s, k + 1, Len(s)) = s
<1>1. /\ Len(s) \in Nat /\ 1 \in 1..(Len(s) + 1) /\ k \in 0..Len(s) /\ Len(s) \in k..Len(s)
      /\ \A i \in 1..Len(s) : s[i] \in S
  BY LenProperties
<1>2. SubSeq(s, 1, k) \o SubSeq(s, k + 1, Len(s)) = SubSeq(s, 1, Len(s))
  <2>1. 1 \in 1..(Len(s) + 1) /\ k \in (1 - 1)..Len(s) /\ Len(s) \in k..Len(s)
    BY <1>1
  <2> QED
    BY <2>1, ConcatAdjacentSubSeq
<1>3. SubSeq(s, 1, Len(s)) = s
  BY SubSeqFull
<1>4. SubSeq(s, 1, k) \in Seq(S) /\ Len(SubSeq(s, 1, k)) = k
  BY <1>1, SubSeqProperties
<1>5. SubSeq(s, k + 1, Len(s)) \in Seq(S)
  BY <1>1, SubSeqProperties
<1> QED
  BY <1>2, <1>3, <1>4, <1>5

USE OtherIs

(* What every step leaves: the state has its types. *)
LEMMA TypeStep ==
  ASSUME SocketInv, [Next]_vars
  PROVE  TypeOK'
<1> USE DEF SocketInv, copyVars, lineVars
<1>1. CASE DialOK \/ DialFails \/ Return \/ ServerCloses \/ WaitDone
  <2>1. CASE DialOK
    <3>1. Copying(kind) \in [Ends -> CopyPc]
      BY DEF Copying, CopyPc
    <3>2. sock' \in [Ends -> {"none", "open", "closed"}]
      BY <2>1 DEF DialOK, TypeOK, Ends
    <3> QED
      BY <2>1, <3>1, <3>2 DEF DialOK, Start, TypeOK, Pc
  <2>2. CASE DialFails
    BY <2>2 DEF DialFails, TypeOK, Pc
  <2>3. CASE Return \/ ServerCloses \/ WaitDone
    <3>1. sock' \in [Ends -> {"none", "open", "closed"}]
      BY <2>3 DEF Return, ServerCloses, WaitDone, TypeOK, Ends
    <3> QED
      BY <2>3, <3>1 DEF Return, ServerCloses, WaitDone, TypeOK, Pc
  <2> QED
    BY <1>1, <2>1, <2>2, <2>3
<1>2. CASE SelectDone \/ SelectDefault \/ PeekTimeout \/ PeekFails
  BY <1>2 DEF SelectDone, SelectDefault, PeekTimeout, PeekFails, Fatal, Goto, TypeOK, Pc
<1>3. CASE ReadFails \/ ReadTooLong \/ ReadPipelined \/ WriteFails
  BY <1>3 DEF ReadFails, ReadTooLong, ReadPipelined, WriteFails, Goto, Fatal, TypeOK, Pc
<1>4. CASE Fill
  <2>1. PICK k \in 1..Len(net[side]) :
          /\ Len(buf[side]) + k <= MaxLine
          /\ buf' = [buf EXCEPT ![side] = @ \o SubSeq(net[side], 1, k)]
          /\ net' = [net EXCEPT ![side] = SubSeq(@, k + 1, Len(@))]
          /\ high' = [high EXCEPT ![side] =
                         IF @ < Len(buf'[side]) THEN Len(buf'[side]) ELSE @]
    BY <1>4 DEF Fill
  <2>2. /\ side \in Ends /\ net[side] \in Seq(Bytes) /\ buf[side] \in Seq(Bytes)
        /\ k \in 0..Len(net[side])
    BY LenProperties DEF TypeOK
  <2>3. /\ SubSeq(net[side], 1, k) \in Seq(Bytes) /\ Len(SubSeq(net[side], 1, k)) = k
        /\ SubSeq(net[side], k + 1, Len(net[side])) \in Seq(Bytes)
    BY <2>2, Cut
  <2>4. /\ buf[side] \o SubSeq(net[side], 1, k) \in Seq(Bytes)
        /\ Len(buf[side] \o SubSeq(net[side], 1, k)) = Len(buf[side]) + k
    BY <2>2, <2>3, ConcatProperties
  <2>5. /\ net' \in [Ends -> Seq(Bytes)] /\ buf' \in [Ends -> Seq(Bytes)]
        /\ buf'[side] = buf[side] \o SubSeq(net[side], 1, k)
        /\ \A e \in Ends : e # side => buf'[e] = buf[e]
    BY <2>1, <2>2, <2>3, <2>4 DEF TypeOK
  <2>6. \A e \in Ends : Len(buf'[e]) <= MaxLine
    BY <2>1, <2>4, <2>5 DEF TypeOK
  <2>7. Len(buf'[side]) \in Nat
    BY <2>2, <2>5, LenProperties
  <2>8. high' \in [Ends -> 0..MaxLine]
    BY <2>1, <2>2, <2>6, <2>7 DEF TypeOK
  <2> QED
    BY <1>4, <2>5, <2>6, <2>8 DEF Fill, TypeOK, Pc
<1> <<>> \in Seq(Bytes) /\ Len(<<>>) = 0 /\ MaxLine \in Nat
  OBVIOUS
<1>5. CASE ReadPartial
  <2>1. side \in Ends /\ buf[side] \in Seq(Bytes) /\ Len(buf[side]) \in Nat
    BY LenProperties DEF TypeOK
  <2>2. PICK k \in 1..2 :
          IF Len(buf[side]) + k <= MaxLine
          THEN /\ line' = buf[side] \o [i \in 1..k |-> Stale]
               /\ buf' = [buf EXCEPT ![side] = <<>>] /\ pc' = "write"
          ELSE /\ pc' = "panicked" /\ UNCHANGED <<line, buf>>
    BY <1>5 DEF ReadPartial
  <2>3. [i \in 1..k |-> Stale] \in Seq(All) /\ Len([i \in 1..k |-> Stale]) = k
    BY DEF All
  <2>4. buf[side] \in Seq(All)
    BY <2>1, SeqMonotonic DEF All
  <2>5. /\ buf[side] \o [i \in 1..k |-> Stale] \in Seq(All)
        /\ Len(buf[side] \o [i \in 1..k |-> Stale]) = Len(buf[side]) + k
    BY <2>3, <2>4, ConcatProperties
  <2>6. line' \in Seq(All) /\ Len(line') <= MaxLine
    BY <2>2, <2>5 DEF TypeOK, All
  <2>7. /\ buf' \in [Ends -> Seq(Bytes)] /\ \A e \in Ends : Len(buf'[e]) <= MaxLine
        /\ pc' \in Pc
    <3>1. CASE UNCHANGED buf
      BY <2>2, <3>1 DEF TypeOK, Pc
    <3>2. CASE buf' = [buf EXCEPT ![side] = <<>>]
      BY <2>1, <2>2, <3>2 DEF TypeOK, Pc
    <3> QED
      BY <2>2, <3>1, <3>2
  <2> QED
    BY <1>5, <2>6, <2>7 DEF ReadPartial, TypeOK, All
<1>6. CASE ReadWhole
  <2>1. line' = buf[side] /\ line' \in Seq(Bytes) /\ Len(line') <= MaxLine
    BY <1>6 DEF ReadWhole, TypeOK
  <2>2. line' \in Seq(Bytes \cup {Stale})
    BY <2>1, SeqMonotonic
  <2>3. buf' \in [Ends -> Seq(Bytes)] /\ \A e \in Ends : Len(buf'[e]) <= MaxLine
    BY <1>6 DEF ReadWhole, TypeOK
  <2> QED
    BY <1>6, <2>1, <2>2, <2>3 DEF ReadWhole, TypeOK, Pc
<1>7. CASE Write
  <2>1. Other(side) \in Ends
    BY DEF TypeOK, Ends
  <2>2. out[Other(side)] \o line \in Seq(Bytes \cup {Stale})
    BY <2>1, ConcatProperties DEF TypeOK
  <2>3. out' \in [Ends -> Seq(Bytes \cup {Stale})]
    BY <1>7, <2>1, <2>2 DEF Write, TypeOK
  <2>4. line' \in Seq(Bytes \cup {Stale}) /\ Len(line') <= MaxLine
    BY <1>7 DEF Write
  <2> QED
    BY <1>7, <2>1, <2>3, <2>4 DEF Write, TypeOK, Pc
<1>8. ASSUME NEW e \in Ends, PeerSends(e) PROVE TypeOK'
  <2>1. PICK b \in Bytes : /\ net' = [net EXCEPT ![e] = Append(@, b)]
                           /\ in' = [in EXCEPT ![e] = Append(@, b)]
    BY <1>8 DEF PeerSends, MaySend, Bytes
  <2>2. Append(net[e], b) \in Seq(Bytes) /\ Append(in[e], b) \in Seq(Bytes)
    BY AppendProperties DEF TypeOK
  <2>3. net' \in [Ends -> Seq(Bytes)] /\ in' \in [Ends -> Seq(Bytes)]
    BY <2>1, <2>2 DEF TypeOK
  <2> QED
    BY <1>8, <2>3 DEF PeerSends, TypeOK
<1>9. ASSUME NEW e \in Ends, PeerEnds(e) PROVE TypeOK'
  <2>1. peer' \in [Ends -> {"open", "eof", "reset"}]
    BY <1>9 DEF PeerEnds, TypeOK
  <2> QED
    BY <1>9, <2>1 DEF PeerEnds, TypeOK
<1>10. ASSUME NEW e \in Ends, CopyRead(e) PROVE TypeOK'
  <2>1. PICK k \in 1..Len(net[e]) : /\ held' = [held EXCEPT ![e] = SubSeq(net[e], 1, k)]
                                    /\ net' = [net EXCEPT ![e] = SubSeq(@, k + 1, Len(@))]
    BY <1>10 DEF CopyRead
  <2>2. net[e] \in Seq(Bytes) /\ k \in 0..Len(net[e])
    BY LenProperties DEF TypeOK
  <2>3. /\ SubSeq(net[e], 1, k) \in Seq(Bytes)
        /\ SubSeq(net[e], k + 1, Len(net[e])) \in Seq(Bytes)
    BY <2>2, Cut
  <2>4. held' \in [Ends -> Seq(Bytes)] /\ net' \in [Ends -> Seq(Bytes)]
    BY <2>1, <2>3 DEF TypeOK
  <2> QED
    BY <1>10, <2>4 DEF CopyRead, TypeOK, CopyPc
<1>11. ASSUME NEW e \in Ends, NEW k \in 0..Len(held[e]), Pass(e, k)
       PROVE  held' \in [Ends -> Seq(Bytes)] /\ out' \in [Ends -> Seq(Bytes \cup {Stale})]
  <2>1. /\ held[e] \in Seq(Bytes) /\ Other(e) \in Ends
        /\ out[Other(e)] \in Seq(Bytes \cup {Stale})
    BY DEF TypeOK, Ends
  <2>2. /\ SubSeq(held[e], 1, k) \in Seq(Bytes)
        /\ SubSeq(held[e], k + 1, Len(held[e])) \in Seq(Bytes)
    BY <2>1, Cut
  <2>3. SubSeq(held[e], 1, k) \in Seq(Bytes \cup {Stale})
    BY <2>2, SeqMonotonic
  <2>4. out[Other(e)] \o SubSeq(held[e], 1, k) \in Seq(Bytes \cup {Stale})
    BY <2>1, <2>3, ConcatProperties
  <2> QED
    BY <1>11, <2>1, <2>2, <2>4 DEF Pass, TypeOK
<1>12. ASSUME NEW e \in Ends, CopyWrite(e) \/ CopyWriteFails(e) PROVE TypeOK'
  <2>1. \E k \in 0..Len(held[e]) : Pass(e, k)
    <3>1. Len(held[e]) \in Nat
      BY LenProperties DEF TypeOK
    <3> QED
      BY <1>12, <3>1 DEF CopyWrite, CopyWriteFails
  <2>2. held' \in [Ends -> Seq(Bytes)] /\ out' \in [Ends -> Seq(Bytes \cup {Stale})]
    BY <1>11, <2>1
  <2> QED
    BY <1>12, <2>2 DEF CopyWrite, CopyWriteFails, TypeOK, CopyPc
<1>13. ASSUME NEW e \in Ends, CopyReadEnds(e) \/ CopyCancel(e) PROVE TypeOK'
  BY <1>13 DEF CopyReadEnds, CopyCancel, TypeOK, CopyPc
<1>14. CASE Cancel \/ Ended \/ UNCHANGED vars
  BY <1>14 DEF Cancel, Ended, vars, TypeOK
<1> QED
  BY <1>1, <1>2, <1>3, <1>4, <1>5, <1>6, <1>7, <1>8, <1>9, <1>10, <1>12, <1>13, <1>14
     DEF Next, HandlerNext, CopyNext

(* No step leaves a connection open that the handler has done with. *)
LEMMA EndsStep ==
  ASSUME SocketInv, [Next]_vars
  PROVE  EndsAreClosed'
<1> USE DEF SocketInv, copyVars, lineVars, TypeOK, Ends, EndsAreClosed, Stages, Kinds,
            Tunnels, ByLine
<1>1. CASE DialOK \/ DialFails \/ Return \/ ServerCloses \/ WaitDone
  BY <1>1 DEF DialOK, DialFails, Return, ServerCloses, WaitDone, Start, Copying
<1>2. CASE SelectDone \/ SelectDefault \/ PeekTimeout \/ PeekFails
  BY <1>2 DEF SelectDone, SelectDefault, PeekTimeout, PeekFails, Fatal, Goto
<1>3. CASE ReadFails \/ ReadTooLong \/ ReadPipelined \/ WriteFails
  BY <1>3 DEF ReadFails, ReadTooLong, ReadPipelined, WriteFails, Goto, Fatal
<1>4. CASE Fill
  BY <1>4 DEF Fill, MayRead
<1>5. CASE ReadPartial \/ ReadWhole \/ Write
  BY <1>5 DEF ReadPartial, ReadWhole, Write
<1>6. ASSUME NEW e \in Ends, PeerSends(e) \/ PeerEnds(e) PROVE EndsAreClosed'
  BY <1>6 DEF PeerSends, PeerEnds
<1>7. ASSUME NEW e \in Ends, CopyNext(e) PROVE EndsAreClosed'
  BY <1>7 DEF CopyNext, CopyRead, CopyReadEnds, CopyWrite, CopyWriteFails, CopyCancel, Pass
<1>8. CASE Cancel \/ Ended \/ UNCHANGED vars
  BY <1>8 DEF Cancel, Ended, vars
<1> QED
  BY <1>1, <1>2, <1>3, <1>4, <1>5, <1>6, <1>7, <1>8 DEF Next, HandlerNext

(* Every step leaves one line in flight at the most. *)
LEMMA FlightStep ==
  ASSUME SocketInv, [Next]_vars
  PROVE  OneLineInFlight'
<1> USE DEF SocketInv, copyVars, lineVars, TypeOK, Ends, OneLineInFlight
<1>1. CASE DialOK \/ DialFails \/ Return \/ ServerCloses \/ WaitDone
  BY <1>1 DEF DialOK, DialFails, Return, ServerCloses, WaitDone, Start, Copying
<1>2. CASE SelectDone \/ SelectDefault \/ PeekTimeout \/ PeekFails
  BY <1>2 DEF SelectDone, SelectDefault, PeekTimeout, PeekFails, Fatal, Goto
<1>3. CASE ReadFails \/ ReadTooLong \/ ReadPipelined \/ WriteFails
  BY <1>3 DEF ReadFails, ReadTooLong, ReadPipelined, WriteFails, Goto, Fatal
<1>4. CASE Fill
  BY <1>4 DEF Fill, MayRead
<1>5. CASE ReadPartial \/ ReadWhole \/ Write
  BY <1>5 DEF ReadPartial, ReadWhole, Write
<1>6. ASSUME NEW e \in Ends, PeerSends(e) \/ PeerEnds(e) PROVE OneLineInFlight'
  BY <1>6 DEF PeerSends, PeerEnds
<1>7. ASSUME NEW e \in Ends, CopyNext(e) PROVE OneLineInFlight'
  BY <1>7 DEF CopyNext, CopyRead, CopyReadEnds, CopyWrite, CopyWriteFails, CopyCancel, Pass
<1>8. CASE Cancel \/ Ended \/ UNCHANGED vars
  BY <1>8 DEF Cancel, Ended, vars
<1> QED
  BY <1>1, <1>2, <1>3, <1>4, <1>5, <1>6, <1>7, <1>8 DEF Next, HandlerNext

(* Every step leaves what its stage calls for opened, closed and held. *)
LEMMA StagesStep ==
  ASSUME SocketInv, [Next]_vars
  PROVE  Stages'
<1> USE DEF SocketInv, copyVars, lineVars, TypeOK, Ends, Stages, Kinds, Tunnels, ByLine
<1>1. CASE DialOK \/ DialFails \/ Return \/ ServerCloses \/ WaitDone
  <2>1. CASE DialOK
    <3>1. /\ kind \in Tunnels /\ pc = "dial" /\ line' = line /\ buf' = buf /\ held' = held
          /\ kind' = kind /\ pc' = Start(kind) /\ copy' = Copying(kind)
      BY <2>1 DEF DialOK
    <3>2. /\ kind \in ByLine => pc' = "select" /\ \A e \in Ends : copy'[e] = "idle"
          /\ kind \notin ByLine => pc' = "wait"
      BY <3>1 DEF Start, Copying
    <3>3. line' = <<>>
      BY <3>1
    <3>4. \A e \in Ends : held[e] = <<>>
      BY <3>1
    <3>5. \A e \in Ends : held'[e] = <<>> /\ buf'[e] = buf[e]
      BY <3>1, <3>4
    <3> QED
      BY <3>1, <3>2, <3>3, <3>5
  <2>2. CASE DialFails
    BY <2>2 DEF DialFails
  <2>3. CASE Return
    BY <2>3 DEF Return
  <2>4. CASE ServerCloses \/ WaitDone
    BY <2>4 DEF ServerCloses, WaitDone
  <2> QED
    BY <1>1, <2>1, <2>2, <2>3, <2>4
<1>2. CASE SelectDone \/ SelectDefault \/ PeekTimeout \/ PeekFails
  BY <1>2 DEF SelectDone, SelectDefault, PeekTimeout, PeekFails, Fatal, Goto
<1>3. CASE ReadFails \/ ReadTooLong \/ ReadPipelined \/ WriteFails
  BY <1>3 DEF ReadFails, ReadTooLong, ReadPipelined, WriteFails, Goto, Fatal
<1>4. CASE Fill
  BY <1>4 DEF Fill, MayRead
<1>5. CASE ReadPartial \/ ReadWhole \/ Write
  BY <1>5 DEF ReadPartial, ReadWhole, Write
<1>6. ASSUME NEW e \in Ends, PeerSends(e) \/ PeerEnds(e) PROVE Stages'
  BY <1>6 DEF PeerSends, PeerEnds
<1>7. ASSUME NEW e \in Ends, CopyNext(e) PROVE Stages'
  <2>1. CASE CopyRead(e)
    <3>1. kind \notin ByLine
      BY <2>1 DEF CopyRead
    <3>2. /\ copy'[e] = "write"
          /\ \A o \in Ends : o # e => copy'[o] = copy[o] /\ held'[o] = held[o]
      BY <2>1 DEF CopyRead
    <3>3. UNCHANGED <<kind, pc, sock, line, buf>> /\ copy[e] # "idle"
      BY <2>1 DEF CopyRead
    <3>4. \A o \in Ends : copy[o] \in {"idle", "read"} => held[o] = <<>>
      BY <3>1
    <3>5. \A o \in Ends : copy'[o] \in {"idle", "read"} => held'[o] = <<>>
      <4> HIDE DEF SocketInv, TypeOK, Stages, Ends
      <4> QED
        BY <3>2, <3>4
    <3> QED
      BY <3>1, <3>3, <3>5
  <2>2. CASE CopyReadEnds(e) \/ CopyCancel(e)
    <3>1. kind \notin ByLine
      BY <2>2 DEF CopyReadEnds, CopyCancel
    <3>2. /\ copy' = [copy EXCEPT ![e] = "cancel"] \/ copy' = [copy EXCEPT ![e] = "exited"]
          /\ UNCHANGED <<kind, pc, sock, line, buf, held>> /\ copy[e] # "idle"
      BY <2>2 DEF CopyReadEnds, CopyCancel
    <3> QED
      BY <3>1, <3>2
  <2>3. CASE CopyWrite(e)
    <3>1. Len(held[e]) \in Nat
      BY LenProperties
    <3>2. SubSeq(held[e], Len(held[e]) + 1, Len(held[e])) = <<>>
      BY <3>1, SubSeqEmpty
    <3>3. held' = [held EXCEPT ![e] = SubSeq(held[e], Len(held[e]) + 1, Len(held[e]))]
      BY <2>3 DEF CopyWrite, Pass
    <3>4. held'[e] = <<>> /\ \A o \in Ends : o # e => held'[o] = held[o]
      BY <3>2, <3>3
    <3> QED
      BY <2>3, <3>4 DEF CopyWrite
  <2>4. CASE CopyWriteFails(e)
    <3>1. \A o \in Ends : o # e => held'[o] = held[o]
      BY <2>4 DEF CopyWriteFails, Pass
    <3> QED
      BY <2>4, <3>1 DEF CopyWriteFails
  <2> QED
    BY <1>7, <2>1, <2>2, <2>3, <2>4 DEF CopyNext
<1>8. CASE Cancel \/ Ended \/ UNCHANGED vars
  BY <1>8 DEF Cancel, Ended, vars
<1> QED
  BY <1>1, <1>2, <1>3, <1>4, <1>5, <1>6, <1>7, <1>8 DEF Next, HandlerNext

(* SocketInv is inductive. *)
LEMMA SocketStep ==
  ASSUME SocketInv, [Next]_vars PROVE SocketInv'
BY TypeStep, EndsStep, FlightStep, StagesStep DEF SocketInv

(* Nothing has been sent, and nothing read. *)
LEMMA InitHolds ==
  ASSUME Init PROVE SocketInv /\ BytesConserved
<1> /\ <<>> \in Seq(Bytes) /\ <<>> \in Seq(Bytes \cup {Stale})
    /\ Len(<<>>) = 0 /\ MaxLine \in Nat
  OBVIOUS
<1>1. TypeOK
  BY DEF Init, TypeOK, Start, Copying, Pc, CopyPc, Ends
<1>2. EndsAreClosed /\ OneLineInFlight
  BY DEF Init, EndsAreClosed, OneLineInFlight, Start, Ends
<1>3. Stages
  BY DEF Init, Stages, Start, Copying, Kinds, Tunnels, ByLine, Ends
<1>4. BytesConserved
  <2> SUFFICES ASSUME NEW e \in Ends
               PROVE  in[e] = Sent(out[Other(e)]) \o (IF side = e THEN Sent(line) ELSE <<>>)
                                \o held[e] \o buf[e] \o net[e]
    BY DEF BytesConserved
  <2>1. Other(e) \in Ends
    BY DEF Ends
  <2>2. /\ in[e] = <<>> /\ out[Other(e)] = <<>> /\ line = <<>>
        /\ held[e] = <<>> /\ buf[e] = <<>> /\ net[e] = <<>>
    BY <2>1 DEF Init
  <2>3. <<>> \o <<>> = <<>>
    OBVIOUS
  <2> QED
    BY <2>2, <2>3, SentEmpty
<1> QED
  BY <1>1, <1>2, <1>3, <1>4 DEF SocketInv

(* In every reachable state of a tunnel or of an echo the connections that *)
(* its stage has done with are closed, no slice of a reader's buffer goes  *)
(* past its end and one line is on its way at a time (tunnel.go:44-128,    *)
(* handler.go:60-134).                                                     *)
THEOREM SocketInvariance == Spec => []SocketInv
<1>1. Init => SocketInv
  BY InitHolds
<1>2. SocketInv /\ [Next]_vars => SocketInv'
  BY SocketStep
<1> QED
  BY <1>1, <1>2, PTL DEF Spec

-----------------------------------------------------------------------------
(* Where the bytes are. *)

(* The bytes of the line that was read from e. *)
LineFrom(e) == IF side = e THEN Sent(line) ELSE <<>>

(* All that was read or waits to be read from e. *)
LEMMA Parts ==
  ASSUME SocketInv, NEW e \in Ends
  PROVE  /\ in[e] \in Seq(Bytes) /\ held[e] \in Seq(Bytes) /\ buf[e] \in Seq(Bytes)
         /\ net[e] \in Seq(Bytes) /\ LineFrom(e) \in Seq(Bytes)
         /\ Other(e) \in Ends /\ out[Other(e)] \in Seq(All) /\ line \in Seq(All)
         /\ Sent(out[Other(e)]) \in Seq(Bytes)
<1>1. /\ in[e] \in Seq(Bytes) /\ held[e] \in Seq(Bytes) /\ buf[e] \in Seq(Bytes)
      /\ net[e] \in Seq(Bytes)
  BY DEF SocketInv, TypeOK
<1>2. Other(e) \in Ends
  BY DEF Ends
<1>3. out[Other(e)] \in Seq(All) /\ line \in Seq(All)
  BY <1>2 DEF SocketInv, TypeOK, All
<1>4. Stale \in All
  BY DEF All
<1>5. Sent(out[Other(e)]) \in Seq(Bytes) /\ Sent(line) \in Seq(Bytes)
  BY <1>3, <1>4, SentAppend
<1>6. LineFrom(e) \in Seq(Bytes)
  BY <1>5 DEF LineFrom
<1> QED
  BY <1>1, <1>2, <1>3, <1>5, <1>6

(* The account of the bytes of e. *)
Account(e) ==
  in[e] = Sent(out[Other(e)]) \o LineFrom(e) \o held[e] \o buf[e] \o net[e]

(* No byte is lost if both accounts are right. *)
LEMMA AccountIs == BytesConserved = \A e \in Ends : Account(e)
BY DEF BytesConserved, Account, LineFrom

(* A step that moves no byte of e. *)
LEMMA AccountKept ==
  ASSUME NEW e \in Ends, Account(e), kind' = kind, in'[e] = in[e],
         out'[Other(e)] = out[Other(e)], LineFrom(e)' = LineFrom(e),
         held'[e] = held[e], buf'[e] = buf[e], net'[e] = net[e]
  PROVE  Account(e)'
<1>1. Other(e)' = Other(e)
  BY DEF Other
<1> QED
  BY <1>1 DEF Account

(* The other side of e sends a byte. *)
LEMMA BytesPeerSends ==
  ASSUME SocketInv, BytesConserved, NEW e \in Ends, PeerSends(e)
  PROVE  BytesConserved'
<1>1. PICK b \in Bytes : /\ net' = [net EXCEPT ![e] = Append(@, b)]
                         /\ in' = [in EXCEPT ![e] = Append(@, b)]
  BY DEF PeerSends, MaySend, Bytes
<1>2. UNCHANGED <<kind, out, side, line, held, buf>>
  BY DEF PeerSends, lineVars, copyVars
<1>3. Account(e)'
  <2> DEFINE a == Sent(out[Other(e)]) \o LineFrom(e) \o held[e] \o buf[e]
  <2>1. a \in Seq(Bytes)
    BY Parts, ConcatProperties
  <2>2. net'[e] = Append(net[e], b) /\ in'[e] = Append(in[e], b) /\ net[e] \in Seq(Bytes)
    BY <1>1 DEF SocketInv, TypeOK
  <2>3. in[e] = a \o net[e]
    BY AccountIs DEF Account
  <2>4. a \o net'[e] = Append(a \o net[e], b)
    <3> HIDE DEF a
    <3> QED
      BY <2>1, <2>2, AppendConcat
  <2>5. in'[e] = a \o net'[e]
    BY <2>2, <2>3, <2>4
  <2>6. Other(e)' = Other(e) /\ LineFrom(e)' = LineFrom(e)
    BY <1>2 DEF Other, LineFrom
  <2> QED
    BY <1>2, <2>5, <2>6 DEF Account
<1>4. ASSUME NEW o \in Ends, o # e PROVE Account(o)'
  <2>1. net'[o] = net[o] /\ in'[o] = in[o]
    BY <1>1, <1>4 DEF SocketInv, TypeOK
  <2>2. LineFrom(o)' = LineFrom(o) /\ Account(o)
    BY <1>2, AccountIs DEF LineFrom
  <2> QED
    BY <1>2, <2>1, <2>2, AccountKept
<1> QED
  BY <1>3, <1>4 DEF BytesConserved, Account, LineFrom

(* The bytes of two ends do not go to the same one. *)
LEMMA OtherDiffers ==
  ASSUME NEW e \in Ends, NEW o \in Ends, o # e
  PROVE  Other(o) # Other(e) /\ Other(o) \in Ends
<1>1. CASE kind \in Tunnels
  <2>1. (e = "from" /\ o = "to") \/ (e = "to" /\ o = "from")
    BY DEF Ends
  <2> QED
    BY <1>1, <2>1 DEF Ends
<1>2. CASE kind \notin Tunnels
  BY <1>2
<1> QED
  BY <1>1, <1>2

(* A copy reads from e. *)
LEMMA BytesCopyRead ==
  ASSUME SocketInv, BytesConserved, NEW e \in Ends, CopyRead(e)
  PROVE  BytesConserved'
<1>1. PICK k \in 1..Len(net[e]) : /\ held' = [held EXCEPT ![e] = SubSeq(net[e], 1, k)]
                                  /\ net' = [net EXCEPT ![e] = SubSeq(@, k + 1, Len(@))]
  BY DEF CopyRead
<1>2. UNCHANGED <<kind, in, out, side, line, buf>>
  BY DEF CopyRead, lineVars
<1>3. Account(e)'
  <2> DEFINE a == Sent(out[Other(e)]) \o LineFrom(e)
             p == SubSeq(net[e], 1, k)
             q == SubSeq(net[e], k + 1, Len(net[e]))
  <2>1. a \in Seq(Bytes) /\ net[e] \in Seq(Bytes) /\ k \in 0..Len(net[e])
    BY Parts, ConcatProperties, LenProperties
  <2>2. p \in Seq(Bytes) /\ q \in Seq(Bytes) /\ net[e] = p \o q
    BY <2>1, Cut
  <2>3. held[e] = <<>> /\ buf[e] = <<>>
    BY DEF CopyRead, SocketInv, Stages
  <2>4. held'[e] = p /\ net'[e] = q /\ buf'[e] = <<>>
    BY <1>1, <1>2, <2>3 DEF SocketInv, TypeOK
  <2>5. in[e] = a \o held[e] \o buf[e] \o net[e]
    BY AccountIs DEF Account
  <2>6. Other(e)' = Other(e) /\ LineFrom(e)' = LineFrom(e)
    BY <1>2 DEF Other, LineFrom
  <2>7. in'[e] = a \o held'[e] \o buf'[e] \o net'[e]
    <3> HIDE DEF a, p, q
    <3>1. in[e] = a \o net[e]
      BY <2>1, <2>3, <2>5, Nothing
    <3>2. a \o net[e] = (a \o p) \o q
      <4>1. a \in Seq(Bytes) /\ p \in Seq(Bytes) /\ q \in Seq(Bytes)
        BY <2>1, <2>2
      <4>2. (a \o p) \o q = a \o (p \o q)
        BY <4>1, Grouping, Zenon
      <4> QED
        BY <2>2, <4>2, Zenon
    <3>3. a \o p \in Seq(Bytes)
      BY <2>1, <2>2, ConcatProperties
    <3>4. (a \o p) \o <<>> = a \o p
      BY <3>3, Nothing
    <3> QED
      BY <1>2, <2>4, <3>1, <3>2, <3>4
  <2> QED
    BY <1>2, <2>6, <2>7 DEF Account
<1>4. ASSUME NEW o \in Ends, o # e PROVE Account(o)'
  <2>1. net'[o] = net[o] /\ held'[o] = held[o]
    BY <1>1, <1>4 DEF SocketInv, TypeOK
  <2>2. LineFrom(o)' = LineFrom(o) /\ Account(o)
    BY <1>2, AccountIs DEF LineFrom
  <2> QED
    BY <1>2, <2>1, <2>2, AccountKept
<1> QED
  BY <1>3, <1>4 DEF BytesConserved, Account, LineFrom

(* A copy writes, all of what it holds or a part of it. *)
LEMMA BytesPass ==
  ASSUME SocketInv, BytesConserved, NEW e \in Ends, NEW k \in 0..Len(held[e]), Pass(e, k),
         kind \notin ByLine, UNCHANGED <<kind, in, net, side, line, buf>>
  PROVE  BytesConserved'
<1>1. /\ out' = [out EXCEPT ![Other(e)] = @ \o SubSeq(held[e], 1, k)]
      /\ held' = [held EXCEPT ![e] = SubSeq(@, k + 1, Len(@))]
  BY DEF Pass
<1>2. line = <<>>
  BY DEF SocketInv, Stages
<1>3. \A o \in Ends : LineFrom(o) = <<>> /\ LineFrom(o)' = <<>>
  BY <1>2, SentEmpty DEF LineFrom
<1>4. Account(e)'
  <2> DEFINE a == Sent(out[Other(e)])
             p == SubSeq(held[e], 1, k)
             q == SubSeq(held[e], k + 1, Len(held[e]))
  <2>1. /\ a \in Seq(Bytes) /\ held[e] \in Seq(Bytes)
        /\ out[Other(e)] \in Seq(All) /\ Other(e) \in Ends
    BY Parts
  <2>2. p \in Seq(Bytes) /\ q \in Seq(Bytes) /\ held[e] = p \o q
    BY <2>1, Cut
  <2>3. held'[e] = q /\ out'[Other(e)] = out[Other(e)] \o p /\ Other(e)' = Other(e)
    <3>1. Other(e)' = Other(e)
      BY DEF Other
    <3>2. held'[e] = q /\ out'[Other(e)] = out[Other(e)] \o p
      BY <1>1, <2>1 DEF SocketInv, TypeOK
    <3> QED
      BY <3>1, <3>2
  <2>4. in[e] = a \o <<>> \o held[e] \o buf[e] \o net[e]
    BY <1>3, AccountIs DEF Account
  <2>5. Sent(out'[Other(e)]) = a \o p
    <3> HIDE DEF p
    <3>1. p \in Seq(All) /\ Sent(p) = p
      BY <2>2, SeqMonotonic, SentBytes DEF All
    <3> QED
      BY <2>1, <2>3, <3>1, SentConcat
  <2>6. in[e] = a \o p \o <<>> \o q \o buf[e] \o net[e]
    <3> HIDE DEF a, p, q
    <3>1. a \o <<>> = a /\ a \o p \o <<>> = a \o p
      BY <2>1, <2>2, Nothing, ConcatProperties
    <3>2. a \o held[e] = (a \o p) \o q
      <4>1. a \in Seq(Bytes) /\ p \in Seq(Bytes) /\ q \in Seq(Bytes)
        BY <2>1, <2>2
      <4>2. (a \o p) \o q = a \o (p \o q)
        BY <4>1, Grouping, Zenon
      <4> QED
        BY <2>2, <4>2, Zenon
    <3> QED
      BY <2>4, <3>1, <3>2
  <2> QED
    BY <1>3, <2>3, <2>5, <2>6 DEF Account
<1>5. ASSUME NEW o \in Ends, o # e PROVE Account(o)'
  <2>1. Other(o) # Other(e) /\ Other(o) \in Ends
    BY <1>5, OtherDiffers
  <2>2. out'[Other(o)] = out[Other(o)] /\ held'[o] = held[o]
    BY <1>1, <1>5, <2>1 DEF SocketInv, TypeOK
  <2>3. LineFrom(o)' = LineFrom(o) /\ Account(o)
    BY <1>3, AccountIs
  <2> QED
    BY <2>2, <2>3, AccountKept
<1> QED
  BY <1>4, <1>5 DEF BytesConserved, Account, LineFrom

(* A line reader fills its buffer. *)
LEMMA BytesFill ==
  ASSUME SocketInv, BytesConserved, Fill
  PROVE  BytesConserved'
<1>1. PICK k \in 1..Len(net[side]) :
        /\ buf' = [buf EXCEPT ![side] = @ \o SubSeq(net[side], 1, k)]
        /\ net' = [net EXCEPT ![side] = SubSeq(@, k + 1, Len(@))]
  BY DEF Fill
<1>2. UNCHANGED <<kind, in, out, side, line, held>>
  BY DEF Fill, copyVars
<1>3. \A o \in Ends : LineFrom(o)' = LineFrom(o) /\ Other(o)' = Other(o)
  BY <1>2 DEF LineFrom, Other
<1>4. side \in Ends
  BY DEF SocketInv, TypeOK
<1>5. Account(side)'
  <2> DEFINE a == Sent(out[Other(side)]) \o LineFrom(side) \o held[side]
             b == buf[side]
             n == net[side]
             p == SubSeq(n, 1, k)
             q == SubSeq(n, k + 1, Len(n))
  <2>1. a \in Seq(Bytes) /\ b \in Seq(Bytes) /\ n \in Seq(Bytes) /\ k \in 0..Len(n)
    BY <1>4, Parts, ConcatProperties, LenProperties
  <2>2. p \in Seq(Bytes) /\ q \in Seq(Bytes) /\ n = p \o q
    BY <2>1, Cut
  <2>3. buf'[side] = b \o p /\ net'[side] = q
    BY <1>1, <1>4 DEF SocketInv, TypeOK
  <2>4. in[side] = a \o b \o n
    BY <1>4, AccountIs DEF Account
  <2>5. in[side] = a \o (b \o p) \o q
    <3> HIDE DEF a, b, n, p, q
    <3>1. a \in Seq(Bytes) /\ b \in Seq(Bytes) /\ p \in Seq(Bytes) /\ q \in Seq(Bytes)
      BY <2>1, <2>2
    <3>2. a \o b \in Seq(Bytes) /\ (a \o b) \o p = a \o (b \o p)
      BY <3>1, Grouping, Zenon
    <3>3. (a \o b) \o (p \o q) = ((a \o b) \o p) \o q
      BY <3>1, <3>2, Grouping, Zenon
    <3> QED
      BY <2>2, <2>4, <3>2, <3>3, Zenon
  <2>6. Account(side)' = (in[side] = a \o buf'[side] \o net'[side])
    BY <1>2, <1>3, <1>4 DEF Account
  <2> QED
    BY <2>3, <2>5, <2>6
<1>6. ASSUME NEW o \in Ends, o # side PROVE Account(o)'
  <2>1. net'[o] = net[o] /\ buf'[o] = buf[o]
    BY <1>1, <1>6 DEF SocketInv, TypeOK
  <2>2. Account(o)
    BY AccountIs
  <2> QED
    BY <1>2, <1>3, <2>1, <2>2, AccountKept
<1> QED
  BY <1>2, <1>5, <1>6 DEF BytesConserved, Account, LineFrom

(* What is buffered becomes the line, whole or cut and with stale bytes    *)
(* after it.                                                               *)
LEMMA BytesRead ==
  ASSUME SocketInv, BytesConserved, pc = "read", buf' = [buf EXCEPT ![side] = <<>>],
         Sent(line') = buf[side], UNCHANGED <<kind, in, out, side, held, net>>
  PROVE  BytesConserved'
<1>1. side \in Ends
  BY DEF SocketInv, TypeOK
<1>2. line = <<>> /\ \A e \in Ends : held[e] = <<>>
  BY DEF SocketInv, Stages
<1>3. Account(side)'
  <2> DEFINE a == Sent(out[Other(side)])
             b == buf[side]
  <2>1. a \in Seq(Bytes) /\ b \in Seq(Bytes)
    BY <1>1, Parts
  <2>2. /\ LineFrom(side) = <<>> /\ LineFrom(side)' = b /\ held[side] = <<>>
        /\ buf'[side] = <<>> /\ Other(side)' = Other(side)
    BY <1>1, <1>2, SentEmpty DEF LineFrom, Other, SocketInv, TypeOK
  <2>3. in[side] = a \o <<>> \o <<>> \o b \o net[side]
    BY <1>1, <2>2, AccountIs DEF Account
  <2>4. in[side] = a \o b \o <<>> \o <<>> \o net[side]
    <3> HIDE DEF a, b
    <3>1. a \o <<>> = a /\ (a \o b) \o <<>> = a \o b
      BY <2>1, ConcatProperties, Nothing
    <3> QED
      BY <2>3, <3>1
  <2> QED
    BY <2>2, <2>4 DEF Account
<1>4. ASSUME NEW o \in Ends, o # side PROVE Account(o)'
  <2>1. buf'[o] = buf[o] /\ LineFrom(o)' = LineFrom(o) /\ Account(o)
    BY <1>4, AccountIs DEF LineFrom, SocketInv, TypeOK
  <2> QED
    BY <2>1, AccountKept
<1> QED
  BY <1>3, <1>4 DEF BytesConserved, Account, LineFrom

(* The line is written, and the other end is read from next. *)
LEMMA BytesWrite ==
  ASSUME SocketInv, BytesConserved, Write
  PROVE  BytesConserved'
<1>1. /\ UNCHANGED <<kind, in, held, buf, net>> /\ line' = <<>>
      /\ out' = [out EXCEPT ![Other(side)] = @ \o line] /\ side \in Ends
  BY DEF Write, copyVars, SocketInv, TypeOK
<1>2. PICK e \in Ends : e = side
  BY <1>1
<1>3. ASSUME NEW o \in Ends PROVE LineFrom(o)' = <<>> /\ Other(o)' = Other(o)
  BY <1>1, SentEmpty DEF LineFrom, Other
<1>4. Account(e)'
  <2> DEFINE a == Sent(out[Other(e)])
             l == Sent(line)
  <2>1. /\ a \in Seq(Bytes) /\ l \in Seq(Bytes) /\ line \in Seq(All)
        /\ out[Other(e)] \in Seq(All) /\ Other(e) \in Ends /\ LineFrom(e) = l
    BY <1>2, Parts DEF LineFrom
  <2>2. out'[Other(e)] = out[Other(e)] \o line
    BY <1>1, <1>2, <2>1 DEF SocketInv, TypeOK
  <2>3. Sent(out'[Other(e)]) = a \o l
    BY <2>1, <2>2, SentConcat
  <2>4. (a \o l) \o <<>> = a \o l
    <3> HIDE DEF a, l
    <3> QED
      BY <2>1, ConcatProperties, Nothing
  <2>5. in[e] = a \o l \o held[e] \o buf[e] \o net[e]
    BY <2>1, AccountIs DEF Account
  <2>6. Account(e)' = (in'[e] = Sent(out'[Other(e)]) \o <<>>
                                  \o held'[e] \o buf'[e] \o net'[e])
    BY <1>3 DEF Account
  <2> QED
    BY <1>1, <2>3, <2>4, <2>5, <2>6
<1>5. ASSUME NEW o \in Ends, o # e PROVE Account(o)'
  <2>1. Other(o) # Other(side) /\ Other(o) \in Ends
    BY <1>1, <1>2, <1>5, OtherDiffers
  <2>2. out'[Other(o)] = out[Other(o)]
    BY <1>1, <2>1 DEF SocketInv, TypeOK
  <2>3. LineFrom(o)' = LineFrom(o) /\ Account(o)
    BY <1>2, <1>3, <1>5, AccountIs DEF LineFrom
  <2> QED
    BY <1>1, <2>2, <2>3, AccountKept
<1> QED
  BY <1>4, <1>5 DEF BytesConserved, Account, LineFrom

(* Every step keeps the account of both ends. *)
LEMMA BytesStep ==
  ASSUME SocketInv, BytesConserved, [Next]_vars
  PROVE  BytesConserved'
<1> USE DEF copyVars, lineVars
<1>1. ASSUME UNCHANGED <<kind, in, out, side, line, held, buf, net>> PROVE BytesConserved'
  BY <1>1 DEF BytesConserved, Other
<1>2. CASE DialOK \/ DialFails \/ Return \/ ServerCloses \/ WaitDone
  BY <1>1, <1>2 DEF DialOK, DialFails, Return, ServerCloses, WaitDone
<1>3. CASE SelectDone \/ SelectDefault \/ PeekTimeout \/ PeekFails
  BY <1>1, <1>3 DEF SelectDone, SelectDefault, PeekTimeout, PeekFails, Fatal, Goto
<1>4. CASE ReadFails \/ ReadTooLong \/ ReadPipelined \/ WriteFails
  BY <1>1, <1>4 DEF ReadFails, ReadTooLong, ReadPipelined, WriteFails, Goto, Fatal
<1>5. CASE Fill
  BY <1>5, BytesFill
<1>6. CASE ReadPartial
  <2>1. pc = "read" /\ UNCHANGED <<kind, in, out, side, held, net>>
    BY <1>6 DEF ReadPartial
  <2>2. PICK k \in 1..2 :
          IF Len(buf[side]) + k <= MaxLine
          THEN /\ line' = buf[side] \o [i \in 1..k |-> Stale]
               /\ buf' = [buf EXCEPT ![side] = <<>>] /\ pc' = "write"
          ELSE /\ pc' = "panicked" /\ UNCHANGED <<line, buf>>
    BY <1>6 DEF ReadPartial
  <2>3. CASE UNCHANGED <<line, buf>>
    BY <1>1, <2>1, <2>3
  <2>4. CASE /\ line' = buf[side] \o [i \in 1..k |-> Stale]
             /\ buf' = [buf EXCEPT ![side] = <<>>]
    <3>1. buf[side] \in Seq(Bytes)
      BY DEF SocketInv, TypeOK
    <3>2. buf[side] \in Seq(All)
      BY <3>1, SeqMonotonic DEF All
    <3>3. Sent(line') = buf[side]
      BY <2>4, <3>1, <3>2, SentStale, SentBytes
    <3> QED
      BY <2>1, <2>4, <3>3, BytesRead
  <2> QED
    BY <2>2, <2>3, <2>4
<1>7. CASE ReadWhole
  <2>1. /\ pc = "read" /\ buf' = [buf EXCEPT ![side] = <<>>] /\ line' = buf[side]
        /\ UNCHANGED <<kind, in, out, side, held, net>>
    BY <1>7 DEF ReadWhole
  <2>2. buf[side] \in Seq(Bytes)
    BY DEF SocketInv, TypeOK
  <2>3. Sent(line') = buf[side]
    BY <2>1, <2>2, SentBytes
  <2> QED
    BY <2>1, <2>3, BytesRead
<1>8. CASE Write
  BY <1>8, BytesWrite
<1>9. ASSUME NEW e \in Ends, PeerSends(e) PROVE BytesConserved'
  BY <1>9, BytesPeerSends
<1>10. ASSUME NEW e \in Ends, PeerEnds(e) \/ CopyReadEnds(e) \/ CopyCancel(e)
       PROVE  BytesConserved'
  BY <1>1, <1>10 DEF PeerEnds, CopyReadEnds, CopyCancel
<1>11. ASSUME NEW e \in Ends, CopyRead(e) PROVE BytesConserved'
  BY <1>11, BytesCopyRead
<1>12. ASSUME NEW e \in Ends, CopyWrite(e) \/ CopyWriteFails(e) PROVE BytesConserved'
  <2>1. Len(held[e]) \in Nat
    BY LenProperties DEF SocketInv, TypeOK
  <2>2. PICK k \in 0..Len(held[e]) : Pass(e, k)
    BY <1>12, <2>1 DEF CopyWrite, CopyWriteFails
  <2>3. kind \notin ByLine
    BY <1>12 DEF CopyWrite, CopyWriteFails, SocketInv, Stages
  <2>4. UNCHANGED <<kind, in, net, side, line, buf>>
    BY <1>12 DEF CopyWrite, CopyWriteFails
  <2> QED
    BY <2>2, <2>3, <2>4, BytesPass
<1>13. CASE Cancel \/ Ended \/ UNCHANGED vars
  BY <1>1, <1>13 DEF Cancel, Ended, vars
<1> QED
  BY <1>2, <1>3, <1>4, <1>5, <1>6, <1>7, <1>8, <1>9, <1>10, <1>11, <1>12, <1>13
     DEF Next, HandlerNext, CopyNext

(* However the reads are cut, every byte that an end has sent is, once and *)
(* in order, among what was sent on, in the line, the copy or the buffer   *)
(* of the handler, or not yet read (handler.go:101-134, copy.go:10-26).    *)
THEOREM NoByteIsLost == Spec => []BytesConserved
<1>1. Init => SocketInv /\ BytesConserved
  BY InitHolds
<1>2. SocketInv /\ BytesConserved /\ [Next]_vars => (SocketInv /\ BytesConserved)'
  BY SocketStep, BytesStep
<1> QED
  BY <1>1, <1>2, PTL DEF Spec

=============================================================================
