--------------------------- MODULE UnixConnProofs ---------------------------
(***************************************************************************)
(* Proofs of the safety of the hand-over of connections from one process   *)
(* to another, for any number of connections and tables of any size.  The  *)
(* inductive invariant is FDInv.                                           *)
(***************************************************************************)
EXTENDS UnixConn, FiniteSetTheorems, WellFoundedInduction, TLAPS

-----------------------------------------------------------------------------
(* The tables of descriptors. *)

(* The lowest free number is free. *)
LEMMA MinIsFree ==
  ASSUME NEW p \in Procs, Free(p) # {}
  PROVE  Min(Free(p)) \in Fds(p) /\ tab[p][Min(Free(p))] = None
<1>1. Free(p) \subseteq Nat
  BY UnixAssumption DEF Free, Fds
<1> DEFINE Less == {ss \in Nat \X Nat : ss[1] < ss[2]}
<1>2. IsWellFoundedOn(Less, Nat)
  BY NatLessThanWellFounded DEF OpToRel
<1>3. \A x, y \in Nat : <<y, x>> \in Less <=> y < x
  OBVIOUS
<1> HIDE DEF Less
<1>4. PICK x \in Free(p) : \A y \in Free(p) : ~(<<y, x>> \in Less)
  BY <1>1, <1>2, WFMin
<1>5. ASSUME NEW y \in Free(p)
      PROVE  x <= y
  <2>1. x \in Nat /\ y \in Nat
    BY <1>1
  <2>2. ~(y < x)
    BY <1>3, <1>4, <2>1
  <2> QED
    BY <2>1, <2>2
<1>6. Min(Free(p)) \in Free(p)
  BY <1>5 DEF Min
<1> QED
  BY <1>6 DEF Free

(* Opening takes the lowest free number and leaves the others alone. *)
LEMMA OpenFacts ==
  ASSUME TypeOK, NEW p \in Procs, Free(p) # {}, NEW c, Open(p, c)
  PROVE  /\ Min(Free(p)) \in Fds(p) /\ tab[p][Min(Free(p))] = None
         /\ tab'[p] = [tab[p] EXCEPT ![Min(Free(p))] = c]
         /\ \A q \in Procs : q # p => tab'[q] = tab[q]
         /\ tab' = [q \in Procs |-> tab'[q]]
<1>1. tab = [q \in Procs |-> tab[q]]
  BY DEF TypeOK
<1> QED
  BY <1>1, MinIsFree DEF Open

(* Closing frees the number of an object that is open, and no other. *)
LEMMA CloseFacts ==
  ASSUME TypeOK, NEW p \in Procs, NEW o, Close(p, o)
  PROVE  /\ tab'[p] = IF o.open THEN [tab[p] EXCEPT ![o.fd] = None] ELSE tab[p]
         /\ \A q \in Procs : q # p => tab'[q] = tab[q]
         /\ tab' = [q \in Procs |-> tab'[q]]
<1>1. tab = [q \in Procs |-> tab[q]]
  BY DEF TypeOK
<1> QED
  BY <1>1 DEF Close

-----------------------------------------------------------------------------
(* The objects of S.  Owned is OneOwnerS for any table and any two kinds   *)
(* of objects.                                                             *)
Owned(t, a, b) ==
  /\ \A n \in Fds("S") : t[n] # None => Owns(a[t[n]], n) \/ Owns(b[t[n]], n)
  /\ \A c \in Conns :
       /\ a[c].open => a[c].fd \in Fds("S") /\ t[a[c].fd] = c
       /\ b[c].open => b[c].fd \in Fds("S") /\ t[b[c].fd] = c
       /\ a[c].open /\ b[c].open => a[c].fd # b[c].fd

(* The connections and the files of S may change places. *)
LEMMA OwnedIsOneOwner ==
  /\ OneOwnerS <=> Owned(tab["S"], conn, file)
  /\ OneOwnerS <=> Owned(tab["S"], file, conn)
BY DEF OneOwnerS, Owned

(* In the table t and the objects a the free number n gets an owner. *)
Taken(t, a, u, d, c, n) ==
  /\ c \in Conns /\ ~a[c].open /\ n \in Fds("S") /\ t[n] = None
  /\ u[n] = c /\ \A k \in Fds("S") : k # n => u[k] = t[k]
  /\ Owns(d[c], n) /\ \A e \in Conns : e # c => d[e] = a[e]

(* A free number has no owner, so that its new owner is the only one. *)
LEMMA Acquire ==
  ASSUME NEW t, NEW u, NEW a, NEW b, NEW d, NEW c, NEW n,
         t \in [Fds("S") -> Conns \cup {None}], Owned(t, a, b), Taken(t, a, u, d, c, n)
  PROVE  Owned(u, d, b)
<1>1. c # None
  BY UnixAssumption DEF None, Taken
<1>2. /\ u[n] = c /\ \A k \in Fds("S") : k # n => u[k] = t[k]
      /\ d[c].open /\ d[c].fd = n /\ \A e \in Conns : e # c => d[e] = a[e]
      /\ ~a[c].open /\ n \in Fds("S") /\ t[n] = None /\ c \in Conns
  BY DEF Owns, Taken
<1>3. ASSUME NEW k \in Fds("S"), u[k] # None
      PROVE  Owns(d[u[k]], k) \/ Owns(b[u[k]], k)
  <2>1. CASE k = n
    BY <1>2, <2>1 DEF Owns
  <2>2. CASE k # n
    BY <1>2, <1>3, <2>2 DEF Owned, Owns
  <2> QED
    BY <2>1, <2>2
<1>4. ASSUME NEW e \in Conns
      PROVE  /\ d[e].open => d[e].fd \in Fds("S") /\ u[d[e].fd] = e
             /\ b[e].open => b[e].fd \in Fds("S") /\ u[b[e].fd] = e
             /\ d[e].open /\ b[e].open => d[e].fd # b[e].fd
  <2>1. a[e].open => a[e].fd \in Fds("S") /\ t[a[e].fd] = e /\ a[e].fd # n
    BY <1>1, <1>2, UnixAssumption DEF Owned, None
  <2>2. b[e].open => b[e].fd \in Fds("S") /\ t[b[e].fd] = e /\ b[e].fd # n
    BY <1>1, <1>2, UnixAssumption DEF Owned, None
  <2>3. CASE e = c
    BY <1>2, <2>2, <2>3
  <2>4. CASE e # c
    BY <1>2, <2>1, <2>2, <2>4 DEF Owned
  <2> QED
    BY <2>3, <2>4
<1> QED
  BY <1>3, <1>4 DEF Owned

(* An object that is closed gives up its number, if it had one. *)
LEMMA Release ==
  ASSUME NEW t \in [Fds("S") -> Conns \cup {None}],
         NEW a \in [Conns -> Object], NEW b \in [Conns -> Object], Owned(t, a, b),
         NEW c \in Conns, NEW o \in Object, ~o.open,
         NEW u, u = IF a[c].open THEN [t EXCEPT ![a[c].fd] = None] ELSE t,
         NEW d, d = [a EXCEPT ![c] = o]
  PROVE  Owned(u, d, b)
<1>1. a[c].open => a[c].fd \in Fds("S") /\ t[a[c].fd] = c
  BY DEF Owned
<1>2. /\ \A k \in Fds("S") : u[k] # None => u[k] = t[k] /\ ~Owns(a[c], k)
      /\ \A k \in Fds("S") : ~Owns(a[c], k) => u[k] = t[k]
      /\ ~d[c].open /\ \A e \in Conns : e # c => d[e] = a[e]
  BY <1>1 DEF Owns
<1>3. ASSUME NEW k \in Fds("S"), u[k] # None
      PROVE  Owns(d[u[k]], k) \/ Owns(b[u[k]], k)
  BY <1>2, <1>3 DEF Owned, Owns
<1>4. ASSUME NEW e \in Conns
      PROVE  /\ d[e].open => d[e].fd \in Fds("S") /\ u[d[e].fd] = e
             /\ b[e].open => b[e].fd \in Fds("S") /\ u[b[e].fd] = e
             /\ d[e].open /\ b[e].open => d[e].fd # b[e].fd
  <2>1. b[e].open => b[e].fd \in Fds("S") /\ t[b[e].fd] = e /\ ~Owns(a[c], b[e].fd)
    BY <1>1 DEF Owned, Owns
  <2>2. e # c /\ a[e].open => a[e].fd \in Fds("S") /\ t[a[e].fd] = e /\ ~Owns(a[c], a[e].fd)
    BY <1>1 DEF Owned, Owns
  <2> QED
    BY <1>2, <2>1, <2>2 DEF Owned
<1> QED
  BY <1>3, <1>4 DEF Owned

-----------------------------------------------------------------------------
(* The steps of S. *)

Table == tab = [p \in Procs |-> tab[p]]

STypes ==
  /\ tab["S"] \in [Fds("S") -> Conns \cup {None}]
  /\ conn \in [Conns -> Object] /\ file \in [Conns -> Object]
  /\ closed \in [Conns -> BOOLEAN] /\ err \in [Conns -> BOOLEAN]
  /\ panicked \in [Conns -> BOOLEAN]
  /\ pc \in [Conns -> Pc] /\ sent \in [Conns -> Nat]

RTypes ==
  /\ tab["R"] \in [Fds("R") -> Conns \cup {Extra} \cup {None}]
  /\ rpc \in RPc /\ rfile \in Object /\ rconn \in [Conns \cup {Extra} -> Object]

SocketTypes == socket \in [Procs -> {"open", "closed"}] /\ queue \in Seq(Messages)

(* The type invariant is the conjunction of the groups. *)
LEMMA TypeSplits == TypeOK <=> Table /\ STypes /\ RTypes /\ SocketTypes
BY DEF TypeOK, Table, STypes, RTypes, SocketTypes

(* What SendStages says of one connection. *)
Stage(c) ==
  /\ file[c].open => pc[c] \in {"send", "closeFile", "deferred"}
  /\ conn[c].open => pc[c] \notin {"accept", "done"}
  /\ pc[c] \in {"accept", "handler", "file", "send"} =>
       sent[c] = 0 /\ ~err[c] /\ ~panicked[c]
  /\ pc[c] \in {"closeFile", "closeConn"} =>
       sent[c] = 1 /\ ~err[c] /\ ~panicked[c]
  /\ pc[c] \in {"deferred", "server", "done"} =>
       \/ sent[c] = 1 /\ ~err[c] /\ ~panicked[c]
       \/ sent[c] = 0 /\ (err[c] \/ closed[c] \/ panicked[c])

(* The goroutine of c changes what is of c. *)
LEMMA StageFrame ==
  ASSUME SendStages, NEW c \in Conns, Stage(c)',
         \A e \in Conns : e # c => UNCHANGED <<conn[e], file[e], pc[e], sent[e], err[e],
                                                closed[e], panicked[e]>>
  PROVE  SendStages'
<1> SUFFICES ASSUME NEW e \in Conns PROVE Stage(e)'
  BY DEF SendStages, Stage
<1>1. CASE e # c
  BY <1>1 DEF SendStages, Stage
<1> QED
  BY <1>1

(* Opening and closing keep one owner for every number. *)
LEMMA AcquireConn ==
  ASSUME TypeOK, OneOwnerS, NEW c \in Conns, ~conn[c].open, Free("S") # {}, Open("S", c),
         conn' = [conn EXCEPT ![c] = New(Min(Free("S")))], file' = file
  PROVE  /\ OneOwnerS' /\ tab'["S"] \in [Fds("S") -> Conns \cup {None}]
         /\ conn' \in [Conns -> Object] /\ Table' /\ tab'["R"] = tab["R"]
<1> DEFINE n == Min(Free("S"))
<1>1. /\ n \in Fds("S") /\ tab["S"][n] = None
      /\ tab'["S"] = [tab["S"] EXCEPT ![n] = c] /\ tab'["R"] = tab["R"] /\ Table'
  BY OpenFacts DEF Procs, Table
<1>2. tab["S"] \in [Fds("S") -> Conns \cup {None}] /\ conn \in [Conns -> Object]
      /\ file \in [Conns -> Object]
  BY DEF TypeOK
<1>3. New(n) \in Object /\ New(n).open /\ New(n).fd = n
  BY <1>1, UnixAssumption DEF New, Object, Fds, Procs
<1>4. Owned(tab["S"], conn, file)
  BY OwnedIsOneOwner
<1>5. conn' = [conn EXCEPT ![c] = New(n)]
  OBVIOUS
<1> HIDE DEF n
<1>6. Taken(tab["S"], conn, tab'["S"], conn', c, n)
  BY <1>1, <1>2, <1>3, <1>5 DEF Owns, Taken
<1>7. Owned(tab'["S"], conn', file)
  BY <1>2, <1>4, <1>6, Acquire
<1>8. OneOwnerS'
  BY <1>7 DEF OneOwnerS, Owned
<1> QED
  BY <1>1, <1>2, <1>3, <1>5, <1>8

(* File duplicates the descriptor of a connection. *)
LEMMA AcquireFile ==
  ASSUME TypeOK, OneOwnerS, NEW c \in Conns, ~file[c].open, Free("S") # {}, Open("S", c),
         file' = [file EXCEPT ![c] = New(Min(Free("S")))], conn' = conn
  PROVE  /\ OneOwnerS' /\ tab'["S"] \in [Fds("S") -> Conns \cup {None}]
         /\ file' \in [Conns -> Object] /\ Table' /\ tab'["R"] = tab["R"]
<1> DEFINE n == Min(Free("S"))
<1>1. /\ n \in Fds("S") /\ tab["S"][n] = None
      /\ tab'["S"] = [tab["S"] EXCEPT ![n] = c] /\ tab'["R"] = tab["R"] /\ Table'
  BY OpenFacts DEF Procs, Table
<1>2. tab["S"] \in [Fds("S") -> Conns \cup {None}] /\ conn \in [Conns -> Object]
      /\ file \in [Conns -> Object]
  BY DEF TypeOK
<1>3. New(n) \in Object /\ New(n).open /\ New(n).fd = n
  BY <1>1, UnixAssumption DEF New, Object, Fds, Procs
<1>4. Owned(tab["S"], file, conn)
  BY OwnedIsOneOwner
<1>5. file' = [file EXCEPT ![c] = New(n)]
  OBVIOUS
<1> HIDE DEF n
<1>6. Taken(tab["S"], file, tab'["S"], file', c, n)
  BY <1>1, <1>2, <1>3, <1>5 DEF Owns, Taken
<1>7. Owned(tab'["S"], file', conn)
  BY <1>2, <1>4, <1>6, Acquire
<1>8. OneOwnerS'
  BY <1>7 DEF OneOwnerS, Owned
<1> QED
  BY <1>1, <1>2, <1>3, <1>5, <1>8

(* The connection is closed. *)
LEMMA ReleaseConn ==
  ASSUME TypeOK, OneOwnerS, NEW c \in Conns, Close("S", conn[c]),
         NEW o \in Object, ~o.open, conn' = [conn EXCEPT ![c] = o], file' = file
  PROVE  /\ OneOwnerS' /\ tab'["S"] \in [Fds("S") -> Conns \cup {None}]
         /\ conn' \in [Conns -> Object] /\ Table' /\ tab'["R"] = tab["R"]
<1>1. /\ tab'["S"] = IF conn[c].open THEN [tab["S"] EXCEPT ![conn[c].fd] = None] ELSE tab["S"]
      /\ tab'["R"] = tab["R"] /\ Table'
  BY CloseFacts DEF Procs, Table
<1>2. tab["S"] \in [Fds("S") -> Conns \cup {None}] /\ conn \in [Conns -> Object]
      /\ file \in [Conns -> Object]
  BY DEF TypeOK
<1>3. Owned(tab["S"], conn, file)
  BY OwnedIsOneOwner
<1>4. Owned(tab'["S"], conn', file)
  BY <1>1, <1>2, <1>3, Release
<1>5. OneOwnerS'
  BY <1>4 DEF OneOwnerS, Owned
<1> QED
  BY <1>1, <1>2, <1>5

(* The duplicate is closed. *)
LEMMA ReleaseFile ==
  ASSUME TypeOK, OneOwnerS, NEW c \in Conns, Close("S", file[c]),
         NEW o \in Object, ~o.open, file' = [file EXCEPT ![c] = o], conn' = conn
  PROVE  /\ OneOwnerS' /\ tab'["S"] \in [Fds("S") -> Conns \cup {None}]
         /\ file' \in [Conns -> Object] /\ Table' /\ tab'["R"] = tab["R"]
<1>1. /\ tab'["S"] = IF file[c].open THEN [tab["S"] EXCEPT ![file[c].fd] = None] ELSE tab["S"]
      /\ tab'["R"] = tab["R"] /\ Table'
  BY CloseFacts DEF Procs, Table
<1>2. tab["S"] \in [Fds("S") -> Conns \cup {None}] /\ conn \in [Conns -> Object]
      /\ file \in [Conns -> Object]
  BY DEF TypeOK
<1>3. Owned(tab["S"], file, conn)
  BY OwnedIsOneOwner
<1>4. Owned(tab'["S"], file', conn)
  BY <1>1, <1>2, <1>3, Release
<1>5. OneOwnerS'
  BY <1>4 DEF OneOwnerS, Owned
<1> QED
  BY <1>1, <1>2, <1>5

(* An object that was shut is not open. *)
LEMMA ShutFacts ==
  ASSUME NEW o \in Object
  PROVE  Shut(o) \in Object /\ ~Shut(o).open /\ Nil \in Object /\ ~Nil.open
BY DEF Shut, Object, Nil

(* The part of the invariant that is about S. *)
SPart == Table /\ STypes /\ OneOwnerS /\ SendStages

(* What an action of S does, for the connection c. *)
SAction(c) ==
  \/ Accept(c) \/ HandlerIOFails(c) \/ HandlerCloses(c) \/ HandlerReturns(c)
  \/ HandlerPanics(c) \/ SendStep(c)

(* Every step of the goroutine of c, and of its handler, keeps the part of *)
(* S.                                                                      *)
LEMMA SendKeeps ==
  ASSUME FDInv, NEW c \in Conns, SAction(c)
  PROVE  SPart' /\ tab'["R"] = tab["R"] /\ UNCHANGED recvVars
<1>1. TypeOK /\ OneOwnerS /\ SendStages /\ Table /\ STypes
  BY TypeSplits DEF FDInv
<1>2. Stage(c)
  BY <1>1 DEF SendStages, Stage
<1>3. \A o \in Object : Shut(o) \in Object /\ ~Shut(o).open /\ Nil \in Object /\ ~Nil.open
  BY ShutFacts
<1>4. CASE Accept(c)
  <2>1. /\ OneOwnerS' /\ tab'["S"] \in [Fds("S") -> Conns \cup {None}]
        /\ conn' \in [Conns -> Object] /\ Table' /\ tab'["R"] = tab["R"]
    <3>1. ~conn[c].open
      BY <1>4, <1>1, <1>2 DEF Accept, Stage
    <3> QED
      BY <1>4, <1>1, <3>1, AcquireConn DEF Accept
  <2>2. STypes' /\ UNCHANGED recvVars
    BY <1>4, <1>1, <2>1 DEF Accept, STypes, Goto, Pc
  <2>3. Stage(c)'
    BY <1>4, <1>1, <1>2, <1>3 DEF Accept, STypes, Goto, Stage, New
  <2>4. SendStages'
    BY <1>4, <1>1, <2>3, StageFrame DEF Accept, STypes, Goto
  <2> QED
    BY <2>1, <2>2, <2>4 DEF SPart
<1>5. CASE HandlerIOFails(c)
  <2>1. /\ STypes' /\ UNCHANGED <<tab, conn, file, recvVars>>
    BY <1>5, <1>1 DEF HandlerIOFails, STypes, Goto, Pc
  <2>2. OneOwnerS' /\ Table' /\ tab'["R"] = tab["R"]
    BY <1>1, <2>1 DEF OneOwnerS, Table
  <2>3. Stage(c)'
    BY <1>5, <1>1, <1>2 DEF HandlerIOFails, STypes, Goto, Stage
  <2>4. SendStages'
    BY <1>5, <1>1, <2>3, StageFrame DEF HandlerIOFails, STypes, Goto
  <2> QED
    BY <2>1, <2>2, <2>4 DEF SPart
<1>6. CASE HandlerCloses(c)
  <2>1. /\ OneOwnerS' /\ tab'["S"] \in [Fds("S") -> Conns \cup {None}]
        /\ conn' \in [Conns -> Object] /\ Table' /\ tab'["R"] = tab["R"]
    <3>1. conn[c] \in Object /\ conn' = [conn EXCEPT ![c] = Shut(conn[c])]
      BY <1>6, <1>1 DEF HandlerCloses, STypes
    <3> QED
      BY <1>6, <1>1, <1>3, <3>1, ReleaseConn DEF HandlerCloses
  <2>2. STypes' /\ UNCHANGED recvVars
    BY <1>6, <1>1, <2>1 DEF HandlerCloses, STypes, Goto, Pc
  <2>3. Stage(c)'
    BY <1>6, <1>1, <1>2, <1>3 DEF HandlerCloses, STypes, Goto, Stage, New
  <2>4. SendStages'
    BY <1>6, <1>1, <2>3, StageFrame DEF HandlerCloses, STypes, Goto
  <2> QED
    BY <2>1, <2>2, <2>4 DEF SPart
<1>7. CASE HandlerReturns(c)
  <2>1. /\ STypes' /\ UNCHANGED <<tab, conn, file, recvVars>>
    BY <1>7, <1>1 DEF HandlerReturns, STypes, Goto, Pc
  <2>2. OneOwnerS' /\ Table' /\ tab'["R"] = tab["R"]
    BY <1>1, <2>1 DEF OneOwnerS, Table
  <2>3. Stage(c)'
    BY <1>7, <1>1, <1>2 DEF HandlerReturns, STypes, Goto, Stage
  <2>4. SendStages'
    BY <1>7, <1>1, <2>3, StageFrame DEF HandlerReturns, STypes, Goto
  <2> QED
    BY <2>1, <2>2, <2>4 DEF SPart
<1>p. CASE HandlerPanics(c)
  <2>1. /\ STypes' /\ UNCHANGED <<tab, conn, file, recvVars>>
    BY <1>p, <1>1 DEF HandlerPanics, STypes, Goto, Pc
  <2>2. OneOwnerS' /\ Table' /\ tab'["R"] = tab["R"]
    BY <1>1, <2>1 DEF OneOwnerS, Table
  <2>3. Stage(c)'
    BY <1>p, <1>1, <1>2 DEF HandlerPanics, STypes, Goto, Stage
  <2>4. SendStages'
    BY <1>p, <1>1, <2>3, StageFrame DEF HandlerPanics, STypes, Goto
  <2> QED
    BY <2>1, <2>2, <2>4 DEF SPart
<1>8. CASE File(c)
  <2>1. /\ OneOwnerS' /\ tab'["S"] \in [Fds("S") -> Conns \cup {None}]
        /\ file' \in [Conns -> Object] /\ Table' /\ tab'["R"] = tab["R"]
    <3>1. ~file[c].open
      BY <1>8, <1>1, <1>2 DEF File, Stage
    <3> QED
      BY <1>8, <1>1, <3>1, AcquireFile DEF File
  <2>2. STypes' /\ UNCHANGED recvVars
    BY <1>8, <1>1, <2>1 DEF File, STypes, Goto, Pc
  <2>3. Stage(c)'
    BY <1>8, <1>1, <1>2, <1>3 DEF File, STypes, Goto, Stage, New
  <2>4. SendStages'
    BY <1>8, <1>1, <2>3, StageFrame DEF File, STypes, Goto
  <2> QED
    BY <2>1, <2>2, <2>4 DEF SPart
<1>9. CASE FileFails(c)
  <2>1. /\ STypes' /\ UNCHANGED <<tab, conn, file, recvVars>>
    BY <1>9, <1>1 DEF FileFails, STypes, Goto, Pc
  <2>2. OneOwnerS' /\ Table' /\ tab'["R"] = tab["R"]
    BY <1>1, <2>1 DEF OneOwnerS, Table
  <2>3. Stage(c)'
    BY <1>9, <1>1, <1>2 DEF FileFails, STypes, Goto, Stage
  <2>4. SendStages'
    BY <1>9, <1>1, <2>3, StageFrame DEF FileFails, STypes, Goto
  <2> QED
    BY <2>1, <2>2, <2>4 DEF SPart
<1>10. CASE WriteMsg(c)
  <2>1. /\ STypes' /\ UNCHANGED <<tab, conn, file, recvVars>>
    BY <1>10, <1>1 DEF WriteMsg, STypes, Goto, Pc
  <2>2. OneOwnerS' /\ Table' /\ tab'["R"] = tab["R"]
    BY <1>1, <2>1 DEF OneOwnerS, Table
  <2>3. Stage(c)'
    BY <1>10, <1>1, <1>2 DEF WriteMsg, STypes, Goto, Stage
  <2>4. SendStages'
    BY <1>10, <1>1, <2>3, StageFrame DEF WriteMsg, STypes, Goto
  <2> QED
    BY <2>1, <2>2, <2>4 DEF SPart
<1>11. CASE WriteMsgFails(c)
  <2>1. /\ STypes' /\ UNCHANGED <<tab, conn, file, recvVars>>
    BY <1>11, <1>1 DEF WriteMsgFails, STypes, Goto, Pc
  <2>2. OneOwnerS' /\ Table' /\ tab'["R"] = tab["R"]
    BY <1>1, <2>1 DEF OneOwnerS, Table
  <2>3. Stage(c)'
    BY <1>11, <1>1, <1>2 DEF WriteMsgFails, STypes, Goto, Stage
  <2>4. SendStages'
    BY <1>11, <1>1, <2>3, StageFrame DEF WriteMsgFails, STypes, Goto
  <2> QED
    BY <2>1, <2>2, <2>4 DEF SPart
<1>12. CASE CloseFile(c)
  <2>1. /\ OneOwnerS' /\ tab'["S"] \in [Fds("S") -> Conns \cup {None}]
        /\ file' \in [Conns -> Object] /\ Table' /\ tab'["R"] = tab["R"]
    <3>1. file[c] \in Object /\ file' = [file EXCEPT ![c] = Shut(file[c])]
      BY <1>12, <1>1 DEF CloseFile, STypes
    <3> QED
      BY <1>12, <1>1, <1>3, <3>1, ReleaseFile DEF CloseFile
  <2>2. STypes' /\ UNCHANGED recvVars
    BY <1>12, <1>1, <2>1 DEF CloseFile, STypes, Goto, Pc
  <2>3. Stage(c)'
    BY <1>12, <1>1, <1>2, <1>3 DEF CloseFile, STypes, Goto, Stage, New
  <2>4. SendStages'
    BY <1>12, <1>1, <2>3, StageFrame DEF CloseFile, STypes, Goto
  <2> QED
    BY <2>1, <2>2, <2>4 DEF SPart
<1>13. CASE CloseConn(c)
  <2>1. /\ OneOwnerS' /\ tab'["S"] \in [Fds("S") -> Conns \cup {None}]
        /\ conn' \in [Conns -> Object] /\ Table' /\ tab'["R"] = tab["R"]
    <3>1. conn[c] \in Object /\ conn' = [conn EXCEPT ![c] = Shut(conn[c])]
      BY <1>13, <1>1 DEF CloseConn, STypes
    <3> QED
      BY <1>13, <1>1, <1>3, <3>1, ReleaseConn DEF CloseConn
  <2>2. STypes' /\ UNCHANGED recvVars
    BY <1>13, <1>1, <2>1 DEF CloseConn, STypes, Goto, Pc
  <2>3. Stage(c)'
    BY <1>13, <1>1, <1>2, <1>3 DEF CloseConn, STypes, Goto, Stage, New
  <2>4. SendStages'
    BY <1>13, <1>1, <2>3, StageFrame DEF CloseConn, STypes, Goto
  <2> QED
    BY <2>1, <2>2, <2>4 DEF SPart
<1>14. CASE Deferred(c)
  <2>1. /\ OneOwnerS' /\ tab'["S"] \in [Fds("S") -> Conns \cup {None}]
        /\ file' \in [Conns -> Object] /\ Table' /\ tab'["R"] = tab["R"]
    <3>1. file[c] \in Object /\ file' = [file EXCEPT ![c] = Shut(file[c])]
      BY <1>14, <1>1 DEF Deferred, STypes
    <3> QED
      BY <1>14, <1>1, <1>3, <3>1, ReleaseFile DEF Deferred
  <2>2. STypes' /\ UNCHANGED recvVars
    BY <1>14, <1>1, <2>1 DEF Deferred, STypes, Goto, Pc
  <2>3. Stage(c)'
    BY <1>14, <1>1, <1>2, <1>3 DEF Deferred, STypes, Goto, Stage, New
  <2>4. SendStages'
    BY <1>14, <1>1, <2>3, StageFrame DEF Deferred, STypes, Goto
  <2> QED
    BY <2>1, <2>2, <2>4 DEF SPart
<1>15. CASE ServerCloses(c)
  <2>1. ~file[c].open
    BY <1>15, <1>1, <1>2 DEF ServerCloses, Stage
  <2>2. /\ conn' = [conn EXCEPT ![c] = Nil] /\ file' = [file EXCEPT ![c] = Nil]
        /\ tab["S"] \in [Fds("S") -> Conns \cup {None}]
        /\ conn \in [Conns -> Object] /\ file \in [Conns -> Object]
        /\ conn' \in [Conns -> Object] /\ file' \in [Conns -> Object]
        /\ Nil \in Object /\ ~Nil.open
    BY <1>15, <1>1, <2>1 DEF ServerCloses, STypes, Nil, Object
  <2>3. /\ tab'["S"] = IF conn[c].open THEN [tab["S"] EXCEPT ![conn[c].fd] = None] ELSE tab["S"]
        /\ tab'["R"] = tab["R"] /\ Table'
    BY <1>15, <1>1, CloseFacts DEF ServerCloses, Procs, Table
  <2>4. tab'["S"] \in [Fds("S") -> Conns \cup {None}]
    BY <2>2, <2>3
  <2>5. Owned(tab["S"], conn, file)
    BY <1>1, OwnedIsOneOwner
  <2>6. Owned(tab'["S"], conn', file)
    BY <2>2, <2>3, <2>5, Release
  <2>7. Owned(tab'["S"], file, conn')
    BY <2>6 DEF Owned
  <2>8. Owned(tab'["S"], file', conn')
    BY <2>1, <2>2, <2>4, <2>7, Release
  <2>9. OneOwnerS'
    BY <2>8 DEF Owned, OneOwnerS
  <2>10. STypes' /\ UNCHANGED recvVars
    BY <1>15, <1>1, <2>2, <2>4 DEF ServerCloses, STypes, Goto, Pc
  <2>11. Stage(c)'
    BY <1>15, <1>1, <1>2, <2>2 DEF ServerCloses, STypes, Goto, Stage
  <2>12. SendStages'
    BY <1>15, <1>1, <2>11, StageFrame DEF ServerCloses, STypes, Goto
  <2> QED
    BY <2>3, <2>9, <2>10, <2>12 DEF SPart
<1> QED
  BY <1>4, <1>5, <1>6, <1>7, <1>p, <1>8, <1>9, <1>10, <1>11, <1>12, <1>13, <1>14, <1>15
     DEF SAction, SendStep

-----------------------------------------------------------------------------
(* The messages in the socket. *)

(* What InTransit says of a queue q, the connections g that R has, and the *)
(* history s.                                                              *)
Carried(q, g, s) ==
  /\ \A i \in DOMAIN q : \A c \in Range(q[i]) :
       /\ c \notin g
       /\ \A j \in DOMAIN q : c \in Range(q[j]) => i = j
  /\ \A c \in Conns : s[c] = 0 =>
       /\ c \notin g
       /\ \A i \in DOMAIN q : c \notin Range(q[i])

Holding ==
  /\ rfile.open <=> rpc \in {"fileConn", "deferred"}
  /\ rpc = "fileConn" => ~rconn[Received].open

(* InTransit, with what R holds apart from what the socket carries. *)
LEMMA TransitSplits == InTransit <=> Holding /\ Carried(queue, Range(tab["R"]), sent)
BY DEF InTransit, Holding, Carried

(* The connections of a message. *)
LEMMA Ranges ==
  /\ \A c : Range(<<c>>) = {c}
  /\ Range(<<>>) = {} /\ Range(<<Extra, Extra>>) = {Extra}
  /\ \A m \in Messages : Range(m) \subseteq Conns \cup {Extra}
<1>1. \A c : Range(<<c>>) = {c}
  BY DEF Range
<1>2. Range(<<>>) = {}
  BY DEF Range
<1>3. Range(<<Extra, Extra>>) = {Extra}
  BY DEF Range
<1>4. \A m \in Messages : Range(m) \subseteq Conns \cup {Extra}
  BY <1>1, <1>2, <1>3 DEF Messages, Others
<1> QED
  BY <1>1, <1>2, <1>3, <1>4

(* R gets nothing. *)
LEMMA CarriedLess ==
  ASSUME NEW q \in Seq(Messages), NEW g, NEW s, Carried(q, g, s),
         NEW h, h \subseteq g \cup {None}
  PROVE  Carried(q, h, s)
<1>1. \A i \in DOMAIN q : None \notin Range(q[i])
  BY Ranges, UnixAssumption DEF None
<1>2. None \notin Conns
  BY UnixAssumption DEF None
<1> QED
  BY <1>1, <1>2 DEF Carried

(* R gets what is in the first message, or nothing. *)
LEMMA CarriedTail ==
  ASSUME NEW q \in Seq(Messages), q # <<>>, NEW g, NEW s, Carried(q, g, s),
         NEW h, h \subseteq g \cup Range(Head(q))
  PROVE  Carried(Tail(q), h, s)
<1>1. /\ \A i \in DOMAIN Tail(q) : i + 1 \in DOMAIN q /\ Tail(q)[i] = q[i + 1] /\ i + 1 # 1 /\ i \in Int
      /\ 1 \in DOMAIN q /\ Head(q) = q[1]
  OBVIOUS
<1> DEFINE r == Tail(q)
<1> HIDE DEF r
<1>2. ASSUME NEW i \in DOMAIN r, NEW c \in Range(r[i])
      PROVE  /\ c \notin h
             /\ \A j \in DOMAIN r : c \in Range(r[j]) => i = j
  <2>1. i + 1 \in DOMAIN q /\ c \in Range(q[i + 1]) /\ i + 1 # 1 /\ i \in Int
    BY <1>1, <1>2 DEF r
  <2>2. c \notin g /\ c \notin Range(q[1])
    BY <1>1, <2>1 DEF Carried
  <2>3. ASSUME NEW j \in DOMAIN r, c \in Range(r[j])
        PROVE  i = j
    <3>1. j + 1 \in DOMAIN q /\ c \in Range(q[j + 1]) /\ j \in Int
      BY <1>1, <2>3 DEF r
    <3>2. i + 1 = j + 1
      BY <2>1, <3>1 DEF Carried
    <3> QED
      BY <2>1, <3>1, <3>2
  <2> QED
    BY <1>1, <2>2, <2>3
<1>3. ASSUME NEW c \in Conns, s[c] = 0
      PROVE  c \notin h /\ \A i \in DOMAIN r : c \notin Range(r[i])
  BY <1>1, <1>3 DEF Carried, r
<1> QED
  BY <1>2, <1>3 DEF Carried, r

(* A connection is sent for the first time. *)
LEMMA CarriedAppend ==
  ASSUME NEW q \in Seq(Messages), NEW g, NEW s \in [Conns -> Nat], Carried(q, g, s),
         NEW c \in Conns, s[c] = 0
  PROVE  Carried(Append(q, <<c>>), g, [s EXCEPT ![c] = @ + 1])
<1> DEFINE r == Append(q, <<c>>)
           t == [s EXCEPT ![c] = @ + 1]
<1>1. \A i \in DOMAIN r : \/ i \in DOMAIN q /\ r[i] = q[i]
                          \/ i = Len(q) + 1 /\ Range(r[i]) = {c}
  BY Ranges
<1>2. \A e \in Conns : t[e] = 0 => s[e] = 0 /\ e # c
  OBVIOUS
<1> HIDE DEF r, t
<1>3. ASSUME NEW i \in DOMAIN r, NEW e \in Range(r[i])
      PROVE  /\ e \notin g
             /\ \A j \in DOMAIN r : e \in Range(r[j]) => i = j
  <2>1. c \notin g /\ \A k \in DOMAIN q : c \notin Range(q[k])
    BY DEF Carried
  <2> QED
    BY <1>1, <1>3, <2>1 DEF Carried
<1>4. ASSUME NEW e \in Conns, t[e] = 0
      PROVE  e \notin g /\ \A i \in DOMAIN r : e \notin Range(r[i])
  BY <1>1, <1>2, <1>4 DEF Carried
<1>5. Carried(r, g, t)
  BY <1>3, <1>4 DEF Carried
<1> QED
  BY <1>5 DEF r, t

(* A message of another program carries no connection of ours. *)
LEMMA CarriedOther ==
  ASSUME NEW g, NEW s, Carried(<<>>, g, s), NEW m \in Others, Extra \notin g
  PROVE  Carried(<<m>>, g, s)
<1>1. Range(m) \subseteq {Extra}
  BY Ranges DEF Others
<1>2. \A i \in DOMAIN <<m>> : i = 1 /\ <<m>>[i] = m
  OBVIOUS
<1> QED
  BY <1>1, <1>2, UnixAssumption DEF Carried

(* The messages of a socket that nobody can read any more are dropped. *)
LEMMA CarriedNothing ==
  ASSUME NEW q, NEW g, NEW s, Carried(q, g, s)
  PROVE  Carried(<<>>, g, s)
BY DEF Carried

(* The number that the kernel takes for the only descriptor of a message   *)
(* is free, and the connection behind it is one of the message.            *)
LEMMA ReceivedIsSent ==
  ASSUME TypeOK, queue # <<>>, Cardinality(Numbers) = 1, NEW n, n = CHOOSE k \in Numbers : TRUE
  PROVE  /\ n \in Fds("R") /\ tab["R"][n] = None
         /\ Head(queue)[Nth(n)] \in Range(Head(queue))
<1>1. NFds["R"] \in Nat /\ Fds("R") = 0..(NFds["R"] - 1)
  BY UnixAssumption DEF Fds, Procs
<1>2. IsFiniteSet(Fds("R")) /\ Fds("R") \subseteq Int
  BY <1>1, FS_Interval
<1>3. Free("R") \in SUBSET Fds("R") /\ Numbers \in SUBSET Fds("R")
  BY DEF Free, Numbers
<1>4. IsFiniteSet(Numbers)
  BY <1>2, <1>3, FS_Subset
<1>5. Numbers # {}
  BY <1>4, FS_EmptySet
<1>6. n \in Numbers
  BY <1>5
<1>7. n \in Free("R") /\ n \in Int
  BY <1>2, <1>3, <1>6 DEF Numbers
<1> DEFINE Lower == {k \in Free("R") : k < n}
<1>8. Cardinality(Lower) < Len(Head(queue))
  BY <1>6 DEF Numbers
<1>9. {k \in Free("R") : k <= n} = Lower \cup {n} /\ n \notin Lower
  <2>1. \A k \in Free("R") : k <= n <=> k < n \/ k = n
    <3>1. \A k, l \in Int : k <= l <=> k < l \/ k = l
      OBVIOUS
    <3>2. Free("R") \subseteq Int
      BY <1>2, <1>3
    <3> QED
      BY <1>7, <3>1, <3>2
  <2>2. n \notin Lower
    BY <1>7
  <2>3. \A k : k \in {x \in Free("R") : x <= n} <=> k \in Lower \cup {n}
    BY <1>7, <2>1
  <2> QED
    BY <2>2, <2>3
<1>10. Lower \in SUBSET Fds("R")
  BY <1>3
<1> HIDE DEF Lower
<1>11. IsFiniteSet(Lower)
  BY <1>2, <1>10, FS_Subset
<1>12. Cardinality(Lower) \in Nat
  BY <1>11, FS_CardinalityType
<1>13. Nth(n) = Cardinality(Lower) + 1
  BY <1>9, <1>11, FS_AddElement DEF Nth
<1>14. Head(queue) \in Messages
  BY DEF TypeOK
<1>15. Head(queue) \in Seq(Conns \cup {Extra})
  <2>1. <<>> \in Seq(Conns \cup {Extra}) /\ <<Extra, Extra>> \in Seq(Conns \cup {Extra})
    OBVIOUS
  <2>2. \A c \in Conns : <<c>> \in Seq(Conns \cup {Extra})
    OBVIOUS
  <2> QED
    BY <1>14, <2>1, <2>2 DEF Messages, Others
<1>16. Nth(n) \in DOMAIN Head(queue)
  BY <1>8, <1>12, <1>13, <1>15
<1> QED
  BY <1>3, <1>7, <1>16 DEF Range, Free

-----------------------------------------------------------------------------
(* The steps of R and of the socket. *)

RPart == RTypes /\ OneOwnerR /\ Holding

(* RecvUnixFile: the descriptor of the message gets the lowest free number *)
(* of R, or is lost.                                                       *)
LEMMA RecvFileKeeps ==
  ASSUME FDInv, RecvFile
  PROVE  /\ Table' /\ RPart' /\ SocketTypes' /\ tab'["S"] = tab["S"]
         /\ Carried(queue, Range(tab["R"]), sent)'
<1>1. TypeOK /\ OneOwnerR /\ Table /\ RTypes /\ SocketTypes
  BY TypeSplits DEF FDInv
<1>2. Holding /\ Carried(queue, Range(tab["R"]), sent) /\ ~rfile.open
  BY TransitSplits DEF FDInv, RecvFile, Holding
<1>3. queue \in Seq(Messages) /\ queue # <<>> /\ queue' = Tail(queue) /\ queue' \in Seq(Messages)
  BY <1>1 DEF RecvFile, SocketTypes
<1>4. SocketTypes'
  BY <1>1, <1>3 DEF RecvFile, SocketTypes
<1>5. CASE Cardinality(Numbers) = 1
  <2> DEFINE n == CHOOSE k \in Numbers : TRUE
             h == Head(queue)[Nth(n)]
  <2>1. /\ tab' = [tab EXCEPT !["R"][n] = h] /\ rfile' = New(n) /\ rpc' = "fileConn"
        /\ UNCHANGED <<sent, rconn>>
    BY <1>5 DEF RecvFile, sendVars
  <2>2. n \in Fds("R") /\ tab["R"][n] = None /\ h \in Range(Head(queue))
    BY <1>1, <1>3, <1>5, ReceivedIsSent
  <2>3. Head(queue) \in Messages /\ 1 \in DOMAIN queue /\ Head(queue) = queue[1]
    BY <1>3
  <2>4. h \in Conns \cup {Extra} /\ h # None /\ h \notin Range(tab["R"])
    BY <1>2, <2>2, <2>3, Ranges, UnixAssumption DEF None, Carried
  <2> HIDE DEF n, h
  <2>5. /\ tab'["R"] = [tab["R"] EXCEPT ![n] = h] /\ tab'["S"] = tab["S"]
        /\ tab["R"] \in [Fds("R") -> Conns \cup {Extra} \cup {None}] /\ Table'
    BY <1>1, <2>1 DEF Table, Procs, RTypes
  <2>6. New(n) \in Object /\ New(n).open /\ New(n).fd = n
    BY <2>2, UnixAssumption DEF New, Object, Fds, Procs
  <2>7. RTypes'
    BY <1>1, <2>1, <2>2, <2>4, <2>5, <2>6 DEF RTypes, RPc
  <2>8. Received' = h
    BY <2>1, <2>2, <2>5, <2>6 DEF Received
  <2>9. ~rconn[h].open
    BY <1>1, <2>4 DEF OneOwnerR, RTypes, Range
  <2>10. Holding'
    BY <2>1, <2>6, <2>8, <2>9 DEF Holding
  <2>11. /\ tab'["R"][n] = h /\ \A k \in Fds("R") : k # n => tab'["R"][k] = tab["R"][k]
    BY <2>2, <2>5
  <2>12. OneOwnerR'
    <3>1. ASSUME NEW k \in Fds("R"), tab'["R"][k] # None
          PROVE  Owns(rfile', k) \/ Owns(rconn'[tab'["R"][k]], k)
      <4>1. CASE k = n
        BY <2>1, <2>6, <4>1 DEF Owns
      <4>2. CASE k # n
        BY <1>1, <1>2, <2>1, <2>11, <3>1, <4>2 DEF OneOwnerR, Owns
      <4> QED
        BY <4>1, <4>2
    <3>2. ASSUME NEW c \in Conns \cup {Extra}, rconn'[c].open
          PROVE  rconn'[c].fd \in Fds("R") /\ tab'["R"][rconn'[c].fd] = c /\ rconn'[c].fd # n
      <4>1. c # None
        BY UnixAssumption DEF None
      <4> QED
        BY <1>1, <2>1, <2>2, <2>11, <3>2, <4>1 DEF OneOwnerR
    <3> QED
      BY <2>1, <2>2, <2>4, <2>6, <2>8, <3>1, <3>2 DEF OneOwnerR
  <2>13. Range(tab'["R"]) \subseteq Range(tab["R"]) \cup Range(Head(queue))
    BY <2>2, <2>5 DEF Range
  <2>14. Carried(Tail(queue), Range(tab'["R"]), sent)
    BY <1>2, <1>3, <2>13, CarriedTail
  <2> QED
    BY <1>3, <1>4, <2>1, <2>5, <2>7, <2>10, <2>12, <2>14 DEF RPart
<1>6. CASE Cardinality(Numbers) # 1
  <2>1. UNCHANGED <<tab, rfile, rconn, sent>> /\ rpc' = "failed"
    BY <1>6 DEF RecvFile, sendVars
  <2>2. RTypes' /\ Table' /\ OneOwnerR' /\ Holding'
    BY <1>1, <1>2, <2>1 DEF RTypes, Table, OneOwnerR, Holding, Received, RPc
  <2>3. Carried(Tail(queue), Range(tab["R"]), sent)
    BY <1>2, <1>3, CarriedTail
  <2> QED
    BY <1>3, <1>4, <2>1, <2>2, <2>3 DEF RPart
<1> QED
  BY <1>5, <1>6

(* net.FileConn duplicates what was received. *)
LEMMA FileConnKeeps ==
  ASSUME FDInv, FileConn
  PROVE  /\ Table' /\ RPart' /\ tab'["S"] = tab["S"]
         /\ Range(tab'["R"]) \subseteq Range(tab["R"])
<1>1. TypeOK /\ OneOwnerR /\ Table /\ RTypes /\ Holding
  BY TypeSplits, TransitSplits DEF FDInv
<1> DEFINE n == Min(Free("R"))
           h == Received
<1>2. /\ n \in Fds("R") /\ tab["R"][n] = None
      /\ tab'["R"] = [tab["R"] EXCEPT ![n] = h] /\ tab'["S"] = tab["S"] /\ Table'
  BY <1>1, OpenFacts DEF FileConn, Procs, Table
<1>3. rpc = "fileConn" /\ rpc' = "deferred" /\ rfile' = rfile /\ rconn' = [rconn EXCEPT ![h] = New(n)]
  BY DEF FileConn
<1>4. rfile.open /\ ~rconn[h].open /\ rfile.fd \in Fds("R") /\ h # None /\ h = tab["R"][rfile.fd]
  BY <1>1, <1>3 DEF Holding, OneOwnerR, Received
<1> HIDE DEF n, h
<1>5. h \in Conns \cup {Extra} /\ rfile.fd # n /\ tab["R"] \in [Fds("R") -> Conns \cup {Extra} \cup {None}]
  BY <1>1, <1>2, <1>4 DEF RTypes
<1>6. New(n) \in Object /\ New(n).open /\ New(n).fd = n
  BY <1>2, UnixAssumption DEF New, Object, Fds, Procs
<1>7. RTypes'
  BY <1>1, <1>2, <1>3, <1>5, <1>6 DEF RTypes, RPc
<1>8. /\ tab'["R"][n] = h /\ \A k \in Fds("R") : k # n => tab'["R"][k] = tab["R"][k]
  BY <1>2, <1>5
<1>9. rconn'[h] = New(n) /\ \A c \in Conns \cup {Extra} : c # h => rconn'[c] = rconn[c]
  BY <1>1, <1>3, <1>5 DEF RTypes
<1>10. Received' = h
  BY <1>3, <1>4, <1>5, <1>8 DEF Received
<1>11. Holding'
  BY <1>3, <1>4 DEF Holding
<1>12. OneOwnerR'
  <2>1. ASSUME NEW k \in Fds("R"), tab'["R"][k] # None
        PROVE  Owns(rfile', k) \/ Owns(rconn'[tab'["R"][k]], k)
    <3>1. CASE k = n
      BY <1>6, <1>8, <1>9, <3>1 DEF Owns
    <3>2. CASE k # n
      <4>1. tab["R"][k] # None /\ tab'["R"][k] = tab["R"][k] /\ tab["R"][k] \in Conns \cup {Extra}
        BY <1>5, <1>8, <2>1, <3>2
      <4>2. Owns(rfile, k) \/ Owns(rconn[tab["R"][k]], k)
        BY <1>1, <4>1 DEF OneOwnerR
      <4> QED
        BY <1>3, <1>4, <1>9, <4>1, <4>2 DEF Owns
    <3> QED
      BY <3>1, <3>2
  <2>2. ASSUME NEW c \in Conns \cup {Extra}, rconn'[c].open
        PROVE  /\ rconn'[c].fd \in Fds("R") /\ tab'["R"][rconn'[c].fd] = c
               /\ rfile'.open => rconn'[c].fd # rfile'.fd
    <3>1. CASE c = h
      BY <1>2, <1>3, <1>5, <1>6, <1>8, <1>9, <3>1
    <3>2. CASE c # h
      <4>1. c # None
        BY UnixAssumption DEF None
      <4>2. rconn[c].open /\ rconn'[c] = rconn[c]
        BY <1>9, <2>2, <3>2
      <4>3. rconn[c].fd \in Fds("R") /\ tab["R"][rconn[c].fd] = c /\ rconn[c].fd # rfile.fd
        BY <1>1, <1>4, <4>2 DEF OneOwnerR
      <4> QED
        BY <1>2, <1>3, <1>8, <4>1, <4>2, <4>3
    <3> QED
      BY <3>1, <3>2
  <2> QED
    BY <1>3, <1>4, <1>10, <2>1, <2>2 DEF OneOwnerR
<1>13. Range(tab'["R"]) \subseteq Range(tab["R"])
  BY <1>2, <1>4, <1>5 DEF Range
<1> QED
  BY <1>2, <1>7, <1>11, <1>12, <1>13 DEF RPart

(* The deferred Close of the file that was received. *)
LEMMA RecvDeferredKeeps ==
  ASSUME FDInv, RecvDeferred
  PROVE  /\ Table' /\ RPart' /\ tab'["S"] = tab["S"]
         /\ Range(tab'["R"]) \subseteq Range(tab["R"]) \cup {None}
<1>1. TypeOK /\ OneOwnerR /\ Table /\ RTypes /\ Holding
  BY TypeSplits, TransitSplits DEF FDInv
<1> DEFINE n == rfile.fd
<1>2. rpc = "deferred" /\ rpc' = "accept" /\ rfile' = Nil /\ rconn' = rconn /\ rfile.open
  BY <1>1 DEF RecvDeferred, Holding
<1>3. n \in Fds("R") /\ tab["R"] \in [Fds("R") -> Conns \cup {Extra} \cup {None}]
  BY <1>1, <1>2 DEF OneOwnerR, RTypes
<1>4. /\ tab'["R"] = [tab["R"] EXCEPT ![n] = None] /\ tab'["S"] = tab["S"] /\ Table'
  BY <1>1, <1>2, CloseFacts DEF RecvDeferred, Procs, Table
<1>5. RTypes' /\ Holding' /\ ~rfile'.open
  BY <1>1, <1>2, <1>3, <1>4 DEF RTypes, Holding, RPc, Nil, Object
<1>6. tab'["R"][n] = None /\ \A k \in Fds("R") : k # n => tab'["R"][k] = tab["R"][k]
  BY <1>3, <1>4
<1>7. OneOwnerR'
  BY <1>1, <1>2, <1>3, <1>5, <1>6 DEF OneOwnerR, Owns
<1>8. Range(tab'["R"]) \subseteq Range(tab["R"]) \cup {None}
  BY <1>3, <1>4 DEF Range
<1> QED
  BY <1>4, <1>5, <1>7, <1>8 DEF RPart

(* The server of R closes a connection. *)
LEMMA ServeEndsKeeps ==
  ASSUME FDInv, NEW c \in Conns \cup {Extra}, ServeEnds(c)
  PROVE  /\ Table' /\ RPart' /\ tab'["S"] = tab["S"]
         /\ Range(tab'["R"]) \subseteq Range(tab["R"]) \cup {None}
<1>1. TypeOK /\ OneOwnerR /\ Table /\ RTypes /\ Holding
  BY TypeSplits, TransitSplits DEF FDInv
<1> DEFINE n == rconn[c].fd
<1>2. rpc' = rpc /\ rfile' = rfile /\ rconn' = [rconn EXCEPT ![c] = Nil] /\ rconn[c].open
  BY DEF ServeEnds
<1>3. /\ n \in Fds("R") /\ tab["R"][n] = c /\ (rfile.open => n # rfile.fd)
      /\ tab["R"] \in [Fds("R") -> Conns \cup {Extra} \cup {None}]
  BY <1>1, <1>2 DEF OneOwnerR, RTypes
<1>4. /\ tab'["R"] = [tab["R"] EXCEPT ![n] = None] /\ tab'["S"] = tab["S"] /\ Table'
  BY <1>1, <1>2, CloseFacts DEF ServeEnds, Procs, Table
<1> HIDE DEF n
<1>5. tab'["R"][n] = None /\ \A k \in Fds("R") : k # n => tab'["R"][k] = tab["R"][k]
  BY <1>3, <1>4
<1>6. ~rconn'[c].open /\ \A e \in Conns \cup {Extra} : e # c => rconn'[e] = rconn[e]
  BY <1>1, <1>2 DEF RTypes, Nil
<1>7. RTypes'
  BY <1>1, <1>2, <1>3, <1>4 DEF RTypes, Nil, Object
<1>8. rfile.open => rfile.fd \in Fds("R") /\ Received # None /\ Received' = Received
  BY <1>1, <1>2, <1>3, <1>5 DEF OneOwnerR, Received
<1>9. Holding'
  <2>1. rpc = "fileConn" => rfile.open /\ ~rconn[Received].open
    BY <1>1 DEF Holding
  <2>2. rpc = "fileConn" => ~rconn'[Received'].open
    <3> SUFFICES ASSUME rpc = "fileConn" PROVE ~rconn'[Received].open
      BY <1>8, <2>1
    <3>1. Received \in Conns \cup {Extra}
      BY <1>3, <1>8, <2>1 DEF Received
    <3> QED
      BY <1>6, <2>1, <3>1
  <2> QED
    BY <1>1, <1>2, <2>2 DEF Holding
<1>10. OneOwnerR'
  <2>1. ASSUME NEW k \in Fds("R"), tab'["R"][k] # None
        PROVE  Owns(rfile', k) \/ Owns(rconn'[tab'["R"][k]], k)
    <3>1. k # n /\ tab'["R"][k] = tab["R"][k] /\ tab["R"][k] \in Conns \cup {Extra}
      BY <1>3, <1>5, <2>1
    <3>2. Owns(rfile, k) \/ Owns(rconn[tab["R"][k]], k)
      BY <1>1, <2>1, <3>1 DEF OneOwnerR
    <3>3. tab["R"][k] = c => ~Owns(rconn[c], k)
      BY <3>1 DEF Owns, n
    <3> QED
      BY <1>2, <1>6, <3>1, <3>2, <3>3
  <2>2. ASSUME NEW e \in Conns \cup {Extra}, rconn'[e].open
        PROVE  /\ rconn'[e].fd \in Fds("R") /\ tab'["R"][rconn'[e].fd] = e
               /\ rfile'.open => rconn'[e].fd # rfile'.fd
    <3>1. e # c /\ rconn'[e] = rconn[e] /\ rconn[e].open
      BY <1>6, <2>2
    <3>2. rconn[e].fd \in Fds("R") /\ tab["R"][rconn[e].fd] = e /\ rconn[e].fd # n
      BY <1>1, <1>3, <3>1 DEF OneOwnerR
    <3> QED
      BY <1>1, <1>2, <1>5, <3>1, <3>2 DEF OneOwnerR
  <2> QED
    BY <1>2, <1>8, <2>1, <2>2 DEF OneOwnerR
<1>11. Range(tab'["R"]) \subseteq Range(tab["R"]) \cup {None}
  BY <1>3, <1>4 DEF Range
<1> QED
  BY <1>4, <1>7, <1>9, <1>10, <1>11 DEF RPart

-----------------------------------------------------------------------------
Transit == Carried(queue, Range(tab["R"]), sent)

(* The invariant, as a part of S, a part of R and the socket between them. *)
LEMMA FDParts == FDInv <=> SPart /\ RPart /\ SocketTypes /\ Transit
BY TypeSplits, TransitSplits DEF FDInv, SPart, RPart, Transit

(* What has to be shown of a step. *)
LEMMA FDPartsNext ==
  ASSUME SPart', RPart', SocketTypes', Transit'
  PROVE  FDInv'
<1>1. TypeOK'
  BY DEF TypeOK, Table, STypes, RTypes, SocketTypes, SPart, RPart
<1>2. InTransit'
  BY DEF InTransit, Holding, Carried, RPart, Transit
<1> QED
  BY <1>1, <1>2 DEF FDInv, SPart, RPart

(* What S does leaves R alone, and the other way round. *)
LEMMA RFrame ==
  ASSUME RPart, tab'["R"] = tab["R"], UNCHANGED recvVars
  PROVE  RPart'
BY DEF RPart, RTypes, OneOwnerR, Holding, Received, recvVars

(* The same for S. *)
LEMMA SFrame ==
  ASSUME SPart, tab'["S"] = tab["S"], Table', UNCHANGED sendVars
  PROVE  SPart'
BY DEF SPart, STypes, OneOwnerS, SendStages, sendVars

(* Both tables are empty, and so is the socket. *)
LEMMA InitHolds == Init => FDInv
<1> SUFFICES ASSUME Init PROVE FDInv
  OBVIOUS
<1>1. /\ tab["S"] = [n \in Fds("S") |-> None] /\ tab["R"] = [n \in Fds("R") |-> None]
      /\ Table /\ queue = <<>>
  BY DEF Init, Procs, Table
<1>2. Nil \in Object /\ ~Nil.open
  BY DEF Nil, Object
<1>3. STypes
  BY <1>1, <1>2 DEF Init, STypes, Pc
<1>4. RTypes
  BY <1>1, <1>2 DEF Init, RTypes, RPc
<1>5. SocketTypes
  BY DEF Init, SocketTypes
<1>6. OneOwnerS /\ SendStages
  BY <1>1, <1>2 DEF Init, OneOwnerS, SendStages
<1>7. OneOwnerR /\ Holding
  BY <1>1, <1>2 DEF Init, OneOwnerR, Holding
<1>8. Range(tab["R"]) \subseteq {None}
  BY <1>1 DEF Range
<1>9. \A c \in Conns : c # None
  BY UnixAssumption DEF None
<1>10. Transit
  BY <1>1, <1>8, <1>9 DEF Transit, Carried
<1> QED
  BY <1>1, <1>3, <1>4, <1>5, <1>6, <1>7, <1>10, FDParts DEF SPart, RPart

(* A step of S leaves R alone and puts at most one message into the        *)
(* socket.                                                                 *)
LEMMA SendInvariance ==
  ASSUME FDInv, NEW c \in Conns, SAction(c)
  PROVE  FDInv'
<1>1. SPart /\ RPart /\ SocketTypes /\ Transit
  BY FDParts
<1>2. SPart' /\ RPart' /\ tab'["R"] = tab["R"]
  BY <1>1, SendKeeps, RFrame
<1>3. CASE WriteMsg(c)
  <2>1. /\ queue' = Append(queue, <<c>>) /\ sent' = [sent EXCEPT ![c] = @ + 1]
        /\ pc[c] = "send" /\ socket' = socket
    BY <1>3 DEF WriteMsg
  <2>2. sent[c] = 0 /\ sent \in [Conns -> Nat] /\ queue \in Seq(Messages)
    BY <1>1, <2>1 DEF SPart, SendStages, STypes, SocketTypes
  <2>3. Carried(Append(queue, <<c>>), Range(tab["R"]), [sent EXCEPT ![c] = @ + 1])
    BY <1>1, <2>2, CarriedAppend DEF Transit
  <2>4. Transit'
    BY <1>2, <2>1, <2>3 DEF Transit
  <2>5. <<c>> \in Messages
    BY DEF Messages
  <2>6. SocketTypes'
    BY <1>1, <2>1, <2>5 DEF SocketTypes
  <2> QED
    BY <1>2, <2>4, <2>6, FDPartsNext
<1>4. CASE ~WriteMsg(c)
  <2>1. UNCHANGED <<socket, queue, sent>>
    BY <1>4 DEF SAction, SendStep, Accept, HandlerIOFails, HandlerCloses, HandlerReturns, HandlerPanics, File,
               FileFails, WriteMsgFails, CloseFile, CloseConn, Deferred, ServerCloses
  <2>2. SocketTypes' /\ Transit'
    BY <1>1, <1>2, <2>1 DEF SocketTypes, Transit
  <2> QED
    BY <1>2, <2>2, FDPartsNext
<1> QED
  BY <1>3, <1>4

(* R's own steps, and what the two ends do with the socket. *)
LEMMA RecvInvariance ==
  ASSUME FDInv,
         \/ RecvStep \/ RecvClose \/ SendClose
         \/ \E m \in Others : SendOther(m)
         \/ \E c \in Conns \cup {Extra} : ServeEnds(c)
  PROVE  FDInv'
<1>1. SPart /\ RPart /\ SocketTypes /\ Transit /\ Table /\ queue \in Seq(Messages)
  BY FDParts DEF SPart, SocketTypes
<1>2. CASE RecvFile
  <2>1. UNCHANGED sendVars
    BY <1>2 DEF RecvFile
  <2> QED
    BY <1>1, <1>2, <2>1, RecvFileKeeps, SFrame, FDPartsNext DEF Transit
<1>3. ASSUME UNCHANGED <<socket, queue, sendVars>>, Table', RPart', tab'["S"] = tab["S"],
             Range(tab'["R"]) \subseteq Range(tab["R"]) \cup {None}
      PROVE  FDInv'
  <2>1. SPart' /\ SocketTypes'
    BY <1>1, <1>3, SFrame DEF SocketTypes
  <2>2. Carried(queue, Range(tab'["R"]), sent)
    BY <1>1, <1>3, CarriedLess DEF Transit
  <2>3. Transit'
    BY <1>3, <2>2 DEF Transit, sendVars
  <2> QED
    BY <1>3, <2>1, <2>3, FDPartsNext
<1>4. CASE FileConn
  BY <1>3, <1>4, FileConnKeeps DEF FileConn
<1>5. CASE RecvDeferred
  BY <1>3, <1>5, RecvDeferredKeeps DEF RecvDeferred
<1>6. CASE \E c \in Conns \cup {Extra} : ServeEnds(c)
  BY <1>3, <1>6, ServeEndsKeeps DEF ServeEnds
<1>7. CASE RecvEnds \/ FileConnFails
  <2>1. UNCHANGED <<tab, socket, queue, sendVars, rfile, rconn>>
    BY <1>7 DEF RecvEnds, FileConnFails
  <2>2. \/ rpc = "accept" /\ rpc' = "failed"
        \/ rpc = "fileConn" /\ rpc' = "deferred"
    BY <1>7 DEF RecvEnds, FileConnFails
  <2>3. RPart'
    BY <1>1, <2>1, <2>2 DEF RPart, RTypes, RPc, OneOwnerR, Holding, Received
  <2> QED
    BY <1>1, <1>3, <2>1, <2>3 DEF Table
<1>8. CASE SendClose
  <2>1. UNCHANGED <<tab, queue, sendVars, recvVars>> /\ socket' = [socket EXCEPT !["S"] = "closed"]
    BY <1>8 DEF SendClose
  <2>2. SPart' /\ RPart'
    BY <1>1, <2>1, SFrame, RFrame DEF Table
  <2>3. SocketTypes' /\ Transit'
    BY <1>1, <2>1 DEF SocketTypes, Transit, sendVars
  <2> QED
    BY <2>2, <2>3, FDPartsNext
<1>9. CASE \E m \in Others : SendOther(m)
  <2>1. PICK m \in Others : SendOther(m)
    BY <1>9
  <2>2. /\ UNCHANGED <<tab, socket, sendVars, recvVars>> /\ queue' = <<m>>
        /\ queue = <<>> /\ Extra \notin Range(tab["R"])
    BY <2>1 DEF SendOther
  <2>3. SPart' /\ RPart'
    BY <1>1, <2>2, SFrame, RFrame DEF Table
  <2>4. Carried(<<m>>, Range(tab["R"]), sent)
    BY <1>1, <2>2, CarriedOther DEF Transit
  <2>5. Transit'
    BY <2>2, <2>4 DEF Transit, sendVars
  <2>6. <<m>> \in Seq(Messages)
    BY DEF Messages
  <2>7. SocketTypes'
    BY <1>1, <2>2, <2>6 DEF SocketTypes
  <2> QED
    BY <2>3, <2>5, <2>7, FDPartsNext
<1>10. CASE RecvClose \/ Stop
  <2>1. /\ UNCHANGED <<tab, sendVars, rfile, rconn>> /\ queue' = <<>>
        /\ socket' = [socket EXCEPT !["R"] = "closed"]
        /\ rpc' = rpc \/ (rpc = "failed" /\ rpc' = "stopped")
    BY <1>10 DEF RecvClose, Stop, recvVars
  <2>2. SPart'
    BY <1>1, <2>1, SFrame DEF Table
  <2>3. RPart'
    BY <1>1, <2>1 DEF RPart, RTypes, RPc, OneOwnerR, Holding, Received
  <2>4. Carried(<<>>, Range(tab["R"]), sent)
    BY <1>1, CarriedNothing DEF Transit
  <2>5. Transit'
    BY <2>1, <2>4 DEF Transit, sendVars
  <2>6. <<>> \in Seq(Messages)
    OBVIOUS
  <2>7. SocketTypes'
    BY <1>1, <2>1, <2>6 DEF SocketTypes, Procs
  <2> QED
    BY <2>2, <2>3, <2>5, <2>7, FDPartsNext
<1> QED
  BY <1>2, <1>4, <1>5, <1>6, <1>7, <1>8, <1>9, <1>10 DEF RecvStep

(* Every descriptor in use has one owner, and no object owns a number that *)
(* is not its own, for any number of connections and tables of any size    *)
(* (unix.go:35-86): the two closes of a file cannot reach a connection     *)
(* that has taken its number in between.                                   *)
THEOREM Invariance == Spec => []FDInv
<1>1. FDInv /\ [Next]_vars => FDInv'
  <2> SUFFICES ASSUME FDInv, [Next]_vars PROVE FDInv'
    OBVIOUS
  <2>1. CASE \E c \in Conns : SAction(c)
    BY <2>1, SendInvariance
  <2>2. CASE \/ RecvStep \/ RecvClose \/ SendClose
             \/ \E m \in Others : SendOther(m)
             \/ \E c \in Conns \cup {Extra} : ServeEnds(c)
    BY <2>2, RecvInvariance
  <2>3. CASE UNCHANGED vars
    <3>1. SPart' /\ RPart'
      BY <2>3, FDParts, SFrame, RFrame DEF vars, SPart, Table
    <3>2. SocketTypes' /\ Transit'
      BY <2>3, FDParts DEF vars, SocketTypes, Transit, sendVars
    <3> QED
      BY <3>1, <3>2, FDPartsNext
  <2> QED
    BY <2>1, <2>2, <2>3 DEF Next, SAction, Ended
<1> QED
  BY <1>1, InitHolds, PTL DEF Spec

(* S keeps no descriptor of a connection that it has served, sends it once *)
(* at most and not at all when SendUnixConn fails or the handler panics,   *)
(* drops none that a handler left open when it returned, and R has only    *)
(* what was sent (unix.go:15-16, 35-49, 182-191).                          *)
THEOREM HandOverIsComplete == Spec => []HandOver
<1>1. FDInv => HandOver
  <2> SUFFICES ASSUME FDInv, NEW c \in Conns
               PROVE  /\ sent[c] <= 1 /\ (err[c] => sent[c] = 0)
                      /\ pc[c] = "done" => /\ c \notin Range(tab["S"])
                                           /\ panicked[c] \/ sent[c] = 1 \/ err[c] \/ closed[c]
                      /\ panicked[c] => sent[c] = 0
                      /\ rconn[c].open => sent[c] = 1
    BY DEF HandOver
  <2>1. Stage(c) /\ pc[c] \in Pc /\ sent[c] \in Nat /\ STypes /\ RTypes
    BY TypeSplits DEF FDInv, SendStages, Stage, STypes
  <2>2. sent[c] = 0 \/ (sent[c] = 1 /\ ~err[c] /\ ~panicked[c])
    BY <2>1 DEF Stage, Pc
  <2>3. pc[c] = "done" => panicked[c] \/ sent[c] = 1 \/ err[c] \/ closed[c]
    BY <2>1 DEF Stage
  <2>4. pc[c] = "done" => c \notin Range(tab["S"])
    <3> SUFFICES ASSUME pc[c] = "done", NEW n \in Fds("S"), tab["S"][n] = c PROVE FALSE
      BY <2>1 DEF Range, STypes
    <3>1. c # None
      BY UnixAssumption DEF None
    <3>2. Owns(conn[c], n) \/ Owns(file[c], n)
      BY <3>1 DEF FDInv, OneOwnerS
    <3> QED
      BY <2>1, <3>2 DEF Stage, Owns
  <2>5. rconn[c].open => sent[c] # 0
    <3> SUFFICES ASSUME rconn[c].open PROVE sent[c] # 0
      OBVIOUS
    <3>1. rconn[c].fd \in Fds("R") /\ tab["R"][rconn[c].fd] = c
      BY DEF FDInv, OneOwnerR
    <3>2. c \in Range(tab["R"])
      BY <2>1, <3>1 DEF Range, RTypes
    <3> QED
      BY <3>2 DEF FDInv, InTransit
  <2> QED
    BY <2>2, <2>3, <2>4, <2>5
<1> QED
  BY <1>1, Invariance, PTL
=============================================================================
