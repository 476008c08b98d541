------------------------------- MODULE Forward -------------------------------
(***************************************************************************)
(* What a ReverseProxy makes of the header of a request before it sends it *)
(* on (src/httpx/proxy.go, proto.go).  A header gives every field its      *)
(* lines, and a line is a list of elements; a field without a line is      *)
(* absent.  An element of Forwarded is a record, with "" for what it does  *)
(* not say, and an address is a host and a port.                           *)
(***************************************************************************)
EXTENDS Integers, Sequences, SequencesExt

XForwarded == {"X-Forwarded-For", "X-Forwarded-By", "X-Forwarded-Port", "X-Forwarded-Proto"}

(* Keep-Alive stands for the others that deleteHopFields lists. *)
Hop == {"Connection", "Keep-Alive", "Upgrade"}

Fields == Hop \cup XForwarded \cup {"Forwarded", "Via", "Other"}

(* No element of a list is empty, but what it does not say is. *)
Words == STRING \ {""}
Texts == Words \cup {""}
Elements == [proto : Texts, for : Texts \X Texts, by : Texts]
Lines(f) == Seq(Seq(IF f = "Forwarded" THEN Elements ELSE Words))
IsHeader(h) == h = [f \in Fields |-> h[f]] /\ \A f \in Fields : h[f] \in Lines(f)

(* Header.Get, Header.Set, Header.Del: the first line of a field, a field  *)
(* of one line, a set of fields less.                                      *)
Get(h, f) == IF h[f] = <<>> THEN <<>> ELSE h[f][1]
Put(h, f, line) == [h EXCEPT ![f] = <<line>>]
Del(h, fs) == [f \in Fields |-> IF f \in fs THEN <<>> ELSE h[f]]

(* The values of all lines of a field. *)
Values(h, f) == UNION {Range(h[f][i]) : i \in DOMAIN h[f]}

(* Mutant: what the Connection field names is passed on. *)
deleteHopFieldsListed(h) == Del(h, Hop)

deleteHopFields(h) == Del(h, Hop \cup (Values(h, "Connection") \ {"close"}))

(* The one value of a field, "" without it. *)
Text(h, f) == IF Get(h, f) = <<>> THEN "" ELSE Get(h, f)[1]

Element(proto, host, port, by) ==
  [proto |-> proto, for |-> <<host, port>>, by |-> by]

(* A list of addresses is translated without the other fields. *)
translateXForwarded(h) ==
  LET for == Get(h, "X-Forwarded-For")
      one == Element(Text(h, "X-Forwarded-Proto"), Text(h, "X-Forwarded-For"),
                     Text(h, "X-Forwarded-Port"), Text(h, "X-Forwarded-By"))
      line == IF Len(for) > 1 THEN [i \in DOMAIN for |-> Element("", for[i], "", "")]
              ELSE IF one = Element("", "", "", "") THEN <<>> ELSE <<one>>
      rest == Del(h, XForwarded)
  IN  IF line = <<>> THEN rest ELSE Put(rest, "Forwarded", line)

(* The other lines of the field are lost. *)
addHeaderValue(h, f, e) == Put(h, f, Append(Get(h, f), e))

(* connectionUpgrade of the request that was received. *)
Upgrades(h) == "Upgrade" \in Values(h, "Connection") /\ Get(h, "Upgrade") # <<>>

(* The header of outreq, for a request from one host to another. *)
Outgoing(h, from, at) ==
  LET own    == deleteHopFields(h)
      known  == IF own["Forwarded"] = <<>> THEN translateXForwarded(own) ELSE own
      listed == addHeaderValue(known, "Forwarded", Element("http", from, "", at))
      marked == addHeaderValue(listed, "Via", at)
  IN  IF ~Upgrades(h) THEN marked
      ELSE Put(Put(marked, "Connection", <<"Upgrade">>), "Upgrade", Get(h, "Upgrade"))
=============================================================================
