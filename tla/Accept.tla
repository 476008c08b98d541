------------------------------- MODULE Accept -------------------------------
(***************************************************************************)
(* Content negotiation (src/httpx/accept.go, media.go): what the items of  *)
(* an Accept or Accept-Encoding field mean, their order, and the choice    *)
(* among what a server offers.  A token is a number, in the order of the   *)
(* strings; a coding is a media type without a subtype.                    *)
(***************************************************************************)
EXTENDS Integers, Sequences, SequencesExt

Star == 0   \* the token "*"
NoSub == 0  \* the subtype of a coding

(* What the value of a parameter q may be, times ten.  ParseFloat knows    *)
(* nan and inf, and takes a number that is too large for inf; any other    *)
(* text counts as zero.  Any other parameter is called p.                  *)
Qs == {"q=0", "q=0.5", "q=1", "q=x", "q=inf", "q=nan"}
Inf == 100
NaN == -1
q(p) == CASE p = "q=1" -> 10 [] p = "q=0.5" -> 5 [] p = "q=inf" -> Inf [] p = "q=nan" -> NaN
          [] OTHER -> 0

(* The operator > of floating point numbers; NaN is above and below none. *)
Above(x, y) == x # NaN /\ y # NaN /\ x > y

(* An item of a field, before it is parsed: what is no media range or      *)
(* coding at all is not ok.                                                *)
RawItem(t, s, ps) == [ok |-> TRUE, typ |-> t, sub |-> s, params |-> ps]
Malformed == [ok |-> FALSE, typ |-> Star, sub |-> NoSub, params |-> <<>>]

(* The items, before and after they are parsed, and the media types that a *)
(* server offers.                                                          *)
RawItems == [ok : BOOLEAN, typ : Nat, sub : Nat, params : Seq(STRING)]
Items == [typ : Nat, sub : Nat, q : {0, 5, 10, Inf, NaN}, n : Int]
MediaTypes == [ok : BOOLEAN, typ : Nat, sub : Nat]

(* The parameters after q are extensions, another q included. *)
ParseAcceptItem(raw) ==
  LET i == SelectInSeq(raw.params, LAMBDA p : p \in Qs)
  IN  [typ |-> raw.typ, sub |-> raw.sub,
       q |-> IF i = 0 THEN 10 ELSE q(raw.params[i]),
       n |-> Len(raw.params) - (IF i = 0 THEN 0 ELSE 1)]

(* A coding has no other parameter than q. *)
CodingOK(raw) ==
  raw.ok /\ (raw.params = <<>> \/ (Len(raw.params) = 1 /\ raw.params[1] \in Qs))

mediaTypeLess(t1, t2) ==
  t1 # t2 /\ t1 # Star /\ (t2 = Star \/ t1 < t2)

(* Which of two items with the same quality is the more specific. *)
Narrower(a, b) ==
  IF a.typ = b.typ /\ a.sub = b.sub THEN a.n > b.n
  ELSE IF a.typ # b.typ THEN mediaTypeLess(a.typ, b.typ)
  ELSE mediaTypeLess(a.sub, b.sub)

(* Mutant: the lowest quality comes first. *)
LessByLowest(a, b) == Above(b.q, a.q) \/ (~Above(a.q, b.q) /\ Narrower(a, b))

(* Accept.Less.  An item whose quality is NaN is compared as if the        *)
(* qualities were equal.                                                   *)
Less(a, b) == Above(a.q, b.q) \/ (~Above(b.q, a.q) /\ Narrower(a, b))

(* AcceptEncoding.Less.  NaN is not even equal to itself. *)
LessCoding(a, b) ==
  Above(a.q, b.q) \/ (a.q = b.q /\ a.q # NaN /\ mediaTypeLess(a.typ, b.typ))

(* The items of s in any order. *)
Orders(s) ==
  {[i \in DOMAIN s |-> s[f[i]]] : f \in
     {g \in [DOMAIN s -> DOMAIN s] : \A i, j \in DOMAIN s : g[i] = g[j] => i = j}}

HasNaN(items) == \E i \in DOMAIN items : items[i].q = NaN

(* External: sort.Sort is not stable, any order that its Less allows may   *)
(* come out.  Less is no order when there is a NaN, and then sort.Sort     *)
(* promises nothing.                                                       *)
Sorted(s) ==
  {t \in Orders(s) : HasNaN(s) \/ \A i, j \in DOMAIN s : i < j => ~Less(t[j], t[i])}
SortedCodings(s) ==
  {t \in Orders(s) : HasNaN(s) \/ \A i, j \in DOMAIN s : i < j => ~LessCoding(t[j], t[i])}

(* The loop of ParseAccept and ParseAcceptEncoding stops at the first item *)
(* that is malformed, with the ones before it.                             *)
ItemsBefore(raws, bad) ==
  [i \in 1..((IF bad = {} THEN Len(raws) + 1 ELSE Min(bad)) - 1) |-> ParseAcceptItem(raws[i])]

(* They are sorted only if there is none. *)
ParseAccept(raws) ==
  LET bad == {i \in DOMAIN raws : ~raws[i].ok}
      items == ItemsBefore(raws, bad)
  IN  IF bad = {} THEN Sorted(items) ELSE {items}

ParseAcceptEncoding(raws) ==
  LET bad == {i \in DOMAIN raws : ~CodingOK(raws[i])}
      items == ItemsBefore(raws, bad)
  IN  IF bad = {} THEN SortedCodings(items) ELSE {items}

(* MediaType.Contains. *)
MediaContains(t, t2) == t.typ = Star \/ (t.typ = t2.typ /\ (t.sub = Star \/ t.sub = t2.sub))

(* hits are the pairs of an item and an offer that match: the first item   *)
(* that has one, then its first offer; else default.                       *)
FirstMatch(hits, offers, default) ==
  IF hits = {} THEN default
  ELSE LET first == Min({h[1] : h \in hits})
       IN  offers[Min({h[2] : h \in {g \in hits : g[1] = first}})]

(* A string that is no media type, the empty one included. *)
NoType == [ok |-> FALSE, typ |-> 0, sub |-> 0]

(* Accept.Negotiate: an offer that is no media type is not looked at. *)
Negotiate(items, types) ==
  FirstMatch({h \in (DOMAIN items) \X (DOMAIN types) :
                types[h[2]].ok /\ MediaContains(items[h[1]], types[h[2]])},
             types, IF types = <<>> THEN NoType ELSE types[1])

NoCoding == -1

(* Mutant: the server's preference decides. *)
NegotiateEncodingByOffer(items, codings) ==
  LET ks == {k \in DOMAIN codings : \E i \in DOMAIN items : items[i].typ = codings[k]}
  IN  IF ks = {} THEN NoCoding ELSE codings[Min(ks)]

(* AcceptEncoding.Negotiate: there is no wildcard. *)
NegotiateEncoding(items, codings) ==
  FirstMatch({h \in (DOMAIN items) \X (DOMAIN codings) : items[h[1]].typ = codings[h[2]]},
             codings, NoCoding)
=============================================================================
