---------------------------- MODULE Negotiation -----------------------------
(***************************************************************************)
(* Requests whose header fields decide what is answered.  A handler picks  *)
(* a media type with Negotiate (src/httpx/accept.go).  A handler wrapped,  *)
(* perhaps twice, by NewEncodingHandler has its body coded for a client    *)
(* that may be an EncodingTransport (src/httpx/encoding.go).  A parameter  *)
(* of a media range is written, and read back behind a second item         *)
(* (src/httpx/quote.go, media.go).  A request passes through a chain of    *)
(* reverse proxies, which rewrite its header (src/httpx/proxy.go,          *)
(* proto.go).                                                              *)
(***************************************************************************)
EXTENDS Accept, Quote, Forward

CONSTANTS
  TypeFields,    \* Accept fields: sequences of raw items
  TypeOffers,    \* what a handler offers: sequences of media types
  CodingFields,  \* Accept-Encoding fields
  Decoders,      \* the codings of the EncodingTransport
  Layers,        \* for every EncodingHandler around the handler, its codings
  MaxParts,      \* bound on what a handler writes
  MaxText,       \* bound on the length of a parameter
  Headers,       \* the headers of requests to the first proxy
  Hosts          \* the client and the proxies on the way

ASSUME NegotiationAssumption ==
  /\ TypeFields \subseteq Seq(RawItems) /\ TypeOffers \subseteq Seq(MediaTypes)
  /\ CodingFields \subseteq Seq(RawItems)
  /\ Decoders \in Seq(Nat) /\ Layers \subseteq Seq(Seq(Nat))
  /\ MaxParts \in Nat /\ MaxText \in Nat
  /\ (\A h \in Headers : IsHeader(h)) /\ Hosts \in Seq(STRING) \ {<<>>}

VARIABLES
  mode,      \* the part of the code that this behaviour is about
  field,     \* the field as the client sends it
  pc,        \* what happens next
  types,     \* the types that the handler offers
  choice,    \* the one that Negotiate picks
  param,     \* the value of a parameter
  parsed,    \* what is read back, and what comes behind it
  transport, \* the client is an EncodingTransport
  header,    \* req.Header["Accept-Encoding"]
  layers,    \* the codings of every EncodingHandler
  layer,     \* the EncodingHandler that runs
  writer,    \* the coding of the writer of each
  stream,    \* what each writer holds; that of 0 is the response
  declared,  \* res.Header()["Content-Encoding"]
  length,    \* res.Header() has a Content-Length
  wrote,     \* how many parts the handler has written
  bodiless,  \* the answer has no body: 204, 304, or to a HEAD
  panicked,  \* the handler has panicked
  got,       \* what the client reads
  first,     \* the header of the request that the client of the proxies sent
  fields,    \* the header of the request to the next host
  hops       \* how many proxies it has passed

typeVars   == <<types, choice>>
quoteVars  == <<param, parsed>>
askVars    == <<mode, field, transport, layers>>
bodyVars   == <<stream, wrote, bodiless, panicked>>
codingVars == <<header, layer, writer, bodyVars, declared, length, got>>
hopVars    == <<first, fields, hops>>
negotiationVars == <<askVars, pc, typeVars, quoteVars, codingVars, hopVars>>

Absent == <<>>   \* no field at all, or an empty one
Pending == [ok |-> FALSE, typ |-> -1, sub |-> -1]

(* An item for every coding, as strings.Join writes them. *)
Join(codings) == [i \in DOMAIN codings |-> RawItem(codings[i], NoSub, <<>>)]

NegotiationInit ==
  /\ mode \in {"type", "coding", "quote", "hops"} /\ pc = "request"
  /\ types \in IF mode = "type" THEN TypeOffers ELSE {<<>>}
  /\ transport \in IF mode = "coding" THEN BOOLEAN ELSE {FALSE}
  /\ field \in IF mode = "type" THEN TypeFields
               ELSE IF mode = "coding" /\ ~transport THEN CodingFields
               ELSE IF mode = "coding" THEN {Join(Decoders)}
               ELSE {<<>>}
  /\ param \in IF mode = "quote" THEN BoundedSeq(Chars, MaxText) ELSE {<<>>}
  /\ layers \in IF mode = "coding" THEN Layers ELSE {<<>>}
  /\ choice = Pending /\ parsed = <<Error, <<>>>>
  /\ header = field /\ layer = 1
  /\ writer = [i \in DOMAIN layers |-> NoCoding]
  /\ stream = [i \in 0..Len(layers) |-> <<>>]
  /\ declared = NoCoding /\ length = FALSE /\ wrote = 0 /\ panicked = FALSE
  /\ bodiless \in IF mode = "coding" THEN BOOLEAN ELSE {FALSE}
  /\ got = [parts |-> <<>>, coded |-> FALSE, err |-> FALSE]
  /\ first \in IF mode = "hops" THEN Headers ELSE {[f \in Fields |-> <<>>]}
  /\ fields = first /\ hops = 0

-----------------------------------------------------------------------------
(* Negotiate, called by a handler: the error of ParseAccept is dropped. *)
NegotiateType ==
  /\ mode = "type" /\ pc = "request" /\ pc' = "done"
  /\ \E items \in ParseAccept(field) : choice' = Negotiate(items, types)
  /\ UNCHANGED <<askVars, types, quoteVars, codingVars, hopVars>>

(* A second item, which ends in a quoted string. *)
Behind == writeQuoted(<<"comma">>)

(* MediaParam.Format, and ParseAccept of what it wrote. *)
WriteAndParse ==
  /\ mode = "quote" /\ pc = "request" /\ pc' = "done"
  /\ LET cut == splitTrimOWS(Format(param) \o <<"comma", "space">> \o Behind, "comma")
     IN  parsed' = <<ParseParams(cut[1]), cut[2]>>
  /\ UNCHANGED <<askVars, typeVars, param, codingVars, hopVars>>

(* ReverseProxy.ServeHTTP, of the next proxy on the way. *)
PassOn ==
  /\ mode = "hops" /\ hops + 1 < Len(Hosts)
  /\ fields' = Outgoing(fields, Hosts[hops + 1], Hosts[hops + 2])
  /\ hops' = hops + 1
  /\ pc' = IF hops + 2 = Len(Hosts) THEN "done" ELSE pc
  /\ UNCHANGED <<askVars, typeVars, quoteVars, codingVars, first>>

-----------------------------------------------------------------------------
(* NewEncodingHandler. *)

Start ==
  /\ mode = "coding" /\ pc = "request" /\ pc' = "layer"
  /\ UNCHANGED <<askVars, typeVars, quoteVars, codingVars, hopVars>>

(* No field, nothing in common, or NewWriter fails: the handler runs as if *)
(* it were not wrapped.                                                    *)
LayerPlain ==
  /\ pc = "layer" /\ layer <= Len(layers)
  /\ layer' = layer + 1
  /\ UNCHANGED <<askVars, pc, typeVars, quoteVars, hopVars, header, writer, bodyVars,
                 declared, length, got>>

(* Mutant: the field stays in the request. *)
HeaderKept(h) == h

(* delete(req.Header, "Accept-Encoding"). *)
HeaderDeleted(h) == Absent

LayerCoded ==
  /\ pc = "layer" /\ layer <= Len(layers) /\ header # Absent
  /\ \E items \in ParseAcceptEncoding(header) :
       LET coding == NegotiateEncoding(items, layers[layer])
       IN  /\ coding # NoCoding
           /\ writer' = [writer EXCEPT ![layer] = coding]
           /\ declared' = coding
  /\ length' = FALSE
  /\ header' = HeaderDeleted(header) /\ layer' = layer + 1
  /\ UNCHANGED <<askVars, pc, typeVars, quoteVars, hopVars, bodyVars, got>>

LayersDone ==
  /\ pc = "layer" /\ layer > Len(layers) /\ pc' = "handler"
  /\ UNCHANGED <<askVars, typeVars, quoteVars, codingVars, hopVars>>

(* Where the writer of layer i writes: the next one outwards, or the       *)
(* response.                                                               *)
Sink(i) == Max({0} \cup {j \in 1..(i - 1) : writer[j] # NoCoding})

(* The handler sets a Content-Length, after the wrapper has removed it. *)
HandlerSetsLength ==
  /\ pc = "handler" /\ wrote = 0 /\ ~length /\ length' = TRUE
  /\ UNCHANGED <<askVars, pc, typeVars, quoteVars, hopVars, header, layer, writer, bodyVars,
                 declared, got>>

(* WriteHeader(204) or (304), before anything has reached the response.    *)
(* The field Content-Encoding stays as it was.                             *)
HandlerHasNoBody ==
  /\ pc = "handler" /\ stream[0] = <<>> /\ ~bodiless /\ bodiless' = TRUE
  /\ UNCHANGED <<askVars, pc, typeVars, quoteVars, hopVars, header, layer, writer, stream,
                 wrote, panicked, declared, length, got>>

HandlerWrites ==
  /\ pc = "handler" /\ wrote < MaxParts /\ wrote' = wrote + 1
  /\ stream' = [stream EXCEPT ![Sink(Len(layers) + 1)] = Append(@, wrote')]
  /\ UNCHANGED <<askVars, pc, typeVars, quoteVars, hopVars, header, layer, writer, bodiless,
                 panicked, declared, length, got>>

(* External: a writer of compress/... passes on what it holds, when it     *)
(* likes.                                                                  *)
Flush(i) ==
  /\ pc = "handler" /\ stream[i] # <<>>
  /\ stream' = [stream EXCEPT ![Sink(i)] = @ \o stream[i], ![i] = <<>>]
  /\ UNCHANGED <<askVars, pc, typeVars, quoteVars, hopVars, header, layer, writer, wrote,
                 bodiless, panicked, declared, length, got>>

HandlerEnds ==
  /\ pc = "handler" /\ pc' = "close" /\ layer' = Len(layers)
  /\ panicked' \in BOOLEAN
  /\ UNCHANGED <<askVars, typeVars, quoteVars, hopVars, header, writer, stream, wrote,
                 bodiless, declared, length, got>>

End(i) == -i   \* the mark that ends a coded body

(* The deferred w.Close(), from the inside out, also under a panic.  Its   *)
(* error, when the response takes no body, is ignored.                     *)
DeferClose ==
  /\ pc = "close" /\ layer >= 1 /\ layer' = layer - 1
  /\ stream' = IF writer[layer] = NoCoding THEN stream
               ELSE [stream EXCEPT ![Sink(layer)] = @ \o stream[layer] \o <<End(layer)>>,
                                   ![layer] = <<>>]
  /\ UNCHANGED <<askVars, pc, typeVars, quoteVars, hopVars, header, writer, wrote, bodiless,
                 panicked, declared, length, got>>

-----------------------------------------------------------------------------
(* The layers whose coding the body has. *)
Coded == {i \in DOMAIN writer : writer[i] # NoCoding}

(* External: an answer without a body refuses or drops what is written. *)
Body == IF bodiless THEN <<>> ELSE stream[0]

(* External: after a panic the server answers 500 or cuts the response     *)
(* off, and a length that is not that of the coded body does not fit it.   *)
Broken == ~bodiless /\ (panicked \/ (length /\ Coded # {}))

Ended(i) == End(i) \in Range(Body)

(* What the body holds before the first end of a coding. *)
Parts ==
  LET ends == {k \in 1..Len(Body) : Body[k] < 0}
  IN  SubSeq(Body, 1, Min(ends \cup {Len(Body) + 1}) - 1)

(* NewEncodingTransport: a body of a coding it knows is decoded, and the   *)
(* outermost is the one it declares; an empty one has no end, not even a   *)
(* start.  Any other client takes the body as it comes.  An answer without *)
(* a body may have been out before a panic.                                *)
ClientReads ==
  /\ pc = "close" /\ layer = 0 /\ pc' = "done"
  /\ \E fails \in IF bodiless /\ panicked THEN BOOLEAN ELSE {Broken} :
     LET decode == transport /\ declared \in Range(Decoders)
         outer  == IF Coded = {} THEN {} ELSE {Min(Coded)}
     IN  got' = [parts |-> Parts,
                 coded |-> IF decode THEN Coded # outer ELSE Coded # {},
                 err   |-> \/ fails
                           \/ decode /\ (Coded = {} \/ \E i \in outer :
                                           writer[i] # declared \/ ~Ended(i))]
  /\ UNCHANGED <<askVars, typeVars, quoteVars, hopVars, header, layer, writer, bodyVars,
                 declared, length>>

Settled == pc = "done" /\ UNCHANGED negotiationVars

-----------------------------------------------------------------------------
NegotiationNext ==
  \/ NegotiateType \/ WriteAndParse \/ PassOn
  \/ Start \/ LayerPlain \/ LayerCoded \/ LayersDone
  \/ HandlerSetsLength \/ HandlerHasNoBody \/ HandlerWrites \/ HandlerEnds \/ DeferClose \/ ClientReads
  \/ (\E i \in DOMAIN writer : Flush(i))
  \/ Settled

NegotiationSpec == NegotiationInit /\ [][NegotiationNext]_negotiationVars

-----------------------------------------------------------------------------
(* A wrapper sees the field of the client or none, and codes with what it  *)
(* offers or not at all (encoding.go:104-149).                             *)
NegotiationTypeOK ==
  /\ mode \in {"type", "coding", "quote", "hops"}
  /\ pc \in IF mode = "coding" THEN {"request", "layer", "handler", "close", "done"}
            ELSE {"request", "done"}
  /\ field \in Seq(RawItems) /\ header \in {field, Absent} /\ types \in Seq(MediaTypes)
  /\ transport \in BOOLEAN /\ (transport => field = Join(Decoders))
  /\ layers \in Seq(Seq(Nat)) /\ (mode # "coding" => layers = <<>>)
  /\ layer \in 0..(Len(layers) + 1)
  /\ (pc \in {"request", "layer"} => layer > 0) /\ (pc = "close" => layer <= Len(layers))
  /\ writer = [i \in DOMAIN layers |-> writer[i]]
  /\ \A i \in DOMAIN layers : writer[i] \in Range(layers[i]) \cup {NoCoding}
  /\ stream \in [0..Len(layers) -> Seq(Int)]
  /\ wrote \in 0..MaxParts /\ length \in BOOLEAN
  /\ bodiless \in BOOLEAN /\ panicked \in BOOLEAN
  /\ IsHeader(first) /\ hops \in 0..(Len(Hosts) - 1)

(* What the handler has written. *)
Written == [k \in 1..wrote |-> k]

(* No part is lost or overtakes another on its way through the writer of a *)
(* coding, which ends the body behind the last one (encoding.go:131-149).  *)
BodyIsWhole ==
  /\ pc \in {"request", "layer"} => wrote = 0
  /\ \A i \in DOMAIN writer \ Coded : stream[i] = <<>>
  /\ Coded = {} => stream[0] = Written
  /\ \A i \in Coded :
       IF pc \in {"close", "done"} /\ layer < i
       THEN stream[i] = <<>> /\ stream[0] = Append(Written, End(i))
       ELSE stream[0] \o stream[i] = Written

(* The body is coded once at most, under the coding that is declared       *)
(* (encoding.go:118-129).                                                  *)
CodedOnce ==
  /\ Coded = {} => declared = NoCoding
  /\ \A i \in Coded : Coded = {i} /\ declared = writer[i] /\ header = Absent

(* A client that decodes the body reads what the handler wrote, all of it  *)
(* and in order; it meets an error exactly when the handler panicked, or   *)
(* set a length of its own on a coded body (encoding.go:49-97).  The other *)
(* case is an answer without a body: the wrapper declares a coding all the *)
(* same, and there is nothing for the client to decode (64, 120-129).      *)
ReadBack ==
  mode = "coding" /\ pc = "done" =>
    /\ got.parts = IF bodiless THEN <<>> ELSE Written
    /\ transport => ~got.coded
    /\ LET undecodable == bodiless /\ transport /\ Coded # {}
       IN  /\ Broken \/ undecodable => got.err
           /\ got.err => Broken \/ undecodable \/ (bodiless /\ panicked)

(* What the handler writes reaches the client, coded or not, through any   *)
(* number of wrappers (encoding.go:49-149).                                *)
CodingInv == NegotiationTypeOK /\ BodyIsWhole /\ CodedOnce /\ ReadBack

(* A coding is one that the client listed and the handler offers, and, if  *)
(* the field is well-formed and no quality in it is NaN, none that the     *)
(* handler offers has a higher quality; in a field that is malformed       *)
(* nothing behind the first such item counts (accept.go:268-283, 296-326). *)
Accepted(raws, codings, coding) ==
  LET known == {k \in DOMAIN raws : \A j \in 1..k : CodingOK(raws[j])}
      item(k) == ParseAcceptItem(raws[k])
      common == {k \in known : item(k).typ \in Range(codings)}
  IN  \E k \in common :
        /\ item(k).typ = coding
        /\ known = DOMAIN raws /\ (\A j \in known : item(j).q # NaN) =>
             \A j \in common : item(j).q <= item(k).q

(* Every coding of a body is accepted in this sense, however many wrappers *)
(* there are (encoding.go:104-149).                                        *)
CodingIsAccepted == \A i \in Coded : Accepted(field, layers[i], writer[i])

(* What an item matches of the offers, and the items that match any. *)
Hits(item, offers) == {k \in DOMAIN offers : offers[k].ok /\ MediaContains(item, offers[k])}
Good(items, offers) == {a \in items : Hits(a, offers) # {}}

(* An item that matches something on offer decides, and the first offer    *)
(* that it matches is chosen; the first of all if none does.  Unless a     *)
(* quality is NaN, which Less cannot order, it is one with the highest     *)
(* quality, without a wildcard before one with it, and neither the order   *)
(* of the field nor what sort.Sort makes of equal items changes the choice *)
(* (accept.go:125-170, 183-200, 323-326).                                  *)
Best(raws, offers, chosen) ==
  LET items == {ParseAcceptItem(raws[i]) : i \in DOMAIN raws}
      good == Good(items, offers)
      top == {a \in good : \A b \in good : b.q <= a.q}
      Is(a) == chosen = offers[Min(Hits(a, offers))]
  IN  /\ good = {} => chosen = IF offers = <<>> THEN NoType ELSE offers[1]
      /\ good # {} => \E a \in good : Is(a)
      /\ (\A a \in items : a.q # NaN) =>
           /\ good # {} => \E a \in top :
                /\ Is(a)
                /\ a.typ = Star => \A b \in top : b.typ = Star
                /\ a.sub = Star => \A b \in top : b.typ = a.typ => b.sub = Star
           /\ \A f \in Orders(raws) : \A s \in ParseAccept(f) : Negotiate(s, offers) = chosen

(* What a handler is told to answer with is the best in this sense, if the *)
(* field is well-formed (accept.go:183-200).                               *)
BestIsChosen ==
  mode = "type" /\ pc = "done" /\ (\A i \in DOMAIN field : field[i].ok) =>
    Best(field, types, choice)

(* What a byte-wise text is when it is read as UTF-8. *)
Decoded(s) == [i \in DOMAIN s |-> Rune(s[i])]

(* Whatever its value, a parameter is read back or refused: exactly, but   *)
(* that U+FFFD stands for every byte which is not UTF-8, and refused only  *)
(* when it has a semicolon, which ParseMediaRange cuts at even inside of   *)
(* quotes; in no case does it swallow, or cut, the item behind it          *)
(* (quote.go:16-69, 95-173; media.go:43-99).                               *)
ParamIntact ==
  mode = "quote" /\ pc = "done" =>
    /\ parsed[1] = IF "semicolon" \in Range(param) THEN Error ELSE Value(Decoded(param))
    /\ parsed[2] = Behind

(* What is left of a field of the client behind the first proxy. *)
Kept(f) == IF f \in Hop \cup Values(first, "Connection") THEN <<>> ELSE first[f]
KeptLine(f) == IF Kept(f) = <<>> THEN <<>> ELSE Kept(f)[1]

(* However many proxies a request passes, none of the fields that are for  *)
(* one hop gets past the first, the ones that Connection names included,   *)
(* but for an upgrade, which gets to the last; the others are not touched. *)
(* The hosts that it passed are listed in order, each once, behind the     *)
(* addresses that the client gave in Forwarded or else in X-Forwarded-For, *)
(* of which the first line counts (proxy.go:56-101, proto.go:34-137).      *)
HopsAreListed ==
  /\ hops = 0 => fields = first
  /\ hops > 0 =>
    LET hosts == [k \in 1..hops |-> Hosts[k + 1]]
        own   == [k \in 1..hops |-> Element("http", Hosts[k], "", Hosts[k + 1])]
        list  == Get(fields, "Forwarded")
        line  == SubSeq(list, 1, Len(list) - hops)
    IN  /\ fields = [f \in Fields |-> fields[f]] /\ fields["Keep-Alive"] = <<>>
        /\ fields["Connection"] = IF Upgrades(first) THEN <<<<"Upgrade">>>> ELSE <<>>
        /\ fields["Upgrade"] = IF Upgrades(first) THEN <<Get(first, "Upgrade")>> ELSE <<>>
        /\ fields["Other"] = Kept("Other")
        /\ fields["Via"] = <<KeptLine("Via") \o hosts>>
        /\ line \in Seq(Elements) /\ fields["Forwarded"] = <<line \o own>>
        /\ IF Kept("Forwarded") # <<>>
           THEN line = KeptLine("Forwarded") /\ \A f \in XForwarded : fields[f] = Kept(f)
           ELSE /\ \A f \in XForwarded : fields[f] = <<>>
                /\ KeptLine("X-Forwarded-For") # <<>> =>
                     [k \in DOMAIN line |-> line[k].for[1]] = KeptLine("X-Forwarded-For")
=============================================================================
