--------------------------- MODULE MCNegotiation ----------------------------
(* Accept fields of up to three items out of twelve, with wildcards, equal *)
(* and zero qualities, infinity and NaN, parameters before and after q,    *)
(* and malformed ones; Accept-Encoding fields of up to two.  The codings   *)
(* deflate, gzip and zlib are 1, 2 and 3.  A client and two proxies, and   *)
(* headers that name fields in Connection, have several lines or elements, *)
(* or lack fields.                                                         *)
EXTENDS Negotiation

TypeItems ==
  {RawItem(1, 1, <<>>), RawItem(1, 1, <<"q=x">>), RawItem(1, 2, <<"q=0.5">>),
   RawItem(1, Star, <<>>), RawItem(Star, Star, <<>>), RawItem(Star, Star, <<"q=0.5">>),
   RawItem(2, 1, <<"p">>), RawItem(2, 1, <<"p", "q=0.5", "p">>), RawItem(2, 1, <<"q=0">>),
   RawItem(1, 2, <<"q=nan">>),
   RawItem(2, Star, <<"q=inf", "q=1">>), Malformed}

CodingItems ==
  {RawItem(1, NoSub, <<"q=0.5">>), RawItem(2, NoSub, <<>>), RawItem(2, NoSub, <<"q=0">>),
   RawItem(3, NoSub, <<>>), RawItem(3, NoSub, <<"q=0.5">>), RawItem(Star, NoSub, <<>>),
   RawItem(1, NoSub, <<"q=1", "p">>), RawItem(1, NoSub, <<"q=nan">>), Malformed}

MCTypeFields == BoundedSeq(TypeItems, 3)
MCCodingFields == BoundedSeq(CodingItems, 2)

Type(t, s) == [ok |-> TRUE, typ |-> t, sub |-> s]
MCTypeOffers ==
  {<<Type(1, 1), Type(2, 1)>>, <<Type(2, 2), Type(1, 2)>>, <<NoType, Type(2, 1)>>, <<>>}

MCDecoders == <<2, 3, 1>>
MCLayers == {<<<<2, 3, 1>>>>, <<<<2>>, <<3, 2>>>>, <<<<1, 2>>, <<2, 1>>>>}

Perhaps(line) == {<<>>, <<line>>}

MCHeaders ==
  {"Connection" :> c @@ "Keep-Alive" :> <<<<"v1">>>> @@ "Upgrade" :> u
     @@ "Forwarded" :> f @@ "Via" :> v @@ "Other" :> <<<<"v1", "v2">>, <<"v3">>>>
     @@ "X-Forwarded-For" :> xf @@ "X-Forwarded-By" :> xb
     @@ "X-Forwarded-Port" :> xp @@ "X-Forwarded-Proto" :> xp :
   c \in {<<>>, <<<<"close">>>>, <<<<"Other", "Forwarded">>>>,
          <<<<"Upgrade">>, <<"X-Forwarded-For">>>>},
   u \in Perhaps(<<"v1">>), v \in Perhaps(<<"v1">>), xb \in Perhaps(<<"v1">>),
   xp \in Perhaps(<<"v1">>),
   f \in {<<>>, <<<<Element("", "h4", "", ""), Element("", "h5", "", "")>>,
                  <<Element("", "h6", "", "")>>>>},
   xf \in {<<>>, <<<<"h1">>>>, <<<<"h1", "h2">>, <<"h3">>>>}}

MCHosts == <<"client", "p1", "p2">>
=============================================================================
