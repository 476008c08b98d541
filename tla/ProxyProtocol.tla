--------------------------- MODULE ProxyProtocol ----------------------------
(***************************************************************************)
(* ProxyProtocol.ServeConn (src/proxy.go): the header that a proxy puts in *)
(* front of a connection is parsed, and the handler gets a connection that *)
(* gives back first what was read beyond the header.                       *)
(*                                                                         *)
(* The bytes of the connection are numbered 0, 1, 2...: the header is the  *)
(* first hdr.len of them, the payload the others.  A read returns any      *)
(* number of the bytes that it may return, so the header is cut in every   *)
(* way the network can cut it.  The lengths are those of the code.         *)
(***************************************************************************)
EXTENDS Integers, Sequences, FiniteSetsExt

CONSTANTS
  LineLengths,  \* the lengths of a line that a peer makes up, CRLF included
  Payloads,     \* how many bytes follow the header
  ReadSizes     \* the sizes of the slices the handler reads into

ASSUME ProxyProtocolAssumption ==
  /\ LineLengths \subseteq Nat \ {0} /\ Payloads \subseteq Nat
  /\ ReadSizes \subseteq Nat \ {0}

BufferSize == 256   \* the array that the header is read into
MaxLine    == 107   \* the longest header of version 1
Preamble   == 14    \* signature, version and command, family and type

AF_UNSPEC == 0
AF_INET   == 1
AF_INET6  == 2
AF_UNIX   == 3

UNSPEC == 0
STREAM == 1
DGRAM  == 2

-----------------------------------------------------------------------------
(* The headers, and the addresses they are made from. *)

(* An address has a network and, for tcp and udp, the version of its IP, 0 *)
(* for none.  "other" is an address of any other type (NetAddr).           *)
IPAddrs   == [net : {"tcp", "udp"}, ip : {0, 4, 6}]
UnixAddrs == [net : {"unix", "unixgram", "unixpacket"}, ip : {0}]
Addrs     == IPAddrs \union UnixAddrs \union [net : {"other"}, ip : {0}]
NoAddr    == [net |-> "none", ip |-> 0]

(* The source and the destination of a connection are of one type. *)
Pairs  == {p \in [src : Addrs, dst : Addrs] : p.src.net = p.dst.net}
NoPair == [src |-> NoAddr, dst |-> NoAddr]

(* A line of version 1: the words after PROXY. *)
Line(words, len) == [kind |-> "v1", words |-> words, len |-> len]

(* IP.String(), and how many characters it may have; <nil> is no address. *)
Word(ip)     == IF ip = 4 THEN "ip4" ELSE IF ip = 6 THEN "ip6" ELSE "name"
Shortest(ip) == IF ip = 4 THEN 7 ELSE IF ip = 6 THEN 2 ELSE 5
Longest(ip)  == IF ip = 4 THEN 15 ELSE IF ip = 6 THEN 39 ELSE 5

(* The shortest and the longest line for two addresses: 16 characters, two *)
(* ports of one to five, and the addresses.                                *)
appendProxyProtoV1(a, b) ==
  LET words == <<IF a.ip = 4 THEN "TCP4" ELSE "TCP6", Word(a.ip), Word(b.ip), "port", "port">>
  IN  {Line(words, len) : len \in {18 + Shortest(a.ip) + Shortest(b.ip),
                                   26 + Longest(a.ip) + Longest(b.ip)}}

(* Lines that appendProxyProtoV1 does not make; the last one ends with a   *)
(* space.  Only one with a single word, of any length, can be shorter than *)
(* the preamble of version 2.                                              *)
OtherLines ==
  { <<"name">>, <<"TCP4", "ip4", "ip4", "port">>,
    <<"TCP4", "name", "ip4", "port", "port">>, <<"TCP6", "ip6", "ip6", "port", "name">>,
    <<"TCP4", "ip4", "ip4", "port", "port", "name">>,
    <<"TCP6", "ip4", "ip6", "port", "port", "">> }
PeerLines ==
  {h \in {Line(w, l) : w \in OtherLines, l \in LineLengths} :
     h.words = <<"name">> \/ h.len >= 2 * Preamble}

addrLen(family) ==
  IF family = AF_INET THEN 4
  ELSE IF family = AF_INET6 THEN 16 ELSE IF family = AF_UNIX THEN 108 ELSE 0
portLen(family) == IF family \in {AF_INET, AF_INET6} THEN 2 ELSE 0

(* How many bytes the parser expects the addresses of a family to take. *)
AddressesLen(family) == 2 * addrLen(family) + 2 * portLen(family)

(* A header of version 2, with so many bytes behind its preamble. *)
V2(version, cmd, family, socktype, bytes) ==
  [kind |-> "v2", version |-> version, cmd |-> cmd, family |-> family,
   socktype |-> socktype, len |-> Preamble + bytes]

(* The family is that of the source.  To4 and To16 give no bytes of a      *)
(* destination that has no such form, and without an IP the ports are left.*)
appendProxyProtoV2(a, b, local) ==
  LET socktype == IF a.net \in {"tcp", "unix"} THEN STREAM
                  ELSE IF a.net \in {"udp", "unixgram"} THEN DGRAM ELSE UNSPEC
      family   == IF a \in UnixAddrs THEN AF_UNIX
                  ELSE IF a.ip = 4 THEN AF_INET ELSE IF a.ip = 6 THEN AF_INET6 ELSE AF_UNSPEC
      to       == IF a.ip # 0 /\ (b.ip = 0 \/ (a.ip = 4 /\ b.ip = 6)) THEN 0 ELSE addrLen(family)
      ports    == IF a \in IPAddrs THEN 4 ELSE 0
  IN  V2(2, IF local THEN 0 ELSE 1, family, socktype, addrLen(family) + to + ports)

(* What other programs send: the format has a length of two bytes in front *)
(* of the addresses, which this code neither writes nor reads.             *)
LengthField == 2
FormatV2 ==
  {V2(2, cmd, family, socktype, LengthField + AddressesLen(family)) :
     cmd \in {0, 1}, family \in {AF_INET, AF_INET6, AF_UNIX}, socktype \in {STREAM, DGRAM}}
  \union {V2(2, cmd, AF_UNSPEC, UNSPEC, LengthField) : cmd \in {0, 1}}

(* What nobody should send. *)
Garbage == [kind |-> "garbage", len |-> Preamble]
Invalid ==
  {V2(1, 1, AF_INET, STREAM, 12), V2(2, 2, AF_INET, STREAM, 12), V2(2, 1, 4, STREAM, 12),
   V2(2, 1, AF_INET6, 3, 36), V2(2, 1, AF_UNSPEC, DGRAM, 0), Garbage}

(* What a peer may start with: a header that the code makes for the        *)
(* addresses of a connection, or another one.                              *)
Started ==
  [hdr : PeerLines \union FormatV2 \union Invalid, made : {NoPair}]
  \union (UNION {[hdr : appendProxyProtoV1(p.src, p.dst), made : {p}] :
                    p \in {r \in Pairs : r.src.net = "tcp"}})
  \union {[hdr |-> appendProxyProtoV2(p.src, p.dst, local), made |-> p] :
            p \in Pairs, local \in BOOLEAN}

VARIABLES
  hdr,    \* the header
  made,   \* the source and the destination it was made from
  total,  \* how many bytes the peer sends before it stops
  ended,  \* whether it closes the connection then
  stage,  \* what ServeConn does next
  nread,  \* how many bytes were read from the connection
  ahead,  \* the bytes kept for the handler: from ahead.lo to ahead.hi - 1
  src,    \* what RemoteAddr tells the handler
  got     \* how many bytes the handler has read

proxyVars == <<hdr, made, total, ended, stage, nread, ahead, src, got>>

(* ReadAtLeast; the loop of version 1; ReadFull of version 2; the handler; *)
(* closed as a local connection; an error, or a panic of the runtime; the  *)
(* handler is back.                                                        *)
Stages == {"start", "line", "rest", "serve", "local", "panicked", "done"}

Peer == <<hdr, made, total, ended>>

ProxyInit ==
  /\ \E s \in Started : hdr = s.hdr /\ made = s.made
  /\ total \in {0, Preamble - 1, Preamble, hdr.len - 1} \union {hdr.len + p : p \in Payloads}
  /\ ended \in BOOLEAN
  /\ stage = "start" /\ nread = 0 /\ ahead = [lo |-> 0, hi |-> 0] /\ src = NoAddr /\ got = 0

-----------------------------------------------------------------------------
(* parseProxyProto. *)

(* A read into a slice that ends at byte upTo. *)
Read(upTo) ==
  /\ \E k \in nread + 1 .. Min({upTo, total}) : nread' = k
  /\ UNCHANGED <<Peer, ahead, src, got>>

EOF == ended /\ nread = total

Fail == stage' = "panicked" /\ UNCHANGED <<Peer, nread, ahead, src, got>>

(* The header was read: the handler gets what follows byte at. *)
Serve(a, at) ==
  /\ stage' = "serve" /\ src' = a /\ ahead' = [lo |-> at, hi |-> nread]
  /\ UNCHANGED <<Peer, nread, got>>

Start ==
  /\ stage = "start" /\ nread < Preamble
  /\ Read(BufferSize)
  /\ stage' = "start"

StartEOF == stage = "start" /\ nread < Preamble /\ EOF /\ Fail

(* The version, the command, the family and the type are known ones. *)
V2Known ==
  /\ hdr.version = 2 /\ hdr.cmd \in {0, 1}
  /\ hdr.family \in AF_UNSPEC..AF_UNIX /\ hdr.socktype \in UNSPEC..DGRAM

(* The signature, and what follows it in version 2. *)
Switch ==
  /\ stage = "start" /\ nread >= Preamble
  /\ \/ /\ hdr.kind = "v1" /\ stage' = "line"
        /\ UNCHANGED <<Peer, nread, ahead, src, got>>
     \/ /\ hdr.kind = "v2"
        /\ IF V2Known
           THEN stage' = "rest" /\ UNCHANGED <<Peer, nread, ahead, src, got>>
           ELSE Fail
     \/ hdr.kind = "garbage" /\ Fail

(* CRLF is among the bytes read, in the first MaxLine of them. *)
HasLine == hdr.len <= Min({nread, MaxLine})

LineRead ==
  /\ stage = "line" /\ ~HasLine /\ nread < MaxLine
  /\ Read(MaxLine)
  /\ stage' = "line"

LineEOF == stage = "line" /\ ~HasLine /\ nread < MaxLine /\ EOF /\ Fail

LineTooLong == stage = "line" /\ ~HasLine /\ nread >= MaxLine /\ Fail

(* Five words, and nothing after the space that ends the last one. *)
parseProxyProtoV1(words) ==
  /\ Len(words) >= 5 /\ words \in {SubSeq(words, 1, 5), SubSeq(words, 1, 5) \o <<"">>}
  /\ words[1] \in {"TCP4", "TCP6"}
  /\ words[2] \in {"ip4", "ip6"} /\ words[3] \in {"ip4", "ip6"}
  /\ words[4] = "port" /\ words[5] = "port"

(* The address of version 1 is an IP address of any version, whatever the  *)
(* family is.                                                              *)
LineParsed ==
  /\ stage = "line" /\ HasLine
  /\ IF parseProxyProtoV1(hdr.words)
     THEN Serve([net |-> "tcp", ip |-> IF hdr.words[2] = "ip4" THEN 4 ELSE 6], hdr.len)
     ELSE Fail

(* Mutant: two bytes more are waited for. *)
AddressesEndLate == Preamble + AddressesLen(hdr.family) + 2

(* The end of the addresses of version 2. *)
AddressesEnd == Preamble + AddressesLen(hdr.family)

RestRead ==
  /\ stage = "rest" /\ nread < AddressesEnd
  /\ Read(AddressesEnd)
  /\ stage' = "rest"

RestEOF == stage = "rest" /\ nread < AddressesEnd /\ EOF /\ Fail

makeUnixAddr(socktype) ==
  [net |-> IF socktype = STREAM THEN "unix" ELSE "unixgram", ip |-> 0]

(* An address made of bytes that belong to something else. *)
Misread == [net |-> "misread", ip |-> 0]

makeAddr(family, socktype) ==
  IF socktype = UNSPEC THEN NoAddr
  ELSE IF hdr.len # AddressesEnd THEN Misread
  ELSE IF family = AF_UNIX THEN makeUnixAddr(socktype)
  ELSE [net |-> IF socktype = STREAM THEN "tcp" ELSE "udp",
        ip  |-> IF family = AF_INET THEN 4 ELSE 6]

(* makeTCPAddr and makeUDPAddr read a port of two bytes: without a family  *)
(* there are none, and the runtime panics.                                 *)
PortMissing == hdr.family = AF_UNSPEC /\ hdr.socktype # UNSPEC

RestParsed ==
  /\ stage = "rest" /\ nread >= AddressesEnd
  /\ IF PortMissing THEN Fail
     ELSE \/ /\ hdr.cmd = 1
             /\ Serve(makeAddr(hdr.family, hdr.socktype), AddressesEnd)
          \/ /\ hdr.cmd = 0 /\ stage' = "local"
             /\ UNCHANGED <<Peer, nread, ahead, src, got>>

-----------------------------------------------------------------------------
(* proxyProtoConn, as the handler uses it. *)

(* Mutant: the buffered bytes are all consumed, whatever fits the slice. *)
ReadBufferedAll(size) ==
  /\ stage = "serve" /\ ahead.lo < ahead.hi
  /\ got' = got + Min({size, ahead.hi - ahead.lo})
  /\ ahead' = [ahead EXCEPT !.lo = ahead.hi]
  /\ UNCHANGED <<Peer, stage, nread, src>>

ReadBuffered(size) ==
  /\ stage = "serve" /\ ahead.lo < ahead.hi
  /\ LET k == Min({size, ahead.hi - ahead.lo}) IN
       got' = got + k /\ ahead' = [ahead EXCEPT !.lo = @ + k]
  /\ UNCHANGED <<Peer, stage, nread, src>>

ReadConn(size) ==
  /\ stage = "serve" /\ ahead.lo = ahead.hi
  /\ \E k \in 1 .. Min({size, total - nread}) : nread' = nread + k /\ got' = got + k
  /\ UNCHANGED <<Peer, stage, ahead, src>>

Return == stage = "serve" /\ stage' = "done" /\ UNCHANGED <<Peer, nread, ahead, src, got>>

(* The connection is over, or the peer is silent for ever: nothing bounds  *)
(* the time ServeConn waits for the header.                                *)
Stopped ==
  /\ \/ stage \in {"local", "panicked", "done"}
     \/ stage \in {"start", "line", "rest"} /\ nread = total /\ ~ended
  /\ UNCHANGED proxyVars

-----------------------------------------------------------------------------
ParseNext ==
  \/ Start \/ StartEOF \/ Switch
  \/ LineRead \/ LineEOF \/ LineTooLong \/ LineParsed
  \/ RestRead \/ RestEOF \/ RestParsed

HandlerNext == (\E size \in ReadSizes : ReadBuffered(size) \/ ReadConn(size)) \/ Return

ProxyNext == ParseNext \/ HandlerNext \/ Stopped

ProxySpec == ProxyInit /\ [][ProxyNext]_proxyVars

(* A read returns when there is something to read. *)
FairProxySpec == ProxySpec /\ WF_proxyVars(ParseNext)

-----------------------------------------------------------------------------
(* The header is read within its array, and no byte is taken twice         *)
(* (proxy.go:272-279).                                                     *)
ProxyTypeOK ==
  /\ [hdr |-> hdr, made |-> made] \in Started /\ total \in Nat /\ ended \in BOOLEAN
  /\ stage \in Stages /\ nread \in 0..total
  /\ stage \in {"start", "line", "rest"} => nread <= BufferSize
  /\ ahead \in [lo : 0..ahead.hi, hi : 0..BufferSize] /\ got \in 0..total
  /\ src \in Addrs \union {NoAddr, Misread}

(* A header of version 2 that the code makes is as long as it expects,     *)
(* unless the destination cannot be written in the family of the source.   *)
Fits ==
  hdr.kind = "v2" => (made.src.ip = 4 => made.dst.ip = 4) /\ (made.src.ip = 6 => made.dst.ip # 0)

(* A nil IP where the address has to be written. *)
NoIP == made.src \in IPAddrs /\ (made.src.ip = 0 \/ (hdr.kind = "v1" /\ made.dst.ip = 0))

(* Where the handler starts to read: with the payload.  The exceptions are *)
(* the last bytes of a header of version 2 that has its length field, and  *)
(* a payload that was taken for the missing destination.                   *)
PayloadStart ==
  IF hdr.kind = "v2" /\ made = NoPair THEN hdr.len - LengthField
  ELSE IF Fits THEN hdr.len ELSE hdr.len + addrLen(hdr.family)

(* However the header was cut, the handler reads from there on, without a  *)
(* gap or a repetition where the buffered bytes end and the connection     *)
(* goes on (proxy.go:129-136, 301, 354-369).                               *)
PayloadExact ==
  stage = "serve" =>
    /\ (IF ahead.lo < ahead.hi THEN ahead.lo ELSE nread) = PayloadStart + got
    /\ ahead.lo < ahead.hi => ahead.hi = nread

(* A header that the code itself makes for two addresses, and that is all  *)
(* there, is not refused, however much of the payload came with it, and    *)
(* the handler sees the source it was made from.  An address of a network  *)
(* that version 2 has no type for is lost, one without an IP is refused,   *)
(* and a source is misread when the destination did not fit its family     *)
(* (proxy.go:178-269, 283-298, 321-367, 446-487).                          *)
RoundTrip ==
  made # NoPair /\ total >= hdr.len =>
    /\ NoIP => stage # "serve"
    /\ ~NoIP /\ Fits => stage # "panicked"
    /\ stage = "serve" =>
         src = IF made.src.net \in {"unixpacket", "other"} THEN NoAddr
               ELSE IF Fits THEN made.src ELSE Misread

(* Each loop runs on a header of its own version, one of version 2 has     *)
(* been found valid, and the handler has not read yet (proxy.go:272-367).  *)
Recognised ==
  /\ stage \in {"start", "line", "rest"} => got = 0
  /\ stage = "line" => hdr.kind = "v1"
  /\ stage = "rest" => hdr.kind = "v2" /\ V2Known

(* The array that holds the header, and then the start of the payload, is  *)
(* neither overrun nor read twice, and the address comes out of it as it   *)
(* went in, with the exceptions above (proxy.go:129-136, 272-301).         *)
PayloadInv == ProxyTypeOK /\ PayloadExact /\ RoundTrip /\ Recognised

(* Once the header is all there, parsing ends: ServeConn does not wait for *)
(* a byte that only the payload has (proxy.go:276, 290, 358).  It does for *)
(* a line below the 14 bytes of ReadAtLeast, and for a destination that    *)
(* did not fit the family of the source.                                   *)
HeaderSettles ==
  total >= hdr.len /\ hdr.len >= Preamble /\ Fits ~> stage \notin {"start", "line", "rest"}
=============================================================================
