---------------------------- MODULE PacketJourney ----------------------------
(***************************************************************************)
(* One packet on its way from a client to its destination and back: what   *)
(* the ingress (endpoint/ingress.cpp), the egress (endpoint/egress.cpp)    *)
(* and roulette's requests (db/dbquery.cpp) read from it and write of it.  *)
(* The two endpoints are different processes, and all that they share of a *)
(* flow is what the SFC header carries and roulette is told: that they     *)
(* speak of one flow is a property of the conversions below.               *)
(***************************************************************************)
EXTENDS Codec

CONSTANTS Packets,      \* what clients send
          Answers(_),   \* what the destination of a packet may answer
          SfcMap,       \* the number of the chain of each protocol
          PathLens,     \* how many functions the path of a chain may have
          IngressEnd,   \* the address and descriptor of the ingress, in roulette
          EgressEnd,    \* those of the egress
          MyIp,         \* the text of the address of the egress
          ExtPort,      \* its external port
          None

Known == {6, 17}        \* TCP, UDP: what the classifier knows

\* A packet without options, whose length allows for the headers and for the 16
\* bits in which the IP header writes it
IsPacket(b) ==
    /\ b \in Seq(Byte)
    /\ Len(b) < 65536
    /\ Len(b) > IpHdrLen + (IF b[10] = 6 THEN TcpHdrLen - 1 ELSE UdpHdrLen - 1)
    /\ b[1] = 69
    /\ b[10] = 6 => b[33] \div 16 = 5

ASSUME PacketsAssumption == \A b \in Packets : IsPacket(b) /\ Protocol(b) \in Known
ASSUME AnswersAssumption ==
    \A b \in Packets : \A a \in Answers(b) :
        IsPacket(a) /\ (Protocol(b) = 17 => Protocol(a) = 17)
ASSUME SfcMapAssumption == SfcMap \in [Known -> PathId]
ASSUME PathLensAssumption == PathLens \subseteq Nat
ASSUME MyIpAssumption == MyIp \in [1 .. 4 -> Byte] /\ ExtPort \in Half

VARIABLES stage,        \* how far the packet is
          pkt,          \* the bytes that travel: the client's, then the answer's
          origin,       \* the client's packet
          path,         \* the length of the path that roulette gave last
          sfc,          \* the SFC header before them
          filed,        \* the key in the ingress's connection_map
          entry,        \* the flow's entry in roulette
          looked,       \* the key that the egress looks up, then the ingress
          out           \* what the destination, then the client is given

vars == <<stage, pkt, origin, path, sfc, filed, entry, looked, out>>

\* The type of a connection: everything that is not TCP is UDP
ConnType(proto) == IF proto = 6 THEN "tcp" ELSE "udp"

\* The key of a client's packet (ConnectionEntry in manage_entering_*)
ClientKey(b) ==
    LET h == Headers(b)
    IN  [ip_src |-> IntToIp(h.saddr), ip_dst |-> IntToIp(h.daddr),
         port_src |-> Swap(h.source), port_dst |-> Swap(h.dest),
         sfcid |-> SfcMap[Protocol(b)], prt |-> ConnType(Protocol(b))]

\* Faulty: source and destination are exchanged for an answer
ChainKeyMirrored(s, b) ==
    [ip_src |-> IntToIp(IF s.direction_flag = 0 THEN s.source_address
                                                ELSE s.destination_address),
     ip_dst |-> IntToIp(s.destination_address),
     port_src |-> Swap(s.source_port), port_dst |-> Swap(s.destination_port),
     sfcid |-> s.p_id, prt |-> ConnType(Protocol(b))]

\* The key of a packet of the chain (ConnectionEntry in manage_pkt_from_chain)
ChainKey(s, b) ==
    [ip_src |-> IntToIp(s.source_address), ip_dst |-> IntToIp(s.destination_address),
     port_src |-> Swap(s.source_port), port_dst |-> Swap(s.destination_port),
     sfcid |-> s.p_id, prt |-> ConnType(Protocol(b))]

-----------------------------------------------------------------------------
(* The queries to roulette. *)

\* Query::Builder: a query has the endpoints that were set, or a type
Query(k, endpoints, type) == [key |-> k, endpoints |-> endpoints, type |-> type]

\* Faulty: an endpoint is written under the names of the other one
JsonExchanged(endpoints) ==
    [t \in {IF e.type = "egress" THEN "ingress" ELSE "egress" : e \in endpoints} |->
                       (CHOOSE e \in endpoints : e.type # t).socket]

\* Query::to_json and Endpoint::to_json: an endpoint is written under the names
\* of its type
Json(endpoints) == [t \in {e.type : e \in endpoints} |->
                       (CHOOSE e \in endpoints : e.type = t).socket]

\* Query::to_url.  A query with both endpoints is ambiguous and throws; no
\* caller makes one.
ToUrl(q) ==
    IF q.endpoints = {} THEN [proxy |-> q.type, key |-> q.key, endpoint |-> None]
    ELSE LET e == CHOOSE e \in q.endpoints : TRUE
         IN  [proxy |-> IF e.type = "ingress" THEN "egress" ELSE "ingress",
              key |-> q.key, endpoint |-> e.socket]

\* What roulette makes of create_entry and of update_endpoint: an entry, and the
\* names that the body has, in the entry whose key the path names
CreateEntry(q) == entry' = [key |-> q.key, ends |-> Json(q.endpoints)]
UpdateEndpoint(q, e) ==
    entry' = IF ToUrl(q).key # entry.key THEN entry
             ELSE [entry EXCEPT !.ends = [t \in DOMAIN entry.ends \union DOMAIN Json({e}) |->
                      IF t \in DOMAIN Json({e}) THEN Json({e})[t] ELSE entry.ends[t]]]

-----------------------------------------------------------------------------
\* manage_entering_udp_packets, manage_entering_tcp_packets: the entry is filed
\* and created, and the packet leaves behind its SFC header if there is a path
Enter ==
    /\ stage = "client"
    /\ filed' = ClientKey(pkt)
    /\ CreateEntry(Query(ClientKey(pkt), {[type |-> "ingress", socket |-> IngressEnd]}, None))
    /\ \E n \in PathLens : LET h == Headers(pkt) IN
           /\ path' = n
           /\ IF n = 0
              THEN stage' = "discarded" /\ UNCHANGED sfc
              ELSE /\ stage' = "chain"
                   /\ sfc' = CreateHeader(SfcMap[Protocol(pkt)], IntToIp(h.saddr), h.source,
                                          IntToIp(h.daddr), h.dest, (n + 2) % 65536, 0)
    /\ UNCHANGED <<pkt, origin, looked, out>>

\* manage_exiting_tcp_packets connects to the address in the SFC header and
\* writes the payload; manage_exiting_udp_packets forges a datagram
SendOut(k) ==
    out' = IF k.prt = "tcp"
           THEN [daddr |-> IntToIp(sfc.destination_address),
                 dport |-> Swap(sfc.destination_port), bytes |-> StrNCpy(Payload(pkt, 6))]
           ELSE ForgeUdp(Payload(pkt, 17), MyIp, k.ip_dst, ExtPort, k.port_dst)

\* Egress::manage_pkt_from_chain: the key is looked up, the packet sent on, and
\* update_entry adds the egress to the entry of the flow
Exit ==
    /\ stage = "chain"
    /\ LET k == ChainKey(sfc, pkt) IN
           /\ looked' = k
           /\ SendOut(k)
           /\ UpdateEndpoint(Query(k, {}, "ingress"), [type |-> "egress", socket |-> EgressEnd])
    /\ stage' = "destination"
    /\ UNCHANGED <<pkt, origin, path, sfc, filed>>

\* The destination answers.  The egress classifies the answer (sfc_map.at may
\* throw) and sends it back behind an SFC header with the fields of the packet's
Return ==
    /\ stage = "destination"
    /\ pkt' \in Answers(origin)
    /\ \E n \in PathLens :
           /\ path' = n
           /\ IF Protocol(pkt') \notin Known
              THEN stage' = "terminate" /\ UNCHANGED sfc
              ELSE IF n = 0
              THEN stage' = "discarded" /\ UNCHANGED sfc
              ELSE /\ stage' = "back"
                   /\ sfc' = CreateHeader(SfcMap[Protocol(pkt')],
                                          IntToIp(sfc.source_address), sfc.source_port,
                                          IntToIp(sfc.destination_address), sfc.destination_port,
                                          (n + 2) % 65536, 1)
    /\ UNCHANGED <<origin, filed, entry, looked, out>>

\* Ingress::manage_pkt_from_chain: the key that is looked up, and the payload
Deliver ==
    /\ stage = "back"
    /\ looked' = ChainKey(sfc, pkt)
    /\ out' = [out EXCEPT !.bytes = Payload(pkt, Protocol(pkt))]
    /\ stage' = "delivered"
    /\ UNCHANGED <<pkt, origin, path, sfc, filed, entry>>

Init ==
    /\ stage = "client"
    /\ pkt \in Packets /\ origin = pkt
    /\ path = 0
    /\ sfc = None /\ filed = None /\ entry = None /\ looked = None /\ out = None

Next == Enter \/ Exit \/ Return \/ Deliver

Spec == Init /\ [][Next]_vars

-----------------------------------------------------------------------------
Ip == [1 .. 4 -> Byte]
Key == [ip_src : Ip, ip_dst : Ip, port_src : Half, port_dst : Half,
        sfcid : PathId, prt : {"tcp", "udp"}]

\* The type of the state: what the packet, its header, the keys and the entry
\* are at each stage.
TypeOK ==
    /\ stage \in {"client", "chain", "destination", "back", "delivered", "discarded",
                  "terminate"}
    /\ origin \in Packets /\ IsPacket(pkt)
    /\ path \in PathLens \union {0}
    /\ filed \in Key \union {None}
    /\ looked \in Key \union {None}
    /\ stage \in {"chain", "destination", "back", "delivered"} =>
           /\ filed \in Key
           /\ sfc.p_id \in PathId /\ sfc.ttl \in 0 .. 63
           /\ sfc.source_port \in Half /\ sfc.destination_port \in Half
    /\ stage \in {"destination", "delivered"} => looked \in Key

\* What the ingress filed is what the egress looks up and, on the way back, what
\* the ingress looks up (ingress.cpp:206-214, egress.cpp:276-281), however often
\* addresses and ports change their form between.  An answer over a TCP
\* connection that is not a packet of TCP itself is looked up as UDP.
KeysAgree ==
    stage \in {"destination", "delivered"} /\ Protocol(pkt) = Protocol(origin) =>
        looked = filed

\* update_entry (endpoint.cpp:54-67) reaches the entry that the ingress has
\* created and adds the egress to it; what the ingress wrote stays.
EntryHasBothEnds ==
    stage \in {"destination", "back", "delivered"} =>
        /\ entry.key = filed
        /\ entry.ends = [t \in {"ingress", "egress"} |->
                            IF t = "ingress" THEN IngressEnd ELSE EgressEnd]

\* "+2 because of ingress & egress" (ingress.cpp:51): the ttl allows for every
\* function of the path, as long as its six bits do.
TtlCoversPath == stage \in {"chain", "back"} /\ path < 62 => sfc.ttl = path + 2

\* An octet string as the big-endian words of RFC 1071
NetWords(b) == [i \in 1 .. (Len(b) + 1) \div 2 |->
                   256 * b[2 * i - 1] + IF 2 * i > Len(b) THEN 0 ELSE b[2 * i]]

\* The destination accepts the forged datagram (egress.cpp:31, 74): its length is
\* the one it has, and it has no checksum or the sum of the pseudo header and the
\* datagram is 0 in ones' complement.
ForgedIsAccepted ==
    stage = "destination" /\ looked.prt = "udp" =>
        LET b == out.bytes
            l == <<b[5], b[6]>>
        IN  /\ 256 * b[5] + b[6] = Len(b)
            /\ \/ b[7] = 0 /\ b[8] = 0
               \/ SumFunction(NetWords(out.saddr \o out.daddr \o <<0, 17>> \o l \o b)) % 65535 = 0

NoZero(s) == \A i \in DOMAIN s : s[i] # 0

\* What the destination is given is what the client wrote to it, and the other
\* way round (packetutils.cpp:132, egress.cpp:162), unless the payload has a zero
\* byte: strncpy then sends zeros for what follows, of the same length.
PayloadsArrive ==
    /\ stage = "destination" =>
           LET want == Payload(origin, Protocol(origin))
               got  == IF looked.prt = "tcp" THEN out.bytes ELSE SubSeq(out.bytes, 9, Len(out.bytes))
           IN  /\ out.daddr = SubSeq(origin, 17, 20)
               /\ looked.prt = "tcp" => out.dport = 256 * origin[23] + origin[24]
               /\ looked.prt = "udp" => SubSeq(out.bytes, 3, 4) = SubSeq(origin, 23, 24)
               /\ Len(got) = Len(want)
               /\ NoZero(want) => got = want
    /\ stage = "delivered" /\ Protocol(pkt) = Protocol(origin) =>
           out.bytes = SubSeq(pkt, IF Protocol(pkt) = 6 THEN 41 ELSE 29, Len(pkt))

=============================================================================
