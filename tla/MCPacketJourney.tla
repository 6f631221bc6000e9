--------------------------- MODULE MCPacketJourney ---------------------------
(***************************************************************************)
(* Instances of PacketJourney.  The last byte of an address is below 128:  *)
(* TLC's integers have 32 bits.                                            *)
(***************************************************************************)
EXTENDS PacketJourney, TLC

\* The classifier's map as the code fills it
ZeroMap == (6 :> 0) @@ (17 :> 0)

Client == <<10, 0, 0, 2>>
Server == <<192, 255, 0, 53>>
EgressIp == <<172, 17, 255, 3>>

\* Ports with a low, a high and two like bytes
Ports == {53, 65280, 51400, 257}

\* An odd byte, a zero byte inside, no data, and pairs of bytes with every low
\* byte, among which the sum of the datagram needs its second carry.
Payloads ==
    {<<>>, <<255>>, <<7, 0, 9>>, <<0>>, <<255, 255, 255>>} \union {<<x, 51>> : x \in Byte}

UdpPacket(src, dst, sport, dport, data) ==
    <<69, 0>> \o Store(Swap(28 + Len(data))) \o <<0, 0, 0, 0, 64, 17, 0, 0>> \o src \o dst
        \o Store(Swap(sport)) \o Store(Swap(dport)) \o Store(Swap(8 + Len(data))) \o <<0, 0>> \o data

TcpPacket(src, dst, sport, dport, proto, data) ==
    <<69, 0>> \o Store(Swap(40 + Len(data))) \o <<0, 0, 0, 0, 64, proto, 0, 0>> \o src \o dst
        \o Store(Swap(sport)) \o Store(Swap(dport))
        \o <<0, 0, 0, 0, 0, 0, 0, 0, 80, 16, 0, 0, 0, 0, 0, 0>> \o data

SomePackets ==
    {UdpPacket(Client, Server, 51400, 53, d) : d \in Payloads}
    \union {UdpPacket(Client, Server, s, t, <<1, 2>>) : s, t \in Ports}
    \union {TcpPacket(Client, Server, s, t, 6, d) : s, t \in Ports, d \in {<<>>, <<1, 2>>, <<1, 0, 2>>}}

\* A TCP connection may answer with a packet of TCP or with other bytes.
SomeAnswers(b) ==
    IF Protocol(b) = 17
    THEN {UdpPacket(Server, EgressIp, 53, 9000, d) : d \in {<<>>, <<0, 3>>}}
    ELSE {TcpPacket(Server, EgressIp, 80, 9001, p, <<0, 3>>) : p \in {0, 6, 17}}

=============================================================================
