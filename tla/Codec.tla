-------------------------------- MODULE Codec --------------------------------
(***************************************************************************)
(* What the endpoints do to the bytes of a packet (utils/packetutils.cpp,  *)
(* endpoint/utils/sfcutilities.cpp): the fields they read from the headers *)
(* of IPv4, TCP and UDP, the SFC header, the datagram they forge and its   *)
(* checksum.                                                               *)
(*                                                                         *)
(* The program runs on little-endian hosts: an integer is read from memory *)
(* lowest byte first, so that a field in network order is read swapped.    *)
(* A packet is its sequence of bytes, without options (ihl = doff = 5), as *)
(* long as its headers say.                                                *)
(***************************************************************************)
EXTENDS Naturals, Sequences, Functions

Byte == 0 .. 255
Half == {x \in Nat : x < 65536}
PathId == {x \in Nat : x < 16777216}     \* 24 bits
IpHdrLen == 20
UdpHdrLen == 8
TcpHdrLen == 20

\* The integers at offset i, and a 16-bit integer in memory
U16(b, i) == b[i + 1] + 256 * b[i + 2]
U32(b, i) == U16(b, i) + 65536 * U16(b, i + 2)
Store(x) == <<x % 256, x \div 256>>

\* htons
Swap(x) == (x % 256) * 256 + x \div 256

\* int_to_ip and ip_to_int: the text of an address is its four numbers
IntToIp(n) == <<n % 256, (n \div 256) % 256, (n \div 65536) % 256, n \div 16777216>>
IpToInt(q) == q[1] + 256 * q[2] + 65536 * q[3] + 16777216 * q[4]

\* retrieve_ip_tcp_header, retrieve_ip_udp_header, retrieve_ip_header: the fields
\* that the endpoints use.  The ports are the first fields of both headers.
IpLen(b) == (b[1] % 16) * 4
Protocol(b) == b[10]
Headers(b) == [saddr |-> U32(b, 12), daddr |-> U32(b, 16),
               source |-> U16(b, IpLen(b)), dest |-> U16(b, IpLen(b) + 2)]

\* Faulty: the length of the IP header is taken for all
IpOnlyLen(b, proto) == IpLen(b)

\* tcp_packet_header_size and udp_packet_header_size
HeaderLen(b, proto) ==
    IpLen(b) + IF proto = 6 THEN (b[IpLen(b) + 13] \div 16) * 4 ELSE UdpHdrLen
Payload(b, proto) == SubSeq(b, HeaderLen(b, proto) + 1, Len(b))

-----------------------------------------------------------------------------
\* Faulty: a byte for the ttl
CreateHeaderWide(sfcid, saddr, sport, daddr, dport, ttl, direction) ==
    [p_id |-> sfcid % 16777216, si |-> 0, ttl |-> ttl % 256,
     source_address |-> IpToInt(saddr), destination_address |-> IpToInt(daddr),
     source_port |-> sport, destination_port |-> dport, direction_flag |-> direction % 2]

\* Faulty: the ttl has the default value of the parameter
CreateHeaderDefault(sfcid, saddr, sport, daddr, dport, ttl, direction) ==
    [p_id |-> sfcid % 16777216, si |-> 0, ttl |-> 64 % 64,
     source_address |-> IpToInt(saddr), destination_address |-> IpToInt(daddr),
     source_port |-> sport, destination_port |-> dport, direction_flag |-> direction % 2]

\* create_header, whose bit fields keep the low bits of what they are given
CreateHeader(sfcid, saddr, sport, daddr, dport, ttl, direction) ==
    [p_id |-> sfcid % 16777216, si |-> 0, ttl |-> ttl % 64,
     source_address |-> IpToInt(saddr), destination_address |-> IpToInt(daddr),
     source_port |-> sport, destination_port |-> dport, direction_flag |-> direction % 2]

\* strncpy(dst, src, n): what follows the first zero byte is written as zeros
StrNCpy(s) == [i \in DOMAIN s |-> IF \E j \in 1 .. i : s[j] = 0 THEN 0 ELSE s[i]]

\* The words that csum adds, the last byte of an odd length alone
Words(b) == [i \in 1 .. (Len(b) + 1) \div 2 |->
                b[2 * i - 1] + IF 2 * i > Len(b) THEN 0 ELSE 256 * b[2 * i]]

\* Faulty: the carries are added once
FoldOnce(s) == ((s \div 65536) + (s % 65536)) % 65536

\* The carries are added twice; the cast to short drops what is then above
Fold(s) == LET once == (s \div 65536) + (s % 65536) IN (once + once \div 65536) % 65536

\* PacketUtils::csum
Csum(b) == 65535 - Fold(SumFunction(Words(b)))

\* forge_ip_udp_pkt.  The checksum of the IP header is written again by the
\* kernel (IP_HDRINCL).  daddr is the text of an address, the ports are in host
\* order, and the datagram's integers are stored as the host has them.
ForgeUdp(data, saddr, daddr, sport, dport) ==
    LET copy == StrNCpy(data)
        len  == Swap((UdpHdrLen + Len(data)) % 65536)
        udp  == Store(Swap(sport)) \o Store(Swap(dport)) \o Store(len)
        psh  == saddr \o daddr \o <<0, 17>> \o Store(len)
    IN  [saddr |-> saddr, daddr |-> daddr,
         bytes |-> udp \o Store(Csum(psh \o udp \o <<0, 0>> \o copy)) \o copy]

=============================================================================
